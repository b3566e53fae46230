----------------------------- MODULE Continuation -----------------------------
(***************************************************************************)
(* Stored-response continuation: XaiWsSession in src/src/ws-events.ts with *)
(* continuation.ts and durable-checkpoint.ts.                              *)
(*                                                                         *)
(* A session keeps two positions of a conversation the server has stored:  *)
(* the head of its current socket and the durable checkpoint, of which a   *)
(* file holds a copy.  Each is a response ID and the local prefix it       *)
(* covers.  A request that extends a covered prefix sends the ID and the   *)
(* rest; the server rebuilds the whole.  The module keeps the server's     *)
(* memory beside the client's, to compare what the server rebuilds with    *)
(* what the caller meant.                                                  *)
(*                                                                         *)
(* An item of the conversation is a member of Item; the digest of a prefix *)
(* is the prefix itself.  The caller's history is free: each request brings*)
(* any history of Input, so appending, editing, compaction and forking are *)
(* all there.  The sessions of one session ID follow each other:           *)
(* session n + 1 is created when n has been disposed or its process died.  *)
(* One request at a time runs in a session (SessionGate), but a disposed   *)
(* session may still be unwinding its last one beside its successor.       *)
(***************************************************************************)
EXTENDS Naturals, SequencesExt

CONSTANTS
    Item,          \* what a conversation consists of
    Input,         \* the histories a caller may send, all in one input
    Output,        \* what a response may add to a history
    Endpoint,      \* continuation identities: url and non-credential headers
    Credential,    \* credential headers, part of the socket's identity only
    MaxSocket,     \* bound: physical sockets opened
    MaxId,         \* bound: response IDs the server hands out
    MaxSession,    \* bound: session objects created
    ReuseAnywhere, \* may a response to a full request reuse an ID of its socket?
    UnlinkMayFail  \* may removing the checkpoint file fail?

ASSUME BoundsAssumption ==
    /\ MaxSocket \in Nat \ {0}
    /\ MaxId \in Nat \ {0}
    /\ MaxSession \in Nat \ {0}
ASSUME EndpointAssumption == "none" \notin Endpoint
ASSUME HistoryAssumption == Input \subseteq Seq(Item) \ {<<>>} /\ Output \subseteq Seq(Item)
ASSUME OptionsAssumption == ReuseAnywhere \in BOOLEAN /\ UnlinkMayFail \in BOOLEAN

VARIABLES
    current,     \* the session object the pool holds for the session ID
    disposed,    \* per session
    chain,       \* per session: the continuation fields, see NoChain
    connection,  \* per session: its open socket, 0 if none
    socketKey,   \* per session: transportKey of that socket
    req,         \* per session: the request it runs
    sockets,     \* sockets opened so far
    disk,        \* the checkpoint file
    nextId,      \* IDs the server has handed out
    stored,      \* server: what it rehydrates for an ID on another socket
    live,        \* server: what an ID stands for on the socket that made it
    origin       \* server: the endpoint an ID belongs to

clientVars == <<current, disposed, chain, connection, socketKey, req, sockets>>
serverVars == <<nextId, stored, live, origin>>
vars == <<clientVars, disk, serverVars>>

Session == 1..MaxSession
Socket == 1..MaxSocket
Id == 1..MaxId

(* Did removing the checkpoint file succeed?                               *)
Unlinked == IF UnlinkMayFail THEN BOOLEAN ELSE {TRUE}

(* A position in the conversation; ID 0 stands for undefined.              *)
Nowhere == [id |-> 0, covered |-> <<>>]

(* The continuation fields of a session as clearContinuation leaves them:  *)
(* durableChain, the socket and position of socketChain,                   *)
(* lastStoredTerminalConnection and continuationTransportKey.              *)
NoChain == [durable |-> Nowhere, headOn |-> 0, head |-> Nowhere, last |-> 0, key |-> "none"]

NoFile == [id |-> 0, covered |-> <<>>, endpoint |-> "none"]
NoKey == [endpoint |-> "none", credential |-> "none"]

Idle == [phase |-> "idle"]

NothingLive == [i \in Id |-> <<>>]
--------------------------------------------------------------------------------
(* The pieces of code below work on what one session owns: its             *)
(* continuation fields c, its socket conn with the transport key, and the  *)
(* file.                                                                   *)
Owned(s) == [c |-> chain[s], conn |-> connection[s], key |-> socketKey[s], file |-> disk]

(* A plausible slip: clearContinuation forgets the socket's own position.  *)
ClearKeepsHead(m, unlinked) ==
    [m EXCEPT !.c = [NoChain EXCEPT !.headOn = m.c.headOn, !.head = m.c.head],
              !.file = IF unlinked THEN NoFile ELSE @]

(* clearContinuation; a failing unlink is swallowed.                       *)
ClearContinuation(m, unlinked) ==
    [m EXCEPT !.c = NoChain, !.file = IF unlinked THEN NoFile ELSE @]

(* A plausible slip: the transport key survives the socket.                *)
CloseKeepsKey(m) ==
    [m EXCEPT !.conn = 0,
              !.c = IF m.conn # 0 /\ @.headOn = m.conn
                      THEN [@ EXCEPT !.headOn = 0, !.head = Nowhere] ELSE @]

(* closeConnection and the onClosed callback: the socket's own position    *)
(* goes with it.                                                           *)
CloseConnection(m) ==
    [m EXCEPT !.conn = 0,
              !.key = NoKey,
              !.c = IF m.conn # 0 /\ @.headOn = m.conn
                      THEN [@ EXCEPT !.headOn = 0, !.head = Nowhere] ELSE @]

(* A plausible slip: the file's transport fingerprint is not compared.     *)
RestoreAnyEndpoint(m, endpoint, unlinked) ==
    IF m.c.durable.id # 0 \/ m.c.head.id # 0 \/ m.file.id = 0 THEN m
    ELSE [m EXCEPT !.c.durable = [id |-> m.file.id, covered |-> m.file.covered],
                   !.c.key = endpoint]

(* restoreDurableFromDisk and readDurableCheckpoint.                       *)
RestoreDurable(m, endpoint, unlinked) ==
    IF m.c.durable.id # 0 \/ m.c.head.id # 0 \/ m.file.id = 0 THEN m
    ELSE IF m.file.endpoint = endpoint
      THEN [m EXCEPT !.c.durable = [id |-> m.file.id, covered |-> m.file.covered],
                     !.c.key = endpoint]
      ELSE [m EXCEPT !.file = IF unlinked THEN NoFile ELSE @]

(* transportIdentity: what a socket was opened with.                       *)
TransportKey(r) == [endpoint |-> r.endpoint, credential |-> r.credential]

(* What iterate does before its loop: forget everything unless the request *)
(* is to be stored, never keep a chain or a socket of another identity.    *)
Setup(m, r, unlinked) ==
    LET restored == IF r.store THEN RestoreDurable(m, r.endpoint, unlinked)
                    ELSE ClearContinuation(m, unlinked)
        sameEndpoint ==
            IF (restored.c.durable.id # 0 \/ restored.c.head.id # 0)
               /\ restored.c.key # r.endpoint
              THEN ClearContinuation(restored, unlinked) ELSE restored
    IN  IF m.conn # 0 /\ m.key # TransportKey(r)
          THEN CloseConnection(sameEndpoint) ELSE sameEndpoint

(* Is the request one that the server stores?                              *)
WireStore(r) == r.store /\ ~r.forceStoreFalse

(* continuationForConnection: on its own socket a session continues from   *)
(* the head, on any other from the durable checkpoint.                     *)
ContinuationFor(m, r, socket) ==
    IF r.forceFull \/ r.forceStoreFalse THEN Nowhere
    ELSE IF m.c.headOn = socket THEN m.c.head ELSE m.c.durable

(* A plausible slip: only the length is compared, not the digest.          *)
LongEnough(from, full) == from.id # 0 /\ Len(full) > Len(from.covered)

(* planStoredRequest: is the covered prefix intact, with something new     *)
(* after it?                                                               *)
PrefixIntact(from, full) == from.id # 0 /\ IsStrictPrefix(from.covered, full)

(* What session s owns after a step is m.  Nobody reads the fields of a    *)
(* disposed session whose request has ended; and the server forgets what   *)
(* was particular to a socket when it closes.                              *)
Own(s, m) ==
    /\ chain' = [chain EXCEPT ![s] =
           IF disposed'[s] /\ req'[s].phase = "idle" THEN NoChain ELSE m.c]
    /\ connection' = [connection EXCEPT ![s] = m.conn]
    /\ socketKey' = [socketKey EXCEPT ![s] = m.key]
    /\ disk' = m.file
    /\ live' = IF connection[s] \notin {0, m.conn}
                 THEN [live EXCEPT ![connection[s]] = NothingLive] ELSE live

(* A turn of iterate's loop up to the send: ensureConnection, the choice   *)
(* of the continuation, and the plan.  A rewritten history clears the      *)
(* chain but keeps the socket.  (A socket that is past its request age is  *)
(* closed first: SocketCloses just before.)                                *)
SendAttempt(s, m, r, unlinked) ==
    LET socket == IF m.conn = 0 THEN sockets + 1 ELSE m.conn
        from   == ContinuationFor(m, r, socket)
        intact == WireStore(r) /\ PrefixIntact(from, r.full)
        reset  == WireStore(r) /\ from.id # 0 /\ ~intact
        after  == IF reset THEN ClearContinuation(m, unlinked) ELSE m
    IN  /\ socket <= MaxSocket
        /\ sockets' = IF m.conn = 0 THEN socket ELSE sockets
        /\ req' = [req EXCEPT ![s] =
               [r EXCEPT !.on = socket,
                         !.previous = IF intact THEN from.id ELSE 0,
                         !.input = IF intact
                                     THEN SubSeq(r.full, Len(from.covered) + 1, Len(r.full))
                                     ELSE r.full]]
        /\ UNCHANGED <<current, disposed, nextId, stored, origin>>
        /\ Own(s, [after EXCEPT !.conn = socket, !.key = TransportKey(r)])

Init ==
    /\ current = 1
    /\ disposed = [s \in Session |-> FALSE]
    /\ chain = [s \in Session |-> NoChain]
    /\ connection = [s \in Session |-> 0]
    /\ socketKey = [s \in Session |-> NoKey]
    /\ req = [s \in Session |-> Idle]
    /\ sockets = 0
    /\ disk = NoFile
    /\ nextId = 0
    /\ stored = [i \in Id |-> <<>>]
    /\ live = [k \in Socket |-> NothingLive]
    /\ origin = [i \in Id |-> "none"]
--------------------------------------------------------------------------------
(* iterate, from the gate to the first send.                               *)
Begin(s) ==
    /\ s = current
    /\ ~disposed[s]
    /\ req[s].phase = "idle"
    /\ \E full \in Input, store \in BOOLEAN, endpoint \in Endpoint, credential \in Credential,
          unlinked \in Unlinked :
          LET r == [phase |-> "sent", store |-> store, endpoint |-> endpoint,
                    credential |-> credential, full |-> full, on |-> 0, previous |-> 0,
                    input |-> <<>>, forceFull |-> FALSE, forceStoreFalse |-> FALSE,
                    replayed |-> FALSE, id |-> 0, output |-> <<>>]
          IN  SendAttempt(s, Setup(Owned(s), r, unlinked), r, unlinked)

Sent(s) == req[s].phase = "sent"
Reachable(s) == connection[s] # 0 /\ connection[s] = req[s].on

(* External: what the server takes an ID to stand for.  On the socket that *)
(* produced it, the latest response with that ID; anywhere else, the first *)
(* one it stored under it.                                                 *)
Rehydrated(socket, id) ==
    IF id = 0 THEN <<>>
    ELSE IF live[socket][id] # <<>> THEN live[socket][id] ELSE stored[id]

(* External: the IDs a response may carry.  A new one, the one the request *)
(* continues, or - the server reuses IDs on a socket - one its socket has  *)
(* seen, if the request continues a response of that socket.               *)
Reusable(r) ==
    LET seen == {i \in Id : live[r.on][i] # <<>>}
    IN  ({r.previous} \ {0})
        \union (IF r.previous \in seen \/ ReuseAnywhere THEN seen ELSE {})
NewId == IF nextId < MaxId THEN {nextId + 1} ELSE {}

(* External: the server completes the request (response.completed or       *)
(* response.incomplete) and, if it is to be stored, stores it; the client  *)
(* has the terminal event.                                                 *)
ServerCompletes(s) ==
    /\ Sent(s)
    /\ Reachable(s)
    /\ WireStore(req[s])
    /\ \E output \in Output, id \in Reusable(req[s]) \union NewId :
          LET context == Rehydrated(req[s].on, req[s].previous) \o req[s].input \o output
          IN  /\ nextId' = IF id > nextId THEN id ELSE nextId
              /\ stored' = [stored EXCEPT ![id] = IF @ = <<>> THEN context ELSE @]
              /\ live' = [live EXCEPT ![req[s].on][id] = context]
              /\ origin' = [origin EXCEPT ![id] = IF @ = "none" THEN req[s].endpoint ELSE @]
              /\ req' = [req EXCEPT ![s].phase = "answered", ![s].id = id, ![s].output = output]
    /\ UNCHANGED <<current, disposed, chain, connection, socketKey, sockets, disk>>

(* A plausible slip: every terminal moves the durable checkpoint on.       *)
AlwaysAdvances(c, r, id) == TRUE

(* Does a terminal move the durable checkpoint on?                         *)
DurableAdvances(c, r, id) ==
    \/ c.durable.id = 0
    \/ c.last # r.on /\ c.durable.id # id

(* nextContinuationState.                                                  *)
NextState(r) == [id |-> r.id, covered |-> r.full \o r.output]

(* What writeDurableCheckpoint puts into the file.                         *)
Checkpoint(next, endpoint) ==
    [id |-> next.id, covered |-> next.covered, endpoint |-> endpoint]

(* observeStoredTerminal, once the caller has taken the terminal event,    *)
(* and the end of iterate.  Projection may fail, writing the file may      *)
(* fail, and the socket or the session may be gone by now.                 *)
Observe(s) ==
    /\ req[s].phase = "answered"
    /\ req' = [req EXCEPT ![s] = Idle]
    /\ UNCHANGED <<current, disposed, sockets, nextId, stored, origin>>
    /\ LET r    == req[s]
           m    == Owned(s)
           next == NextState(r)
           up   == DurableAdvances(m.c, r, r.id)
       IN  \/ \E unlinked \in Unlinked : Own(s, ClearContinuation(m, unlinked))
           \/ \E written \in BOOLEAN :
                 /\ written => up
                 /\ Own(s, [m EXCEPT
                       !.c = [durable |-> IF up THEN next ELSE m.c.durable,
                              headOn |-> r.on, head |-> next, last |-> r.on, key |-> r.endpoint],
                       !.file = IF written THEN Checkpoint(next, r.endpoint) ELSE @])

(* A request whose wire form was not stored completes.  Nothing is         *)
(* observed; a request meant to be stored clears the chain on exit.        *)
CompletesUnstored(s) ==
    /\ Sent(s)
    /\ ~WireStore(req[s])
    /\ req' = [req EXCEPT ![s] = Idle]
    /\ UNCHANGED <<current, disposed, sockets, nextId, stored, origin>>
    /\ \E unlinked \in Unlinked :
          Own(s, IF req[s].store THEN ClearContinuation(Owned(s), unlinked) ELSE Owned(s))

(* The request ends without a stored terminal that the caller took: a      *)
(* failed or error event, an abort, a transport error that is not replayed,*)
(* or disposal.  The socket may stay or go.                                *)
Fails(s) ==
    /\ req[s].phase \in {"sent", "answered"}
    /\ req' = [req EXCEPT ![s] = Idle]
    /\ UNCHANGED <<current, disposed, sockets, nextId, stored, origin>>
    /\ \E closes \in BOOLEAN, unlinked \in Unlinked :
          /\ closes => connection[s] # 0
          /\ LET m == IF closes THEN CloseConnection(Owned(s)) ELSE Owned(s)
             IN  Own(s, IF req[s].store THEN ClearContinuation(m, unlinked) ELSE m)

(* After an error event that was queued before any output - its socket may *)
(* have closed since - forget both positions, and send the whole history   *)
(* on a new socket.                                                        *)
AgainInFull(s, r) ==
    /\ ~disposed[s]
    /\ \E unlinked \in Unlinked :
          SendAttempt(s, ClearContinuation(CloseConnection(Owned(s)), unlinked),
                      [r EXCEPT !.forceFull = TRUE], unlinked)

(* The server does not accept the reference (isContinuationRejection).     *)
Rejected(s) ==
    /\ Sent(s)
    /\ req[s].previous # 0
    /\ AgainInFull(s, req[s])

(* The server refuses to store a response (isStoredResponseTooLarge): once *)
(* more, with store off.                                                   *)
TooLarge(s) ==
    /\ Sent(s)
    /\ WireStore(req[s])
    /\ AgainInFull(s, [req[s] EXCEPT !.forceStoreFalse = TRUE])

(* The socket was lost, or reached its connection limit, before any output:*)
(* one replay on a new socket, planned afresh.                             *)
Replay(s) ==
    /\ Sent(s)
    /\ ~Reachable(s)
    /\ ~disposed[s]
    /\ ~req[s].replayed
    /\ \E unlinked \in Unlinked :
          SendAttempt(s, CloseConnection(Owned(s)),
                      [req[s] EXCEPT !.replayed = TRUE], unlinked)

(* The socket closes: network, age, idle timeout, connection limit.        *)
SocketCloses(s) ==
    /\ connection[s] # 0
    /\ UNCHANGED <<current, disposed, req, sockets, nextId, stored, origin>>
    /\ Own(s, CloseConnection(Owned(s)))

(* session_shutdown: closeSession disposes the session; the next request   *)
(* for the ID gets a new one.                                              *)
Dispose(s) ==
    /\ s = current
    /\ s < MaxSession
    /\ disposed' = [disposed EXCEPT ![s] = TRUE]
    /\ current' = s + 1
    /\ UNCHANGED <<req, sockets, nextId, stored, origin>>
    /\ Own(s, CloseConnection(Owned(s)))

(* The process dies: everything but the file is gone.                      *)
Crash ==
    /\ current < MaxSession
    /\ disposed' = [s \in Session |-> disposed[s] \/ s = current]
    /\ current' = current + 1
    /\ chain' = [s \in Session |-> NoChain]
    /\ connection' = [s \in Session |-> 0]
    /\ socketKey' = [s \in Session |-> NoKey]
    /\ req' = [s \in Session |-> Idle]
    /\ live' = [k \in Socket |-> NothingLive]
    /\ UNCHANGED <<sockets, disk, nextId, stored, origin>>

(* sweepDurableCheckpoints of another process drops the file when it finds *)
(* no session file for it; a file that is too old is dropped when it is    *)
(* read, which is this step just before the read.                          *)
SidecarSwept ==
    /\ disk # NoFile
    /\ disk' = NoFile
    /\ UNCHANGED <<clientVars, serverVars>>

Next ==
    \/ \E s \in Session :
          \/ Begin(s) \/ ServerCompletes(s) \/ Observe(s) \/ CompletesUnstored(s)
          \/ Fails(s) \/ Rejected(s) \/ TooLarge(s) \/ Replay(s)
          \/ SocketCloses(s) \/ Dispose(s)
    \/ Crash
    \/ SidecarSwept

Spec == Init /\ [][Next]_vars
--------------------------------------------------------------------------------
Position == [id : 0..MaxId, covered : Seq(Item)]

TypeOK ==
    /\ current \in Session
    /\ disposed \in [Session -> BOOLEAN]
    /\ \A s \in Session :
          /\ chain[s].durable \in Position
          /\ chain[s].head \in Position
          /\ chain[s].headOn \in 0..MaxSocket
          /\ chain[s].last \in 0..MaxSocket
          /\ chain[s].key \in Endpoint \union {"none"}
    /\ connection \in [Session -> 0..MaxSocket]
    /\ \A s \in Session : socketKey[s] = NoKey <=> connection[s] = 0
    /\ sockets \in 0..MaxSocket
    /\ disk.id \in 0..MaxId
    /\ nextId \in 0..MaxId

(* The heart of continuation: whatever was edited, lost, restored or       *)
(* retried on the way, what the server rebuilds from a request that is on  *)
(* its way - the rehydrated response and the input sent - is the caller's  *)
(* complete history, no more and no less.                                  *)
ServerSeesWholeHistory ==
    \A s \in Session :
        Sent(s) /\ Reachable(s) =>
            Rehydrated(req[s].on, req[s].previous) \o req[s].input = req[s].full

(* A position that outlives its socket - the durable checkpoint in memory  *)
(* or in the file - stands for exactly what the server rehydrates for its  *)
(* ID on a new socket, although the server reuses IDs.                     *)
Rehydrates(id, covered) == id # 0 => stored[id] = covered

CheckpointsRehydrate ==
    /\ Rehydrates(disk.id, disk.covered)
    /\ \A s \in Session : Rehydrates(chain[s].durable.id, chain[s].durable.covered)

(* A stored response is only referred to from the endpoint and             *)
(* conversation it was stored for, even after a restart.                   *)
NoReferenceCrossesEndpoints ==
    \A s \in Session :
        Sent(s) /\ req[s].previous # 0 => origin[req[s].previous] = req[s].endpoint

(* The two positions of a session go together: a head has a checkpoint     *)
(* under it; the checkpoint is of the endpoint the session remembers; and  *)
(* the head of its open socket covers what the server has on that socket   *)
(* under the head's ID, unless a terminal is still to be observed.         *)
PositionsAgree ==
    \A s \in Session :
        /\ chain[s].head.id # 0 => chain[s].durable.id # 0
        /\ chain[s].durable.id # 0 => origin[chain[s].durable.id] = chain[s].key
        /\ chain[s].headOn = connection[s] /\ connection[s] # 0 /\ req[s].phase # "answered"
              => live[connection[s]][chain[s].head.id] = chain[s].head.covered

(* docs/transport.md:281-282 - "The on-disk checkpoint remains, and a      *)
(* later request with the same session ID restores it": when pi has shut a *)
(* session down, the request that still unwinds in it does not remove the  *)
(* file, be it its own or its successor's.                                 *)
ShutdownKeepsCheckpoint ==
    [][\A s \in Session :
          disposed[s] /\ req'[s] # req[s] /\ disk # NoFile => disk' # NoFile]_vars
================================================================================
