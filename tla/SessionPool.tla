------------------------------ MODULE SessionPool ------------------------------
(***************************************************************************)
(* XaiWsSessionPool in src/src/ws-events.ts: the map from session IDs to   *)
(* XaiWsSession objects, and the calls that create, prune and close them.  *)
(*                                                                         *)
(* A session is seen here as its pool sees it: the bounded lock in front   *)
(* of it (FifoLock, which SessionGate is shown to implement), whether it   *)
(* has a socket, whether it holds a continuation, whether it is disposed.  *)
(* What a request does with socket and continuation is nondeterministic;   *)
(* RequestLoop and Continuation have the details.                          *)
(*                                                                         *)
(* A step is a stretch of code with no await in it, with one exception,    *)
(* see Finish.                                                             *)
(***************************************************************************)
EXTENDS Naturals, SequencesExt

CONSTANTS Request,      \* calls of pool.iterate
          Id,           \* session IDs
          NoId,         \* a call without a session ID
          MaxPending    \* poolOptions.maxPendingRequests

ASSUME MaxPendingAssumption == MaxPending \in Nat \ {0}
ASSUME IdAssumption == NoId \notin Id

VARIABLES
    phase,          \* where each call is, see Phase
    session,        \* the session object it runs in, 0 if none
    made,           \* session objects created so far, numbered from 1
    idOf,           \* the ID each was created for
    sessionsById,   \* the map; 0: no entry
    line,           \* the callers waiting in acquire, in order
    connection,     \* the sessions with a socket
    chain,          \* the sessions with a durableChain or a socketChain
    disposed        \* the sessions disposed

vars == <<phase, session, made, idOf, sessionsById, line, connection, chain, disposed>>

(* "admitted": acquire has returned, iterate has not gone on yet;          *)
(* "leaving": session.iterate has thrown, the pool's finally is to come.   *)
Phase == {"idle", "waiting", "admitted", "active", "leaving", "done"}

Session == 1..made
Callers(s, p) == {r \in Request : session[r] = s /\ phase[r] \in p}
Mapped(s) == idOf[s] # NoId /\ sessionsById[idOf[s]] = s

Init ==
    /\ phase = [r \in Request |-> "idle"]
    /\ session = [r \in Request |-> 0]
    /\ made = 0 /\ idOf = <<>> /\ line = <<>>
    /\ sessionsById = [i \in Id |-> 0]
    /\ connection = {} /\ chain = {} /\ disposed = {}
--------------------------------------------------------------------------------
(* acquire up to its await, called in session s whose line is l: wait, or  *)
(* be turned away.                                                         *)
Enter(r, s, l) ==
    /\ session' = [session EXCEPT ![r] = s]
    /\ phase' = [phase EXCEPT ![r] = IF Len(l) < MaxPending THEN "waiting" ELSE "leaving"]

Joined(r, l) == IF Len(l) < MaxPending THEN Append(l, r) ELSE l

(* iterate on a session that exists: look it up and call its iterate.      *)
IterateExisting(r, i) ==
    /\ phase[r] = "idle"
    /\ sessionsById[i] # 0
    /\ LET s == sessionsById[i]
       IN  /\ Enter(r, s, line[s])
           /\ line' = [line EXCEPT ![s] = Joined(r, @)]
    /\ UNCHANGED <<made, idOf, sessionsById, connection, chain, disposed>>

(* createSession for the call of r.                                        *)
CreateFor(r, i) ==
    /\ made' = made + 1
    /\ idOf' = Append(idOf, i)
    /\ line' = Append(line, <<r>>)
    /\ Enter(r, made + 1, <<>>)
    /\ UNCHANGED <<connection, chain, disposed>>

(* iterate with an ID that has no session yet.                             *)
IterateNew(r, i) ==
    /\ phase[r] = "idle"
    /\ sessionsById[i] = 0
    /\ CreateFor(r, i)
    /\ sessionsById' = [sessionsById EXCEPT ![i] = made + 1]

(* iterate without an ID: a session of the call's own.                     *)
IterateOwn(r) ==
    /\ phase[r] = "idle"
    /\ CreateFor(r, NoId)
    /\ UNCHANGED sessionsById
--------------------------------------------------------------------------------
(* acquire hands the gate of the session on to the first in line.          *)
Admit(r) ==
    /\ phase[r] = "waiting"
    /\ LET s == session[r]
       IN  /\ Head(line[s]) = r
           /\ Callers(s, {"admitted", "active"}) = {}
           /\ line' = [line EXCEPT ![s] = Tail(@)]
    /\ phase' = [phase EXCEPT ![r] = "admitted"]
    /\ UNCHANGED <<session, made, idOf, sessionsById, connection, chain, disposed>>

(* A waiting caller aborts, or its session is disposed.                    *)
GiveUp(r) ==
    /\ phase[r] = "waiting"
    /\ phase' = [phase EXCEPT ![r] = "leaving"]
    /\ \E n \in DOMAIN line[session[r]] :
          /\ line[session[r]][n] = r
          /\ line' = [line EXCEPT ![session[r]] = RemoveAt(@, n)]
    /\ UNCHANGED <<session, made, idOf, sessionsById, connection, chain, disposed>>

(* iterate goes on: the request becomes the session's active one.          *)
Start(r) ==
    /\ phase[r] = "admitted"
    /\ phase' = [phase EXCEPT ![r] = IF session[r] \in disposed THEN "leaving" ELSE "active"]
    /\ UNCHANGED <<session, made, idOf, sessionsById, line, connection, chain, disposed>>

(* The active request opens a socket.                                      *)
Connect(r) ==
    /\ phase[r] = "active"
    /\ session[r] \notin disposed \union connection
    /\ connection' = connection \union {session[r]}
    /\ UNCHANGED <<phase, session, made, idOf, sessionsById, line, chain, disposed>>

(* The active request stores a response, or drops the continuation; a call *)
(* without an ID never stores.                                             *)
Continue(r) ==
    /\ phase[r] = "active"
    /\ idOf[session[r]] # NoId
    /\ chain' \in {chain \union {session[r]}, chain \ {session[r]}}
    /\ UNCHANGED <<phase, session, made, idOf, sessionsById, line, connection, disposed>>

(* The socket of a session goes: network, age, idle timer, abort.          *)
SocketCloses(s) ==
    /\ s \in connection
    /\ connection' = connection \ {s}
    /\ UNCHANGED <<phase, session, made, idOf, sessionsById, line, chain, disposed>>
--------------------------------------------------------------------------------
Dispose(S) ==
    /\ disposed' = disposed \union S
    /\ connection' = connection \ S

(* A plausible slip: isUnused does not count the callers in line.          *)
UnusedIgnoresLine(s, r, held) ==
    /\ Callers(s, {"active"}) \ {r} = {}
    /\ s \notin connection \union held

(* isUnused, asked by r on its way out, when held are the sessions with a  *)
(* continuation.  An admitted caller is neither in line nor active.        *)
Unused(s, r, held) ==
    /\ Callers(s, {"active"}) \ {r} = {}
    /\ line[s] = <<>>
    /\ s \notin connection \union held

(* A plausible slip: the pruned session stays in the map.                  *)
PruneKeepsEntry(s, r, held) ==
    /\ IF idOf[s] = NoId \/ (Unused(s, r, held) /\ Mapped(s)) THEN Dispose({s})
       ELSE UNCHANGED <<disposed, connection>>
    /\ UNCHANGED sessionsById

(* The finally blocks of the pool's iterate.                               *)
Prune(s, r, held) ==
    IF idOf[s] = NoId
      THEN Dispose({s}) /\ UNCHANGED sessionsById
    ELSE IF Unused(s, r, held) /\ Mapped(s)
      THEN Dispose({s}) /\ sessionsById' = [sessionsById EXCEPT ![idOf[s]] = 0]
    ELSE UNCHANGED <<disposed, connection, sessionsById>>

(* session.iterate threw without having become active.                     *)
Leave(r) ==
    /\ phase[r] = "leaving"
    /\ phase' = [phase EXCEPT ![r] = "done"]
    /\ Prune(session[r], r, chain)
    /\ UNCHANGED <<session, made, idOf, line, chain>>

(* The active request ends, with or without its continuation.  The end     *)
(* reaches the pool's finally one microtask after the release; the next    *)
(* caller in line needs more than that to leave acquire, so this is one    *)
(* step.                                                                   *)
Finish(r) ==
    /\ phase[r] = "active"
    /\ phase' = [phase EXCEPT ![r] = "done"]
    /\ chain' \in {chain, chain \ {session[r]}}
    /\ Prune(session[r], r, chain')
    /\ UNCHANGED <<session, made, idOf, line>>
--------------------------------------------------------------------------------
(* closeSession, called at session_shutdown.                               *)
CloseSession(i) ==
    /\ sessionsById[i] # 0
    /\ Dispose({sessionsById[i]})
    /\ sessionsById' = [sessionsById EXCEPT ![i] = 0]
    /\ UNCHANGED <<phase, session, made, idOf, line, chain>>

(* A plausible slip: IDs without a session are closed, too.                *)
CloseAllIds ==
    /\ \E i \in Id : sessionsById[i] # 0
    /\ Dispose({sessionsById[i] : i \in Id})
    /\ sessionsById' = [i \in Id |-> 0]
    /\ UNCHANGED <<phase, session, made, idOf, line, chain>>

(* closeAll                                                                *)
CloseAll ==
    /\ \E i \in Id : sessionsById[i] # 0
    /\ Dispose({sessionsById[i] : i \in Id} \ {0})
    /\ sessionsById' = [i \in Id |-> 0]
    /\ UNCHANGED <<phase, session, made, idOf, line, chain>>

Next ==
    \/ \E r \in Request :
          \/ \E i \in Id : IterateExisting(r, i) \/ IterateNew(r, i)
          \/ IterateOwn(r)
          \/ Admit(r) \/ GiveUp(r) \/ Start(r) \/ Connect(r) \/ Continue(r)
          \/ Leave(r) \/ Finish(r)
    \/ \E s \in Session : SocketCloses(s)
    \/ \E i \in Id : CloseSession(i)
    \/ CloseAll

Spec == Init /\ [][Next]_vars
--------------------------------------------------------------------------------
TypeOK ==
    /\ phase \in [Request -> Phase]
    /\ made \in Nat
    /\ session \in [Request -> 0..made]
    /\ idOf \in [Session -> Id \union {NoId}]
    /\ line \in [Session -> Seq(Request)]
    /\ sessionsById \in [Id -> 0..made]
    /\ connection \subseteq Session /\ chain \subseteq Session /\ disposed \subseteq Session

(* No session, and no socket, outlives the last reference to it: a session *)
(* that is not disposed is the one its ID maps to, or belongs to a call    *)
(* that has not ended; the map holds live sessions only; and a disposed    *)
(* session has no socket.  So there is one live session, one queue and one *)
(* socket for an ID, however calls, closeSession and pruning interleave.   *)
LiveSessionsAreMapped ==
    /\ \A s \in Session : s \in disposed \/ Mapped(s)
                            \/ (idOf[s] = NoId /\ Callers(s, Phase \ {"idle", "done"}) # {})
    /\ \A i \in Id : sessionsById[i] # 0 =>
                        sessionsById[i] \notin disposed /\ idOf[sessionsById[i]] = i
    /\ connection \intersect disposed = {}

(* A call that ends takes its session out of the pool exactly when nothing *)
(* is lost by it: nobody waits in it or runs in it, it has no socket and   *)
(* no continuation; and a session that is empty like this is taken out.    *)
(* (A caller between acquire and iterate is not seen, see Unused.)         *)
Ends(r) == phase[r] # "done" /\ phase'[r] = "done"

PruneSparesTheLine ==
    [][\A r \in Request : Ends(r) =>
          LET s == session[r]
              InUse == \/ Callers(s, {"waiting", "active"}) \ {r} # {}
                       \/ s \in connection \union chain'
          IN  idOf[s] # NoId /\ s \notin disposed => (s \in disposed' <=> ~InUse)]_vars
================================================================================
