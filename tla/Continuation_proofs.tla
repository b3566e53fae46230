--------------------------- MODULE Continuation_proofs ---------------------------
(***************************************************************************)
(* Proofs of the safety of Continuation, for every history, endpoint and   *)
(* number of sessions, sockets and IDs.                                    *)
(*                                                                         *)
(* There are two inductive invariants.  Placed says of whose endpoint      *)
(* everything is; it needs nothing of the server but that it remembers     *)
(* where an ID was first used, and holds even when unlinking fails.        *)
(* Truthful says that what the client remembers is what the server has; it *)
(* needs that the server gives a full request a new ID, and that clearing  *)
(* removes the file: without either of them TLC shows a counterexample.    *)
(***************************************************************************)
EXTENDS Continuation, SequenceTheorems, TLAPS

Key == Endpoint \union {"none"}
Chain == [durable : Position, headOn : 0..MaxSocket, head : Position, last : 0..MaxSocket, key : Key]
File == [id : 0..MaxId, covered : Seq(Item), endpoint : Key]
TransportKeys == [endpoint : Endpoint, credential : Credential]
Owning == [c : Chain, conn : 0..MaxSocket, key : TransportKeys \union {NoKey}, file : File]
Request == [phase : {"sent", "answered"}, store : BOOLEAN, endpoint : Endpoint,
            credential : Credential, full : Input, on : 0..MaxSocket, previous : 0..MaxId,
            input : Seq(Item), forceFull : BOOLEAN, forceStoreFalse : BOOLEAN,
            replayed : BOOLEAN, id : 0..MaxId, output : Output \union {<<>>}]

Types ==
    /\ current \in Session
    /\ disposed \in [Session -> BOOLEAN]
    /\ chain \in [Session -> Chain]
    /\ connection \in [Session -> 0..MaxSocket]
    /\ socketKey \in [Session -> TransportKeys \union {NoKey}]
    /\ req \in [Session -> Request \union {Idle}]
    /\ sockets \in 0..MaxSocket
    /\ disk \in File
    /\ nextId \in 0..MaxId
    /\ stored \in [Id -> Seq(Item)]
    /\ live \in [Socket -> [Id -> Seq(Item)]]
    /\ origin \in [Id -> Key]

(* What the server knows, it knows of IDs it has handed out, on sockets    *)
(* that have been opened.                                                  *)
ServerKnows ==
    /\ \A i \in Id : i > nextId => stored[i] = <<>> /\ origin[i] = "none"
    /\ \A k \in Socket, i \in Id : i > nextId \/ k > sockets => live[k][i] = <<>>

(* Only the current session has a socket or gets one.                      *)
OneSocket ==
    \A s \in Session :
        /\ s # current => connection[s] = 0
        /\ disposed[s] => s < current
        /\ s = current \/ disposed[s] \/ req[s] = Idle

(* A socket that is mentioned has been opened.                             *)
Opened ==
    \A s \in Session : /\ connection[s] <= sockets /\ chain[s].last <= sockets
                       /\ req[s] # Idle => req[s].on \in 1..sockets

(* The pieces below are about what one session owns, see Owned.            *)
From(id, endpoint) == id # 0 => id <= nextId /\ endpoint # "none" /\ origin[id] = endpoint

PlacedOwning(m) ==
    /\ From(m.c.durable.id, m.c.key)
    /\ From(m.c.head.id, m.c.key)
    /\ From(m.file.id, m.file.endpoint)
    /\ m.conn = 0 <=> m.key = NoKey
    /\ m.conn # 0 => \A i \in Id : live[m.conn][i] # <<>> => From(i, m.key.endpoint)

(* A request on its way, or answered, in a session that owns m.            *)
PlacedRequest(m, r) ==
    /\ From(r.previous, r.endpoint)
    /\ m.conn \in {0, r.on}
    /\ m.conn # 0 => m.key = TransportKey(r)
    /\ m.c.durable.id # 0 \/ m.c.head.id # 0 => m.c.key = r.endpoint
    /\ r.phase = "answered" => WireStore(r) /\ r.id # 0 /\ From(r.id, r.endpoint)

Placed ==
    /\ Types /\ ServerKnows /\ OneSocket /\ Opened
    /\ \A s \in Session : PlacedOwning(Owned(s))
    /\ \A s \in Session : req[s] # Idle => PlacedRequest(Owned(s), req[s])

(* The server rehydrates a position that is kept beyond its socket.        *)
Kept(id, covered) == id # 0 => covered # <<>> /\ stored[id] = covered

(* The checkpoint is what the server rehydrates elsewhere; the head is on  *)
(* the socket of the last terminal, and has a checkpoint under it.         *)
TruthfulChain(c) ==
    /\ Kept(c.durable.id, c.durable.covered)
    /\ c.head.id # 0 => c.durable.id # 0 /\ c.head.covered # <<>>
    /\ c.headOn # 0 => c.headOn = c.last /\ c.head.id # 0

(* A socket whose last terminal was the session's has the head; one of a   *)
(* session without a checkpoint has not used the ID in the file.           *)
TruthfulSocket(m) ==
    m.conn # 0 =>
        /\ m.c.last = m.conn => m.c.headOn = m.conn
        /\ m.c.durable.id = 0 /\ m.file.id # 0 => live[m.conn][m.file.id] = <<>>

TruthfulOwning(m) ==
    TruthfulChain(m.c) /\ TruthfulSocket(m) /\ Kept(m.file.id, m.file.covered)

(* What the next request continues from on the socket is what the server   *)
(* has for it there.                                                       *)
Basis(m) == IF m.c.headOn = m.conn THEN m.c.head ELSE m.c.durable

TruthfulPosition(m) ==
    m.conn # 0 =>
        IF m.c.headOn = m.conn THEN live[m.conn][m.c.head.id] = m.c.head.covered
        ELSE m.c.durable.id # 0 => live[m.conn][m.c.durable.id] = <<>>

(* A request on its way continues from there.                              *)
TruthfulSent(m, r) ==
    /\ TruthfulPosition(m)
    /\ r.previous = 0 <=> m.c.durable.id = 0
    /\ ~WireStore(r) \/ r.forceFull => m.c.durable.id = 0
    /\ m.conn # 0 => IF r.previous = 0 THEN r.input = r.full
                     ELSE r.previous = Basis(m).id /\ r.full = Basis(m).covered \o r.input

(* An answered one has been stored under its ID, on its socket, and, if it *)
(* moves the checkpoint on, everywhere.                                    *)
TruthfulAnswered(m, r) ==
    /\ m.conn # 0 => live[m.conn][r.id] = r.full \o r.output
    /\ DurableAdvances(m.c, r, r.id) => stored[r.id] = r.full \o r.output

TruthfulRequest(m, r) ==
    /\ r.phase = "idle" => TruthfulPosition(m)
    /\ r.phase = "sent" => TruthfulSent(m, r)
    /\ r.phase = "answered" => TruthfulAnswered(m, r)

(* The ID of an answer that moves the checkpoint on is the request's       *)
(* secret until it is observed.                                            *)
Secret(s) == req[s].phase = "answered" /\ DurableAdvances(chain[s], req[s], req[s].id)

SecretKept(s, i) ==
    /\ disk.id # i
    /\ \A k \in Socket : k # req[s].on => live[k][i] = <<>>
    /\ \A t \in Session \ {s} :
          /\ chain[t].durable.id # i /\ chain[t].head.id # i
          /\ req[t].phase = "sent" => req[t].previous # i
          /\ req[t].phase = "answered" => req[t].id # i

(* Two requests do not share a socket.                                     *)
SocketsApart ==
    \A s, t \in Session :
        s # t /\ req[s] # Idle => /\ connection[t] # req[s].on
                                  /\ req[t] # Idle => req[s].on # req[t].on

Truthful ==
    /\ SocketsApart
    /\ \A s \in Session : TruthfulOwning(Owned(s)) /\ TruthfulRequest(Owned(s), req[s])
    /\ \A s \in Session : Secret(s) => SecretKept(s, req[s].id)
--------------------------------------------------------------------------------
LEMMA Bounds == MaxSocket \in Nat \ {0} /\ MaxId \in Nat \ {0} /\ MaxSession \in Nat \ {0}
BY BoundsAssumption

(* What is cleared and closed, field by field.                             *)
LEMMA Nothing ==
    /\ NoChain.durable.id = 0 /\ NoChain.head.id = 0 /\ NoChain.headOn = 0
    /\ NoChain.last = 0 /\ NoFile.id = 0
BY DEF NoChain, Nowhere, NoFile

LEMMA Cleared ==
  ASSUME NEW m \in Owning, NEW u
  PROVE  LET n == ClearContinuation(m, u)
         IN  /\ n.c = NoChain /\ n.conn = m.conn /\ n.key = m.key
             /\ n.file = IF u THEN NoFile ELSE m.file
             /\ n \in Owning
<1> DEFINE n == ClearContinuation(m, u)
<1>1. NoChain \in Chain
  BY Bounds DEF NoChain, Chain, Nowhere, Position, Key
<1>2. NoFile \in File
  BY Bounds DEF NoFile, File, Key
<1>3. n.c = NoChain /\ n.conn = m.conn /\ n.key = m.key /\ n.file = IF u THEN NoFile ELSE m.file
  BY DEF ClearContinuation, Owning
<1>4. n \in Owning
  BY <1>1, <1>2 DEF ClearContinuation, Owning
<1> QED  BY <1>3, <1>4

LEMMA Closed ==
  ASSUME NEW m \in Owning
  PROVE  LET n == CloseConnection(m)
         IN  /\ n.conn = 0 /\ n.key = NoKey /\ n.file = m.file
             /\ n.c.durable = m.c.durable /\ n.c.last = m.c.last /\ n.c.key = m.c.key
             /\ \/ n.c.headOn = 0 /\ n.c.head = Nowhere
                \/ n.c.headOn = m.c.headOn /\ n.c.head = m.c.head
             /\ n \in Owning
<1> DEFINE n == CloseConnection(m)
<1>1. m.c \in Chain
  BY DEF Owning
<1>2. PICK e : e = [m.c EXCEPT !.headOn = 0, !.head = Nowhere]
  OBVIOUS
<1>3. e.durable = m.c.durable /\ e.last = m.c.last /\ e.key = m.c.key /\ e.headOn = 0 /\ e.head = Nowhere
  BY <1>1, <1>2 DEF Chain
<1>4. Nowhere \in Position /\ 0 \in 0..MaxSocket /\ NoKey \in TransportKeys \union {NoKey}
  BY Bounds DEF Nowhere, Position
<1>5. e \in Chain
  BY <1>1, <1>2, <1>4 DEF Chain
<1>6. PICK d : d = IF m.conn # 0 /\ m.c.headOn = m.conn THEN e ELSE m.c
  OBVIOUS
<1>7. n = [m EXCEPT !.conn = 0, !.key = NoKey, !.c = d]
  BY <1>2, <1>6 DEF CloseConnection
<1>8. n.conn = 0 /\ n.key = NoKey /\ n.file = m.file /\ n.c = d
  BY <1>7 DEF Owning
<1>9. n \in Owning
  <2>1. d \in Chain
    BY <1>1, <1>5, <1>6
  <2> QED  BY <1>4, <1>7, <2>1 DEF Owning
<1> QED  BY <1>3, <1>6, <1>8, <1>9

(* What a session owns.                                                    *)
LEMMA OwnedTypes ==
  ASSUME Types, NEW s \in Session
  PROVE  Owned(s) \in Owning
BY DEF Types, Owned, Owning

LEMMA ClearPlaced ==
  ASSUME NEW m \in Owning, NEW u, PlacedOwning(m)
  PROVE  PlacedOwning(ClearContinuation(m, u))
BY Cleared DEF PlacedOwning, NoChain, Nowhere, NoFile, From

LEMMA ClosePlaced ==
  ASSUME NEW m \in Owning, PlacedOwning(m)
  PROVE  PlacedOwning(CloseConnection(m))
<1> DEFINE n == CloseConnection(m)
<1>1. n.conn = 0 /\ n.key = NoKey /\ n.file = m.file
  BY Closed
<1>2. n.c.durable = m.c.durable /\ n.c.key = m.c.key /\ (n.c.head = m.c.head \/ n.c.head.id = 0)
  BY Closed DEF Nowhere
<1>3. From(n.c.durable.id, n.c.key) /\ From(n.c.head.id, n.c.key)
  BY <1>2 DEF PlacedOwning, From
<1> QED  BY <1>1, <1>3 DEF PlacedOwning

(* restoreDurableFromDisk: as it was, with the file as checkpoint, or      *)
(* without the file.                                                       *)
LEMMA Restored ==
  ASSUME NEW m \in Owning, NEW endpoint \in Endpoint, NEW u \in BOOLEAN
  PROVE  LET n == RestoreDurable(m, endpoint, u)
         IN  /\ n \in Owning /\ n.conn = m.conn /\ n.key = m.key
             /\ \/ n = m
                \/ /\ m.c.durable.id = 0 /\ m.c.head.id = 0
                   /\ m.file.id # 0 /\ m.file.endpoint = endpoint /\ n.file = m.file
                   /\ n.c = [durable |-> [id |-> m.file.id, covered |-> m.file.covered],
                             headOn |-> m.c.headOn, head |-> m.c.head,
                             last |-> m.c.last, key |-> endpoint]
                \/ m.c.durable.id = 0 /\ m.c.head.id = 0 /\ n.c = m.c /\ n.file = NoFile
<1> DEFINE n == RestoreDurable(m, endpoint, u)
           p == [id |-> m.file.id, covered |-> m.file.covered]
<1>1. CASE m.c.durable.id # 0 \/ m.c.head.id # 0 \/ m.file.id = 0
  BY <1>1 DEF RestoreDurable
<1>2. CASE /\ m.c.durable.id = 0 /\ m.c.head.id = 0 /\ m.file.id # 0
           /\ m.file.endpoint = endpoint
  <2>1. n = [m EXCEPT !.c.durable = p, !.c.key = endpoint]
    BY <1>2 DEF RestoreDurable
  <2>2. m.c \in Chain /\ m.file \in File
    BY DEF Owning
  <2>3. p \in Position
    BY <2>2 DEF File, Position
  <2>4. n.conn = m.conn /\ n.key = m.key /\ n.file = m.file /\
        n.c = [m.c EXCEPT !.durable = p, !.key = endpoint]
    BY <2>1 DEF Owning, Chain
  <2>5. n.c = [durable |-> p, headOn |-> m.c.headOn, head |-> m.c.head,
               last |-> m.c.last, key |-> endpoint]
    BY <2>2, <2>4 DEF Chain
  <2>6. n.c \in Chain
    BY <2>2, <2>3, <2>5 DEF Chain, Key
  <2>7. n = [c |-> n.c, conn |-> m.conn, key |-> m.key, file |-> m.file]
    BY <2>1, <2>4 DEF Owning
  <2>8. n \in Owning
    BY <2>6, <2>7 DEF Owning
  <2> QED  BY <1>2, <2>4, <2>5, <2>8
<1>3. CASE /\ m.c.durable.id = 0 /\ m.c.head.id = 0 /\ m.file.id # 0
           /\ m.file.endpoint # endpoint
  <2>1. n = [m EXCEPT !.file = IF u THEN NoFile ELSE @]
    BY <1>3 DEF RestoreDurable
  <2>2. NoFile \in File
    BY Bounds DEF NoFile, File, Key
  <2>3. n = [c |-> m.c, conn |-> m.conn, key |-> m.key, file |-> IF u THEN NoFile ELSE m.file]
    BY <2>1 DEF Owning
  <2>4. n \in Owning
    BY <2>2, <2>3 DEF Owning
  <2>5. CASE u = TRUE
    BY <1>3, <2>3, <2>4, <2>5
  <2>6. CASE u = FALSE
    <3>1. n = m
      BY <2>3, <2>6 DEF Owning
    <3> QED  BY <3>1
  <2> QED  BY <2>5, <2>6
<1> QED  BY <1>1, <1>2, <1>3

LEMMA RestorePlaced ==
  ASSUME NEW m \in Owning, PlacedOwning(m), NEW endpoint \in Endpoint, NEW u \in BOOLEAN
  PROVE  LET n == RestoreDurable(m, endpoint, u)
         IN  PlacedOwning(n) /\ n \in Owning /\ n.conn = m.conn /\ n.key = m.key
<1> PICK n : n = RestoreDurable(m, endpoint, u)
  OBVIOUS
<1>1. n \in Owning /\ n.conn = m.conn /\ n.key = m.key
  BY Restored
<1>2. From(n.c.durable.id, n.c.key) /\ From(n.c.head.id, n.c.key) /\ From(n.file.id, n.file.endpoint)
  <2>1. CASE n = m
    BY <2>1 DEF PlacedOwning
  <2>2. CASE /\ m.c.durable.id = 0 /\ m.c.head.id = 0
             /\ m.file.id # 0 /\ m.file.endpoint = endpoint /\ n.file = m.file
             /\ n.c = [durable |-> [id |-> m.file.id, covered |-> m.file.covered],
                       headOn |-> m.c.headOn, head |-> m.c.head,
                       last |-> m.c.last, key |-> endpoint]
    BY <2>2 DEF PlacedOwning, From
  <2>3. CASE m.c.durable.id = 0 /\ m.c.head.id = 0 /\ n.c = m.c /\ n.file = NoFile
    BY <2>3 DEF PlacedOwning, From, NoFile
  <2> QED  BY <2>1, <2>2, <2>3, Restored
<1> QED  BY <1>1, <1>2 DEF PlacedOwning

(* What iterate does before its loop, in the order of the code.            *)
SetupOf(m, r, u, a, b) ==
    /\ a = IF r.store THEN RestoreDurable(m, r.endpoint, u) ELSE ClearContinuation(m, u)
    /\ b = IF (a.c.durable.id # 0 \/ a.c.head.id # 0) /\ a.c.key # r.endpoint
             THEN ClearContinuation(a, u) ELSE a
    /\ Setup(m, r, u) = IF m.conn # 0 /\ m.key # TransportKey(r) THEN CloseConnection(b) ELSE b

LEMMA SetupSteps ==
  ASSUME NEW m, NEW r, NEW u
  PROVE  \E a, b : SetupOf(m, r, u, a, b)
<1> PICK a : a = IF r.store THEN RestoreDurable(m, r.endpoint, u) ELSE ClearContinuation(m, u)
  OBVIOUS
<1> PICK b : b = IF (a.c.durable.id # 0 \/ a.c.head.id # 0) /\ a.c.key # r.endpoint
                   THEN ClearContinuation(a, u) ELSE a
  OBVIOUS
<1>1. Setup(m, r, u) = IF m.conn # 0 /\ m.key # TransportKey(r) THEN CloseConnection(b) ELSE b
  BY DEF Setup
<1> QED  BY <1>1 DEF SetupOf

(* What is left is of the endpoint of the request, and so is the socket.   *)
Ready(m, r) ==
    /\ m \in Owning /\ PlacedOwning(m)
    /\ m.conn # 0 => m.key = TransportKey(r)
    /\ m.c.durable.id # 0 \/ m.c.head.id # 0 => m.c.key = r.endpoint

LEMMA SetupReady ==
  ASSUME NEW m \in Owning, PlacedOwning(m), NEW r, r.endpoint \in Endpoint, NEW u \in BOOLEAN
  PROVE  /\ Ready(Setup(m, r, u), r) /\ Setup(m, r, u).conn \in {0, m.conn}
         /\ Setup(m, r, u).c.last \in {0, m.c.last}
<1> PICK a, b : SetupOf(m, r, u, a, b)
  BY SetupSteps
<1>1. a \in Owning /\ PlacedOwning(a) /\ a.conn = m.conn /\ a.key = m.key /\ a.c.last \in {0, m.c.last}
  <2>1. CASE r.store
    <3>1. a = RestoreDurable(m, r.endpoint, u)
      BY <2>1 DEF SetupOf
    <3>2. \/ a = m
          \/ a.c = [durable |-> [id |-> m.file.id, covered |-> m.file.covered],
                    headOn |-> m.c.headOn, head |-> m.c.head,
                    last |-> m.c.last, key |-> r.endpoint]
          \/ a.c = m.c
      BY <3>1, Restored, Zenon
    <3> QED  BY <3>1, <3>2, RestorePlaced
  <2>2. CASE ~r.store
    <3>1. a = ClearContinuation(m, u)
      BY <2>2 DEF SetupOf
    <3>2. a.c = NoChain /\ a.conn = m.conn /\ a.key = m.key /\ a \in Owning
      BY <3>1, Cleared
    <3>3. PlacedOwning(a)
      BY <3>1, ClearPlaced
    <3> QED  BY <3>2, <3>3 DEF NoChain
  <2> QED  BY <2>1, <2>2
<1>2. /\ b \in Owning /\ PlacedOwning(b) /\ b.conn = m.conn /\ b.key = m.key
      /\ b.c.durable.id # 0 \/ b.c.head.id # 0 => b.c.key = r.endpoint
      /\ b.c.last \in {0, m.c.last}
  <2>1. CASE (a.c.durable.id # 0 \/ a.c.head.id # 0) /\ a.c.key # r.endpoint
    <3>1. b = ClearContinuation(a, u)
      BY <2>1 DEF SetupOf
    <3>2. b.c = NoChain /\ b.conn = a.conn /\ b.key = a.key /\ b \in Owning /\ PlacedOwning(b)
      BY <3>1, <1>1, Cleared, ClearPlaced
    <3> QED  BY <1>1, <3>2 DEF NoChain, Nowhere
  <2>2. CASE ~((a.c.durable.id # 0 \/ a.c.head.id # 0) /\ a.c.key # r.endpoint)
    <3>1. b = a
      BY <2>2 DEF SetupOf
    <3> QED  BY <1>1, <2>2, <3>1
  <2> QED  BY <2>1, <2>2
<1>3. CASE m.conn # 0 /\ m.key # TransportKey(r)
  <2> PICK n : n = CloseConnection(b)
    OBVIOUS
  <2>1. n = Setup(m, r, u)
    BY <1>3 DEF SetupOf
  <2>2. n \in Owning /\ PlacedOwning(n) /\ n.conn = 0
    BY <1>2, Closed, ClosePlaced
  <2>3. /\ n.c.durable = b.c.durable /\ n.c.key = b.c.key /\ n.c.last = b.c.last
        /\ n.c.head = b.c.head \/ n.c.head.id = 0
    BY <1>2, Closed DEF Nowhere
  <2> QED  BY <1>2, <2>1, <2>2, <2>3 DEF Ready
<1>4. CASE ~(m.conn # 0 /\ m.key # TransportKey(r))
  <2>1. Setup(m, r, u) = b
    BY <1>4 DEF SetupOf
  <2> QED  BY <1>2, <1>4, <2>1 DEF Ready
<1> QED  BY <1>3, <1>4
--------------------------------------------------------------------------------
(* Own changes what s owns, the file, and forgets the socket that s had.   *)
LEMMA Owns ==
  ASSUME Types, NEW s \in Session, NEW m \in Owning, Own(s, m)
  PROVE  /\ disk' = m.file /\ connection'[s] = m.conn /\ socketKey'[s] = m.key
         /\ \/ chain'[s] = m.c
            \/ chain'[s] = NoChain /\ disposed'[s] /\ req'[s].phase = "idle"
         /\ \A t \in Session \ {s} : /\ chain'[t] = chain[t] /\ connection'[t] = connection[t]
                                     /\ socketKey'[t] = socketKey[t]
         /\ \A k \in Socket : \/ live'[k] = live[k]
                              \/ live'[k] = NothingLive /\ k = connection[s] /\ k # m.conn
         /\ chain' \in [Session -> Chain] /\ connection' \in [Session -> 0..MaxSocket]
         /\ socketKey' \in [Session -> TransportKeys \union {NoKey}] /\ disk' \in File
         /\ live' \in [Socket -> [Id -> Seq(Item)]]
<1>1. m.c \in Chain /\ m.conn \in 0..MaxSocket /\ m.key \in TransportKeys \union {NoKey} /\ m.file \in File
  BY DEF Owning
<1>2. NoChain \in Chain /\ NothingLive \in [Id -> Seq(Item)]
  BY Bounds DEF NoChain, Chain, Nowhere, Position, Key, NothingLive
<1>3. PICK c \in Chain : /\ chain' = [chain EXCEPT ![s] = c]
                         /\ \/ c = m.c
                            \/ c = NoChain /\ disposed'[s] /\ req'[s].phase = "idle"
  BY <1>1, <1>2 DEF Own
<1>4. chain' \in [Session -> Chain] /\ chain'[s] = c /\ \A t \in Session \ {s} : chain'[t] = chain[t]
  BY <1>3 DEF Types
<1>5. /\ connection' = [connection EXCEPT ![s] = m.conn]
      /\ socketKey' = [socketKey EXCEPT ![s] = m.key] /\ disk' = m.file
  BY DEF Own
<1>6. live' = live \/ (connection[s] # 0 /\ connection[s] # m.conn
                       /\ live' = [live EXCEPT ![connection[s]] = NothingLive])
  BY DEF Own
<1>7. live' \in [Socket -> [Id -> Seq(Item)]]
  BY <1>2, <1>6 DEF Types
<1>8. \A k \in Socket : \/ live'[k] = live[k]
                        \/ live'[k] = NothingLive /\ k = connection[s] /\ k # m.conn
  BY <1>6 DEF Types
<1> QED  BY <1>1, <1>3, <1>4, <1>5, <1>7, <1>8 DEF Types

(* A step of s that leaves the server's lasting memory alone.              *)
LEMMA StepPlaced ==
  ASSUME Placed, NEW s \in Session, NEW m \in Owning, PlacedOwning(m),
         NEW q \in Request \union {Idle}, Own(s, m), req' = [req EXCEPT ![s] = q],
         UNCHANGED <<nextId, stored, origin>>, sockets' \in sockets..MaxSocket,
         current' \in Session, disposed' \in [Session -> BOOLEAN], OneSocket',
         m.conn <= sockets', m.c.last <= sockets',
         q # Idle => q.on \in 1..sockets' /\ PlacedRequest(m, q)
  PROVE  Placed'
<1>1. Types /\ ServerKnows /\ Opened
  BY DEF Placed
<1>2. sockets \in Nat /\ sockets' \in Nat /\ sockets <= sockets'
  BY <1>1, Bounds DEF Types
<1>3. Types'
  BY <1>1, <1>2, Owns DEF Types
<1>4. ServerKnows'
  <2>1. \A k \in Socket, i \in Id : i > nextId' \/ k > sockets' => live'[k][i] = <<>>
    <3> SUFFICES ASSUME NEW k \in Socket, NEW i \in Id, i > nextId \/ k > sockets'
                 PROVE  live'[k][i] = <<>>
      OBVIOUS
    <3>1. live[k][i] = <<>>
      BY <1>1, <1>2 DEF ServerKnows, Socket
    <3>2. live'[k] = live[k] \/ live'[k] = NothingLive
      BY <1>1, Owns
    <3> QED  BY <3>1, <3>2 DEF NothingLive
  <2> QED  BY <1>1, <2>1 DEF ServerKnows
<1>5. Opened'
  <2> SUFFICES ASSUME NEW t \in Session
               PROVE  /\ connection'[t] <= sockets' /\ chain'[t].last <= sockets'
                      /\ req'[t] # Idle => req'[t].on \in 1..sockets'
    BY DEF Opened
  <2>1. CASE t = s
    <3>1. connection'[s] = m.conn /\ (chain'[s] = m.c \/ chain'[s] = NoChain)
      BY <1>1, Owns
    <3>2. req'[s] = q
      BY <1>1 DEF Types
    <3> QED  BY <2>1, <3>1, <3>2, <1>2 DEF NoChain
  <2>2. CASE t # s
    <3>1. connection'[t] = connection[t] /\ chain'[t] = chain[t] /\ req'[t] = req[t]
      BY <1>1, <2>2, Owns DEF Types
    <3>2. connection[t] \in Nat /\ chain[t].last \in Nat
      BY <1>1, Bounds DEF Types, Chain
    <3> QED  BY <1>1, <1>2, <3>1, <3>2 DEF Opened
  <2> QED  BY <2>1, <2>2
<1>6. \A t \in Session : PlacedOwning(Owned(t))'
  <2> SUFFICES ASSUME NEW t \in Session  PROVE PlacedOwning(Owned(t))'
    OBVIOUS
  <2>1. PlacedOwning(Owned(t))
    BY DEF Placed
  <2>2. From(m.file.id, m.file.endpoint)
    BY DEF PlacedOwning
  <2>3. /\ From(chain'[t].durable.id, chain'[t].key) /\ From(chain'[t].head.id, chain'[t].key)
        /\ connection'[t] = 0 <=> socketKey'[t] = NoKey
    <3>1. CASE t = s
      BY <3>1, <1>1, Owns DEF PlacedOwning, NoChain, Nowhere, From
    <3>2. CASE t # s
      BY <2>1, <3>2, <1>1, Owns DEF PlacedOwning, Owned
    <3> QED  BY <3>1, <3>2
  <2>4. ASSUME connection'[t] # 0, NEW i \in Id, live'[connection'[t]][i] # <<>>
        PROVE  From(i, socketKey'[t].endpoint)
    <3>1. CASE t = s
      <4>1. connection'[s] = m.conn /\ socketKey'[s] = m.key /\ m.conn \in Socket
        BY <2>4, <3>1, <1>1, Owns DEF Owning, Socket
      <4>2. live'[m.conn] = live[m.conn]
        BY <4>1, <1>1, Owns
      <4> QED  BY <2>4, <3>1, <4>1, <4>2 DEF PlacedOwning
    <3>2. CASE t # s
      <4>1. connection'[t] = connection[t] /\ socketKey'[t] = socketKey[t] /\ connection[t] \in Socket
        BY <2>4, <3>2, <1>1, Owns DEF Types, Socket
      <4>2. live'[connection[t]] = live[connection[t]]
        BY <2>4, <4>1, <1>1, Owns DEF NothingLive
      <4> QED  BY <2>1, <2>4, <4>1, <4>2 DEF PlacedOwning, Owned
    <3> QED  BY <3>1, <3>2
  <2>5. disk' = m.file
    BY <1>1, Owns
  <2> QED  BY <2>2, <2>3, <2>4, <2>5 DEF PlacedOwning, Owned, From
<1>7. \A t \in Session : req'[t] # Idle => PlacedRequest(Owned(t), req[t])'
  <2> SUFFICES ASSUME NEW t \in Session, req'[t] # Idle  PROVE PlacedRequest(Owned(t), req[t])'
    OBVIOUS
  <2>1. CASE t = s
    <3>1. req'[s] = q
      BY <1>1 DEF Types
    <3>2. PlacedRequest(m, q) /\ q.phase # "idle"
      BY <2>1, <3>1 DEF Request
    <3>3. chain'[s] = m.c /\ connection'[s] = m.conn /\ socketKey'[s] = m.key
      BY <1>1, <3>1, <3>2, Owns
    <3> QED  BY <2>1, <3>1, <3>2, <3>3 DEF PlacedRequest, Owned, From
  <2>2. CASE t # s
    <3>1. req'[t] = req[t] /\ req[t] # Idle
      BY <1>1, <2>2 DEF Types
    <3>2. PlacedRequest(Owned(t), req[t])
      BY <3>1 DEF Placed
    <3>3. /\ chain'[t] = chain[t] /\ connection'[t] = connection[t]
          /\ socketKey'[t] = socketKey[t]
      BY <1>1, <2>2, Owns
    <3> QED  BY <3>1, <3>2, <3>3 DEF PlacedRequest, Owned, From
  <2> QED  BY <2>1, <2>2
<1> QED  BY <1>3, <1>4, <1>5, <1>6, <1>7 DEF Placed

LEMMA SameCurrent ==
  ASSUME Placed, NEW s \in Session, NEW m \in Owning, NEW q, Own(s, m),
         req' = [req EXCEPT ![s] = q], UNCHANGED <<current, disposed>>,
         s = current \/ m.conn = 0, s = current \/ disposed[s] \/ q = Idle
  PROVE  OneSocket'
<1> SUFFICES ASSUME NEW t \in Session
             PROVE  /\ t # current => connection'[t] = 0
                    /\ disposed[t] => t < current
                    /\ t = current \/ disposed[t] \/ req'[t] = Idle
  BY DEF OneSocket
<1>1. Types /\ OneSocket
  BY DEF Placed
<1>2. CASE t = s
  BY <1>1, <1>2, Owns DEF Types, OneSocket
<1>3. CASE t # s
  BY <1>1, <1>3, Owns DEF Types, OneSocket
<1> QED  BY <1>2, <1>3
--------------------------------------------------------------------------------
(* A turn of iterate's loop, taken apart.                                  *)
Sending(s, m, r, u, socket, from, intact, n, q) ==
    /\ socket = IF m.conn = 0 THEN sockets + 1 ELSE m.conn
    /\ socket \in Socket
    /\ from = ContinuationFor(m, r, socket) /\ from \in Position
    /\ intact \in BOOLEAN
    /\ intact <=> WireStore(r) /\ PrefixIntact(from, r.full)
    /\ n \in Owning /\ n.conn = socket /\ n.key = TransportKey(r)
    /\ IF WireStore(r) /\ from.id # 0 /\ ~intact
         THEN n.c = NoChain /\ n.file = IF u THEN NoFile ELSE m.file
         ELSE n.c = m.c /\ n.file = m.file
    /\ q \in Request /\ q.on = socket
    /\ q.previous = IF intact THEN from.id ELSE 0
    /\ r.full = IF intact THEN from.covered \o q.input ELSE q.input
    /\ q.phase = r.phase /\ q.store = r.store /\ q.endpoint = r.endpoint
    /\ q.credential = r.credential /\ q.full = r.full
    /\ q.forceFull = r.forceFull /\ q.forceStoreFalse = r.forceStoreFalse
    /\ sockets' = IF m.conn = 0 THEN socket ELSE sockets
    /\ req' = [req EXCEPT ![s] = q] /\ Own(s, n)
    /\ UNCHANGED <<current, disposed, nextId, stored, origin>>

LEMMA RestOfSequence ==
  ASSUME NEW S, NEW p \in Seq(S), NEW full \in Seq(S), IsStrictPrefix(p, full)
  PROVE  /\ SubSeq(full, Len(p) + 1, Len(full)) \in Seq(S)
         /\ p \o SubSeq(full, Len(p) + 1, Len(full)) = full
<1>1. Len(p) \in Nat /\ Len(full) \in Nat /\ Len(p) <= Len(full)
  BY LenProperties DEF IsStrictPrefix, IsPrefix
<1>2. SubSeq(p, 1, Len(p)) = p /\ SubSeq(p, 1, Len(p)) = SubSeq(full, 1, Len(p))
  BY SubSeqFull DEF IsStrictPrefix, IsPrefix
<1>3. SubSeq(full, 1, Len(p)) \o SubSeq(full, Len(p) + 1, Len(full)) = SubSeq(full, 1, Len(full))
  <2>1. 1 \in 1..Len(full) + 1 /\ Len(p) \in 1 - 1..Len(full) /\ Len(full) \in Len(p)..Len(full)
    BY <1>1
  <2> QED  BY <2>1, ConcatAdjacentSubSeq
<1>4. SubSeq(full, 1, Len(full)) = full
  BY SubSeqFull
<1>5. SubSeq(full, Len(p) + 1, Len(full)) \in Seq(S)
  <2>1. \A i \in Len(p) + 1..Len(full) : full[i] \in S
    BY <1>1, ElementOfSeq
  <2> QED  BY <1>1, <2>1, SubSeqProperties
<1> QED  BY <1>2, <1>3, <1>4, <1>5

LEMMA RestOf ==
  ASSUME NEW from \in Position, NEW r \in Request, PrefixIntact(from, r.full)
  PROVE  /\ SubSeq(r.full, Len(from.covered) + 1, Len(r.full)) \in Seq(Item)
         /\ r.full = from.covered \o SubSeq(r.full, Len(from.covered) + 1, Len(r.full))
<1>1. r.full \in Seq(Item) /\ from.covered \in Seq(Item)
  BY HistoryAssumption DEF Request, Position
<1>2. IsStrictPrefix(from.covered, r.full)
  BY DEF PrefixIntact
<1> QED  BY <1>1, <1>2, RestOfSequence

LEMMA Sends ==
  ASSUME Types, NEW s \in Session, NEW m \in Owning, NEW r \in Request, NEW u,
         SendAttempt(s, m, r, u)
  PROVE  \E socket, from, intact, n, q : Sending(s, m, r, u, socket, from, intact, n, q)
<1> PICK socket : socket = IF m.conn = 0 THEN sockets + 1 ELSE m.conn
  OBVIOUS
<1> PICK from : from = ContinuationFor(m, r, socket)
  OBVIOUS
<1> PICK intact : intact = (WireStore(r) /\ PrefixIntact(from, r.full))
  OBVIOUS
<1> PICK a : a = IF WireStore(r) /\ from.id # 0 /\ ~intact THEN ClearContinuation(m, u) ELSE m
  OBVIOUS
<1> PICK n : n = [a EXCEPT !.conn = socket, !.key = TransportKey(r)]
  OBVIOUS
<1> PICK previous : previous = IF intact THEN from.id ELSE 0
  OBVIOUS
<1> PICK input : input = IF intact THEN SubSeq(r.full, Len(from.covered) + 1, Len(r.full)) ELSE r.full
  OBVIOUS
<1> PICK q : q = [r EXCEPT !.on = socket, !.previous = previous, !.input = input]
  OBVIOUS
<1>1. /\ socket <= MaxSocket
      /\ sockets' = IF m.conn = 0 THEN socket ELSE sockets
      /\ req' = [req EXCEPT ![s] = q]
      /\ UNCHANGED <<current, disposed, nextId, stored, origin>>
      /\ Own(s, n)
  BY DEF SendAttempt
<1>2. m.c \in Chain /\ m.conn \in 0..MaxSocket /\ sockets \in Nat
  BY Bounds DEF Owning, Types
<1>3. socket \in Socket
  BY <1>1, <1>2, Bounds DEF Socket
<1>4. from \in Position
  <2>1. Nowhere \in Position
    BY Bounds DEF Nowhere, Position
  <2> QED  BY <1>2, <2>1 DEF ContinuationFor, Chain
<1>5. intact \in BOOLEAN /\ (intact <=> WireStore(r) /\ PrefixIntact(from, r.full))
  BY DEF WireStore, PrefixIntact, IsStrictPrefix, IsPrefix, Request
<1>6. /\ a \in Owning
      /\ IF WireStore(r) /\ from.id # 0 /\ ~intact
           THEN a.c = NoChain /\ a.file = IF u THEN NoFile ELSE m.file
           ELSE a.c = m.c /\ a.file = m.file
  BY Cleared
<1>7. TransportKey(r) \in TransportKeys \union {NoKey} /\ socket \in 0..MaxSocket
  BY <1>3, Bounds DEF TransportKey, TransportKeys, Request, Socket
<1>8. n \in Owning /\ n.conn = socket /\ n.key = TransportKey(r) /\ n.c = a.c /\ n.file = a.file
  BY <1>6, <1>7 DEF Owning
<1>9. previous \in 0..MaxId
  BY <1>4, Bounds DEF Position
<1>10. input \in Seq(Item) /\ r.full = IF intact THEN from.covered \o input ELSE input
  <2>1. CASE intact
    <3>1. PrefixIntact(from, r.full)
      BY <1>5, <2>1
    <3> QED  BY <1>4, <2>1, <3>1, RestOf
  <2>2. CASE ~intact
    <3>1. r.full \in Seq(Item)
      BY HistoryAssumption DEF Request
    <3> QED  BY <2>2, <3>1
  <2> QED  BY <1>5, <2>1, <2>2
<1>11. q \in Request
  BY <1>7, <1>9, <1>10 DEF Request
<1>12. /\ q.on = socket /\ q.previous = previous /\ q.input = input
       /\ q.phase = r.phase /\ q.store = r.store /\ q.endpoint = r.endpoint
       /\ q.credential = r.credential /\ q.full = r.full
       /\ q.forceFull = r.forceFull /\ q.forceStoreFalse = r.forceStoreFalse
  BY DEF Request
<1>13. r.full = IF intact THEN from.covered \o q.input ELSE q.input
  BY <1>10, <1>12
<1>14. Sending(s, m, r, u, socket, from, intact, n, q)
  BY <1>1, <1>3, <1>4, <1>5, <1>6, <1>8, <1>11, <1>12, <1>13 DEF Sending
<1> QED  BY <1>14

(* A turn of the loop in the current session keeps everything in its place.*)
LEMMA SendPlaced ==
  ASSUME Placed, NEW s \in Session, s = current, NEW m \in Owning, NEW r \in Request,
         r.phase = "sent", NEW u, Ready(m, r), m.conn \in {0, connection[s]},
         m.c.last <= sockets, SendAttempt(s, m, r, u)
  PROVE  Placed'
<1>1. Types /\ ServerKnows /\ Opened
  BY DEF Placed
<1> PICK socket, from, intact, n, q : Sending(s, m, r, u, socket, from, intact, n, q)
  BY <1>1, Sends
<1>2. /\ n \in Owning /\ q \in Request /\ Own(s, n) /\ req' = [req EXCEPT ![s] = q]
      /\ UNCHANGED <<current, disposed, nextId, stored, origin>>
  BY DEF Sending
<1>3. sockets \in 0..MaxSocket /\ socket \in Socket /\ connection[s] \in 0..MaxSocket
      /\ connection[s] <= sockets
  BY <1>1 DEF Sending, Types, Opened
<1>4. sockets' \in sockets..MaxSocket /\ n.conn <= sockets' /\ q.on \in 1..sockets'
  BY <1>3, Bounds DEF Sending, Socket
<1>5. n.c = m.c \/ n.c = NoChain
  BY DEF Sending
<1>6. n.c.last <= sockets'
  <2>1. m.c.last \in Nat
    BY Bounds DEF Owning, Chain
  <2> QED  BY <1>3, <1>4, <1>5, <2>1, Bounds DEF NoChain
<1>7. PlacedOwning(n)
  <2>1. From(n.c.durable.id, n.c.key) /\ From(n.c.head.id, n.c.key)
    BY <1>5 DEF Ready, PlacedOwning, NoChain, Nowhere, From
  <2>2. From(n.file.id, n.file.endpoint)
    BY DEF Sending, Ready, PlacedOwning, NoFile, From
  <2>3. n.conn # 0 /\ n.key # NoKey
    <3>1. r.endpoint # "none"
      BY EndpointAssumption DEF Request
    <3> QED  BY <1>3, <3>1 DEF Sending, TransportKey, NoKey, Socket
  <2>4. ASSUME NEW i \in Id, live[n.conn][i] # <<>>  PROVE From(i, n.key.endpoint)
    <3>1. CASE m.conn = 0
      BY <1>1, <1>3, <2>4, <3>1 DEF Sending, ServerKnows, Socket
    <3>2. CASE m.conn # 0
      BY <2>4, <3>2 DEF Sending, Ready, PlacedOwning
    <3> QED  BY <3>1, <3>2
  <2> QED  BY <2>1, <2>2, <2>3, <2>4 DEF PlacedOwning
<1>8. PlacedRequest(n, q)
  <2>1. From(q.previous, q.endpoint)
    <3>1. CASE intact
      <4>1. from = Nowhere \/ from = m.c.head \/ from = m.c.durable
        BY DEF Sending, ContinuationFor
      <4>2. From(from.id, r.endpoint)
        BY <4>1 DEF Ready, PlacedOwning, Nowhere, From
      <4> QED  BY <3>1, <4>2 DEF Sending
    <3>2. CASE ~intact
      BY <3>2 DEF Sending, From
    <3> QED  BY <3>1, <3>2
  <2>2. n.conn = q.on /\ n.key = TransportKey(q)
    BY DEF Sending, TransportKey
  <2>3. n.c.durable.id # 0 \/ n.c.head.id # 0 => n.c.key = q.endpoint
    BY <1>5 DEF Sending, Ready, NoChain, Nowhere
  <2>4. q.phase = "sent"
    BY DEF Sending
  <2> QED  BY <2>1, <2>2, <2>3, <2>4 DEF PlacedRequest
<1>9. OneSocket'
  BY <1>2, SameCurrent
<1>10. current' \in Session /\ disposed' \in [Session -> BOOLEAN]
  BY <1>1, <1>2 DEF Types
<1> QED  BY <1>2, <1>4, <1>6, <1>7, <1>8, <1>9, <1>10, StepPlaced
--------------------------------------------------------------------------------
LEMMA Ongoing ==
  ASSUME Placed, NEW s \in Session, req[s].phase # "idle"
  PROVE  /\ req[s] \in Request /\ req[s] # Idle /\ PlacedRequest(Owned(s), req[s])
         /\ Owned(s) \in Owning /\ Ready(Owned(s), req[s])
<1>1. Types
  BY DEF Placed
<1>2. req[s] \in Request /\ req[s] # Idle
  BY <1>1 DEF Types, Idle
<1>3. PlacedRequest(Owned(s), req[s]) /\ PlacedOwning(Owned(s))
  BY <1>2 DEF Placed
<1>4. Owned(s) \in Owning
  BY <1>1, OwnedTypes
<1> QED  BY <1>2, <1>3, <1>4 DEF PlacedRequest, Ready

LEMMA ReadyCleared ==
  ASSUME NEW m, NEW r, Ready(m, r), NEW u
  PROVE  LET n == ClearContinuation(m, u)
         IN  Ready(n, r) /\ n.conn = m.conn /\ n.c.last = 0
<1> PICK n : n = ClearContinuation(m, u)
  OBVIOUS
<1>1. m \in Owning /\ PlacedOwning(m)
  BY DEF Ready
<1>2. n.c = NoChain /\ n.conn = m.conn /\ n.key = m.key /\ n \in Owning /\ PlacedOwning(n)
  BY <1>1, Cleared, ClearPlaced
<1> QED  BY <1>2 DEF Ready, NoChain, Nowhere

LEMMA ReadyClosed ==
  ASSUME NEW m, NEW r, Ready(m, r)
  PROVE  LET n == CloseConnection(m)
         IN  Ready(n, r) /\ n.conn = 0 /\ n.c.last = m.c.last
<1> PICK n : n = CloseConnection(m)
  OBVIOUS
<1>1. m \in Owning /\ PlacedOwning(m)
  BY DEF Ready
<1>2. /\ n.conn = 0 /\ n \in Owning /\ PlacedOwning(n)
      /\ n.c.durable = m.c.durable /\ n.c.last = m.c.last /\ n.c.key = m.c.key
      /\ n.c.head = Nowhere \/ n.c.head = m.c.head
  BY <1>1, Closed, ClosePlaced
<1> QED  BY <1>2 DEF Ready, Nowhere

LEMMA LastOpened ==
  ASSUME Placed, NEW s \in Session
  PROVE  /\ Owned(s) \in Owning /\ PlacedOwning(Owned(s))
         /\ Owned(s).c = chain[s] /\ Owned(s).conn = connection[s]
         /\ Owned(s).key = socketKey[s] /\ Owned(s).file = disk
         /\ Owned(s).c.last <= sockets /\ 0 <= sockets
         /\ connection[s] \in 0..MaxSocket /\ connection[s] <= sockets
<1>1. Types /\ Opened /\ PlacedOwning(Owned(s))
  BY DEF Placed
<1> QED  BY <1>1, OwnedTypes DEF Owned, Opened, Types

LEMMA UnlinkedTypes == Unlinked \subseteq BOOLEAN
BY DEF Unlinked

LEMMA BeginPlaced ==
  ASSUME Placed, NEW s \in Session, Begin(s)
  PROVE  Placed'
<1>1. PICK full \in Input, store \in BOOLEAN, endpoint \in Endpoint, credential \in Credential,
           u \in Unlinked : \E r :
         /\ r = [phase |-> "sent", store |-> store, endpoint |-> endpoint,
                 credential |-> credential, full |-> full, on |-> 0, previous |-> 0,
                 input |-> <<>>, forceFull |-> FALSE, forceStoreFalse |-> FALSE,
                 replayed |-> FALSE, id |-> 0, output |-> <<>>]
         /\ SendAttempt(s, Setup(Owned(s), r, u), r, u)
  BY DEF Begin
<1>2. <<>> \in Seq(Item)
  BY EmptySeq
<1> PICK r : /\ r = [phase |-> "sent", store |-> store, endpoint |-> endpoint,
                     credential |-> credential, full |-> full, on |-> 0, previous |-> 0,
                     input |-> <<>>, forceFull |-> FALSE, forceStoreFalse |-> FALSE,
                     replayed |-> FALSE, id |-> 0, output |-> <<>>]
             /\ SendAttempt(s, Setup(Owned(s), r, u), r, u)
  BY <1>1
<1>3. r \in Request /\ r.phase = "sent" /\ r.endpoint \in Endpoint
  BY <1>2, Bounds DEF Request
<1>4. u \in BOOLEAN
  BY UnlinkedTypes
<1> PICK m : m = Setup(Owned(s), r, u)
  OBVIOUS
<1>5. Ready(m, r) /\ m.conn \in {0, connection[s]} /\ m.c.last <= sockets
  BY <1>3, <1>4, LastOpened, SetupReady
<1>6. m \in Owning
  BY <1>5 DEF Ready
<1>7. s = current
  BY DEF Begin
<1> QED  BY <1>3, <1>5, <1>6, <1>7, SendPlaced

LEMMA NotDisposedIsCurrent ==
  ASSUME Placed, NEW s \in Session, req[s].phase # "idle", ~disposed[s]
  PROVE  s = current
BY DEF Placed, OneSocket, Idle

LEMMA AgainInFullPlaced ==
  ASSUME Placed, NEW s \in Session, req[s].phase = "sent",
         NEW q \in Request, q.phase = "sent", q.endpoint = req[s].endpoint,
         q.credential = req[s].credential, AgainInFull(s, q)
  PROVE  Placed'
<1>1. ~disposed[s]
  BY DEF AgainInFull
<1> PICK r : r = [q EXCEPT !.forceFull = TRUE]
  OBVIOUS
<1>2. PICK u \in Unlinked : SendAttempt(s, ClearContinuation(CloseConnection(Owned(s)), u), r, u)
  BY DEF AgainInFull
<1>3. /\ r \in Request /\ r.phase = "sent" /\ r.endpoint = req[s].endpoint
      /\ r.credential = req[s].credential
  BY DEF Request
<1>4. Ready(Owned(s), r)
  BY <1>3, Ongoing DEF Ready, TransportKey
<1> PICK n : n = CloseConnection(Owned(s))
  OBVIOUS
<1> PICK m : m = ClearContinuation(n, u)
  OBVIOUS
<1>5. Ready(n, r) /\ n.conn = 0
  BY <1>4, ReadyClosed
<1>6. Ready(m, r) /\ m.conn = 0 /\ m.c.last = 0
  BY <1>5, ReadyCleared
<1>7. m \in Owning
  BY <1>6 DEF Ready
<1>8. s = current
  BY <1>1, NotDisposedIsCurrent
<1> QED  BY <1>2, <1>3, <1>6, <1>7, <1>8, LastOpened, SendPlaced

(* The requests with which Rejected and TooLarge go on.                    *)
LEMMA AgainRequests ==
  ASSUME Placed, NEW s \in Session, Rejected(s) \/ TooLarge(s)
  PROVE  /\ req[s].phase = "sent"
         /\ \E q \in Request : /\ q.phase = "sent" /\ q.endpoint = req[s].endpoint
                               /\ q.credential = req[s].credential
                               /\ AgainInFull(s, q)
<1>1. req[s].phase = "sent"
  BY DEF Rejected, TooLarge, Sent
<1>2. req[s] \in Request
  BY <1>1, Ongoing
<1> PICK off : off = [req[s] EXCEPT !.forceStoreFalse = TRUE]
  OBVIOUS
<1>3. /\ off \in Request /\ off.phase = "sent" /\ off.endpoint = req[s].endpoint
      /\ off.credential = req[s].credential
  BY <1>1, <1>2 DEF Request
<1>4. AgainInFull(s, req[s]) \/ AgainInFull(s, off)
  BY DEF Rejected, TooLarge
<1> QED  BY <1>1, <1>2, <1>3, <1>4

LEMMA RejectedPlaced ==
  ASSUME Placed, NEW s \in Session, Rejected(s)
  PROVE  Placed'
BY AgainRequests, AgainInFullPlaced

LEMMA TooLargePlaced ==
  ASSUME Placed, NEW s \in Session, TooLarge(s)
  PROVE  Placed'
BY AgainRequests, AgainInFullPlaced

LEMMA ReplayPlaced ==
  ASSUME Placed, NEW s \in Session, Replay(s)
  PROVE  Placed'
<1>1. req[s].phase = "sent" /\ ~disposed[s]
  BY DEF Replay, Sent
<1> PICK r : r = [req[s] EXCEPT !.replayed = TRUE]
  OBVIOUS
<1> PICK m : m = CloseConnection(Owned(s))
  OBVIOUS
<1>2. PICK u \in Unlinked : SendAttempt(s, m, r, u)
  BY DEF Replay
<1>3. /\ r \in Request /\ r.phase = "sent" /\ r.endpoint = req[s].endpoint
      /\ r.credential = req[s].credential
  BY <1>1, Ongoing DEF Request
<1>4. Ready(Owned(s), r)
  BY <1>1, <1>3, Ongoing DEF Ready, TransportKey
<1>5. Ready(m, r) /\ m.conn = 0 /\ m.c.last <= sockets
  BY <1>4, LastOpened, ReadyClosed
<1>6. m \in Owning
  BY <1>5 DEF Ready
<1>7. s = current
  BY <1>1, NotDisposedIsCurrent
<1> QED  BY <1>2, <1>3, <1>5, <1>6, <1>7, SendPlaced

LEMMA ClearedOwning ==
  ASSUME NEW m \in Owning, PlacedOwning(m), NEW u
  PROVE  LET n == ClearContinuation(m, u)
         IN  n \in Owning /\ PlacedOwning(n) /\ n.conn = m.conn /\ n.c.last = 0
<1> PICK n : n = ClearContinuation(m, u)
  OBVIOUS
<1>1. n.c = NoChain /\ n.conn = m.conn /\ n \in Owning /\ PlacedOwning(n)
  BY Cleared, ClearPlaced
<1>2. n.c.last = 0
  BY <1>1 DEF NoChain
<1> QED  BY <1>1, <1>2

(* A request ends.                                                         *)
LEMMA EndPlaced ==
  ASSUME Placed, NEW s \in Session, NEW m \in Owning, PlacedOwning(m), Own(s, m),
         req' = [req EXCEPT ![s] = Idle],
         UNCHANGED <<current, disposed, sockets, nextId, stored, origin>>,
         m.conn \in {0, connection[s]}, m.c.last <= sockets
  PROVE  Placed'
<1>1. Types /\ OneSocket
  BY DEF Placed
<1>2. sockets' \in sockets..MaxSocket /\ m.conn <= sockets'
  BY <1>1, LastOpened, Bounds DEF Types
<1>3. OneSocket'
  <2>1. s = current \/ m.conn = 0
    BY <1>1 DEF OneSocket
  <2> QED  BY <2>1, SameCurrent
<1>4. current' \in Session /\ disposed' \in [Session -> BOOLEAN]
  BY <1>1 DEF Types
<1> QED  BY <1>2, <1>3, <1>4, StepPlaced

LEMMA ObservePlaced ==
  ASSUME Placed, NEW s \in Session, Observe(s)
  PROVE  Placed'
<1> PICK m : m = Owned(s)
  OBVIOUS
<1> PICK r : r = req[s]
  OBVIOUS
<1> PICK next : next = NextState(r)
  OBVIOUS
<1> PICK up : up = DurableAdvances(m.c, r, r.id)
  OBVIOUS
<1>1. /\ m \in Owning /\ PlacedOwning(m) /\ m.c.last <= sockets
      /\ r \in Request /\ r.phase = "answered" /\ PlacedRequest(m, r)
      /\ r.on \in 1..sockets /\ m.conn = connection[s]
  BY Ongoing, LastOpened DEF Observe, Placed, Opened
<1>2. /\ req' = [req EXCEPT ![s] = Idle]
      /\ UNCHANGED <<current, disposed, sockets, nextId, stored, origin>>
  BY DEF Observe
<1>3. CASE \E unlinked \in Unlinked : Own(s, ClearContinuation(m, unlinked))
  <2> PICK u : Own(s, ClearContinuation(m, u))
    BY <1>3
  <2> PICK n : n = ClearContinuation(m, u)
    OBVIOUS
  <2>1. n \in Owning /\ n.conn = m.conn /\ n.c.last = 0 /\ PlacedOwning(n)
    BY <1>1, ClearedOwning
  <2> QED  BY <1>1, <1>2, <2>1, LastOpened, EndPlaced
<1>4. CASE \E written \in BOOLEAN :
              /\ written => up
              /\ Own(s, [m EXCEPT
                   !.c = [durable |-> IF up THEN next ELSE m.c.durable,
                          headOn |-> r.on, head |-> next, last |-> r.on, key |-> r.endpoint],
                   !.file = IF written THEN Checkpoint(next, r.endpoint) ELSE @])
  <2> PICK d : d = IF up THEN next ELSE m.c.durable
    OBVIOUS
  <2> PICK c : c = [durable |-> d, headOn |-> r.on, head |-> next, last |-> r.on, key |-> r.endpoint]
    OBVIOUS
  <2> PICK w : w = Checkpoint(next, r.endpoint)
    OBVIOUS
  <2>0. w = [id |-> next.id, covered |-> next.covered, endpoint |-> r.endpoint]
    BY DEF Checkpoint
  <2> PICK written \in BOOLEAN : Own(s, [m EXCEPT !.c = c, !.file = IF written THEN w ELSE @])
    BY <1>4
  <2> PICK n : n = [m EXCEPT !.c = c, !.file = IF written THEN w ELSE @]
    OBVIOUS
  <2>1. Own(s, n)
    OBVIOUS
  <2>2. next \in Position /\ next.id = r.id
    <3>1. r.full \in Seq(Item) /\ r.output \in Seq(Item)
      BY <1>1, HistoryAssumption, EmptySeq DEF Request
    <3>2. r.full \o r.output \in Seq(Item)
      BY <3>1, ConcatProperties
    <3> QED  BY <1>1, <3>2 DEF NextState, Position, Request
  <2>3. m.c \in Chain /\ m.file \in File
    BY <1>1 DEF Owning
  <2>4. c \in Chain
    <3>1. d \in Position
      BY <2>2, <2>3 DEF Chain
    <3> QED  BY <1>1, <2>2, <3>1 DEF Chain, Key, Request
  <2>5. PICK f \in File : /\ n = [m EXCEPT !.c = c, !.file = f]
                          /\ From(f.id, f.endpoint)
    <3>2. w \in File
      BY <1>1, <2>0, <2>2 DEF File, Position, Key, Request
    <3>3. From(w.id, w.endpoint)
      BY <1>1, <2>0, <2>2 DEF PlacedRequest
    <3>4. From(m.file.id, m.file.endpoint)
      BY <1>1 DEF PlacedOwning
    <3>6. CASE written
      BY <3>2, <3>3, <3>6
    <3>7. CASE ~written
      <4>1. n = [m EXCEPT !.c = c, !.file = m.file]
        BY <3>7
      <4> QED  BY <2>3, <3>4, <4>1
    <3> QED  BY <3>6, <3>7
  <2>6. n \in Owning /\ n.c = c /\ n.file = f /\ n.conn = m.conn /\ n.key = m.key
    BY <1>1, <2>4, <2>5 DEF Owning
  <2>7. From(d.id, r.endpoint) /\ From(next.id, r.endpoint)
    <3>1. From(next.id, r.endpoint)
      BY <1>1, <2>2 DEF PlacedRequest
    <3>2. From(m.c.durable.id, r.endpoint)
      BY <1>1 DEF PlacedRequest, PlacedOwning, From
    <3> QED  BY <3>1, <3>2
  <2>8. PlacedOwning(n)
    BY <1>1, <2>5, <2>6, <2>7 DEF PlacedOwning
  <2>9. n.c.last <= sockets
    BY <1>1, <2>6
  <2> QED  BY <1>1, <1>2, <2>1, <2>6, <2>8, <2>9, EndPlaced
<1> QED  BY <1>3, <1>4 DEF Observe

LEMMA CompletesUnstoredPlaced ==
  ASSUME Placed, NEW s \in Session, CompletesUnstored(s)
  PROVE  Placed'
<1> PICK u : Own(s, IF req[s].store THEN ClearContinuation(Owned(s), u) ELSE Owned(s))
  BY DEF CompletesUnstored
<1> PICK n : n = IF req[s].store THEN ClearContinuation(Owned(s), u) ELSE Owned(s)
  OBVIOUS
<1>1. n \in Owning /\ PlacedOwning(n) /\ n.conn = connection[s] /\ n.c.last <= sockets
  <2>1. CASE req[s].store
    BY <2>1, LastOpened, ClearedOwning
  <2>2. CASE ~req[s].store
    BY <2>2, LastOpened
  <2> QED  BY <2>1, <2>2
<1>2. /\ req' = [req EXCEPT ![s] = Idle] /\ Own(s, n)
      /\ UNCHANGED <<current, disposed, sockets, nextId, stored, origin>>
  BY DEF CompletesUnstored
<1> QED  BY <1>1, <1>2, EndPlaced

LEMMA FailsPlaced ==
  ASSUME Placed, NEW s \in Session, Fails(s)
  PROVE  Placed'
<1> PICK closes \in BOOLEAN, u \in Unlinked :
       LET m == IF closes THEN CloseConnection(Owned(s)) ELSE Owned(s)
       IN  Own(s, IF req[s].store THEN ClearContinuation(m, u) ELSE m)
  BY DEF Fails
<1> PICK m : m = IF closes THEN CloseConnection(Owned(s)) ELSE Owned(s)
  OBVIOUS
<1> PICK n : n = IF req[s].store THEN ClearContinuation(m, u) ELSE m
  OBVIOUS
<1>1. m \in Owning /\ PlacedOwning(m) /\ m.conn \in {0, connection[s]} /\ m.c.last <= sockets
  BY LastOpened, Closed, ClosePlaced
<1>2. n \in Owning /\ PlacedOwning(n) /\ n.conn \in {0, connection[s]} /\ n.c.last <= sockets
  <2>1. CASE req[s].store
    BY <1>1, <2>1, LastOpened, ClearedOwning
  <2>2. CASE ~req[s].store
    BY <1>1, <2>2
  <2> QED  BY <2>1, <2>2
<1>3. /\ req' = [req EXCEPT ![s] = Idle] /\ Own(s, n)
      /\ UNCHANGED <<current, disposed, sockets, nextId, stored, origin>>
  BY DEF Fails
<1> QED  BY <1>2, <1>3, EndPlaced

(* The socket closes, or the session is disposed: its request goes on.     *)
LEMMA ClosedStep ==
  ASSUME Placed, NEW s \in Session, Own(s, CloseConnection(Owned(s))), OneSocket',
         UNCHANGED <<req, sockets, nextId, stored, origin>>,
         current' \in Session, disposed' \in [Session -> BOOLEAN]
  PROVE  Placed'
<1> PICK m : m = CloseConnection(Owned(s))
  OBVIOUS
<1>1. m \in Owning /\ PlacedOwning(m) /\ m.conn = 0 /\ m.c.last <= sockets /\ Own(s, m)
  BY LastOpened, Closed, ClosePlaced
<1> PICK q : q = req[s]
  OBVIOUS
<1>2. Types /\ Opened
  BY DEF Placed
<1>3. q \in Request \union {Idle} /\ req' = [req EXCEPT ![s] = q]
  BY <1>2 DEF Types
<1>4. ASSUME q # Idle  PROVE q.on \in 1..sockets' /\ PlacedRequest(m, q)
  <2>1. PlacedRequest(Owned(s), q) /\ q.on \in 1..sockets
    BY <1>4, <1>2 DEF Placed, Opened
  <2>2. /\ m.c.durable = Owned(s).c.durable /\ m.c.key = Owned(s).c.key
        /\ m.c.head = Nowhere \/ m.c.head = Owned(s).c.head
    BY LastOpened, Closed
  <2> QED  BY <1>1, <2>1, <2>2 DEF PlacedRequest, Nowhere
<1>5. sockets' \in sockets..MaxSocket /\ m.conn <= sockets' /\ m.c.last <= sockets'
  BY <1>1, <1>2, Bounds DEF Types
<1> QED  BY <1>1, <1>3, <1>4, <1>5, StepPlaced

LEMMA SocketClosesPlaced ==
  ASSUME Placed, NEW s \in Session, SocketCloses(s)
  PROVE  Placed'
<1> PICK m : m = CloseConnection(Owned(s))
  OBVIOUS
<1>1. Types /\ OneSocket
  BY DEF Placed
<1>2. m \in Owning /\ m.conn = 0 /\ Own(s, m) /\ UNCHANGED <<current, disposed, req>>
  BY LastOpened, Closed DEF SocketCloses
<1>3. s = current
  BY <1>1 DEF SocketCloses, OneSocket
<1>4. req' = [req EXCEPT ![s] = req[s]]
  BY <1>1, <1>2 DEF Types
<1>5. OneSocket'
  BY <1>2, <1>3, <1>4, SameCurrent
<1> QED  BY <1>1, <1>5, ClosedStep DEF SocketCloses, Types

LEMMA DisposePlaced ==
  ASSUME Placed, NEW s \in Session, Dispose(s)
  PROVE  Placed'
<1> PICK m : m = CloseConnection(Owned(s))
  OBVIOUS
<1>1. Types /\ OneSocket
  BY DEF Placed
<1>2. m \in Owning /\ m.conn = 0 /\ Own(s, m)
  BY LastOpened, Closed DEF Dispose
<1>3. /\ s = current /\ current' = s + 1 /\ disposed' = [disposed EXCEPT ![s] = TRUE]
      /\ UNCHANGED <<req, sockets, nextId, stored, origin>>
  BY DEF Dispose
<1>4. current' \in Session
  BY <1>3, Bounds DEF Dispose, Session
<1>5. disposed' \in [Session -> BOOLEAN] /\ disposed'[s]
      /\ \A t \in Session \ {s} : disposed'[t] = disposed[t]
  BY <1>1, <1>3 DEF Types
<1>6. connection'[s] = 0 /\ \A t \in Session \ {s} : connection'[t] = connection[t]
  BY <1>1, <1>2, Owns
<1>7. OneSocket'
  <2> SUFFICES ASSUME NEW t \in Session
               PROVE  /\ t # current' => connection'[t] = 0
                      /\ disposed'[t] => t < current'
                      /\ t = current' \/ disposed'[t] \/ req'[t] = Idle
    BY DEF OneSocket
  <2>1. CASE t = s
    BY <1>3, <1>5, <1>6, <2>1 DEF Session
  <2>2. CASE t # s
    BY <1>1, <1>3, <1>5, <1>6, <2>2 DEF OneSocket, Session
  <2> QED  BY <2>1, <2>2
<1> QED  BY <1>2, <1>3, <1>4, <1>5, <1>7, ClosedStep

LEMMA CrashPlaced ==
  ASSUME Placed, Crash
  PROVE  Placed'
<1>1. Types /\ ServerKnows
  BY DEF Placed
<1>2. /\ current' = current + 1 /\ current' \in Session
      /\ \A s \in Session : /\ chain'[s] = NoChain /\ connection'[s] = 0
                            /\ socketKey'[s] = NoKey /\ req'[s] = Idle
      /\ \A k \in Socket, i \in Id : live'[k][i] = <<>>
      /\ UNCHANGED <<sockets, disk, nextId, stored, origin>>
  BY <1>1, Bounds DEF Crash, NothingLive, Types, Session
<1>3. Types'
  <2>1. NoChain \in Chain /\ NothingLive \in [Id -> Seq(Item)]
    BY Bounds DEF NoChain, Chain, Nowhere, Position, Key, NothingLive
  <2>2. /\ chain' \in [Session -> Chain] /\ connection' \in [Session -> 0..MaxSocket]
        /\ socketKey' \in [Session -> TransportKeys \union {NoKey}]
        /\ req' \in [Session -> Request \union {Idle}]
        /\ live' \in [Socket -> [Id -> Seq(Item)]]
        /\ disposed' \in [Session -> BOOLEAN]
    BY <1>1, <2>1, Bounds DEF Crash, Types
  <2> QED  BY <1>1, <1>2, <2>2 DEF Types
<1>4. ServerKnows' /\ OneSocket'
  <2>1. ServerKnows'
    BY <1>1, <1>2 DEF ServerKnows
  <2>2. \A s \in Session : disposed'[s] => s < current'
    <3>1. \A s \in Session : disposed'[s] => disposed[s] \/ s = current
      BY DEF Crash
    <3>2. \A s \in Session : disposed[s] => s < current
      BY DEF OneSocket, Placed
    <3>3. current \in Session
      BY <1>1 DEF Types
    <3> QED  BY <1>2, <3>1, <3>2, <3>3, Bounds DEF Session
  <2> QED  BY <1>2, <2>1, <2>2 DEF OneSocket
<1>5. Opened'
  BY <1>1, <1>2 DEF Opened, NoChain, Types
<1>6. From(disk.id, disk.endpoint)
  BY LastOpened DEF PlacedOwning, Placed, Types
<1>7. \A s \in Session : PlacedOwning(Owned(s))'
  BY <1>2, <1>6 DEF PlacedOwning, Owned, NoChain, Nowhere, From
<1> QED  BY <1>2, <1>3, <1>4, <1>5, <1>7 DEF Placed

LEMMA SidecarSweptPlaced ==
  ASSUME Placed, SidecarSwept
  PROVE  Placed'
<1>1. Types /\ ServerKnows /\ OneSocket /\ Opened
  BY DEF Placed
<1>2. disk' = NoFile /\ UNCHANGED <<clientVars, serverVars>>
  BY DEF SidecarSwept
<1>3. NoFile \in File
  BY Bounds DEF NoFile, File, Key
<1>4. Types' /\ ServerKnows' /\ OneSocket' /\ Opened'
  BY <1>1, <1>2, <1>3 DEF Types, ServerKnows, OneSocket, Opened, clientVars, serverVars
<1>5. \A s \in Session : PlacedOwning(Owned(s))'
  BY <1>2 DEF Placed, PlacedOwning, Owned, NoFile, From, clientVars, serverVars
<1>6. \A s \in Session : req'[s] # Idle => PlacedRequest(Owned(s), req[s])'
  BY <1>2 DEF Placed, PlacedRequest, Owned, From, clientVars, serverVars
<1> QED  BY <1>4, <1>5, <1>6 DEF Placed

(* The server's answer, taken apart.                                       *)
Completing(s, r, output, id, context, q) ==
    /\ r = req[s] /\ r.phase = "sent" /\ connection[s] # 0 /\ connection[s] = r.on /\ WireStore(r)
    /\ output \in Output /\ id \in Reusable(r) \union NewId
    /\ context = (Rehydrated(r.on, r.previous) \o r.input) \o output
    /\ nextId' = IF id > nextId THEN id ELSE nextId
    /\ stored' = [stored EXCEPT ![id] = IF @ = <<>> THEN context ELSE @]
    /\ live' = [live EXCEPT ![r.on][id] = context]
    /\ origin' = [origin EXCEPT ![id] = IF @ = "none" THEN r.endpoint ELSE @]
    /\ req' = [req EXCEPT ![s] = q]
    /\ q \in Request /\ q.phase = "answered" /\ q.id = id /\ q.output = output
    /\ q.store = r.store /\ q.endpoint = r.endpoint /\ q.credential = r.credential
    /\ q.full = r.full /\ q.on = r.on /\ q.previous = r.previous /\ q.input = r.input
    /\ q.forceFull = r.forceFull /\ q.forceStoreFalse = r.forceStoreFalse
    /\ UNCHANGED <<current, disposed, chain, connection, socketKey, sockets, disk>>

LEMMA IdsOffered ==
  ASSUME Types, NEW r \in Request, r.on \in Socket
  PROVE  Reusable(r) \union NewId \subseteq Id
<1>1. Reusable(r) \subseteq Id
  BY Bounds DEF Reusable, Request, Id
<1>2. NewId \subseteq Id
  BY Bounds DEF NewId, Types, Id
<1> QED  BY <1>1, <1>2

LEMMA Completes ==
  ASSUME Placed, NEW s \in Session, ServerCompletes(s)
  PROVE  \E r, output, id, context, q : Completing(s, r, output, id, context, q)
<1> PICK r : r = req[s]
  OBVIOUS
<1>1. r \in Request /\ r.phase = "sent" /\ connection[s] # 0 /\ connection[s] = r.on /\ WireStore(r)
  BY Ongoing DEF ServerCompletes, Sent, Reachable
<1>2. r.on \in Socket
  BY <1>1, LastOpened, Bounds DEF Socket
<1>3. PICK output \in Output, id \in Reusable(r) \union NewId : \E context :
         /\ context = (Rehydrated(r.on, r.previous) \o r.input) \o output
         /\ nextId' = IF id > nextId THEN id ELSE nextId
         /\ stored' = [stored EXCEPT ![id] = IF @ = <<>> THEN context ELSE @]
         /\ live' = [live EXCEPT ![r.on][id] = context]
         /\ origin' = [origin EXCEPT ![id] = IF @ = "none" THEN r.endpoint ELSE @]
         /\ req' = [req EXCEPT ![s].phase = "answered", ![s].id = id, ![s].output = output]
  BY DEF ServerCompletes
<1>4. id \in Id
  BY <1>1, <1>2, IdsOffered DEF Placed
<1> PICK context :
         /\ context = (Rehydrated(r.on, r.previous) \o r.input) \o output
         /\ nextId' = IF id > nextId THEN id ELSE nextId
         /\ stored' = [stored EXCEPT ![id] = IF @ = <<>> THEN context ELSE @]
         /\ live' = [live EXCEPT ![r.on][id] = context]
         /\ origin' = [origin EXCEPT ![id] = IF @ = "none" THEN r.endpoint ELSE @]
         /\ req' = [req EXCEPT ![s].phase = "answered", ![s].id = id, ![s].output = output]
  BY <1>3
<1> PICK q : q = [r EXCEPT !.phase = "answered", !.id = id, !.output = output]
  OBVIOUS
<1>5. req' = [req EXCEPT ![s] = q]
  BY DEF Placed, Types
<1>6. q \in Request
  <2>1. id \in 0..MaxId
    BY <1>4, Bounds DEF Id
  <2> QED  BY <1>1, <2>1 DEF Request
<1>7. /\ q.phase = "answered" /\ q.id = id /\ q.output = output
      /\ q.store = r.store /\ q.endpoint = r.endpoint /\ q.credential = r.credential
      /\ q.full = r.full /\ q.on = r.on /\ q.previous = r.previous /\ q.input = r.input
      /\ q.forceFull = r.forceFull /\ q.forceStoreFalse = r.forceStoreFalse
  BY <1>1 DEF Request
<1>8. UNCHANGED <<current, disposed, chain, connection, socketKey, sockets, disk>>
  BY DEF ServerCompletes
<1>9. Completing(s, r, output, id, context, q)
  BY <1>1, <1>5, <1>6, <1>7, <1>8 DEF Completing
<1> QED  BY <1>9

(* What the server has afterwards.                                         *)
LEMMA Remembers ==
  ASSUME Placed, NEW s \in Session, NEW r, NEW output, NEW id, NEW context, NEW q,
         Completing(s, r, output, id, context, q)
  PROVE  /\ r \in Request /\ r.on \in Socket /\ id \in Id /\ context \in Seq(Item)
         /\ s = current /\ socketKey[s] = TransportKey(r)
         /\ nextId' \in 0..MaxId /\ nextId <= nextId' /\ id <= nextId'
         /\ stored' \in [Id -> Seq(Item)] /\ origin' \in [Id -> Key]
         /\ live' \in [Socket -> [Id -> Seq(Item)]]
         /\ stored'[id] = IF stored[id] = <<>> THEN context ELSE stored[id]
         /\ live'[r.on][id] = context /\ origin'[id] = r.endpoint /\ r.endpoint # "none"
         /\ \A i \in Id \ {id} : stored'[i] = stored[i] /\ origin'[i] = origin[i]
         /\ \A k \in Socket, i \in Id : k # r.on \/ i # id => live'[k][i] = live[k][i]
         /\ \A e : \A i \in 0..MaxId : From(i, e) => (i # 0 => /\ i <= nextId' /\ e # "none"
                                                           /\ origin'[i] = e)
<1>1. Types /\ ServerKnows /\ OneSocket
  BY DEF Placed
<1>2. r = req[s] /\ r.phase = "sent" /\ connection[s] # 0 /\ connection[s] = r.on
  BY DEF Completing
<1>3. r \in Request /\ PlacedRequest(Owned(s), r) /\ PlacedOwning(Owned(s))
  BY <1>2, Ongoing, LastOpened
<1>4. r.on \in Socket
  BY <1>2, LastOpened, Bounds DEF Socket
<1>5. id \in Id
  BY <1>1, <1>3, <1>4, IdsOffered DEF Completing
<1>6. context \in Seq(Item)
  <2>1. Rehydrated(r.on, r.previous) \in Seq(Item)
    <3>1. r.previous = 0 \/ r.previous \in Id
      BY <1>3, Bounds DEF Request, Id
    <3> QED  BY <1>1, <1>4, <3>1, EmptySeq DEF Rehydrated, Types
  <2>2. r.input \in Seq(Item) /\ output \in Seq(Item)
    BY <1>3, HistoryAssumption DEF Request, Completing
  <2>3. Rehydrated(r.on, r.previous) \o r.input \in Seq(Item)
    BY <2>1, <2>2, ConcatProperties
  <2> QED  BY <2>2, <2>3, ConcatProperties DEF Completing
<1>7. nextId' \in 0..MaxId /\ nextId <= nextId' /\ id <= nextId'
  BY <1>1, <1>5, Bounds DEF Completing, Types, Id
<1>8. socketKey[s] = TransportKey(r) /\ s = current
  BY <1>1, <1>2, <1>3 DEF PlacedRequest, Owned, OneSocket
<1>9. r.endpoint \in Endpoint /\ r.endpoint # "none"
  BY <1>3, EndpointAssumption DEF Request
<1>10. origin[id] = "none" \/ origin[id] = r.endpoint
  <2>1. CASE id \in NewId
    <3>1. id > nextId
      BY <1>1, <2>1 DEF NewId, Types
    <3> QED  BY <1>1, <1>5, <3>1 DEF ServerKnows
  <2>2. CASE id = r.previous
    BY <1>3, <1>5, <2>2, Bounds DEF PlacedRequest, From, Id
  <2>3. CASE live[r.on][id] # <<>>
    BY <1>2, <1>3, <1>5, <1>8, <2>3, Bounds DEF PlacedOwning, Owned, From, TransportKey, Id
  <2> QED  BY <2>1, <2>2, <2>3 DEF Completing, Reusable
<1>11. /\ stored' \in [Id -> Seq(Item)] /\ origin' \in [Id -> Key]
       /\ stored'[id] = IF stored[id] = <<>> THEN context ELSE stored[id]
       /\ origin'[id] = r.endpoint
       /\ \A i \in Id \ {id} : stored'[i] = stored[i] /\ origin'[i] = origin[i]
  BY <1>1, <1>5, <1>6, <1>9, <1>10 DEF Completing, Types, Key
<1>12. /\ live' \in [Socket -> [Id -> Seq(Item)]]
       /\ live'[r.on][id] = context
       /\ \A k \in Socket, i \in Id : k # r.on \/ i # id => live'[k][i] = live[k][i]
  BY <1>1, <1>4, <1>5, <1>6 DEF Completing, Types
<1>13. ASSUME NEW i \in 0..MaxId, NEW e, From(i, e), i # 0
       PROVE  i <= nextId' /\ e # "none" /\ origin'[i] = e
  <2>1. i \in Id /\ i <= nextId /\ e # "none" /\ origin[i] = e
    BY <1>13, Bounds DEF From, Id
  <2>2. i <= nextId'
    BY <1>1, <1>7, <2>1 DEF Types, Id
  <2> QED  BY <1>10, <1>11, <2>1, <2>2
<1> QED  BY <1>3, <1>4, <1>5, <1>6, <1>7, <1>8, <1>9, <1>11, <1>12, <1>13

LEMMA ServerCompletesPlaced ==
  ASSUME Placed, NEW s \in Session, ServerCompletes(s)
  PROVE  Placed'
<1> PICK r, output, id, context, q : Completing(s, r, output, id, context, q)
  BY Completes
<1>1. Types /\ ServerKnows /\ OneSocket /\ Opened
  BY DEF Placed
<1>0. /\ r.on \in Socket /\ id \in Id /\ s = current /\ socketKey[s] = TransportKey(r)
      /\ nextId' \in 0..MaxId /\ nextId <= nextId' /\ id <= nextId'
      /\ origin'[id] = r.endpoint /\ r.endpoint # "none"
      /\ \A i \in Id \ {id} : stored'[i] = stored[i] /\ origin'[i] = origin[i]
      /\ \A k \in Socket, i \in Id : k # r.on \/ i # id => live'[k][i] = live[k][i]
  BY Remembers
<1> DEFINE Still(i, e) == i # 0 => i <= nextId' /\ e # "none" /\ origin'[i] = e
<1>2. \A e : \A i \in 0..MaxId : From(i, e) => Still(i, e)
  BY Remembers
<1>3. /\ UNCHANGED <<current, disposed, chain, connection, socketKey, sockets, disk>>
      /\ req'[s] = q /\ \A t \in Session \ {s} : req'[t] = req[t]
      /\ q \in Request /\ req' \in [Session -> Request \union {Idle}]
  BY <1>1 DEF Completing, Types
<1>4. Types'
  BY <1>1, <1>3, Remembers DEF Types
<1>5. ServerKnows'
  <2>1. ASSUME NEW i \in Id, i > nextId'  PROVE stored'[i] = <<>> /\ origin'[i] = "none"
    <3>1. i > nextId /\ i # id
      BY <1>0, <1>1, <2>1, Bounds DEF Types, Id
    <3> QED  BY <1>0, <1>1, <3>1 DEF ServerKnows
  <2>2. ASSUME NEW k \in Socket, NEW i \in Id, i > nextId' \/ k > sockets'
        PROVE  live'[k][i] = <<>>
    <3>1. i > nextId' => i > nextId /\ i # id
      BY <1>0, <1>1, Bounds DEF Types, Id
    <3>2. k > sockets' => k > sockets /\ k # r.on
      <4>1. r.on <= sockets /\ sockets \in Nat /\ sockets' = sockets
        BY <1>1, <1>3, LastOpened, Bounds DEF Completing, Types
      <4> QED  BY <1>0, <4>1, Bounds DEF Socket
    <3>3. live[k][i] = <<>> /\ (k # r.on \/ i # id)
      BY <1>1, <2>2, <3>1, <3>2 DEF ServerKnows
    <3> QED  BY <1>0, <3>3
  <2> QED  BY <2>1, <2>2 DEF ServerKnows
<1>6. OneSocket' /\ Opened'
  BY <1>1, <1>3, Remembers DEF OneSocket, Opened, Completing, Idle
<1>7. \A t \in Session : PlacedOwning(Owned(t))'
  <2> SUFFICES ASSUME NEW t \in Session  PROVE PlacedOwning(Owned(t))'
    OBVIOUS
  <2>1. PlacedOwning(Owned(t)) /\ Owned(t) \in Owning
    BY LastOpened
  <2>2. /\ Still(chain[t].durable.id, chain[t].key) /\ Still(chain[t].head.id, chain[t].key)
        /\ Still(disk.id, disk.endpoint) /\ (connection[t] = 0 <=> socketKey[t] = NoKey)
    <3>1. /\ chain[t].durable.id \in 0..MaxId /\ chain[t].head.id \in 0..MaxId
          /\ disk.id \in 0..MaxId
      BY <1>1 DEF Types, Chain, Position, File
    <3> QED  BY <1>2, <2>1, <3>1 DEF PlacedOwning, Owned
  <2>3. ASSUME connection[t] # 0, NEW i \in Id, live'[connection[t]][i] # <<>>
        PROVE  Still(i, socketKey[t].endpoint)
    <3>1. t = s /\ connection[t] = r.on
      BY <1>0, <1>1, <2>3 DEF OneSocket, Completing
    <3>2. CASE i = id
      BY <1>0, <3>1, <3>2 DEF TransportKey
    <3>3. CASE i # id
      <4>1. live[connection[t]][i] # <<>>
        BY <1>0, <2>3, <3>1, <3>3
      <4>2. From(i, socketKey[t].endpoint) /\ i \in 0..MaxId
        BY <2>1, <2>3, <4>1, Bounds DEF PlacedOwning, Owned, Id
      <4> QED  BY <1>2, <4>2
    <3> QED  BY <3>2, <3>3
  <2> QED  BY <1>3, <2>2, <2>3 DEF PlacedOwning, Owned, From
<1>8. \A t \in Session : req'[t] # Idle => PlacedRequest(Owned(t), req[t])'
  <2> SUFFICES ASSUME NEW t \in Session, req'[t] # Idle  PROVE PlacedRequest(Owned(t), req[t])'
    OBVIOUS
  <2>1. CASE t = s
    <3>1. PlacedRequest(Owned(s), r) /\ r \in Request
      BY Ongoing DEF Completing
    <3>2. Still(q.previous, q.endpoint)
      BY <1>2, <3>1 DEF PlacedRequest, Completing, Request
    <3>3. WireStore(q) /\ q.id # 0 /\ Still(q.id, q.endpoint) /\ TransportKey(q) = TransportKey(r)
      BY <1>0, Bounds DEF Completing, WireStore, TransportKey, Id
    <3>4. /\ connection[s] \in {0, q.on}
          /\ connection[s] # 0 => socketKey[s] = TransportKey(q)
          /\ chain[s].durable.id # 0 \/ chain[s].head.id # 0 => chain[s].key = q.endpoint
      BY <3>1, <3>3 DEF PlacedRequest, Completing, Owned
    <3> QED  BY <1>3, <2>1, <3>2, <3>3, <3>4 DEF PlacedRequest, Owned, From
  <2>2. CASE t # s
    <3>1. req'[t] = req[t] /\ req[t] # Idle /\ req[t] \in Request
      BY <1>1, <1>3, <2>2 DEF Types
    <3>2. PlacedRequest(Owned(t), req[t])
      BY <3>1 DEF Placed
    <3>3. Still(req[t].previous, req[t].endpoint)
      BY <1>2, <3>1, <3>2 DEF PlacedRequest, Request
    <3>4. req[t].phase = "answered" => Still(req[t].id, req[t].endpoint)
      BY <1>2, <3>1, <3>2 DEF PlacedRequest, Request
    <3> QED  BY <1>3, <3>1, <3>2, <3>3, <3>4 DEF PlacedRequest, Owned, From
  <2> QED  BY <2>1, <2>2
<1> QED  BY <1>4, <1>5, <1>6, <1>7, <1>8 DEF Placed
--------------------------------------------------------------------------------
LEMMA InitPlaced == Init => Placed
<1> SUFFICES ASSUME Init  PROVE Placed
  OBVIOUS
<1> USE DEF Init
<1>1. NoChain \in Chain /\ NothingLive \in [Id -> Seq(Item)] /\ NoFile \in File /\ <<>> \in Seq(Item)
  BY Bounds, EmptySeq DEF NoChain, Chain, Nowhere, Position, Key, NothingLive, NoFile, File
<1>2. Types
  BY <1>1, Bounds DEF Types, Session, Key
<1>3. ServerKnows /\ OneSocket /\ Opened
  BY Bounds DEF ServerKnows, OneSocket, Opened, NothingLive, NoChain
<1>4. \A s \in Session : PlacedOwning(Owned(s)) /\ req[s] = Idle
  BY DEF PlacedOwning, Owned, NoChain, Nowhere, NoFile, From
<1> QED  BY <1>2, <1>3, <1>4 DEF Placed

LEMMA NextPlaced == Placed /\ [Next]_vars => Placed'
<1> SUFFICES ASSUME Placed, [Next]_vars  PROVE Placed'
  OBVIOUS
<1>1. CASE Next
  BY <1>1, BeginPlaced, ServerCompletesPlaced, ObservePlaced, CompletesUnstoredPlaced,
     FailsPlaced, RejectedPlaced, TooLargePlaced, ReplayPlaced, SocketClosesPlaced,
     DisposePlaced, CrashPlaced, SidecarSweptPlaced DEF Next
<1>2. CASE UNCHANGED vars
  <2>1. UNCHANGED <<current, disposed, chain, connection, socketKey, req, sockets, disk,
                    nextId, stored, live, origin>>
    BY <1>2 DEF vars, clientVars, serverVars
  <2>2. Types' /\ ServerKnows' /\ OneSocket' /\ Opened'
    BY <2>1 DEF Placed, Types, ServerKnows, OneSocket, Opened
  <2>3. \A s \in Session : PlacedOwning(Owned(s))'
    BY <2>1 DEF Placed, PlacedOwning, Owned, From
  <2>4. \A s \in Session : req'[s] # Idle => PlacedRequest(Owned(s), req[s])'
    BY <2>1 DEF Placed, PlacedRequest, Owned, From
  <2> QED  BY <2>2, <2>3, <2>4 DEF Placed
<1> QED  BY <1>1, <1>2

LEMMA AlwaysPlaced == Spec => []Placed
BY InitPlaced, NextPlaced, PTL DEF Spec

(* Every session, position, file and socket is what its name says.         *)
THEOREM TypeCorrect == Spec => []TypeOK
<1>1. ASSUME Placed  PROVE TypeOK
  <2>1. Types
    BY <1>1 DEF Placed
  <2>2. ASSUME NEW s \in Session  PROVE socketKey[s] = NoKey <=> connection[s] = 0
    BY <1>1 DEF Placed, PlacedOwning, Owned
  <2>3. ASSUME NEW s \in Session
        PROVE  /\ chain[s].durable \in Position /\ chain[s].head \in Position
               /\ chain[s].headOn \in 0..MaxSocket /\ chain[s].last \in 0..MaxSocket
               /\ chain[s].key \in Endpoint \union {"none"}
    BY <2>1 DEF Types, Chain, Key
  <2>4. disk.id \in 0..MaxId
    BY <2>1 DEF Types, File
  <2> QED  BY <2>1, <2>2, <2>3, <2>4 DEF Types, TypeOK
<1> QED  BY <1>1, AlwaysPlaced, PTL

(* A stored response is only referred to from the endpoint it was stored   *)
(* for, even when the server reuses IDs as it likes and unlinking fails.   *)
THEOREM EndpointCorrect == Spec => []NoReferenceCrossesEndpoints
<1>1. ASSUME Placed, NEW s \in Session, Sent(s), req[s].previous # 0
      PROVE  origin[req[s].previous] = req[s].endpoint
  BY <1>1, Ongoing DEF Sent, PlacedRequest, From
<1>2. Placed => NoReferenceCrossesEndpoints
  BY <1>1 DEF NoReferenceCrossesEndpoints
<1> QED  BY <1>2, AlwaysPlaced, PTL
--------------------------------------------------------------------------------
(* From here on: what is cleared is truthful, so is what is closed.        *)
LEMMA ClearTruthful ==
  ASSUME NEW m \in Owning
  PROVE  LET n == ClearContinuation(m, TRUE)
         IN  TruthfulOwning(n) /\ TruthfulPosition(n) /\ n.c.durable.id = 0 /\ n.c.head.id = 0
                 /\ n.file.id = 0
<1> PICK n : n = ClearContinuation(m, TRUE)
  OBVIOUS
<1>1. n.c = NoChain /\ n.file = NoFile
  BY Cleared
<1>2. n.c.durable.id = 0 /\ n.c.head.id = 0 /\ n.c.headOn = 0 /\ n.c.last = 0
  BY <1>1, Nothing
<1>3. n.file.id = 0
  BY <1>1, Nothing
<1> QED
  BY <1>2, <1>3 DEF TruthfulOwning, TruthfulChain, TruthfulSocket, TruthfulPosition, Kept

LEMMA CloseTruthful ==
  ASSUME NEW m \in Owning, TruthfulOwning(m)
  PROVE  LET n == CloseConnection(m)
         IN  TruthfulOwning(n) /\ TruthfulPosition(n)
<1> PICK n : n = CloseConnection(m)
  OBVIOUS
<1>1. /\ n.conn = 0 /\ n.file = m.file
      /\ n.c.durable = m.c.durable /\ n.c.last = m.c.last
      /\ \/ n.c.headOn = 0 /\ n.c.head = Nowhere
         \/ n.c.headOn = m.c.headOn /\ n.c.head = m.c.head
  BY Closed
<1>2. TruthfulChain(n.c)
  BY <1>1 DEF TruthfulOwning, TruthfulChain, Nowhere
<1> QED  BY <1>1, <1>2 DEF TruthfulOwning, TruthfulSocket, TruthfulPosition

LEMMA RestoreTruthful ==
  ASSUME NEW m \in Owning, TruthfulOwning(m), TruthfulPosition(m), NEW endpoint \in Endpoint
  PROVE  LET n == RestoreDurable(m, endpoint, TRUE)
         IN  TruthfulOwning(n) /\ TruthfulPosition(n)
<1> PICK n : n = RestoreDurable(m, endpoint, TRUE)
  OBVIOUS
<1>1. CASE n = m
  BY <1>1
<1>2. CASE /\ m.c.durable.id = 0 /\ m.c.head.id = 0
           /\ m.file.id # 0 /\ m.file.endpoint = endpoint /\ n.file = m.file
           /\ n.c = [durable |-> [id |-> m.file.id, covered |-> m.file.covered],
                     headOn |-> m.c.headOn, head |-> m.c.head,
                     last |-> m.c.last, key |-> endpoint]
  <2>1. /\ n.c.durable.id = m.file.id /\ n.c.durable.covered = m.file.covered
        /\ n.c.headOn = m.c.headOn /\ n.c.head = m.c.head /\ n.c.last = m.c.last
    <3> PICK d : d = [id |-> m.file.id, covered |-> m.file.covered]
      OBVIOUS
    <3> PICK c : c = [durable |-> d, headOn |-> m.c.headOn, head |-> m.c.head,
                      last |-> m.c.last, key |-> endpoint]
      OBVIOUS
    <3>1. n.c = c
      BY <1>2
    <3>2. /\ c.durable = d /\ c.headOn = m.c.headOn /\ c.head = m.c.head /\ c.last = m.c.last
          /\ d.id = m.file.id /\ d.covered = m.file.covered
      OBVIOUS
    <3> QED  BY <3>1, <3>2
  <2>2. n.conn = m.conn /\ m.c.headOn = 0
    BY <1>2, Restored DEF TruthfulOwning, TruthfulChain
  <2>3. TruthfulChain(n.c) /\ TruthfulSocket(n) /\ Kept(n.file.id, n.file.covered)
    BY <1>2, <2>1, <2>2 DEF TruthfulOwning, TruthfulChain, TruthfulSocket, Kept
  <2>4. TruthfulPosition(n)
    BY <1>2, <2>1, <2>2 DEF TruthfulOwning, TruthfulSocket, TruthfulPosition
  <2> QED  BY <2>3, <2>4 DEF TruthfulOwning
<1>3. CASE n.c = m.c /\ n.file = NoFile
  <2>1. n.conn = m.conn
    BY Restored
  <2>2. n.file.id = 0
    BY <1>3, Nothing
  <2> QED
    BY <1>3, <2>1, <2>2 DEF TruthfulOwning, TruthfulSocket, TruthfulPosition, Kept
<1>4. n = m \/ (/\ m.c.durable.id = 0 /\ m.c.head.id = 0
                /\ m.file.id # 0 /\ m.file.endpoint = endpoint /\ n.file = m.file
                /\ n.c = [durable |-> [id |-> m.file.id, covered |-> m.file.covered],
                          headOn |-> m.c.headOn, head |-> m.c.head,
                          last |-> m.c.last, key |-> endpoint])
            \/ (n.c = m.c /\ n.file = NoFile)
  BY Restored, Zenon
<1> QED  BY <1>1, <1>2, <1>3, <1>4

(* The IDs that session s has to do with.                                  *)
Mine(s, i) ==
    \/ i \in {0, disk.id, chain[s].durable.id, chain[s].head.id}
    \/ req[s].phase = "sent" /\ i = req[s].previous
    \/ req[s].phase = "answered" /\ i = req[s].id

MineOnly(s, m) ==
    /\ Mine(s, m.c.durable.id) /\ Mine(s, m.c.head.id)
    /\ m.file = disk \/ m.file.id = 0

LEMMA RestoreMine ==
  ASSUME Placed, NEW s \in Session, NEW endpoint \in Endpoint, NEW u \in BOOLEAN
  PROVE  MineOnly(s, RestoreDurable(Owned(s), endpoint, u))
<1> PICK m : m = Owned(s)
  OBVIOUS
<1> PICK n : n = RestoreDurable(m, endpoint, u)
  OBVIOUS
<1>1. m \in Owning /\ m.c = chain[s] /\ m.file = disk
  BY LastOpened
<1>2. CASE n = m
  BY <1>1, <1>2 DEF MineOnly, Mine
<1>3. CASE /\ n.file = m.file
           /\ n.c = [durable |-> [id |-> m.file.id, covered |-> m.file.covered],
                     headOn |-> m.c.headOn, head |-> m.c.head,
                     last |-> m.c.last, key |-> endpoint]
  <2>1. n.c.durable.id = disk.id /\ n.c.head = m.c.head
    BY <1>1, <1>3
  <2> QED  BY <1>1, <1>3, <2>1 DEF MineOnly, Mine
<1>4. CASE n.c = m.c /\ n.file = NoFile
  BY <1>1, <1>4 DEF MineOnly, Mine, NoFile
<1>5. n = m \/ (/\ n.file = m.file
                /\ n.c = [durable |-> [id |-> m.file.id, covered |-> m.file.covered],
                          headOn |-> m.c.headOn, head |-> m.c.head,
                          last |-> m.c.last, key |-> endpoint])
            \/ (n.c = m.c /\ n.file = NoFile)
  BY <1>1, Restored, Zenon
<1> QED  BY <1>2, <1>3, <1>4, <1>5

(* What a request may start from.                                          *)
Sound(s, m) ==
    m \in Owning /\ TruthfulOwning(m) /\ TruthfulPosition(m) /\ MineOnly(s, m)

LEMMA ClearedSound ==
  ASSUME NEW s, NEW m \in Owning
  PROVE  LET n == ClearContinuation(m, TRUE)
         IN  Sound(s, n) /\ n.c.durable.id = 0
<1> PICK n : n = ClearContinuation(m, TRUE)
  OBVIOUS
<1>1. /\ n \in Owning /\ TruthfulOwning(n) /\ TruthfulPosition(n) /\ n.c.durable.id = 0
      /\ n.c.head.id = 0 /\ n.file.id = 0
  BY ClearTruthful, Cleared
<1> QED  BY <1>1 DEF Sound, MineOnly, Mine

LEMMA ClosedSound ==
  ASSUME NEW s, NEW m \in Owning, TruthfulOwning(m), MineOnly(s, m)
  PROVE  LET n == CloseConnection(m)
         IN  Sound(s, n) /\ n.c.durable = m.c.durable
<1> PICK n : n = CloseConnection(m)
  OBVIOUS
<1>1. n \in Owning /\ TruthfulOwning(n) /\ TruthfulPosition(n)
  BY Closed, CloseTruthful
<1>2. /\ n.c.durable = m.c.durable /\ n.file = m.file
      /\ n.c.head = m.c.head \/ n.c.head = Nowhere
  BY Closed
<1>3. MineOnly(s, n)
  BY <1>2 DEF MineOnly, Mine, Nowhere
<1> QED  BY <1>1, <1>2, <1>3 DEF Sound

LEMMA SetupTruthful ==
  ASSUME Placed, NEW s \in Session, TruthfulOwning(Owned(s)), TruthfulPosition(Owned(s)),
         NEW r, r.endpoint \in Endpoint, r.store \in BOOLEAN
  PROVE  LET n == Setup(Owned(s), r, TRUE)
         IN  Sound(s, n) /\ (~r.store => n.c.durable.id = 0)
<1> PICK m : m = Owned(s)
  OBVIOUS
<1>0. m \in Owning /\ TruthfulOwning(m) /\ TruthfulPosition(m)
  BY LastOpened
<1> PICK a, b : SetupOf(m, r, TRUE, a, b)
  BY SetupSteps
<1> DEFINE Fine(n) == Sound(s, n) /\ (~r.store => n.c.durable.id = 0)
<1>1. Fine(a)
  <2>1. CASE r.store
    <3>1. a = RestoreDurable(m, r.endpoint, TRUE)
      BY <2>1 DEF SetupOf
    <3>2. a \in Owning
      BY <1>0, <3>1, Restored
    <3> QED  BY <1>0, <2>1, <3>1, <3>2, RestoreTruthful, RestoreMine DEF Sound
  <2>2. CASE ~r.store
    BY <1>0, <2>2, ClearedSound DEF SetupOf
  <2> QED  BY <2>1, <2>2
<1>2. Fine(b)
  BY <1>1, ClearedSound DEF SetupOf, Sound
<1>3. Fine(CloseConnection(b))
  BY <1>2, ClosedSound DEF Sound
<1> QED  BY <1>2, <1>3 DEF SetupOf

(* A step of s that leaves the server's lasting memory alone, continues    *)
(* from what s has, and writes at most the ID it kept to itself.           *)
LEMMA StepTruthful ==
  ASSUME Placed, Truthful, NEW s \in Session, NEW m \in Owning, NEW q \in Request \union {Idle},
         Own(s, m), req' = [req EXCEPT ![s] = q], UNCHANGED <<nextId, stored, origin>>,
         TruthfulOwning(m), TruthfulRequest(m, q), disposed'[s] => m.conn = 0,
         \/ m.conn \in {0, connection[s]} /\ sockets' = sockets
         \/ m.conn = sockets + 1 /\ sockets' = sockets + 1,
         Mine(s, m.c.durable.id), Mine(s, m.c.head.id),
         m.file = disk \/ m.file.id = 0 \/ (Secret(s) /\ m.file.id = req[s].id),
         q # Idle => \/ q.on = req[s].on /\ req[s] # Idle
                     \/ q.on = m.conn /\ m.conn # 0,
         q.phase = "sent" => Mine(s, q.previous),
         q.phase = "answered" => /\ q = req[s] /\ m.file = disk
                                 /\ m.c.durable = chain[s].durable /\ m.c.last = chain[s].last
  PROVE  Truthful'
<1>1. Types /\ ServerKnows /\ OneSocket /\ Opened
  BY DEF Placed
<1>2. req'[s] = q /\ \A t \in Session \ {s} : req'[t] = req[t]
  BY <1>1 DEF Types
<1>3. disk' = m.file /\ connection'[s] = m.conn
  BY <1>1, Owns
<1>4. chain'[s] = m.c \/ (chain'[s] = NoChain /\ m.conn = 0 /\ q.phase = "idle")
  BY <1>1, <1>2, Owns
<1>5. \A t \in Session \ {s} : chain'[t] = chain[t] /\ connection'[t] = connection[t]
  BY <1>1, Owns
<1>6. \A k \in Socket : \/ live'[k] = live[k]
                        \/ live'[k] = NothingLive /\ k = connection[s] /\ k # m.conn
  BY <1>1, Owns
<1>7. \A t \in Session \ {s} : connection[t] # 0 =>
         connection[t] \in Socket /\ live'[connection[t]] = live[connection[t]] /\ connection[s] = 0
  <2> SUFFICES ASSUME NEW t \in Session \ {s}, connection[t] # 0
               PROVE  connection[t] \in Socket /\ live'[connection[t]] = live[connection[t]]
                         /\ connection[s] = 0
    OBVIOUS
  <2>1. connection[t] \in Socket
    BY <1>1, Bounds DEF Types, Socket
  <2>2. connection[s] = 0
    BY <1>1 DEF OneSocket
  <2> QED  BY <1>6, <2>1, <2>2
<1>8. m.conn # 0 => m.conn \in Socket /\ live'[m.conn] = live[m.conn]
  <2>1. m.conn # 0 => m.conn \in Socket
    BY Bounds DEF Owning, Socket
  <2> QED  BY <1>6, <2>1
<1>9. SocketsApart'
  <2>1. \A t \in Session : connection[t] \in 0..MaxSocket /\ connection[t] <= sockets
                           /\ (req[t] # Idle => req[t].on \in 1..sockets)
    BY <1>1 DEF Types, Opened
  <2>2. sockets \in Nat
    BY <1>1, Bounds DEF Types
  <2>3. ASSUME NEW t \in Session \ {s}, q # Idle
        PROVE  connection[t] # q.on /\ (req[t] # Idle => q.on # req[t].on)
    <3>1. CASE q.on = req[s].on /\ req[s] # Idle
      BY <2>3, <3>1 DEF Truthful, SocketsApart
    <3>2. CASE q.on = m.conn /\ m.conn # 0 /\ m.conn = connection[s]
      BY <2>3, <3>2, <1>7 DEF Truthful, SocketsApart
    <3>3. CASE q.on = m.conn /\ m.conn = sockets + 1
      BY <2>1, <2>2, <3>3
    <3> QED  BY <2>3, <3>1, <3>2, <3>3
  <2>4. ASSUME NEW t \in Session \ {s}, req[t] # Idle
        PROVE  m.conn # req[t].on
    <3>1. connection[s] # req[t].on
      BY <2>4 DEF Truthful, SocketsApart
    <3> QED  BY <2>1, <2>2, <2>4, <3>1
  <2>5. ASSUME NEW t \in Session, NEW v \in Session, t # v, req'[t] # Idle
        PROVE  connection'[v] # req'[t].on /\ (req'[v] # Idle => req'[t].on # req'[v].on)
    <3>1. CASE t = s
      BY <1>2, <1>5, <2>3, <2>5, <3>1
    <3>2. CASE v = s
      BY <1>2, <1>3, <2>3, <2>4, <2>5, <3>2
    <3>3. CASE t # s /\ v # s
      BY <1>2, <1>5, <2>5, <3>3 DEF Truthful, SocketsApart
    <3> QED  BY <3>1, <3>2, <3>3
  <2> QED  BY <2>5 DEF SocketsApart
<1>10. \A t \in Session : TruthfulOwning(Owned(t))'
  <2> SUFFICES ASSUME NEW t \in Session  PROVE TruthfulOwning(Owned(t))'
    OBVIOUS
  <2>1. Kept(disk.id, disk.covered)'
    BY <1>3 DEF TruthfulOwning, Kept
  <2>2. CASE t = s
    <3>1. TruthfulChain(chain[s])'
      <4>1. CASE chain'[s] = m.c
        BY <4>1 DEF TruthfulOwning, TruthfulChain, Kept
      <4>2. CASE chain'[s] = NoChain
        BY <4>2, Nothing DEF TruthfulChain, Kept
      <4> QED  BY <1>4, <4>1, <4>2
    <3>2. TruthfulSocket(Owned(s))'
      <4>1. CASE m.conn = 0
        BY <1>3, <4>1 DEF TruthfulSocket, Owned
      <4>2. CASE m.conn # 0
        <5>1. chain'[s] = m.c /\ live'[m.conn] = live[m.conn]
          BY <1>4, <1>8, <4>2
        <5> QED  BY <1>3, <5>1 DEF TruthfulOwning, TruthfulSocket, Owned
      <4> QED  BY <4>1, <4>2
    <3> QED  BY <2>1, <2>2, <3>1, <3>2 DEF TruthfulOwning, Owned
  <2>3. CASE t # s
    <3>1. TruthfulOwning(Owned(t))
      BY DEF Truthful
    <3>2. TruthfulChain(chain[t])'
      BY <1>5, <2>3, <3>1 DEF TruthfulOwning, TruthfulChain, Kept, Owned
    <3>3. ASSUME connection[t] # 0
          PROVE  /\ chain[t].last = connection[t] => chain[t].headOn = connection[t]
                 /\ chain[t].durable.id = 0 /\ m.file.id # 0
                      => live'[connection[t]][m.file.id] = <<>>
      <4>1. chain[t].last = connection[t] => chain[t].headOn = connection[t]
        BY <3>1, <3>3 DEF TruthfulOwning, TruthfulSocket, Owned
      <4>2. CASE m.file = disk
        BY <1>7, <2>3, <3>1, <3>3, <4>2 DEF TruthfulOwning, TruthfulSocket, Owned
      <4>3. CASE Secret(s) /\ m.file.id = req[s].id
        <5>1. SecretKept(s, req[s].id) /\ connection[t] # req[s].on
          BY <2>3, <4>3 DEF Truthful, SocketsApart, Secret, Idle
        <5> QED  BY <1>7, <2>3, <3>3, <4>1, <4>3, <5>1 DEF SecretKept
      <4> QED  BY <4>1, <4>2, <4>3
    <3>4. TruthfulSocket(Owned(t))'
      BY <1>3, <1>5, <2>3, <3>3 DEF TruthfulSocket, Owned
    <3> QED  BY <2>1, <3>2, <3>4 DEF TruthfulOwning, Owned
  <2> QED  BY <2>2, <2>3
<1>11. \A t \in Session : TruthfulRequest(Owned(t), req[t])'
  <2> SUFFICES ASSUME NEW t \in Session  PROVE TruthfulRequest(Owned(t), req[t])'
    OBVIOUS
  <2>1. CASE t = s
    <3>1. CASE m.conn = 0 /\ q.phase = "idle"
      BY <1>2, <1>3, <2>1, <3>1 DEF TruthfulRequest, TruthfulPosition, Owned
    <3>2. CASE ~(m.conn = 0 /\ q.phase = "idle")
      <4>1. chain'[s] = m.c
        BY <1>4, <3>2
      <4>2. TruthfulPosition(m) => TruthfulPosition(Owned(s))'
        BY <1>3, <1>8, <4>1 DEF TruthfulPosition, Owned
      <4>3. TruthfulSent(m, q) => TruthfulSent(Owned(s), req[s])'
        <5>1. Basis(Owned(s))' = Basis(m)
          BY <1>3, <4>1 DEF Basis, Owned
        <5> QED  BY <1>2, <1>3, <4>1, <4>2, <5>1 DEF TruthfulSent, Owned
      <4>4. TruthfulAnswered(m, q) => TruthfulAnswered(Owned(s), req[s])'
        BY <1>2, <1>3, <1>8, <4>1 DEF TruthfulAnswered, Owned
      <4> QED  BY <1>2, <2>1, <4>2, <4>3, <4>4 DEF TruthfulRequest
    <3> QED  BY <3>1, <3>2
  <2>2. CASE t # s
    <3>1. /\ chain'[t] = chain[t] /\ connection'[t] = connection[t] /\ req'[t] = req[t]
          /\ connection[t] # 0 => live'[connection[t]] = live[connection[t]]
      BY <1>2, <1>5, <1>7, <2>2
    <3>2. TruthfulRequest(Owned(t), req[t])
      BY DEF Truthful
    <3>3. TruthfulPosition(Owned(t)) => TruthfulPosition(Owned(t))'
      BY <3>1 DEF TruthfulPosition, Owned
    <3>4. TruthfulSent(Owned(t), req[t]) => TruthfulSent(Owned(t), req[t])'
      <4>1. Basis(Owned(t))' = Basis(Owned(t))
        BY <3>1 DEF Basis, Owned
      <4> QED  BY <3>1, <3>3, <4>1 DEF TruthfulSent, Owned
    <3>5. TruthfulAnswered(Owned(t), req[t]) => TruthfulAnswered(Owned(t), req[t])'
      BY <3>1 DEF TruthfulAnswered, Owned
    <3> QED  BY <3>1, <3>2, <3>3, <3>4, <3>5 DEF TruthfulRequest
  <2> QED  BY <2>1, <2>2
<1>12. ASSUME NEW t \in Session, Secret(t)'  PROVE SecretKept(t, req[t].id)'
  <2>1. Secret(t) /\ req'[t] = req[t]
    <3>1. CASE t = s
      <4>1. q.phase = "answered" /\ DurableAdvances(chain'[s], q, q.id)
        BY <1>2, <1>12, <3>1 DEF Secret
      <4>2. chain'[s] = m.c
        BY <1>4, <4>1
      <4> QED  BY <1>2, <3>1, <4>1, <4>2 DEF Secret, DurableAdvances
    <3>2. CASE t # s
      BY <1>2, <1>5, <1>12, <3>2 DEF Secret
    <3> QED  BY <3>1, <3>2
  <2> PICK i : i = req[t].id
    OBVIOUS
  <2>2. SecretKept(t, i)
    BY <2>1 DEF Truthful
  <2>3. i # 0
    BY <2>1, Ongoing DEF Secret, PlacedRequest
  <2>4. ASSUME t # s, NEW j, Mine(s, j)  PROVE j # i
    BY <2>2, <2>3, <2>4 DEF SecretKept, Mine
  <2>5. disk'.id # i
    <3>1. CASE t = s
      BY <1>2, <1>3, <2>1, <2>2, <3>1 DEF Secret, SecretKept
    <3>2. CASE t # s
      BY <1>3, <2>2, <2>3, <2>4, <3>2 DEF SecretKept, Mine, Secret
    <3> QED  BY <3>1, <3>2
  <2>6. \A k \in Socket : k # req[t].on => live'[k][i] = <<>>
    <3>1. i \in Id
      BY <2>1, <2>3, Ongoing, Bounds DEF Secret, Request, Id
    <3> QED  BY <1>6, <2>2, <3>1 DEF SecretKept, NothingLive
  <2>7. ASSUME NEW v \in Session \ {t}
        PROVE  /\ chain'[v].durable.id # i /\ chain'[v].head.id # i
               /\ req'[v].phase = "sent" => req'[v].previous # i
               /\ req'[v].phase = "answered" => req'[v].id # i
    <3>1. CASE v = s
      <4>1. chain'[s].durable.id # i /\ chain'[s].head.id # i
        BY <1>4, <2>3, <2>4, <3>1, Nothing
      <4>2. q.phase = "sent" => q.previous # i
        BY <2>4, <3>1
      <4>3. q.phase = "answered" => q.id # i
        BY <2>2, <3>1 DEF SecretKept
      <4> QED  BY <1>2, <3>1, <4>1, <4>2, <4>3
    <3>2. CASE v # s
      BY <1>2, <1>5, <2>2, <3>2 DEF SecretKept
    <3> QED  BY <3>1, <3>2
  <2>8. req'[t].id = i /\ req'[t].on = req[t].on
    BY <2>1
  <2> QED  BY <2>5, <2>6, <2>7, <2>8 DEF SecretKept
<1> QED  BY <1>9, <1>10, <1>11, <1>12 DEF Truthful

LEMMA InputsAreWhole ==
  ASSUME NEW r \in Request
  PROVE  /\ r.full \in Seq(Item) /\ r.full # <<>> /\ r.output \in Seq(Item)
         /\ r.full \o r.output \in Seq(Item) /\ r.full \o r.output # <<>>
<1>1. r.full \in Seq(Item) /\ r.full # <<>> /\ r.output \in Seq(Item)
  BY HistoryAssumption, EmptySeq DEF Request
<1> QED  BY <1>1, ConcatProperties, ConcatEqualIffEmpty

(* A turn of the loop in the current session.                              *)
LEMMA SendTruthful ==
  ASSUME Placed, Truthful, NEW s \in Session, s = current, NEW m \in Owning, NEW r \in Request,
         r.phase = "sent", Ready(m, r), m.conn \in {0, connection[s]}, m.c.last <= sockets,
         Sound(s, m),
         ~WireStore(r) \/ r.forceFull => m.c.durable.id = 0,
         SendAttempt(s, m, r, TRUE)
  PROVE  Truthful'
<1>0. TruthfulOwning(m) /\ TruthfulPosition(m) /\ MineOnly(s, m)
  BY DEF Sound
<1>1. Types /\ ServerKnows /\ OneSocket /\ Opened
  BY DEF Placed
<1> PICK socket, from, intact, n, q : Sending(s, m, r, TRUE, socket, from, intact, n, q)
  BY <1>1, Sends
<1>2. /\ n \in Owning /\ q \in Request /\ Own(s, n) /\ req' = [req EXCEPT ![s] = q]
      /\ UNCHANGED <<current, disposed, nextId, stored, origin>>
      /\ n.conn = socket /\ socket \in Socket /\ intact \in BOOLEAN
      /\ q.phase = "sent" /\ q.on = socket
  BY DEF Sending
<1>3. sockets \in Nat /\ connection[s] \in 0..MaxSocket /\ connection[s] <= sockets
  BY <1>1, Bounds DEF Types, Opened
<1>4. \/ m.conn # 0 /\ socket = m.conn /\ sockets' = sockets
      \/ m.conn = 0 /\ socket = sockets + 1 /\ sockets' = sockets + 1
  BY DEF Sending
<1> DEFINE reset == WireStore(r) /\ from.id # 0 /\ ~intact
<1>5. IF reset THEN n.c = NoChain /\ n.file = NoFile ELSE n.c = m.c /\ n.file = m.file
  BY DEF Sending
<1>6. m.conn = 0 => \A i \in Id : live[socket][i] = <<>>
  BY <1>1, <1>2, <1>3, <1>4 DEF ServerKnows
<1>7. TruthfulOwning(n)
  <2>1. TruthfulChain(n.c) /\ Kept(n.file.id, n.file.covered)
    BY <1>0, <1>5, Nothing DEF TruthfulOwning, TruthfulChain, Kept
  <2>2. n.c.last = socket => n.c.headOn = socket
    <3>1. CASE reset
      BY <1>2, <1>5, <3>1, Nothing DEF Socket
    <3>2. CASE ~reset /\ m.conn # 0
      BY <1>0, <1>4, <1>5, <3>2 DEF TruthfulOwning, TruthfulSocket
    <3>3. CASE ~reset /\ m.conn = 0
      BY <1>3, <1>4, <1>5, <3>3, Bounds DEF Owning, Chain
    <3> QED  BY <3>1, <3>2, <3>3
  <2>3. n.c.durable.id = 0 /\ n.file.id # 0 => live[socket][n.file.id] = <<>>
    <3>1. CASE reset
      BY <1>5, <3>1, Nothing
    <3>2. CASE ~reset /\ m.conn # 0
      BY <1>0, <1>4, <1>5, <3>2 DEF TruthfulOwning, TruthfulSocket
    <3>3. CASE ~reset /\ m.conn = 0
      <4>1. m.file.id # 0 => m.file.id \in Id
        BY Bounds DEF Owning, File, Id
      <4> QED  BY <1>5, <1>6, <3>3, <4>1
    <3> QED  BY <3>1, <3>2, <3>3
  <2> QED  BY <1>0, <1>2, <2>1, <2>2, <2>3 DEF TruthfulOwning, TruthfulSocket
<1>8. TruthfulPosition(n)
  <2>1. CASE reset
    <3>1. n.c.headOn # socket /\ n.c.durable.id = 0
      BY <1>2, <1>5, <2>1, Nothing DEF Socket
    <3> QED  BY <1>0, <1>2, <3>1 DEF TruthfulPosition
  <2>2. CASE ~reset /\ m.conn # 0
    BY <1>0, <1>2, <1>4, <1>5, <2>2 DEF TruthfulPosition
  <2>3. CASE ~reset /\ m.conn = 0
    <3>1. m.c.headOn # socket
      <4>1. m.c.last \in Nat /\ m.c.headOn \in Nat
        BY Bounds DEF Owning, Chain
      <4>2. m.c.headOn = 0 \/ m.c.headOn = m.c.last
        BY <1>0 DEF TruthfulOwning, TruthfulChain
      <4> QED  BY <1>3, <1>4, <2>3, <4>1, <4>2
    <3>2. m.c.durable.id # 0 => m.c.durable.id \in Id
      BY Bounds DEF Owning, Chain, Position, Id
    <3> QED  BY <1>0, <1>2, <1>5, <1>6, <2>3, <3>1, <3>2 DEF TruthfulPosition
  <2> QED  BY <2>1, <2>2, <2>3
<1>9. from = Nowhere \/ from = Basis(n) \/ reset
  <2>1. CASE r.forceFull \/ r.forceStoreFalse
    BY <2>1 DEF Sending, ContinuationFor
  <2>2. CASE ~(r.forceFull \/ r.forceStoreFalse)
    <3>1. from = IF m.c.headOn = socket THEN m.c.head ELSE m.c.durable
      BY <2>2 DEF Sending, ContinuationFor
    <3> QED  BY <1>2, <1>5, <3>1 DEF Basis
  <2> QED  BY <2>1, <2>2
<1>10. /\ intact => WireStore(r) /\ from.id # 0 /\ IsStrictPrefix(from.covered, r.full)
       /\ q.previous = IF intact THEN from.id ELSE 0
  BY DEF Sending, PrefixIntact
<1>11. q.previous = 0 <=> n.c.durable.id = 0
  <2>1. CASE intact
    <3>1. ~reset /\ from.id # 0 /\ from # Nowhere
      BY <1>10, <2>1 DEF Nowhere
    <3>2. Basis(n).id # 0
      BY <1>9, <3>1
    <3>3. n.c.durable.id # 0
      BY <1>0, <1>7, <3>2 DEF Basis, TruthfulOwning, TruthfulChain
    <3> QED  BY <1>10, <2>1, <3>1, <3>3
  <2>2. CASE reset
    BY <1>5, <1>10, <2>2, Nothing
  <2>3. CASE ~intact /\ ~reset
    <3>1. CASE ~WireStore(r) \/ r.forceFull
      BY <1>5, <1>10, <2>3, <3>1
    <3>2. CASE WireStore(r) /\ ~r.forceFull
      <4>1. from.id = 0 /\ ~r.forceStoreFalse
        BY <2>3, <3>2 DEF WireStore
      <4>2. from = IF m.c.headOn = socket THEN m.c.head ELSE m.c.durable
        BY <3>2, <4>1 DEF Sending, ContinuationFor
      <4>3. m.c.headOn = socket => m.c.head.id # 0
        BY <1>0, <1>2 DEF TruthfulOwning, TruthfulChain, Socket
      <4>4. m.c.durable.id = 0
        BY <4>1, <4>2, <4>3
      <4> QED  BY <1>5, <1>10, <2>3, <4>4
    <3> QED  BY <3>1, <3>2
  <2> QED  BY <2>1, <2>2, <2>3
<1>12. ~WireStore(q) \/ q.forceFull => n.c.durable.id = 0
  BY <1>5, Nothing DEF Sending, WireStore
<1>13. IF q.previous = 0 THEN q.input = q.full
       ELSE q.previous = Basis(n).id /\ q.full = Basis(n).covered \o q.input
  <2>1. CASE ~intact
    BY <1>10, <2>1 DEF Sending
  <2>2. CASE intact
    <3>1. ~reset /\ from.id # 0 /\ from = Basis(n)
      BY <1>9, <1>10, <2>2 DEF Nowhere
    <3>2. r.full = from.covered \o q.input /\ q.full = r.full /\ q.previous = from.id
      BY <2>2 DEF Sending
    <3> QED  BY <3>1, <3>2
  <2> QED  BY <2>1, <2>2
<1>14. TruthfulRequest(n, q)
  BY <1>2, <1>8, <1>11, <1>12, <1>13 DEF TruthfulRequest, TruthfulSent
<1>15. ~disposed'[s]
  BY <1>1, <1>2, Bounds DEF OneSocket, Types, Session
<1>16. /\ Mine(s, n.c.durable.id) /\ Mine(s, n.c.head.id)
       /\ n.file = disk \/ n.file.id = 0
  BY <1>0, <1>5, Nothing DEF MineOnly, Mine
<1>17. Mine(s, q.previous)
  <2>1. from = Nowhere \/ from = m.c.head \/ from = m.c.durable
    BY DEF Sending, ContinuationFor
  <2>2. Mine(s, from.id) /\ Mine(s, 0)
    BY <1>0, <2>1 DEF MineOnly, Mine, Nowhere
  <2> QED  BY <1>2, <1>10, <2>2
<1>18. q.on = n.conn /\ n.conn # 0
  BY <1>2 DEF Socket
<1>19. \/ n.conn \in {0, connection[s]} /\ sockets' = sockets
       \/ n.conn = sockets + 1 /\ sockets' = sockets + 1
  BY <1>2, <1>4
<1> QED  BY <1>2, <1>7, <1>14, <1>15, <1>16, <1>17, <1>18, <1>19, StepTruthful

LEMMA Unlinks ==
  ASSUME UnlinkMayFail = FALSE
  PROVE  Unlinked = {TRUE}
BY DEF Unlinked

LEMMA OwnedTruthful ==
  ASSUME Placed, Truthful, NEW s \in Session
  PROVE  /\ Owned(s) \in Owning /\ TruthfulOwning(Owned(s))
         /\ TruthfulRequest(Owned(s), req[s]) /\ MineOnly(s, Owned(s))
<1>1. MineOnly(s, Owned(s))
  BY DEF MineOnly, Mine, Owned
<1> QED  BY <1>1, LastOpened DEF Truthful

LEMMA BeginTruthful ==
  ASSUME UnlinkMayFail = FALSE, Placed, Truthful, NEW s \in Session, Begin(s)
  PROVE  Truthful'
<1>1. PICK full \in Input, store \in BOOLEAN, endpoint \in Endpoint, credential \in Credential,
           u \in Unlinked : \E r :
         /\ r = [phase |-> "sent", store |-> store, endpoint |-> endpoint,
                 credential |-> credential, full |-> full, on |-> 0, previous |-> 0,
                 input |-> <<>>, forceFull |-> FALSE, forceStoreFalse |-> FALSE,
                 replayed |-> FALSE, id |-> 0, output |-> <<>>]
         /\ SendAttempt(s, Setup(Owned(s), r, u), r, u)
  BY DEF Begin
<1> PICK r : /\ r = [phase |-> "sent", store |-> store, endpoint |-> endpoint,
                     credential |-> credential, full |-> full, on |-> 0, previous |-> 0,
                     input |-> <<>>, forceFull |-> FALSE, forceStoreFalse |-> FALSE,
                     replayed |-> FALSE, id |-> 0, output |-> <<>>]
             /\ SendAttempt(s, Setup(Owned(s), r, u), r, u)
  BY <1>1
<1>2. /\ r \in Request /\ r.phase = "sent" /\ r.endpoint \in Endpoint /\ r.store \in BOOLEAN
      /\ r.forceFull = FALSE /\ r.forceStoreFalse = FALSE
  BY EmptySeq, Bounds DEF Request
<1>3. u = TRUE
  BY Unlinks
<1> PICK m : m = Setup(Owned(s), r, u)
  OBVIOUS
<1>4. Ready(m, r) /\ m.conn \in {0, connection[s]} /\ m.c.last <= sockets
  BY <1>2, <1>3, LastOpened, SetupReady
<1>5. TruthfulOwning(Owned(s)) /\ TruthfulPosition(Owned(s))
  BY OwnedTruthful DEF Begin, TruthfulRequest
<1>6. Sound(s, m) /\ (~r.store => m.c.durable.id = 0)
  BY <1>2, <1>3, <1>5, SetupTruthful
<1>7. ~WireStore(r) \/ r.forceFull => m.c.durable.id = 0
  BY <1>2, <1>6 DEF WireStore
<1>8. m \in Owning /\ s = current
  BY <1>6 DEF Sound, Begin
<1> QED  BY <1>2, <1>3, <1>4, <1>6, <1>7, <1>8, SendTruthful

LEMMA AgainInFullTruthful ==
  ASSUME UnlinkMayFail = FALSE, Placed, Truthful, NEW s \in Session, req[s].phase = "sent",
         NEW q \in Request, q.phase = "sent", q.endpoint = req[s].endpoint,
         q.credential = req[s].credential, AgainInFull(s, q)
  PROVE  Truthful'
<1>1. ~disposed[s]
  BY DEF AgainInFull
<1> PICK r : r = [q EXCEPT !.forceFull = TRUE]
  OBVIOUS
<1>2. SendAttempt(s, ClearContinuation(CloseConnection(Owned(s)), TRUE), r, TRUE)
  BY Unlinks DEF AgainInFull
<1>3. /\ r \in Request /\ r.phase = "sent" /\ r.endpoint = req[s].endpoint
      /\ r.credential = req[s].credential
  BY DEF Request
<1>4. Ready(Owned(s), r)
  BY <1>3, Ongoing DEF Ready, TransportKey
<1> PICK n : n = CloseConnection(Owned(s))
  OBVIOUS
<1> PICK m : m = ClearContinuation(n, TRUE)
  OBVIOUS
<1>5. Ready(n, r) /\ n.conn = 0
  BY <1>4, ReadyClosed
<1>6. Ready(m, r) /\ m.conn = 0 /\ m.c.last = 0
  BY <1>5, ReadyCleared
<1>7. n \in Owning /\ m \in Owning
  BY <1>5, <1>6 DEF Ready
<1>8. Sound(s, m) /\ m.c.durable.id = 0
  BY <1>7, ClearedSound
<1>9. s = current /\ 0 <= sockets
  BY <1>1, NotDisposedIsCurrent, LastOpened
<1> QED  BY <1>2, <1>3, <1>6, <1>7, <1>8, <1>9, SendTruthful

LEMMA RejectedTruthful ==
  ASSUME UnlinkMayFail = FALSE, Placed, Truthful, NEW s \in Session, Rejected(s)
  PROVE  Truthful'
BY AgainRequests, AgainInFullTruthful

LEMMA TooLargeTruthful ==
  ASSUME UnlinkMayFail = FALSE, Placed, Truthful, NEW s \in Session, TooLarge(s)
  PROVE  Truthful'
BY AgainRequests, AgainInFullTruthful

LEMMA ReplayTruthful ==
  ASSUME UnlinkMayFail = FALSE, Placed, Truthful, NEW s \in Session, Replay(s)
  PROVE  Truthful'
<1>1. req[s].phase = "sent" /\ ~disposed[s]
  BY DEF Replay, Sent
<1> PICK r : r = [req[s] EXCEPT !.replayed = TRUE]
  OBVIOUS
<1> PICK m : m = CloseConnection(Owned(s))
  OBVIOUS
<1>2. SendAttempt(s, m, r, TRUE)
  BY Unlinks DEF Replay
<1>3. /\ r \in Request /\ r.phase = "sent" /\ r.endpoint = req[s].endpoint
      /\ r.credential = req[s].credential /\ r.store = req[s].store
      /\ r.forceFull = req[s].forceFull /\ r.forceStoreFalse = req[s].forceStoreFalse
  BY <1>1, Ongoing DEF Request
<1>4. Ready(Owned(s), r)
  BY <1>1, <1>3, Ongoing DEF Ready, TransportKey
<1>5. Ready(m, r) /\ m.conn = 0 /\ m.c.last <= sockets
  BY <1>4, LastOpened, ReadyClosed
<1>6. Sound(s, m) /\ m.c.durable = Owned(s).c.durable
  BY OwnedTruthful, ClosedSound
<1>7. ~WireStore(r) \/ r.forceFull => m.c.durable.id = 0
  <2>1. TruthfulSent(Owned(s), req[s])
    BY <1>1, OwnedTruthful DEF TruthfulRequest
  <2> QED  BY <1>3, <1>6, <2>1 DEF TruthfulSent, WireStore
<1>8. m \in Owning /\ s = current
  BY <1>1, <1>6, NotDisposedIsCurrent DEF Sound
<1> QED  BY <1>2, <1>3, <1>5, <1>6, <1>7, <1>8, SendTruthful

(* A request ends.                                                         *)
LEMMA EndTruthful ==
  ASSUME Placed, Truthful, NEW s \in Session, NEW m \in Owning, Own(s, m),
         req' = [req EXCEPT ![s] = Idle],
         UNCHANGED <<current, disposed, sockets, nextId, stored, origin>>,
         m.conn \in {0, connection[s]}, TruthfulOwning(m), TruthfulPosition(m),
         Mine(s, m.c.durable.id), Mine(s, m.c.head.id),
         m.file = disk \/ m.file.id = 0 \/ (Secret(s) /\ m.file.id = req[s].id)
  PROVE  Truthful'
<1>1. Idle.phase = "idle"
  BY DEF Idle
<1>2. TruthfulRequest(m, Idle)
  BY <1>1 DEF TruthfulRequest
<1>3. disposed'[s] => m.conn = 0
  BY Bounds DEF Placed, OneSocket, Types, Session
<1> PICK q : q = Idle
  OBVIOUS
<1>4. q \in Request \union {Idle} /\ q.phase # "sent" /\ q.phase # "answered"
  BY <1>1
<1> QED  BY <1>2, <1>3, <1>4, StepTruthful

LEMMA CompletesUnstoredTruthful ==
  ASSUME UnlinkMayFail = FALSE, Placed, Truthful, NEW s \in Session, CompletesUnstored(s)
  PROVE  Truthful'
<1>1. PICK n : /\ n = IF req[s].store THEN ClearContinuation(Owned(s), TRUE) ELSE Owned(s)
               /\ Own(s, n)
  BY Unlinks DEF CompletesUnstored
<1>2. req[s].phase = "sent" /\ req' = [req EXCEPT ![s] = Idle]
      /\ UNCHANGED <<current, disposed, sockets, nextId, stored, origin>>
  BY DEF CompletesUnstored, Sent
<1>3. TruthfulPosition(Owned(s))
  BY <1>2, OwnedTruthful DEF TruthfulRequest, TruthfulSent
<1>4. Sound(s, Owned(s))
  BY <1>3, OwnedTruthful DEF Sound
<1>5. Sound(s, n)
  BY <1>1, <1>4, OwnedTruthful, ClearedSound
<1>6. n.conn = connection[s]
  BY <1>1, LastOpened, Cleared
<1> QED  BY <1>1, <1>2, <1>5, <1>6, EndTruthful DEF Sound, MineOnly

LEMMA FailsTruthful ==
  ASSUME UnlinkMayFail = FALSE, Placed, Truthful, NEW s \in Session, Fails(s)
  PROVE  Truthful'
<1> PICK closes \in BOOLEAN :
       LET m == IF closes THEN CloseConnection(Owned(s)) ELSE Owned(s)
       IN  Own(s, IF req[s].store THEN ClearContinuation(m, TRUE) ELSE m)
  BY Unlinks DEF Fails
<1> PICK m : m = IF closes THEN CloseConnection(Owned(s)) ELSE Owned(s)
  OBVIOUS
<1> PICK n : n = IF req[s].store THEN ClearContinuation(m, TRUE) ELSE m
  OBVIOUS
<1>1. Own(s, n)
  OBVIOUS
<1>2. req[s].phase \in {"sent", "answered"} /\ req' = [req EXCEPT ![s] = Idle]
      /\ UNCHANGED <<current, disposed, sockets, nextId, stored, origin>>
  BY DEF Fails
<1>3. m \in Owning /\ m.conn \in {0, connection[s]}
  BY LastOpened, Closed
<1>4. CASE req[s].store
  <2>1. Sound(s, n) /\ n.conn = m.conn
    BY <1>3, <1>4, ClearedSound, Cleared
  <2> QED  BY <1>1, <1>2, <1>3, <2>1, EndTruthful DEF Sound, MineOnly
<1>5. CASE ~req[s].store
  <2>1. req[s].phase = "sent"
    BY <1>2, <1>5, Ongoing DEF PlacedRequest, WireStore
  <2>2. TruthfulPosition(Owned(s))
    BY <2>1, OwnedTruthful DEF TruthfulRequest, TruthfulSent
  <2>3. Sound(s, Owned(s))
    BY <2>2, OwnedTruthful DEF Sound
  <2>4. Sound(s, m)
    BY <2>3, OwnedTruthful, ClosedSound
  <2>5. n = m
    BY <1>5
  <2> QED  BY <1>1, <1>2, <1>3, <2>4, <2>5, EndTruthful DEF Sound, MineOnly
<1> QED  BY <1>4, <1>5, <1>2, Ongoing DEF Request

(* The socket closes, or the session is disposed: its request goes on.     *)
LEMMA ClosedTruthful ==
  ASSUME Placed, Truthful, NEW s \in Session, Own(s, CloseConnection(Owned(s))),
         UNCHANGED <<req, sockets, nextId, stored, origin>>
  PROVE  Truthful'
<1> PICK m : m = CloseConnection(Owned(s))
  OBVIOUS
<1> PICK q : q = req[s]
  OBVIOUS
<1>1. /\ m \in Owning /\ m.conn = 0 /\ Own(s, m)
      /\ m.c.durable = chain[s].durable /\ m.c.last = chain[s].last
      /\ m.file = disk
  BY LastOpened, Closed
<1>2. Sound(s, m)
  BY OwnedTruthful, ClosedSound
<1>3. Types
  BY DEF Placed
<1>4. q \in Request \union {Idle} /\ req' = [req EXCEPT ![s] = q]
  BY <1>3 DEF Types
<1>5. TruthfulRequest(Owned(s), q) /\ Owned(s).c = chain[s]
  BY OwnedTruthful, LastOpened
<1>6. TruthfulRequest(m, q)
  <2>1. q.phase = "sent" => TruthfulSent(m, q)
    BY <1>1, <1>2, <1>5 DEF TruthfulRequest, TruthfulSent, Sound
  <2>2. q.phase = "answered" => TruthfulAnswered(m, q)
    BY <1>1, <1>5 DEF TruthfulRequest, TruthfulAnswered, DurableAdvances
  <2> QED  BY <1>2, <2>1, <2>2 DEF TruthfulRequest, Sound
<1>7. q.phase = "sent" => Mine(s, q.previous)
  BY DEF Mine
<1>8. TruthfulOwning(m) /\ Mine(s, m.c.durable.id) /\ Mine(s, m.c.head.id)
  BY <1>2 DEF Sound, MineOnly
<1>9. sockets' = sockets
  OBVIOUS
<1> QED  BY <1>1, <1>4, <1>6, <1>7, <1>8, <1>9, StepTruthful

LEMMA ObserveTruthful ==
  ASSUME UnlinkMayFail = FALSE, Placed, Truthful, NEW s \in Session, Observe(s)
  PROVE  Truthful'
<1> PICK m : m = Owned(s)
  OBVIOUS
<1> PICK r : r = req[s]
  OBVIOUS
<1> PICK next : next = NextState(r)
  OBVIOUS
<1> PICK up : up = DurableAdvances(m.c, r, r.id)
  OBVIOUS
<1>1. /\ m \in Owning /\ m.conn = connection[s] /\ m.c = chain[s] /\ m.file = disk
      /\ r \in Request /\ r.phase = "answered" /\ PlacedRequest(m, r)
      /\ TruthfulOwning(m) /\ TruthfulAnswered(m, r)
  BY Ongoing, LastOpened, OwnedTruthful DEF Observe, TruthfulRequest
<1>2. /\ req' = [req EXCEPT ![s] = Idle]
      /\ UNCHANGED <<current, disposed, sockets, nextId, stored, origin>>
  BY DEF Observe
<1>3. CASE \E unlinked \in Unlinked : Own(s, ClearContinuation(m, unlinked))
  <2> PICK n : n = ClearContinuation(m, TRUE)
    OBVIOUS
  <2>1. Own(s, n)
    BY <1>3, Unlinks
  <2>2. Sound(s, n) /\ n.conn = m.conn
    BY <1>1, ClearedSound, Cleared
  <2> QED  BY <1>1, <1>2, <2>1, <2>2, EndTruthful DEF Sound, MineOnly
<1>4. CASE \E written \in BOOLEAN :
              /\ written => up
              /\ Own(s, [m EXCEPT
                   !.c = [durable |-> IF up THEN next ELSE m.c.durable,
                          headOn |-> r.on, head |-> next, last |-> r.on, key |-> r.endpoint],
                   !.file = IF written THEN Checkpoint(next, r.endpoint) ELSE @])
  <2> PICK d : d = IF up THEN next ELSE m.c.durable
    OBVIOUS
  <2> PICK c : c = [durable |-> d, headOn |-> r.on, head |-> next, last |-> r.on, key |-> r.endpoint]
    OBVIOUS
  <2> PICK w : w = Checkpoint(next, r.endpoint)
    OBVIOUS
  <2>0. w = [id |-> next.id, covered |-> next.covered, endpoint |-> r.endpoint]
    BY DEF Checkpoint
  <2> PICK written \in BOOLEAN : /\ written => up
                                 /\ Own(s, [m EXCEPT !.c = c, !.file = IF written THEN w ELSE @])
    BY <1>4
  <2> PICK f : f = IF written THEN w ELSE m.file
    OBVIOUS
  <2> PICK n : n = [m EXCEPT !.c = c, !.file = f]
    OBVIOUS
  <2>1. Own(s, n)
    OBVIOUS
  <2>2. /\ next \in Position /\ next.id = r.id /\ next.covered = r.full \o r.output
        /\ next.covered # <<>>
    BY <1>1, InputsAreWhole DEF NextState, Position, Request
  <2>3. m.c \in Chain /\ m.file \in File
    BY <1>1 DEF Owning
  <2>4. c \in Chain
    <3>1. d \in Position
      BY <2>2, <2>3 DEF Chain
    <3> QED  BY <1>1, <2>2, <3>1 DEF Chain, Key, Request
  <2>5. f \in File
    <3>1. next.id \in 0..MaxId /\ next.covered \in Seq(Item)
      BY <2>2 DEF Position
    <3>2. r.endpoint \in Key
      BY <1>1 DEF Key, Request
    <3>3. w \in File
      BY ONLY <2>0, <3>1, <3>2 DEF File
    <3> QED  BY <2>3, <3>3
  <2>6. n \in Owning /\ n.c = c /\ n.file = f /\ n.conn = m.conn
    BY <1>1, <2>4, <2>5 DEF Owning
  <2>7. r.id # 0 /\ m.conn \in {0, r.on}
    BY <1>1 DEF PlacedRequest
  <2>8. up => stored[r.id] = next.covered
    BY <1>1, <2>2 DEF TruthfulAnswered
  <2>9. ~up => m.c.durable.id # 0
    BY DEF DurableAdvances
  <2>10. Kept(d.id, d.covered) /\ d.id # 0
    BY <1>1, <2>2, <2>7, <2>8, <2>9 DEF TruthfulOwning, TruthfulChain, Kept
  <2>11. Kept(f.id, f.covered)
    <3>1. Kept(m.file.id, m.file.covered)
      BY <1>1 DEF TruthfulOwning
    <3>2. CASE written
      <4>1. up /\ f = w
        BY <3>2
      <4>2. w.id = next.id /\ w.covered = next.covered
        BY ONLY <2>0
      <4>3. f.id = r.id /\ f.covered = next.covered
        BY ONLY <2>2, <4>1, <4>2
      <4> QED  BY <2>2, <2>8, <4>1, <4>3 DEF Kept
    <3> QED  BY <3>1, <3>2
  <2>12. /\ c.durable = d /\ c.headOn = r.on /\ c.head = next /\ c.last = r.on
    OBVIOUS
  <2>13. TruthfulOwning(n)
    BY <2>2, <2>6, <2>7, <2>10, <2>11, <2>12
       DEF TruthfulOwning, TruthfulChain, TruthfulSocket
  <2>14. TruthfulPosition(n)
    <3>1. n.conn = m.conn /\ n.c.headOn = r.on /\ n.c.head.id = r.id
          /\ n.c.head.covered = r.full \o r.output
      BY <2>2, <2>6, <2>12
    <3>2. m.conn # 0 => live[m.conn][r.id] = r.full \o r.output
      BY <1>1 DEF TruthfulAnswered
    <3> QED  BY <2>7, <3>1, <3>2 DEF TruthfulPosition
  <2>15. Mine(s, n.c.durable.id) /\ Mine(s, n.c.head.id)
    BY <1>1, <2>2, <2>6, <2>12 DEF Mine
  <2>16. n.file = disk \/ (Secret(s) /\ n.file.id = req[s].id)
    <3>1. CASE written
      <4>1. Secret(s)
        BY <1>1, <3>1 DEF Secret
      <4>2. n.file.id = r.id
        BY <2>0, <2>2, <2>6, <3>1
      <4> QED  BY <4>1, <4>2
    <3>2. CASE ~written
      BY <1>1, <2>6, <3>2
    <3> QED  BY <3>1, <3>2
  <2>17. n.conn \in {0, connection[s]}
    BY <1>1, <2>6
  <2> QED  BY <1>2, <2>1, <2>6, <2>13, <2>14, <2>15, <2>16, <2>17, EndTruthful
<1> QED  BY <1>3, <1>4 DEF Observe
--------------------------------------------------------------------------------
(* What the server rebuilds from a request on its way is the whole history.*)
LEMMA SentIsWhole ==
  ASSUME Placed, Truthful, NEW s \in Session, Sent(s), Reachable(s)
  PROVE  Rehydrated(req[s].on, req[s].previous) \o req[s].input = req[s].full
<1> PICK m : m = Owned(s)
  OBVIOUS
<1> PICK r : r = req[s]
  OBVIOUS
<1>1. /\ m.conn = connection[s] /\ connection[s] # 0 /\ m.conn = r.on
      /\ r \in Request /\ TruthfulOwning(m) /\ TruthfulSent(m, r)
  BY Ongoing, LastOpened, OwnedTruthful DEF Sent, Reachable, TruthfulRequest
<1>2. CASE r.previous = 0
  <2>1. Rehydrated(r.on, r.previous) = <<>> /\ r.input = r.full
    BY <1>1, <1>2 DEF Rehydrated, TruthfulSent
  <2>2. <<>> \o r.input = r.input
    BY <1>1, ConcatEmptySeq DEF Request
  <2> QED  BY <2>1, <2>2
<1>3. CASE r.previous # 0
  <2>1. r.previous = Basis(m).id /\ r.full = Basis(m).covered \o r.input
    BY <1>1, <1>3 DEF TruthfulSent
  <2>2. CASE m.c.headOn = m.conn
    <3>1. /\ Basis(m) = m.c.head /\ m.c.head.covered # <<>>
          /\ live[m.conn][m.c.head.id] = m.c.head.covered
      BY <1>1, <1>3, <2>1, <2>2
         DEF Basis, TruthfulSent, TruthfulPosition, TruthfulOwning, TruthfulChain
    <3>2. Rehydrated(r.on, r.previous) = m.c.head.covered
      BY <1>1, <1>3, <2>1, <3>1 DEF Rehydrated
    <3> QED  BY <2>1, <3>1, <3>2
  <2>3. CASE m.c.headOn # m.conn
    <3>1. /\ Basis(m) = m.c.durable /\ stored[m.c.durable.id] = m.c.durable.covered
          /\ live[m.conn][m.c.durable.id] = <<>>
      BY <1>1, <1>3, <2>1, <2>3
         DEF Basis, TruthfulSent, TruthfulPosition, TruthfulOwning, TruthfulChain, Kept
    <3>2. Rehydrated(r.on, r.previous) = m.c.durable.covered
      BY <1>1, <1>3, <2>1, <3>1 DEF Rehydrated
    <3> QED  BY <2>1, <3>1, <3>2
  <2> QED  BY <2>2, <2>3
<1> QED  BY <1>2, <1>3

(* An answer to a full request, and one that moves the checkpoint on, has  *)
(* an ID that nobody has seen.                                             *)
LEMMA FreshId ==
  ASSUME ReuseAnywhere = FALSE, Placed, Truthful, NEW s \in Session,
         NEW r, NEW output, NEW id, NEW context, NEW q,
         Completing(s, r, output, id, context, q),
         chain[s].durable.id = 0 \/ DurableAdvances(chain[s], q, id)
  PROVE  id > nextId /\ stored[id] = <<>> /\ \A k \in Socket : live[k][id] = <<>>
<1> PICK m : m = Owned(s)
  OBVIOUS
<1>1. /\ m.conn = connection[s] /\ connection[s] # 0 /\ m.conn = r.on /\ m.c = chain[s]
      /\ r = req[s] /\ r \in Request /\ TruthfulOwning(m) /\ TruthfulSent(m, r) /\ q.on = r.on
  BY Ongoing, LastOpened, OwnedTruthful DEF Completing, TruthfulRequest
<1>2. id \in Id /\ nextId \in Nat
  BY Remembers, Bounds DEF Placed, Types
<1>3. id \in NewId
  <2>1. id \in Reusable(r) \union NewId
    BY DEF Completing
  <2>2. CASE m.c.durable.id = 0
    <3>1. r.previous = 0
      BY <1>1, <2>2 DEF TruthfulSent
    <3>2. Reusable(r) = {}
      BY <3>1 DEF Reusable, Id
    <3> QED  BY <2>1, <3>2
  <2>3. CASE m.c.durable.id # 0 /\ m.c.last # r.on /\ m.c.durable.id # id
    <3>1. m.c.headOn # m.conn
      BY <1>1, <2>3 DEF TruthfulOwning, TruthfulChain
    <3>2. r.previous = m.c.durable.id
      BY <1>1, <2>3, <3>1 DEF TruthfulSent, Basis
    <3>3. live[r.on][r.previous] = <<>>
      BY <1>1, <2>3, <3>1, <3>2 DEF TruthfulSent, TruthfulPosition
    <3>4. Reusable(r) \subseteq {r.previous}
      BY <3>3 DEF Reusable
    <3> QED  BY <2>1, <2>3, <3>2, <3>4
  <2> QED  BY <1>1, <2>2, <2>3 DEF DurableAdvances
<1>4. id > nextId
  BY <1>2, <1>3 DEF NewId
<1> QED  BY <1>2, <1>4 DEF Placed, ServerKnows

LEMMA ServerCompletesTruthful ==
  ASSUME ReuseAnywhere = FALSE, Placed, Truthful, NEW s \in Session, ServerCompletes(s)
  PROVE  Truthful'
<1> PICK r, output, id, context, q : Completing(s, r, output, id, context, q)
  BY Completes
<1>1. Types /\ ServerKnows /\ OneSocket
  BY DEF Placed
<1>2. /\ UNCHANGED <<current, disposed, chain, connection, socketKey, sockets, disk>>
      /\ req'[s] = q /\ \A t \in Session \ {s} : req'[t] = req[t]
      /\ r = req[s] /\ r.phase = "sent" /\ connection[s] = r.on
      /\ q \in Request /\ q.phase = "answered" /\ q.id = id /\ q.on = r.on
      /\ q.full = r.full /\ q.output = output
  BY <1>1 DEF Completing, Types
<1>3. /\ r \in Request /\ r.on \in Socket /\ id \in Id /\ s = current
      /\ stored'[id] = IF stored[id] = <<>> THEN context ELSE stored[id]
      /\ live'[r.on][id] = context
      /\ \A i \in Id \ {id} : stored'[i] = stored[i]
      /\ \A k \in Socket, i \in Id : k # r.on \/ i # id => live'[k][i] = live[k][i]
  BY Remembers
<1>4. context = q.full \o q.output
  <2>1. Sent(s) /\ Reachable(s)
    BY DEF ServerCompletes
  <2>2. Rehydrated(r.on, r.previous) \o r.input = r.full
    BY <1>2, <2>1, SentIsWhole
  <2> QED  BY <1>2, <2>2 DEF Completing
<1>5. \A t \in Session \ {s} : connection[t] = 0
  BY <1>1, <1>3 DEF OneSocket
<1>6. ASSUME chain[s].durable.id = 0 \/ DurableAdvances(chain[s], q, id)
      PROVE  id > nextId /\ stored[id] = <<>> /\ \A k \in Socket : live[k][id] = <<>>
  BY <1>6, FreshId
<1>7. ASSUME NEW i \in Id, stored[i] # <<>>  PROVE stored'[i] = stored[i]
  BY <1>3, <1>7
<1>8. ASSUME NEW t \in Session
      PROVE  /\ disk.id \in 0..MaxId /\ disk.id <= nextId
             /\ chain[t].durable.id \in 0..MaxId /\ chain[t].durable.id <= nextId
             /\ chain[t].head.id \in 0..MaxId /\ chain[t].head.id <= nextId
  <2>1. /\ disk.id \in 0..MaxId /\ chain[t].durable.id \in 0..MaxId
        /\ chain[t].head.id \in 0..MaxId
    BY <1>1 DEF Types, File, Chain, Position
  <2>3. nextId \in Nat
    BY <1>1, Bounds DEF Types
  <2>2. PlacedOwning(Owned(t)) /\ Owned(t).c = chain[t] /\ Owned(t).file = disk
    BY LastOpened
  <2>4. ASSUME NEW i \in 0..MaxId, NEW e, From(i, e)  PROVE i <= nextId
    BY <2>3, <2>4 DEF From
  <2> QED  BY <2>1, <2>2, <2>4 DEF PlacedOwning
<1>9. ASSUME NEW t \in Session, req[t] # Idle
      PROVE  /\ req[t].previous \in 0..MaxId /\ req[t].previous <= nextId
             /\ req[t].phase = "answered" => req[t].id \in Id /\ req[t].id <= nextId
  <2>1. req[t] \in Request /\ PlacedRequest(Owned(t), req[t]) /\ nextId \in Nat
    BY <1>1, <1>9, Bounds DEF Placed, Types
  <2> QED  BY <2>1, Bounds DEF PlacedRequest, From, Request, Id
<1>10. \A t \in Session : TruthfulOwning(Owned(t))'
  <2> SUFFICES ASSUME NEW t \in Session  PROVE TruthfulOwning(Owned(t))'
    OBVIOUS
  <2>1. TruthfulOwning(Owned(t)) /\ Owned(t).c = chain[t] /\ Owned(t).file = disk
        /\ Owned(t).conn = connection[t]
    BY OwnedTruthful, LastOpened
  <2>2. ASSUME NEW i \in 0..MaxId, NEW covered, Kept(i, covered)
        PROVE  i # 0 => covered # <<>> /\ stored'[i] = covered
    BY <1>7, <2>2, Bounds DEF Kept, Id
  <2>3. TruthfulChain(chain[t])'
    BY <1>2, <1>8, <2>1, <2>2 DEF TruthfulOwning, TruthfulChain, Kept
  <2>4. Kept(disk.id, disk.covered)'
    BY <1>2, <1>8, <2>1, <2>2 DEF TruthfulOwning, Kept
  <2>5. ASSUME connection[t] # 0
        PROVE  /\ chain[t].last = connection[t] => chain[t].headOn = connection[t]
               /\ chain[t].durable.id = 0 /\ disk.id # 0 => live'[connection[t]][disk.id] = <<>>
    <3>1. t = s
      BY <1>5, <2>5
    <3>2. chain[t].last = connection[t] => chain[t].headOn = connection[t]
      BY <2>1, <2>5 DEF TruthfulOwning, TruthfulSocket
    <3>3. ASSUME chain[t].durable.id = 0, disk.id # 0
          PROVE  live'[connection[t]][disk.id] = <<>>
      <4>1. live[connection[t]][disk.id] = <<>>
        BY <2>1, <2>5, <3>3 DEF TruthfulOwning, TruthfulSocket
      <4>2. id > nextId /\ disk.id \in Id /\ disk.id <= nextId /\ nextId \in Nat
        BY <1>1, <1>6, <1>8, <3>1, <3>3, Bounds DEF Id, Types
      <4>3. disk.id # id
        BY <1>3, <4>2 DEF Id
      <4> QED  BY <1>2, <1>3, <3>1, <4>1, <4>2, <4>3
    <3> QED  BY <3>2, <3>3
  <2>6. TruthfulSocket(Owned(t))'
    BY <1>2, <2>5 DEF TruthfulSocket, Owned
  <2> QED  BY <2>3, <2>4, <2>6 DEF TruthfulOwning, Owned
<1>11. \A t \in Session : TruthfulRequest(Owned(t), req[t])'
  <2> SUFFICES ASSUME NEW t \in Session  PROVE TruthfulRequest(Owned(t), req[t])'
    OBVIOUS
  <2>1. CASE t = s
    <3>1. live'[connection[s]][q.id] = q.full \o q.output
      BY <1>2, <1>3, <1>4
    <3>2. DurableAdvances(chain[s], q, q.id) => stored'[q.id] = q.full \o q.output
      BY <1>2, <1>3, <1>4, <1>6
    <3>3. TruthfulAnswered(Owned(s), req[s])'
      BY <1>2, <3>1, <3>2 DEF TruthfulAnswered, Owned, DurableAdvances
    <3> QED  BY <1>2, <2>1, <3>3 DEF TruthfulRequest
  <2>2. CASE t # s
    <3>1. TruthfulRequest(Owned(t), req[t]) /\ connection[t] = 0 /\ req'[t] = req[t]
      BY <1>2, <1>5, <2>2, OwnedTruthful
    <3>2. req[t].phase = "sent" => TruthfulSent(Owned(t), req[t])'
      BY <1>2, <3>1 DEF TruthfulRequest, TruthfulSent, TruthfulPosition, Owned
    <3>3. ASSUME req[t].phase = "answered", DurableAdvances(chain[t], req[t], req[t].id)
          PROVE  stored'[req[t].id] = req[t].full \o req[t].output
      <4>1. req[t] \in Request /\ req[t] # Idle
        BY <3>3, Ongoing
      <4>2. stored[req[t].id] = req[t].full \o req[t].output
        BY <3>1, <3>3 DEF TruthfulRequest, TruthfulAnswered, Owned
      <4> QED  BY <1>7, <1>9, <3>3, <4>1, <4>2, InputsAreWhole
    <3>4. req[t].phase = "answered" => TruthfulAnswered(Owned(t), req[t])'
      BY <1>2, <3>1, <3>3 DEF TruthfulAnswered, Owned, DurableAdvances
    <3> QED  BY <1>2, <3>1, <3>2, <3>4 DEF TruthfulRequest, TruthfulPosition, Owned
  <2> QED  BY <2>1, <2>2
<1>12. SocketsApart'
  <2>1. r # Idle /\ q # Idle
    BY <1>2 DEF Idle
  <2>2. \A t \in Session : /\ connection'[t] = connection[t]
                           /\ req'[t] # Idle <=> req[t] # Idle
                           /\ req'[t].on = req[t].on
    BY <1>2, <2>1
  <2> QED  BY <2>2 DEF Truthful, SocketsApart
<1>13. ASSUME NEW t \in Session, Secret(t)'  PROVE SecretKept(t, req[t].id)'
  <2>1. CASE t = s
    <3>1. DurableAdvances(chain[s], q, id)
      BY <1>2, <1>13, <2>1 DEF Secret, DurableAdvances
    <3>2. id > nextId /\ nextId \in Nat /\ \A k \in Socket : live[k][id] = <<>>
      BY <1>1, <1>6, <3>1, Bounds DEF Types
    <3>3. \A k \in Socket : k # r.on => live'[k][id] = <<>>
      BY <1>3, <3>2
    <3>4. disk.id # id
      BY <1>3, <1>8, <3>2 DEF Id
    <3>5. ASSUME NEW v \in Session \ {s}
          PROVE  /\ chain[v].durable.id # id /\ chain[v].head.id # id
                 /\ req[v].phase = "sent" => req[v].previous # id
                 /\ req[v].phase = "answered" => req[v].id # id
      <4>1. chain[v].durable.id # id /\ chain[v].head.id # id
        BY <1>3, <1>8, <3>2 DEF Id
      <4>2. req[v].phase # "idle" => req[v] # Idle
        BY DEF Idle
      <4>3. req[v].phase = "sent" => req[v].previous # id
        BY <1>3, <1>9, <3>2, <4>2 DEF Id
      <4>4. req[v].phase = "answered" => req[v].id # id
        BY <1>3, <1>9, <3>2, <4>2 DEF Id
      <4> QED  BY <4>1, <4>3, <4>4
    <3> QED  BY <1>2, <2>1, <3>3, <3>4, <3>5 DEF SecretKept
  <2>2. CASE t # s
    <3>1. Secret(t) /\ req'[t] = req[t]
      BY <1>2, <1>13, <2>2 DEF Secret, DurableAdvances
    <3> PICK i : i = req[t].id
      OBVIOUS
    <3>2. SecretKept(t, i) /\ req[t] # Idle /\ i \in Id /\ i <= nextId /\ nextId \in Nat
      BY <1>1, <1>9, <3>1, Ongoing, Bounds DEF Truthful, Secret, Types
    <3>3. id # i
      <4>1. CASE id \in NewId
        BY <1>3, <3>2, <4>1 DEF NewId, Id
      <4>2. CASE id = r.previous
        BY <1>2, <2>2, <3>2, <4>2 DEF SecretKept
      <4>3. CASE live[r.on][id] # <<>>
        BY <1>2, <1>3, <2>2, <3>2, <4>3 DEF SecretKept, Truthful, SocketsApart
      <4>4. id \in Reusable(r) \union NewId
        BY DEF Completing
      <4> QED  BY <4>1, <4>2, <4>3, <4>4 DEF Reusable
    <3>4. \A k \in Socket : k # req[t].on => live'[k][i] = <<>>
      BY <1>3, <3>2, <3>3 DEF SecretKept
    <3>5. ASSUME NEW v \in Session \ {t}
          PROVE  /\ chain[v].durable.id # i /\ chain[v].head.id # i
                 /\ req'[v].phase = "sent" => req'[v].previous # i
                 /\ req'[v].phase = "answered" => req'[v].id # i
      BY <1>2, <3>2, <3>3 DEF SecretKept
    <3> QED  BY <1>2, <3>1, <3>2, <3>4, <3>5 DEF SecretKept
  <2> QED  BY <2>1, <2>2
<1> QED  BY <1>10, <1>11, <1>12, <1>13 DEF Truthful

LEMMA CrashTruthful ==
  ASSUME Placed, Truthful, Crash
  PROVE  Truthful'
<1>1. \A s \in Session : chain'[s] = NoChain /\ connection'[s] = 0 /\ req'[s] = Idle
  BY DEF Crash
<1>2. disk' = disk /\ stored' = stored
  BY DEF Crash
<1>3. \A s \in Session : TruthfulOwning(Owned(s))'
  <2> SUFFICES ASSUME NEW s \in Session  PROVE TruthfulOwning(Owned(s))'
    OBVIOUS
  <2>1. Kept(disk.id, disk.covered)
    BY OwnedTruthful, LastOpened DEF TruthfulOwning
  <2> QED  BY <1>1, <1>2, <2>1, Nothing DEF TruthfulOwning, TruthfulChain, TruthfulSocket, Kept,
              Owned
<1>4. \A s \in Session : TruthfulRequest(Owned(s), req[s])'
  BY <1>1 DEF TruthfulRequest, TruthfulPosition, Owned, Idle
<1>5. SocketsApart' /\ \A s \in Session : ~Secret(s)'
  BY <1>1 DEF SocketsApart, Secret, Idle
<1> QED  BY <1>3, <1>4, <1>5 DEF Truthful

LEMMA RequestsStay ==
  ASSUME Truthful, UNCHANGED <<chain, connection, req, stored, live>>
  PROVE  \A s \in Session : TruthfulRequest(Owned(s), req[s])'
<1> SUFFICES ASSUME NEW s \in Session  PROVE TruthfulRequest(Owned(s), req[s])'
  OBVIOUS
<1>1. TruthfulRequest(Owned(s), req[s])
  BY DEF Truthful
<1>2. TruthfulPosition(Owned(s)) => TruthfulPosition(Owned(s))'
  BY DEF TruthfulPosition, Owned
<1>3. TruthfulSent(Owned(s), req[s]) => TruthfulSent(Owned(s), req[s])'
  <2>1. Basis(Owned(s))' = Basis(Owned(s))
    BY DEF Basis, Owned
  <2> QED  BY <1>2, <2>1 DEF TruthfulSent, Owned
<1>4. TruthfulAnswered(Owned(s), req[s]) => TruthfulAnswered(Owned(s), req[s])'
  BY DEF TruthfulAnswered, Owned
<1> QED  BY <1>1, <1>2, <1>3, <1>4 DEF TruthfulRequest

LEMMA SidecarSweptTruthful ==
  ASSUME Placed, Truthful, SidecarSwept
  PROVE  Truthful'
<1>1. /\ disk' = NoFile
      /\ UNCHANGED <<current, disposed, chain, connection, socketKey, req, sockets,
                     nextId, stored, live, origin>>
  BY DEF SidecarSwept, clientVars, serverVars
<1>2. \A s \in Session : TruthfulOwning(Owned(s))'
  BY <1>1, Nothing DEF Truthful, TruthfulOwning, TruthfulChain, TruthfulSocket, Kept, Owned
<1>3. \A s \in Session : TruthfulRequest(Owned(s), req[s])'
  BY <1>1, RequestsStay
<1>4. ASSUME NEW s \in Session, Secret(s)'  PROVE SecretKept(s, req[s].id)'
  <2>1. Secret(s) /\ SecretKept(s, req[s].id)
    BY <1>1, <1>4 DEF Truthful, Secret, DurableAdvances
  <2>2. req[s].id # 0
    BY <2>1, Ongoing DEF Secret, PlacedRequest
  <2> QED  BY <1>1, <2>1, <2>2, Nothing DEF SecretKept
<1>5. SocketsApart'
  BY <1>1 DEF Truthful, SocketsApart
<1> QED  BY <1>2, <1>3, <1>4, <1>5 DEF Truthful

LEMMA InitTruthful == Init => Truthful
<1> SUFFICES ASSUME Init  PROVE Truthful
  OBVIOUS
<1>1. /\ disk = NoFile
      /\ \A s \in Session : chain[s] = NoChain /\ connection[s] = 0 /\ req[s] = Idle
  BY DEF Init
<1>2. \A s \in Session : TruthfulOwning(Owned(s))
  BY <1>1, Nothing DEF TruthfulOwning, TruthfulChain, TruthfulSocket, Kept, Owned
<1>3. \A s \in Session : TruthfulRequest(Owned(s), req[s])
  BY <1>1 DEF TruthfulRequest, TruthfulPosition, Owned, Idle
<1>4. SocketsApart /\ \A s \in Session : ~Secret(s)
  BY <1>1 DEF SocketsApart, Secret, Idle
<1> QED  BY <1>2, <1>3, <1>4 DEF Truthful

LEMMA NextTruthful ==
  ASSUME ReuseAnywhere = FALSE, UnlinkMayFail = FALSE
  PROVE  Placed /\ Truthful /\ [Next]_vars => Truthful'
<1> SUFFICES ASSUME Placed, Truthful, [Next]_vars  PROVE Truthful'
  OBVIOUS
<1>1. CASE Next
  BY <1>1, BeginTruthful, ServerCompletesTruthful, ObserveTruthful, CompletesUnstoredTruthful,
     FailsTruthful, RejectedTruthful, TooLargeTruthful, ReplayTruthful, ClosedTruthful,
     CrashTruthful, SidecarSweptTruthful DEF Next, SocketCloses, Dispose
<1>2. CASE UNCHANGED vars
  <2>1. UNCHANGED <<current, disposed, chain, connection, socketKey, req, sockets, disk,
                    nextId, stored, live, origin>>
    BY <1>2 DEF vars, clientVars, serverVars
  <2>2. SocketsApart'
    BY <2>1 DEF Truthful, SocketsApart
  <2>3. \A s \in Session : TruthfulOwning(Owned(s))'
    BY <2>1 DEF Truthful, TruthfulOwning, TruthfulChain, TruthfulSocket, Kept, Owned
  <2>4. \A s \in Session : TruthfulRequest(Owned(s), req[s])'
    BY <2>1, RequestsStay
  <2>5. ASSUME NEW s \in Session, Secret(s)'  PROVE SecretKept(s, req[s].id)'
    BY <2>1, <2>5 DEF Truthful, Secret, SecretKept, DurableAdvances
  <2> QED  BY <2>2, <2>3, <2>4, <2>5 DEF Truthful
<1> QED  BY <1>1, <1>2

LEMMA AlwaysTruthful ==
  ASSUME ReuseAnywhere = FALSE, UnlinkMayFail = FALSE
  PROVE  Spec => [](Placed /\ Truthful)
<1>1. Init => Placed /\ Truthful
  BY InitPlaced, InitTruthful
<1>2. Placed /\ Truthful /\ [Next]_vars => (Placed /\ Truthful)'
  BY NextPlaced, NextTruthful
<1> QED  BY <1>1, <1>2, PTL DEF Spec

(* Whatever was edited, lost, restored or retried on the way, what the     *)
(* server rebuilds from a request is the caller's complete history.        *)
THEOREM HistoryCorrect ==
  ASSUME ReuseAnywhere = FALSE, UnlinkMayFail = FALSE
  PROVE  Spec => []ServerSeesWholeHistory
<1>1. Placed /\ Truthful => ServerSeesWholeHistory
  BY SentIsWhole DEF ServerSeesWholeHistory
<1> QED  BY <1>1, AlwaysTruthful, PTL

(* A checkpoint, in memory or in the file, stands for exactly what the     *)
(* server rehydrates for its ID on a new socket.                           *)
THEOREM CheckpointsCorrect ==
  ASSUME ReuseAnywhere = FALSE, UnlinkMayFail = FALSE
  PROVE  Spec => []CheckpointsRehydrate
<1>1. ASSUME Placed, Truthful  PROVE CheckpointsRehydrate
  <2>1. ASSUME NEW s \in Session
        PROVE  /\ Rehydrates(chain[s].durable.id, chain[s].durable.covered)
               /\ Rehydrates(disk.id, disk.covered)
    BY <1>1, OwnedTruthful, LastOpened DEF TruthfulOwning, TruthfulChain, Kept, Rehydrates
  <2>2. current \in Session
    BY <1>1 DEF Placed, Types
  <2> QED  BY <2>1, <2>2 DEF CheckpointsRehydrate
<1> QED  BY <1>1, AlwaysTruthful, PTL

(* The head and the checkpoint of a session go together, and the head is   *)
(* what its socket has.                                                    *)
THEOREM PositionsCorrect ==
  ASSUME ReuseAnywhere = FALSE, UnlinkMayFail = FALSE
  PROVE  Spec => []PositionsAgree
<1>1. ASSUME Placed, Truthful, NEW s \in Session
      PROVE  /\ chain[s].head.id # 0 => chain[s].durable.id # 0
             /\ chain[s].durable.id # 0 => origin[chain[s].durable.id] = chain[s].key
             /\ chain[s].headOn = connection[s] /\ connection[s] # 0 /\ req[s].phase # "answered"
                   => live[connection[s]][chain[s].head.id] = chain[s].head.covered
  <2>1. /\ TruthfulOwning(Owned(s)) /\ TruthfulRequest(Owned(s), req[s])
        /\ PlacedOwning(Owned(s)) /\ Owned(s).c = chain[s] /\ Owned(s).conn = connection[s]
    BY <1>1, OwnedTruthful, LastOpened
  <2>2. chain[s].head.id # 0 => chain[s].durable.id # 0
    BY <2>1 DEF TruthfulOwning, TruthfulChain
  <2>3. chain[s].durable.id # 0 => origin[chain[s].durable.id] = chain[s].key
    BY <2>1 DEF PlacedOwning, From
  <2>4. ASSUME req[s].phase # "answered"  PROVE TruthfulPosition(Owned(s))
    <3>1. req[s].phase = "idle" \/ req[s].phase = "sent"
      BY <1>1, <2>4 DEF Placed, Types, Request, Idle
    <3> QED  BY <2>1, <3>1 DEF TruthfulRequest, TruthfulSent
  <2> QED  BY <2>1, <2>2, <2>3, <2>4 DEF TruthfulPosition
<1>2. Placed /\ Truthful => PositionsAgree
  BY <1>1 DEF PositionsAgree
<1> QED  BY <1>2, AlwaysTruthful, PTL
================================================================================
