--------------------------- MODULE SessionPool_proofs ---------------------------
(***************************************************************************)
(* Proofs about SessionPool, for every set of calls and of session IDs and *)
(* every length of the line.  What a pruning call may take away is decided *)
(* from the line and the callers of a session, so the proofs rest on       *)
(* LineExact: a session's line holds its waiting callers, each once.       *)
(***************************************************************************)
EXTENDS SessionPool, SequenceTheorems, TLAPS

(* Sessions are numbered as they are made, each has an ID and a line, and  *)
(* a call that has begun is in one.                                        *)
Types ==
    /\ phase \in [Request -> Phase]
    /\ made \in Nat
    /\ session \in [Request -> 0..made]
    /\ idOf \in Seq(Id \union {NoId}) /\ Len(idOf) = made
    /\ line \in Seq(Seq(Request)) /\ Len(line) = made
    /\ sessionsById \in [Id -> 0..made]
    /\ connection \subseteq Session /\ chain \subseteq Session /\ disposed \subseteq Session
    /\ \A r \in Request : phase[r] # "idle" => session[r] \in Session

(* q is a list of the callers that wait in s, each once.                   *)
ListsWaiting(s, q) ==
    /\ \A n \in 1..Len(q) : q[n] \in Callers(s, {"waiting"})
    /\ \A m, n \in 1..Len(q) : q[m] = q[n] => m = n
    /\ \A r \in Callers(s, {"waiting"}) : \E n \in 1..Len(q) : q[n] = r

LineExact == \A s \in Session : ListsWaiting(s, line[s])

IInv == Types /\ LineExact /\ LiveSessionsAreMapped
--------------------------------------------------------------------------------
(* Taking the n-th element out of a list.                                  *)
LEMMA RemoveAtProperties ==
  ASSUME NEW S, NEW s \in Seq(S), NEW n \in 1..Len(s)
  PROVE  /\ RemoveAt(s, n) \in Seq(S)
         /\ Len(RemoveAt(s, n)) = Len(s) - 1
         /\ \A i \in 1..(Len(s) - 1) : RemoveAt(s, n)[i] = IF i < n THEN s[i] ELSE s[i + 1]
<1> DEFINE a == SubSeq(s, 1, n - 1)
           b == SubSeq(s, n + 1, Len(s))
<1>0. Len(s) \in Nat
  OBVIOUS
<1>1. a \in Seq(S) /\ Len(a) = n - 1 /\ \A i \in 1..(n - 1) : a[i] = s[i]
  OBVIOUS
<1>2. b \in Seq(S) /\ Len(b) = Len(s) - n /\ \A i \in 1..(Len(s) - n) : b[i] = s[n + i]
  BY <1>0
<1>3. RemoveAt(s, n) = a \o b
  BY DEF RemoveAt
<1> HIDE DEF a, b
<1>4. a \o b \in Seq(S) /\ Len(a \o b) = Len(s) - 1
  <2>1. a \in Seq(S) /\ b \in Seq(S)
    BY <1>1, <1>2
  <2>2. a \o b \in Seq(S) /\ Len(a \o b) = Len(a) + Len(b)
    BY <2>1, ConcatProperties
  <2>3. Len(a) = n - 1 /\ Len(b) = Len(s) - n
    BY <1>1, <1>2
  <2> QED  BY <1>0, <2>2, <2>3
<1>5. ASSUME NEW i \in 1..(Len(s) - 1)  PROVE (a \o b)[i] = IF i < n THEN s[i] ELSE s[i + 1]
  <2>1. CASE i < n
    BY <1>0, <1>1, <1>2, <2>1
  <2>2. CASE ~(i < n)
    <3>1. i - (n - 1) \in 1..(Len(s) - n) /\ n + (i - (n - 1)) = i + 1
      BY <1>0, <2>2
    <3>2. (a \o b)[i] = b[i - (n - 1)]
      BY <1>0, <1>1, <1>2, <2>2
    <3> QED  BY <1>2, <2>2, <3>1, <3>2
  <2> QED  BY <2>1, <2>2
<1> QED  BY <1>3, <1>4, <1>5

(* A step that leaves the pool's list of sessions alone.                   *)
Settled == UNCHANGED <<made, idOf>>

LEMMA MembersOf ==
  ASSUME Types
  PROVE  /\ \A s \in Session : idOf[s] \in Id \union {NoId} /\ line[s] \in Seq(Request)
         /\ \A i \in Id : sessionsById[i] # 0 => sessionsById[i] \in Session
BY DEF Types, Session

(* What happens to a session that a call creates.                          *)
LEMMA Created ==
  ASSUME Types, NEW r \in Request, NEW i \in Id \union {NoId}, phase[r] = "idle", CreateFor(r, i)
  PROVE  /\ Session' = Session \union {made + 1} /\ made + 1 \notin Session
         /\ idOf' \in Seq(Id \union {NoId}) /\ Len(idOf') = made' /\ idOf'[made + 1] = i
         /\ \A s \in Session : idOf'[s] = idOf[s]
         /\ line' \in Seq(Seq(Request)) /\ Len(line') = made' /\ line'[made + 1] = <<r>>
         /\ \A s \in Session : line'[s] = line[s]
         /\ phase' = [phase EXCEPT ![r] = "waiting"] /\ session' = [session EXCEPT ![r] = made + 1]
<1> USE DEF Types
<1>1. Session' = Session \union {made + 1} /\ made + 1 \notin Session
  BY DEF CreateFor, Session
<1>2. /\ idOf' \in Seq(Id \union {NoId}) /\ Len(idOf') = made' /\ idOf'[made + 1] = i
      /\ \A s \in Session : idOf'[s] = idOf[s]
  BY DEF CreateFor, Session
<1>3. <<r>> \in Seq(Request)
  OBVIOUS
<1>4. /\ line' \in Seq(Seq(Request)) /\ Len(line') = made' /\ line'[made + 1] = <<r>>
      /\ \A s \in Session : line'[s] = line[s]
  BY <1>3 DEF CreateFor, Session
<1>5. Len(<<>>) < MaxPending
  BY MaxPendingAssumption
<1>6. phase' = [phase EXCEPT ![r] = "waiting"] /\ session' = [session EXCEPT ![r] = made + 1]
  BY <1>5 DEF CreateFor, Enter
<1> HIDE DEF Types
<1> QED  BY <1>1, <1>2, <1>4, <1>6

(* Pruning keeps to the sessions there are.                                *)
LEMMA PruneTypes ==
  ASSUME Types, NEW r \in Request, phase[r] # "idle", NEW held, Prune(session[r], r, held)
  PROVE  /\ sessionsById' \in [Id -> 0..made]
         /\ connection' \subseteq Session /\ disposed' \subseteq Session
<1> DEFINE s == session[r]
<1>1. s \in Session /\ idOf[s] \in Id \union {NoId} /\ made \in Nat
  BY MembersOf DEF Types
<1>2. sessionsById \in [Id -> 0..made] /\ connection \subseteq Session /\ disposed \subseteq Session
  BY DEF Types
<1>3. \/ UNCHANGED <<disposed, connection>>
      \/ disposed' = disposed \union {s} /\ connection' = connection \ {s}
  BY DEF Prune, Dispose
<1>4. \/ sessionsById' = sessionsById
      \/ idOf[s] # NoId /\ sessionsById' = [sessionsById EXCEPT ![idOf[s]] = 0]
  BY DEF Prune
<1> HIDE DEF s
<1>5. sessionsById' \in [Id -> 0..made]
  BY <1>1, <1>2, <1>4
<1> QED  BY <1>1, <1>2, <1>3, <1>5

LEMMA TypesStep ==
  ASSUME Types, LineExact, Next  PROVE Types'
<1> USE DEF Types
<1>1. ASSUME NEW r \in Request, NEW i \in Id, IterateExisting(r, i)  PROVE Types'
  <2> DEFINE s == sessionsById[i]
  <2>1. s \in Session /\ line[s] \in Seq(Request)
    BY <1>1, MembersOf DEF IterateExisting
  <2>2. Joined(r, line[s]) \in Seq(Request)
    BY <2>1 DEF Joined
  <2>3. line' \in Seq(Seq(Request)) /\ Len(line') = made'
    BY <1>1, <2>1, <2>2 DEF IterateExisting, Session
  <2>4. phase' \in [Request -> Phase] /\ session' \in [Request -> 0..made']
        /\ \A q \in Request : phase'[q] # "idle" => session'[q] \in Session'
    BY <1>1, <2>1 DEF IterateExisting, Enter, Phase, Session
  <2>5. UNCHANGED <<made, idOf, sessionsById, connection, chain, disposed>> /\ Session' = Session
    BY <1>1 DEF IterateExisting, Session
  <2>6. /\ idOf' \in Seq(Id \union {NoId}) /\ Len(idOf') = made'
        /\ sessionsById' \in [Id -> 0..made'] /\ made' \in Nat
        /\ connection' \subseteq Session' /\ chain' \subseteq Session' /\ disposed' \subseteq Session'
    BY <2>5
  <2> QED  BY <2>3, <2>4, <2>5, <2>6
<1>2. ASSUME NEW r \in Request, NEW i \in Id \union {NoId}, phase[r] = "idle", CreateFor(r, i),
             sessionsById' \in [Id -> 0..made']
      PROVE  Types'
  <2>1. made' \in Nat /\ made' = made + 1 /\ UNCHANGED <<connection, chain, disposed>>
    BY <1>2 DEF CreateFor
  <2>2. phase' \in [Request -> Phase] /\ session' \in [Request -> 0..made']
        /\ \A q \in Request : phase'[q] # "idle" => session'[q] \in Session'
    <3>1. /\ phase' = [phase EXCEPT ![r] = "waiting"] /\ session' = [session EXCEPT ![r] = made + 1]
          /\ Session' = Session \union {made + 1}
      BY <1>2, Created
    <3>2. session' \in [Request -> 0..made']
      BY <2>1, <3>1
    <3>3. phase' \in [Request -> Phase]
      BY <3>1 DEF Phase
    <3> QED  BY <3>1, <3>2, <3>3
  <2>3. connection' \subseteq Session' /\ chain' \subseteq Session' /\ disposed' \subseteq Session'
    BY <1>2, <2>1, Created
  <2> QED  BY <1>2, <2>1, <2>2, <2>3, Created
<1>3. ASSUME NEW r \in Request, NEW i \in Id, IterateNew(r, i)  PROVE Types'
  <2>1. sessionsById' \in [Id -> 0..made'] /\ CreateFor(r, i) /\ phase[r] = "idle"
    BY <1>3 DEF IterateNew, CreateFor
  <2> QED  BY <1>2, <2>1
<1>4. ASSUME NEW r \in Request, IterateOwn(r)  PROVE Types'
  <2>1. sessionsById' \in [Id -> 0..made'] /\ CreateFor(r, NoId) /\ phase[r] = "idle"
    BY <1>4 DEF IterateOwn, CreateFor
  <2> QED  BY <1>2, <2>1
<1>5. ASSUME NEW r \in Request, phase[r] = "waiting", NEW q \in Seq(Request),
             line' = [line EXCEPT ![session[r]] = q], NEW p \in Phase,
             phase' = [phase EXCEPT ![r] = p],
             UNCHANGED <<session, made, idOf, sessionsById, connection, chain, disposed>>
      PROVE  Types'
  <2>1. session[r] \in 1..Len(line)
    BY <1>5 DEF Session
  <2>2. line' \in Seq(Seq(Request)) /\ Len(line') = made'
    BY <1>5, <2>1
  <2> QED  BY <1>5, <2>2 DEF Session
<1>6. ASSUME NEW r \in Request, Admit(r)  PROVE Types'
  <2>1. line[session[r]] \in Seq(Request) /\ phase[r] = "waiting"
    BY <1>6, MembersOf DEF Admit
  <2>2. line[session[r]] # <<>>
    <3>1. session[r] \in Session /\ r \in Callers(session[r], {"waiting"})
      BY <2>1 DEF Callers
    <3>2. PICK n \in 1..Len(line[session[r]]) : line[session[r]][n] = r
      BY <3>1 DEF LineExact, ListsWaiting
    <3> QED  BY <2>1, <3>2
  <2>3. Tail(line[session[r]]) \in Seq(Request)
    BY <2>1, <2>2
  <2> QED  BY <1>5, <1>6, <2>1, <2>3 DEF Admit, Phase
<1>7. ASSUME NEW r \in Request, GiveUp(r)  PROVE Types'
  <2>1. line[session[r]] \in Seq(Request) /\ phase[r] = "waiting"
    BY <1>7, MembersOf DEF GiveUp
  <2>2. PICK n \in DOMAIN line[session[r]] :
            line' = [line EXCEPT ![session[r]] = RemoveAt(line[session[r]], n)]
    BY <1>7 DEF GiveUp
  <2>4. n \in 1..Len(line[session[r]])
    BY <2>1
  <2>3. RemoveAt(line[session[r]], n) \in Seq(Request)
    BY <2>1, <2>4, RemoveAtProperties
  <2> QED  BY <1>5, <1>7, <2>1, <2>2, <2>3 DEF GiveUp, Phase
<1>8. ASSUME NEW r \in Request, Start(r) \/ Connect(r) \/ Continue(r)  PROVE Types'
  BY <1>8 DEF Start, Connect, Continue, Phase, Session
<1>9. ASSUME NEW r \in Request, Leave(r) \/ Finish(r)  PROVE Types'
  <2>1. /\ sessionsById' \in [Id -> 0..made]
        /\ connection' \subseteq Session /\ disposed' \subseteq Session
    BY <1>9, PruneTypes DEF Leave, Finish
  <2>2. chain' \subseteq Session /\ phase' \in [Request -> Phase]
        /\ \A q \in Request : phase'[q] # "idle" => phase[q] # "idle"
    BY <1>9 DEF Leave, Finish, Phase
  <2> QED  BY <1>9, <2>1, <2>2 DEF Leave, Finish, Session
<1>10. ASSUME NEW s \in Session, SocketCloses(s)  PROVE Types'
  BY <1>10 DEF SocketCloses, Session
<1>11. ASSUME NEW i \in Id, CloseSession(i)  PROVE Types'
  <2>1. sessionsById[i] \in Session
    BY <1>11, MembersOf DEF CloseSession
  <2>2. sessionsById' \in [Id -> 0..made] /\ disposed' \subseteq Session /\ connection' \subseteq Session
    BY <1>11, <2>1 DEF CloseSession, Dispose
  <2> QED  BY <1>11, <2>2 DEF CloseSession, Session
<1>12. ASSUME CloseAll  PROVE Types'
  <2>1. {sessionsById[i] : i \in Id} \ {0} \subseteq Session
    BY MembersOf
  <2>2. sessionsById' \in [Id -> 0..made] /\ disposed' \subseteq Session /\ connection' \subseteq Session
    BY <1>12, <2>1 DEF CloseAll, Dispose
  <2> QED  BY <1>12, <2>2 DEF CloseAll, Session
<1> QED  BY <1>1, <1>3, <1>4, <1>6, <1>7, <1>8, <1>9, <1>10, <1>11, <1>12 DEF Next

(* The lines follow the phases.                                            *)
LEMMA LineStep ==
  ASSUME Types, LineExact, Next  PROVE LineExact'
<1>1. ASSUME UNCHANGED <<session, line, made>>,
             \A q \in Request : phase'[q] = "waiting" <=> phase[q] = "waiting"
      PROVE  LineExact'
  BY <1>1 DEF LineExact, ListsWaiting, Callers, Session
<1>2. ASSUME NEW r \in Request, NEW i \in Id, IterateExisting(r, i)  PROVE LineExact'
  <2> DEFINE s == sessionsById[i]
  <2>1. s \in Session /\ line[s] \in Seq(Request) /\ Session' = Session /\ phase[r] = "idle"
    BY <1>2, MembersOf DEF IterateExisting, Session
  <2>2. \A t \in Session : line'[t] = IF t = s THEN Joined(r, line[s]) ELSE line[t]
    BY <1>2, <2>1 DEF IterateExisting, Types, Session
  <2>3. \A t \in Session : Callers(t, {"waiting"})' =
           IF t = s /\ Len(line[s]) < MaxPending THEN Callers(t, {"waiting"}) \union {r}
           ELSE Callers(t, {"waiting"})
    BY <1>2, <2>1 DEF IterateExisting, Enter, Callers, Types
  <2>4. r \notin Callers(s, {"waiting"})
    BY <2>1 DEF Callers
  <2> HIDE DEF s
  <2>5. ASSUME NEW t \in Session  PROVE ListsWaiting(t, line[t])'
    <3>1. ListsWaiting(t, line[t])
      BY DEF LineExact
    <3>2. CASE t = s /\ Len(line[s]) < MaxPending
      <4> DEFINE q == line[s]
      <4>1. line'[t] = Append(q, r) /\ q \in Seq(Request)
            /\ Callers(t, {"waiting"})' = Callers(s, {"waiting"}) \union {r}
        BY <2>1, <2>2, <2>3, <3>2 DEF Joined
      <4>2. /\ Len(line'[t]) = Len(q) + 1 /\ line'[t][Len(q) + 1] = r
            /\ \A n \in 1..Len(q) : line'[t][n] = q[n]
            /\ Len(q) \in Nat
        BY <4>1
      <4>3. ListsWaiting(s, q)
        BY <3>1, <3>2
      <4> HIDE DEF q
      <4> QED  BY <2>4, <4>1, <4>2, <4>3 DEF ListsWaiting
    <3>3. CASE ~(t = s /\ Len(line[s]) < MaxPending)
      <4>1. line'[t] = line[t] /\ Callers(t, {"waiting"})' = Callers(t, {"waiting"})
        BY <2>2, <2>3, <3>3 DEF Joined
      <4> QED  BY <3>1, <4>1 DEF ListsWaiting
    <3> QED  BY <3>2, <3>3
  <2> QED  BY <2>1, <2>5 DEF LineExact
<1>3. ASSUME NEW r \in Request, NEW i \in Id \union {NoId}, phase[r] = "idle", CreateFor(r, i)
      PROVE  LineExact'
  <2>1. /\ Session' = Session \union {made + 1} /\ made + 1 \notin Session
        /\ line'[made + 1] = <<r>> /\ \A s \in Session : line'[s] = line[s]
        /\ phase' = [phase EXCEPT ![r] = "waiting"] /\ session' = [session EXCEPT ![r] = made + 1]
    BY <1>3, Created
  <2>2. \A s \in Session : Callers(s, {"waiting"})' = Callers(s, {"waiting"})
    BY <1>3, <2>1 DEF Callers, Types
  <2>4. ASSUME NEW s \in Session  PROVE ListsWaiting(s, line[s])'
    BY <2>1, <2>2 DEF LineExact, ListsWaiting
  <2>5. ASSUME NEW s \in Session', s \notin Session  PROVE ListsWaiting(s, line[s])'
    <3>1. s = made + 1 /\ line'[s] = <<r>> /\ Len(<<r>>) = 1 /\ <<r>>[1] = r
      BY <2>1, <2>5
    <3>2. Callers(s, {"waiting"})' = {r}
      <4>1. \A q \in Request : q # r => session[q] # s
        BY <2>1, <3>1 DEF Types, Session
      <4> QED  BY <2>1, <3>1, <4>1 DEF Callers, Types
    <3> QED  BY <3>1, <3>2 DEF ListsWaiting
  <2> QED  BY <2>1, <2>4, <2>5 DEF LineExact
(* The caller r leaves its line, from place n.                             *)
<1>4. ASSUME NEW r \in Request, NEW p \in Phase \ {"waiting"}, phase[r] = "waiting",
             phase' = [phase EXCEPT ![r] = p], UNCHANGED <<session, made>>,
             NEW n \in 1..Len(line[session[r]]), line[session[r]][n] = r, NEW q,
             line' = [line EXCEPT ![session[r]] = q],
             Len(q) = Len(line[session[r]]) - 1,
             \A m \in 1..Len(q) : q[m] = line[session[r]][IF m < n THEN m ELSE m + 1]
      PROVE  LineExact'
  <2>0. PICK s \in Session : s = session[r]
    BY <1>4 DEF Types
  <2>7. PICK l : l = line[s]
    OBVIOUS
  <2>1. s \in Session /\ Session' = Session /\ l \in Seq(Request) /\ ListsWaiting(s, l)
        /\ Len(l) \in Nat
    BY <1>4, <2>7, MembersOf DEF Types, LineExact, Session
  <2>2. \A t \in Session : Callers(t, {"waiting"})' = Callers(t, {"waiting"}) \ {r}
    BY <1>4 DEF Callers, Types
  <2>3. \A t \in Session : line'[t] = IF t = s THEN q ELSE line[t]
    BY <1>4, <2>0, <2>1 DEF Types, Session
  <2>4. ASSUME NEW t \in Session, t # s  PROVE ListsWaiting(t, line[t])'
    <3>1. Callers(t, {"waiting"})' = Callers(t, {"waiting"})
      BY <2>0, <2>2, <2>4 DEF Callers
    <3> QED  BY <2>3, <2>4, <3>1 DEF LineExact, ListsWaiting
  <2>5. ListsWaiting(s, q)'
    <3>1. Len(q) = Len(l) - 1 /\ n \in 1..Len(l) /\ l[n] = r
          /\ \A m \in 1..Len(q) : q[m] = l[IF m < n THEN m ELSE m + 1]
      BY <1>4, <2>0, <2>7
    <3>2. ASSUME NEW m \in 1..Len(q)  PROVE q[m] \in Callers(s, {"waiting"}) \ {r}
      BY <2>1, <3>1 DEF ListsWaiting
    <3>3. ASSUME NEW m \in 1..Len(q), NEW k \in 1..Len(q), q[m] = q[k]  PROVE m = k
      <4> DEFINE place(j) == IF j < n THEN j ELSE j + 1
      <4>1. place(m) \in 1..Len(l) /\ place(k) \in 1..Len(l)
        BY <2>1, <3>1
      <4>2. l[place(m)] = l[place(k)]
        BY <3>1, <3>3
      <4>3. place(m) = place(k)
        BY <2>1, <4>1, <4>2 DEF ListsWaiting
      <4> QED  BY <2>1, <3>1, <4>3
    <3>4. ASSUME NEW c \in Callers(s, {"waiting"}) \ {r}  PROVE \E m \in 1..Len(q) : q[m] = c
      <4>1. PICK k \in 1..Len(l) : l[k] = c
        BY <2>1 DEF ListsWaiting
      <4>2. k # n
        BY <3>1, <4>1
      <4>3. CASE k < n
        BY <2>1, <3>1, <4>1, <4>3
      <4>4. CASE k > n
        <5>1. k - 1 \in 1..Len(q) /\ ~(k - 1 < n) /\ (k - 1) + 1 = k
          BY <2>1, <3>1, <4>4
        <5>2. q[k - 1] = c
          BY <3>1, <4>1, <5>1
        <5> QED  BY <5>1, <5>2
      <4> QED  BY <2>1, <4>2, <4>3, <4>4
    <3>5. Callers(s, {"waiting"})' = Callers(s, {"waiting"}) \ {r}
      BY <2>1, <2>2
    <3> QED  BY <3>2, <3>3, <3>4, <3>5 DEF ListsWaiting
  <2> QED  BY <2>1, <2>3, <2>4, <2>5 DEF LineExact
<1>5. ASSUME NEW r \in Request, Admit(r)  PROVE LineExact'
  <2> DEFINE l == line[session[r]]
  <2>1. l \in Seq(Request) /\ phase[r] = "waiting" /\ Head(l) = r
        /\ session[r] \in Session /\ r \in Callers(session[r], {"waiting"})
    BY <1>5, MembersOf DEF Admit, Types, Callers
  <2>2. l # <<>>
    BY <2>1 DEF LineExact, ListsWaiting
  <2>3. /\ 1 \in 1..Len(l) /\ l[1] = r /\ Len(Tail(l)) = Len(l) - 1
        /\ \A m \in 1..Len(Tail(l)) : Tail(l)[m] = l[IF m < 1 THEN m ELSE m + 1]
    BY <2>1, <2>2
  <2>4. line' = [line EXCEPT ![session[r]] = Tail(l)] /\ phase' = [phase EXCEPT ![r] = "admitted"]
        /\ UNCHANGED <<session, made>> /\ "admitted" \in Phase \ {"waiting"}
    BY <1>5 DEF Admit, Phase
  <2> QED  BY <1>4, <2>1, <2>3, <2>4
<1>6. ASSUME NEW r \in Request, GiveUp(r)  PROVE LineExact'
  <2> DEFINE l == line[session[r]]
  <2>1. l \in Seq(Request) /\ phase[r] = "waiting" /\ Len(l) \in Nat
    BY <1>6, MembersOf DEF GiveUp, Types
  <2>2. PICK n \in DOMAIN l : l[n] = r /\ line' = [line EXCEPT ![session[r]] = RemoveAt(l, n)]
    BY <1>6 DEF GiveUp
  <2>3. n \in 1..Len(l)
    BY <2>1, <2>2
  <2>4. /\ Len(RemoveAt(l, n)) = Len(l) - 1
        /\ \A m \in 1..(Len(l) - 1) : RemoveAt(l, n)[m] = IF m < n THEN l[m] ELSE l[m + 1]
    BY <2>1, <2>3, RemoveAtProperties
  <2>5. \A m \in 1..Len(RemoveAt(l, n)) : RemoveAt(l, n)[m] = l[IF m < n THEN m ELSE m + 1]
    BY <2>4
  <2>6. phase' = [phase EXCEPT ![r] = "leaving"] /\ UNCHANGED <<session, made>>
        /\ "leaving" \in Phase \ {"waiting"}
    BY <1>6 DEF GiveUp, Phase
  <2> QED  BY <1>4, <2>1, <2>2, <2>3, <2>4, <2>5, <2>6
<1>7. ASSUME NEW r \in Request, NEW i \in Id, IterateNew(r, i)  PROVE LineExact'
  BY <1>3, <1>7 DEF IterateNew
<1>8. ASSUME NEW r \in Request, IterateOwn(r)  PROVE LineExact'
  BY <1>3, <1>8 DEF IterateOwn
<1>9. ASSUME NEW r \in Request, Start(r) \/ Connect(r) \/ Continue(r) \/ Leave(r) \/ Finish(r)
      PROVE  LineExact'
  <2>1. UNCHANGED <<session, line, made>>
    BY <1>9 DEF Start, Connect, Continue, Leave, Finish
  <2>2. \A q \in Request : phase'[q] = "waiting" <=> phase[q] = "waiting"
    BY <1>9 DEF Start, Connect, Continue, Leave, Finish, Types
  <2> QED  BY <1>1, <2>1, <2>2
<1>10. ASSUME (\E s \in Session : SocketCloses(s)) \/ (\E i \in Id : CloseSession(i)) \/ CloseAll
       PROVE  LineExact'
  BY <1>1, <1>10 DEF SocketCloses, CloseSession, CloseAll
<1> QED  BY <1>2, <1>5, <1>6, <1>7, <1>8, <1>9, <1>10 DEF Next
--------------------------------------------------------------------------------
(* The three parts of LiveSessionsAreMapped.                               *)
Held(s) == \/ s \in disposed
           \/ Mapped(s)
           \/ idOf[s] = NoId /\ Callers(s, Phase \ {"idle", "done"}) # {}
MapIsLive == \A i \in Id : sessionsById[i] # 0 =>
                 sessionsById[i] \notin disposed /\ idOf[sessionsById[i]] = i

LEMMA Parts ==
  LiveSessionsAreMapped <=> (\A s \in Session : Held(s)) /\ MapIsLive /\ connection \intersect disposed = {}
BY DEF LiveSessionsAreMapped, Held, MapIsLive

(* No two IDs share a session.                                             *)
LEMMA OneIdPerSession ==
  ASSUME Types, MapIsLive, NEW s \in Session, Mapped(s)
  PROVE  idOf[s] \in Id /\ \A i \in Id : sessionsById[i] = s => i = idOf[s]
<1>1. s # 0 /\ idOf[s] \in Id
  BY MembersOf DEF Session, Mapped, Types
<1> QED  BY <1>1 DEF MapIsLive

(* Disposing of a session and taking it out of the map go together.        *)
LEMMA DisposedUnmapped ==
  ASSUME Types, LiveSessionsAreMapped, NEW s \in Session, Mapped(s),
         Dispose({s}), sessionsById' = [sessionsById EXCEPT ![idOf[s]] = 0],
         UNCHANGED <<made, idOf>>,
         \A t \in Session : t # s /\ Callers(t, Phase \ {"idle", "done"}) # {}
             => Callers(t, Phase \ {"idle", "done"})' # {}
  PROVE  LiveSessionsAreMapped'
<1>1. (\A t \in Session : Held(t)) /\ MapIsLive /\ connection \intersect disposed = {}
  BY Parts
<1>2. idOf[s] \in Id /\ \A i \in Id : sessionsById[i] = s => i = idOf[s]
  BY <1>1, OneIdPerSession
<1>3. /\ sessionsById'[idOf[s]] = 0
      /\ \A i \in Id : i # idOf[s] => sessionsById'[i] = sessionsById[i]
  BY <1>2 DEF Types
<1>4. ASSUME NEW t \in Session  PROVE Held(t)'
  <2>1. CASE t = s
    BY <2>1 DEF Held, Dispose
  <2>2. CASE t # s
    <3>1. t \in disposed => t \in disposed'
      BY DEF Dispose
    <3>2. Mapped(t) => Mapped(t)'
      <4>1. Mapped(t) => idOf[t] # idOf[s]
        BY <2>2 DEF Mapped
      <4>2. idOf[t] \in Id \union {NoId}
        BY MembersOf
      <4> QED  BY <1>3, <4>1, <4>2 DEF Mapped
    <3> QED  BY <1>1, <2>2, <3>1, <3>2 DEF Held
  <2> QED  BY <2>1, <2>2
<1>5. MapIsLive'
  BY <1>1, <1>2, <1>3 DEF MapIsLive, Dispose
<1>6. connection' \intersect disposed' = {} /\ Session' = Session
  BY <1>1 DEF Dispose, Session
<1> QED  BY <1>4, <1>5, <1>6 DEF LiveSessionsAreMapped, Held, MapIsLive

LEMMA LiveStep ==
  ASSUME Types, LineExact, LiveSessionsAreMapped, Next  PROVE LiveSessionsAreMapped'
<1>0. (\A s \in Session : Held(s)) /\ MapIsLive /\ connection \intersect disposed = {}
  BY Parts
<1> DEFINE Busy == Phase \ {"idle", "done"}
(* The pool and what is disposed stay, and callers go on.                  *)
<1>1. ASSUME UNCHANGED <<made, idOf, sessionsById, disposed>>,
             \A s \in Session : Callers(s, Busy) # {} => Callers(s, Busy)' # {},
             connection' \intersect disposed = {}
      PROVE  LiveSessionsAreMapped'
  <2>1. Session' = Session
    BY <1>1 DEF Session
  <2>2. \A s \in Session : Mapped(s) => Mapped(s)'
    BY <1>1 DEF Mapped
  <2>3. \A s \in Session : Held(s)'
    BY <1>0, <1>1, <2>2 DEF Held
  <2>4. MapIsLive'
    BY <1>0, <1>1 DEF MapIsLive
  <2> QED  BY <1>1, <2>1, <2>3, <2>4 DEF LiveSessionsAreMapped, Held, MapIsLive
<1>2. ASSUME NEW r \in Request, phase'[r] \in Busy, session'[r] = session[r] \/ phase[r] \notin Busy,
             \A q \in Request \ {r} : phase'[q] = phase[q] /\ session'[q] = session[q]
      PROVE  \A s \in Session : Callers(s, Busy) # {} => Callers(s, Busy)' # {}
  <2>1. ASSUME NEW s \in Session, NEW q \in Callers(s, Busy)  PROVE q \in Callers(s, Busy)'
    BY <1>2 DEF Callers
  <2> QED  BY <2>1
<1>3. ASSUME NEW r \in Request, NEW i \in Id, IterateExisting(r, i)  PROVE LiveSessionsAreMapped'
  <2>1. phase'[r] \in Busy /\ phase[r] \notin Busy
        /\ \A q \in Request \ {r} : phase'[q] = phase[q] /\ session'[q] = session[q]
    BY <1>3 DEF IterateExisting, Enter, Types, Phase
  <2>2. UNCHANGED <<made, idOf, sessionsById, disposed, connection>>
    BY <1>3 DEF IterateExisting
  <2> QED  BY <1>0, <1>1, <1>2, <2>1, <2>2
<1>4. ASSUME NEW r \in Request,
             Admit(r) \/ GiveUp(r) \/ Start(r) \/ Connect(r) \/ Continue(r)
      PROVE  LiveSessionsAreMapped'
  <2>1. phase'[r] \in Busy /\ session'[r] = session[r]
        /\ \A q \in Request \ {r} : phase'[q] = phase[q] /\ session'[q] = session[q]
    BY <1>4 DEF Admit, GiveUp, Start, Connect, Continue, Types, Phase
  <2>2. UNCHANGED <<made, idOf, sessionsById, disposed>> /\ connection' \intersect disposed = {}
    BY <1>0, <1>4 DEF Admit, GiveUp, Start, Connect, Continue
  <2> QED  BY <1>1, <1>2, <2>1, <2>2
<1>5. ASSUME NEW r \in Request, NEW i \in Id \union {NoId}, phase[r] = "idle", CreateFor(r, i),
             \/ i = NoId /\ sessionsById' = sessionsById
             \/ /\ i \in Id /\ sessionsById[i] = 0
                /\ sessionsById' = [sessionsById EXCEPT ![i] = made + 1]
      PROVE  LiveSessionsAreMapped'
  <2>1. /\ Session' = Session \union {made + 1} /\ made + 1 \notin Session
        /\ idOf'[made + 1] = i /\ \A s \in Session : idOf'[s] = idOf[s]
        /\ phase' = [phase EXCEPT ![r] = "waiting"] /\ session' = [session EXCEPT ![r] = made + 1]
    BY <1>5, Created
  <2>2. disposed' = disposed /\ connection' = connection /\ disposed \subseteq Session
    BY <1>5 DEF CreateFor, Types
  <2>3. i \in Id => i # NoId
    BY IdAssumption
  <2>4. \A j \in Id : sessionsById'[j] = IF j = i THEN made + 1 ELSE sessionsById[j]
    BY <1>5, <2>3 DEF Types
  <2>5. \A s \in Session : Callers(s, Busy) # {} => Callers(s, Busy)' # {}
    <3>1. phase'[r] \in Busy /\ phase[r] \notin Busy
          /\ \A q \in Request \ {r} : phase'[q] = phase[q] /\ session'[q] = session[q]
      BY <1>5, <2>1 DEF Types, Phase
    <3> QED  BY <1>2, <3>1
  <2>6. ASSUME NEW s \in Session  PROVE Held(s)'
    <3>1. Mapped(s) => Mapped(s)'
      <4>1. idOf[s] \in Id \union {NoId} /\ idOf'[s] = idOf[s] /\ s # 0
        BY <2>1, MembersOf DEF Session
      <4>2. Mapped(s) => idOf[s] # i
        BY <1>5, <4>1 DEF Mapped
      <4> QED  BY <2>4, <4>1, <4>2 DEF Mapped
    <3> QED  BY <1>0, <2>1, <2>2, <2>5, <3>1 DEF Held
  <2>7. ASSUME NEW s \in Session', s \notin Session  PROVE Held(s)'
    <3>1. s = made + 1 /\ idOf'[s] = i
      BY <2>1, <2>7
    <3>2. CASE i \in Id
      BY <2>3, <2>4, <3>1, <3>2 DEF Held, Mapped
    <3>3. CASE i = NoId
      <4>1. session'[r] = s /\ phase'[r] \in Busy
        BY <2>1, <3>1 DEF Types, Phase
      <4>2. r \in Callers(s, Busy)'
        BY <4>1 DEF Callers
      <4> QED  BY <3>1, <3>3, <4>2 DEF Held
    <3> QED  BY <3>2, <3>3
  <2>8. MapIsLive'
    <3>1. ASSUME NEW j \in Id, sessionsById'[j] # 0
          PROVE  sessionsById'[j] \notin disposed' /\ idOf'[sessionsById'[j]] = j
      <4>1. CASE j = i
        BY <2>1, <2>2, <2>4, <4>1
      <4>2. CASE j # i
        <5>1. sessionsById'[j] = sessionsById[j] /\ sessionsById[j] \in Session
          BY <2>4, <3>1, <4>2, MembersOf
        <5> QED  BY <1>0, <2>1, <2>2, <3>1, <5>1 DEF MapIsLive
      <4> QED  BY <4>1, <4>2
    <3> QED  BY <3>1 DEF MapIsLive
  <2>9. \A s \in Session' : Held(s)'
    BY <2>6, <2>7
  <2>10. connection' \intersect disposed' = {}
    BY <1>0, <2>2
  <2> QED  BY <2>8, <2>9, <2>10 DEF LiveSessionsAreMapped, Held, MapIsLive
<1>6. ASSUME NEW r \in Request, NEW i \in Id, IterateNew(r, i)  PROVE LiveSessionsAreMapped'
  BY <1>5, <1>6 DEF IterateNew
<1>7. ASSUME NEW r \in Request, IterateOwn(r)  PROVE LiveSessionsAreMapped'
  BY <1>5, <1>7 DEF IterateOwn
(* A call ends: its session has lost a caller.                             *)
<1>8. ASSUME NEW r \in Request, Leave(r) \/ Finish(r)  PROVE LiveSessionsAreMapped'
  <2>0. PICK s \in Session : s = session[r]
    BY <1>8 DEF Leave, Finish, Types
  <2>1. PICK held : Prune(s, r, held)
    BY <1>8, <2>0 DEF Leave, Finish
  <2>2. UNCHANGED <<made, idOf, session>> /\ phase' = [phase EXCEPT ![r] = "done"]
    BY <1>8 DEF Leave, Finish
  <2>3. ASSUME NEW t \in Session, t # s, Callers(t, Busy) # {}  PROVE Callers(t, Busy)' # {}
    <3>1. PICK q \in Callers(t, Busy) : TRUE
      BY <2>3
    <3>2. q \in Callers(t, Busy)'
      BY <2>0, <2>2, <2>3, <3>1 DEF Callers, Types
    <3> QED  BY <3>2
  <2>4. CASE idOf[s] = NoId
    <3>1. Dispose({s}) /\ sessionsById' = sessionsById
      BY <2>1, <2>4 DEF Prune
    <3>2. \A t \in Session : Mapped(t) => Mapped(t)'
      BY <2>2, <3>1 DEF Mapped
    <3>3. \A t \in Session : Held(t)'
      BY <1>0, <2>2, <2>3, <3>1, <3>2 DEF Held, Dispose
    <3>4. MapIsLive'
      <4>1. \A i \in Id : sessionsById[i] = s => s = 0
        BY <1>0, <2>4, IdAssumption DEF MapIsLive
      <4> QED  BY <1>0, <2>2, <3>1, <4>1 DEF MapIsLive, Dispose
    <3>5. connection' \intersect disposed' = {} /\ Session' = Session
      BY <1>0, <2>2, <3>1 DEF Dispose, Session
    <3> QED  BY <3>3, <3>4, <3>5 DEF LiveSessionsAreMapped, Held, MapIsLive
  <2>5. CASE idOf[s] # NoId /\ Unused(s, r, held) /\ Mapped(s)
    BY <2>1, <2>2, <2>3, <2>5, DisposedUnmapped DEF Prune
  <2>6. CASE idOf[s] # NoId /\ ~(Unused(s, r, held) /\ Mapped(s))
    <3>1. UNCHANGED <<disposed, connection, sessionsById>>
      BY <2>1, <2>6 DEF Prune
    <3>2. \A t \in Session : Mapped(t) => Mapped(t)'
      BY <2>2, <3>1 DEF Mapped
    <3>3. \A t \in Session : Held(t)'
      BY <1>0, <2>2, <2>3, <2>6, <3>1, <3>2 DEF Held
    <3>4. MapIsLive' /\ connection' \intersect disposed' = {} /\ Session' = Session
      BY <1>0, <2>2, <3>1 DEF MapIsLive, Session
    <3> QED  BY <3>3, <3>4 DEF LiveSessionsAreMapped, Held, MapIsLive
  <2> QED  BY <2>4, <2>5, <2>6
<1>9. ASSUME NEW s \in Session, SocketCloses(s)  PROVE LiveSessionsAreMapped'
  BY <1>0, <1>1, <1>9 DEF SocketCloses, Callers
<1>10. ASSUME NEW i \in Id, CloseSession(i)  PROVE LiveSessionsAreMapped'
  <2>1. PICK s \in Session : s = sessionsById[i]
    BY <1>10, MembersOf DEF CloseSession
  <2>2. idOf[s] = i /\ Mapped(s)
    BY <1>0, <1>10, <2>1, IdAssumption DEF CloseSession, MapIsLive, Mapped
  <2> QED  BY <1>10, <2>1, <2>2, DisposedUnmapped DEF CloseSession, Callers
<1>11. ASSUME CloseAll  PROVE LiveSessionsAreMapped'
  <2>1. UNCHANGED <<made, idOf, phase, session>> /\ \A i \in Id : sessionsById'[i] = 0
    BY <1>11 DEF CloseAll
  <2>2. \A s \in Session : Mapped(s) => s \in disposed'
    BY <1>11, MembersOf DEF CloseAll, Dispose, Mapped, Session
  <2>3. disposed \subseteq disposed'
    BY <1>11 DEF CloseAll, Dispose
  <2>4. \A s \in Session : Held(s)'
    BY <1>0, <2>1, <2>2, <2>3 DEF Held, Callers
  <2>5. MapIsLive' /\ Session' = Session
    BY <2>1 DEF MapIsLive, Session
  <2>6. connection' \intersect disposed' = {}
    BY <1>0, <1>11 DEF CloseAll, Dispose
  <2> QED  BY <2>4, <2>5, <2>6 DEF LiveSessionsAreMapped, Held, MapIsLive
<1> QED  BY <1>3, <1>4, <1>6, <1>7, <1>8, <1>9, <1>10, <1>11 DEF Next
--------------------------------------------------------------------------------
LEMMA Initially == Init => IInv
<1> SUFFICES ASSUME Init  PROVE IInv
  OBVIOUS
<1> USE DEF Init
<1>1. Session = {}
  BY DEF Session
<1>2. Types
  BY <1>1 DEF Types, Phase
<1>3. LineExact /\ LiveSessionsAreMapped
  BY <1>1 DEF LineExact, LiveSessionsAreMapped
<1> QED  BY <1>2, <1>3 DEF IInv

(* Every step keeps the invariant.                                         *)
LEMMA Inductive == IInv /\ [Next]_vars => IInv'
<1> SUFFICES ASSUME IInv, [Next]_vars  PROVE IInv'
  OBVIOUS
<1> USE DEF IInv
<1>1. CASE Next
  BY <1>1, TypesStep, LineStep, LiveStep
<1>2. CASE UNCHANGED vars
  <2> USE <1>2 DEF vars
  <2>1. Types'
    BY DEF Types, Session
  <2>2. LineExact'
    BY DEF LineExact, ListsWaiting, Callers, Session
  <2>3. LiveSessionsAreMapped'
    BY DEF LiveSessionsAreMapped, Mapped, Callers, Session
  <2> QED  BY <2>1, <2>2, <2>3
<1> QED  BY <1>1, <1>2

LEMMA Invariant == Spec => []IInv
BY Initially, Inductive, PTL DEF Spec
--------------------------------------------------------------------------------
(* Sessions have IDs and lines of callers; calls are in sessions.          *)
THEOREM TypeCorrect == Spec => []TypeOK
<1>1. Types => TypeOK
  BY DEF Types, TypeOK, Session
<1> QED  BY <1>1, Invariant, PTL DEF IInv

(* No session and no socket outlives the last reference to it, and the map *)
(* holds live sessions only, however many calls and IDs there are.         *)
THEOREM LiveCorrect == Spec => []LiveSessionsAreMapped
<1>1. IInv => LiveSessionsAreMapped
  BY DEF IInv
<1> QED  BY <1>1, Invariant, PTL

(* A call that is not idle is in a session that has been made.             *)
LEMMA RunsInOne ==
  ASSUME IInv, NEW r \in Request, phase[r] \in {"leaving", "active"}
  PROVE  session[r] \in Session
BY DEF IInv, Types

(* Only the two finally blocks end a call.                                 *)
LEMMA OnlyTheseEnd ==
  ASSUME IInv, Next, NEW r \in Request, Ends(r)
  PROVE  Leave(r) \/ Finish(r)
<1> DEFINE Moves(q, p) == p # "done" /\ phase' = [phase EXCEPT ![q] = p]
<1>1. phase \in [Request -> Phase]
  BY DEF IInv, Types
<1>2. ASSUME NEW q \in Request, NEW p, Moves(q, p)  PROVE FALSE
  BY <1>1, <1>2 DEF Ends
<1>3. phase' # phase
  BY DEF Ends
<1>4. ASSUME NEW q \in Request, NEW i \in Id, IterateExisting(q, i)  PROVE FALSE
  <2>1. Moves(q, "waiting") \/ Moves(q, "leaving")
    BY <1>4 DEF IterateExisting, Enter
  <2> QED  BY <2>1, <1>2
<1>5. ASSUME NEW q \in Request, NEW i \in Id \union {NoId}, CreateFor(q, i)  PROVE FALSE
  <2>1. Moves(q, "waiting") \/ Moves(q, "leaving")
    BY <1>5 DEF CreateFor, Enter
  <2> QED  BY <2>1, <1>2
<1>6. ASSUME NEW q \in Request, Admit(q) \/ GiveUp(q) \/ Start(q)  PROVE FALSE
  <2>1. Moves(q, "admitted") \/ Moves(q, "leaving") \/ Moves(q, "active")
    BY <1>6 DEF Admit, GiveUp, Start
  <2> QED  BY <2>1, <1>2
<1>7. ASSUME NEW q \in Request, Leave(q) \/ Finish(q)  PROVE q = r
  BY <1>1, <1>7 DEF Ends, Leave, Finish
<1> QED
  BY <1>3, <1>4, <1>5, <1>6, <1>7
     DEF Next, IterateNew, IterateOwn, Connect, Continue, SocketCloses, CloseSession, CloseAll

(* A call that ends takes its session out exactly when nobody waits in it  *)
(* or runs in it and it has neither a socket nor a continuation.           *)
THEOREM PruneCorrect == Spec => PruneSparesTheLine
<1> DEFINE Spares(r) ==
       LET s == session[r]
           InUse == \/ Callers(s, {"waiting", "active"}) \ {r} # {}
                    \/ s \in connection \union chain'
       IN  idOf[s] # NoId /\ s \notin disposed => (s \in disposed' <=> ~InUse)
<1>1. ASSUME IInv, Next, NEW r \in Request, Ends(r)  PROVE Spares(r)
  <2> USE DEF IInv
  <2>1. Leave(r) \/ Finish(r)
    BY <1>1, OnlyTheseEnd
  <2>2. PICK s \in Session : s = session[r]
    <3>1. session[r] \in Session
      BY <1>1, <2>1, RunsInOne DEF Leave, Finish
    <3> QED  BY <3>1
  <2>3. Prune(s, r, chain')
    <3>1. CASE Leave(r)
      <4>1. chain' = chain /\ Prune(session[r], r, chain)
        BY <3>1 DEF Leave
      <4> QED  BY <4>1, <2>2
    <3>2. CASE Finish(r)
      BY <3>2, <2>2 DEF Finish
    <3> QED  BY <2>1, <3>1, <3>2
  <2>4. phase[r] # "waiting"
    BY <2>1 DEF Leave, Finish
  <2>5. ASSUME idOf[s] # NoId, s \notin disposed
        PROVE  s \in disposed' <=> /\ Callers(s, {"waiting", "active"}) \ {r} = {}
                                   /\ s \notin connection \union chain'
    <3>1. Mapped(s)
      BY <1>1, <2>5 DEF LiveSessionsAreMapped
    <3>2. s \in disposed' <=> Unused(s, r, chain')
      BY <2>3, <2>5, <3>1 DEF Prune, Dispose
    <3>3. line[s] = <<>> <=> Callers(s, {"waiting"}) = {}
      <4>1. line[s] \in Seq(Request) /\ ListsWaiting(s, line[s])
        BY <1>1, MembersOf DEF LineExact
      <4> QED  BY <4>1 DEF ListsWaiting
    <3>4. Callers(s, {"waiting", "active"}) \ {r} =
             Callers(s, {"waiting"}) \union (Callers(s, {"active"}) \ {r})
      BY <2>4 DEF Callers
    <3> QED  BY <3>2, <3>3, <3>4 DEF Unused
  <2> QED  BY <2>2, <2>5
<1>2. ASSUME IInv, [Next]_vars  PROVE [\A r \in Request : Ends(r) => Spares(r)]_vars
  BY <1>1, <1>2
<1> QED  BY <1>2, Invariant, PTL DEF PruneSparesTheLine, Spec
================================================================================
