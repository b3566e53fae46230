--------------------------- MODULE SessionGate_proofs ---------------------------
(***************************************************************************)
(* Proofs about SessionGate for any set of requests, an unbounded one      *)
(* included, and any bound on the line.  The argument for mutual exclusion *)
(* is ChainInOrder: the resolved promises are 0..k for some k, and a       *)
(* caller past acquire is the one whose promise is k + 1.                  *)
(***************************************************************************)
EXTENDS SessionGate, FiniteSetTheorems, TLAPS

ActiveFlag == active <=> InPhase({"active"}) # {}

(* The inductive invariant.  TypeOK alone is not inductive: the counter    *)
(* stays a natural number only because it counts the callers that wait,    *)
(* of whom there are finitely many.                                        *)
CountInv == IsFiniteSet(Waiting) /\ PendingIsExact
IInv == TypeOK /\ ChainInOrder /\ CountInv /\ ActiveFlag

(* At most one caller can be first in the chain: of two that are past      *)
(* acquire, the one with the older promise would have it resolved already. *)
LEMMA OneHolder ==
  ASSUME TypeOK, ChainInOrder, NEW r \in Holders, NEW q \in Holders
  PROVE  r = q
<1>1. /\ r \in Unresolved /\ q \in Unresolved
      /\ promise[r] \in Nat /\ promise[q] \in Nat
      /\ created \in Nat
  BY DEF Holders, Unresolved, InPhase, TypeOK
<1>2. /\ promise[r] \in 1..created /\ promise[r] \notin resolved
      /\ promise[q] \in 1..created /\ promise[q] \notin resolved
      /\ promise[r] - 1 \in resolved /\ promise[q] - 1 \in resolved
  BY <1>1 DEF ChainInOrder, PreviousResolved
<1>3. CASE promise[r] < promise[q]
  <2>1. promise[r] \in 0..(promise[q] - 1)
    BY <1>1, <1>3
  <2> QED  BY <1>2, <2>1 DEF ChainInOrder
<1>4. CASE promise[q] < promise[r]
  <2>1. promise[q] \in 0..(promise[r] - 1)
    BY <1>1, <1>4
  <2> QED  BY <1>2, <2>1 DEF ChainInOrder
<1>5. CASE promise[r] = promise[q]
  BY <1>1, <1>5 DEF ChainInOrder
<1> QED  BY <1>1, <1>3, <1>4, <1>5

(* Joining and leaving a finite line change its number by one.            *)
LEMMA JoinCounts ==
  ASSUME NEW r \in Request, r \notin Waiting, Waiting' = Waiting \union {r},
         IsFiniteSet(Waiting)
  PROVE  IsFiniteSet(Waiting') /\ Cardinality(Waiting') = Cardinality(Waiting) + 1
  BY FS_AddElement

LEMMA LeaveCounts ==
  ASSUME NEW r \in Waiting, Waiting' = Waiting \ {r}, IsFiniteSet(Waiting)
  PROVE  /\ IsFiniteSet(Waiting')
         /\ Cardinality(Waiting') = Cardinality(Waiting) - 1
         /\ Cardinality(Waiting) > 0
<1>1. IsFiniteSet(Waiting \ {r}) /\ Cardinality(Waiting) \in Nat /\ Cardinality(Waiting \ {r}) = Cardinality(Waiting) - 1
  BY FS_RemoveElement, FS_CardinalityType
<1>2. Cardinality(Waiting \ {r}) \in Nat
  BY FS_RemoveElement, FS_CardinalityType
<1> QED  BY <1>1, <1>2

(* The counter keeps step with the line.                                   *)
LEMMA PendingStep ==
  ASSUME TypeOK, CountInv, [Next]_vars
  PROVE  CountInv' /\ pendingAcquires' \in Nat
<1> USE MaxPendingAssumption DEF TypeOK, PendingIsExact, CountInv
<1>1. ASSUME NEW r \in Request, Acquire(r)  PROVE CountInv' /\ pendingAcquires' \in Nat
  <2>1. r \notin Waiting /\ Waiting' = Waiting \union {r}
    BY <1>1 DEF Acquire, Waiting, InPhase
  <2> QED  BY <1>1, <2>1, JoinCounts DEF Acquire
<1>2. ASSUME NEW r \in Request, Admit(r) \/ GiveUp(r)
      PROVE  CountInv' /\ pendingAcquires' \in Nat
  <2>1. r \in Waiting /\ Waiting' = Waiting \ {r}
    BY <1>2 DEF Admit, GiveUp, Waiting, InPhase
  <2>2. pendingAcquires' = pendingAcquires - 1
    BY <1>2 DEF Admit, GiveUp
  <2>3. IsFiniteSet(Waiting') /\ Cardinality(Waiting') = Cardinality(Waiting) - 1 /\ Cardinality(Waiting) > 0
    BY <2>1, LeaveCounts
  <2> QED  BY <2>2, <2>3
<1>3. ASSUME NEW r \in Request,
             \/ Reject(r) \/ Forward(r) \/ Start(r) \/ StartDisposed(r) \/ Finish(r)
      PROVE  CountInv' /\ pendingAcquires' \in Nat
  <2>1. Waiting' = Waiting
    BY <1>3 DEF Reject, Forward, Start, StartDisposed, Finish, Waiting, InPhase
  <2>2. pendingAcquires' = pendingAcquires
    BY <1>3 DEF Reject, Forward, Start, StartDisposed, Finish
  <2> QED  BY <2>1, <2>2
<1>4. CASE Dispose
  BY <1>4 DEF Dispose, Waiting, InPhase
<1>5. CASE UNCHANGED vars
  BY <1>5 DEF vars, Waiting, InPhase
<1> QED
  BY <1>1, <1>2, <1>3, <1>4, <1>5 DEF Next, AbortWaiting, DisposedWaiting

(* The variables keep their types.                                         *)
LEMMA TypeStep ==
  ASSUME TypeOK, CountInv, [Next]_vars
  PROVE  TypeOK'
<1>1. pendingAcquires' \in Nat
  BY PendingStep
<1> USE <1>1 DEF TypeOK, Phase
<1>2. ASSUME NEW r \in Request, Acquire(r) \/ Reject(r) \/ Admit(r) \/ GiveUp(r) \/ Start(r)
      PROVE  TypeOK'
  <2>1. CASE Acquire(r)
    BY <2>1 DEF Acquire
  <2>2. CASE Reject(r) \/ Admit(r) \/ GiveUp(r) \/ Start(r)
    BY <2>2 DEF Reject, Admit, GiveUp, Start
  <2> QED  BY <1>2, <2>1, <2>2
<1>3. ASSUME NEW r \in Request, Forward(r) \/ StartDisposed(r) \/ Finish(r)
      PROVE  TypeOK'
  BY <1>3 DEF Forward, StartDisposed, Finish
<1>4. CASE Dispose
  BY <1>4 DEF Dispose
<1>5. CASE UNCHANGED vars
  BY <1>5 DEF vars
<1> QED
  BY <1>2, <1>3, <1>4, <1>5 DEF Next, AbortWaiting, DisposedWaiting

(* The chain stays in order.                                               *)
LEMMA ChainStep ==
  ASSUME TypeOK, ChainInOrder, [Next]_vars
  PROVE  ChainInOrder'
<1> USE DEF TypeOK, Phase
<1>1. ASSUME NEW r \in Request, Acquire(r)  PROVE ChainInOrder'
  <2>1. created + 1 \notin resolved
    BY DEF ChainInOrder
  <2>2. Unresolved' = Unresolved \union {r} /\ r \notin Unresolved /\ Holders' = Holders
    BY <1>1 DEF Acquire, Unresolved, Holders, InPhase
  <2>3. \A q \in Unresolved : promise'[q] = promise[q] /\ promise'[q] # created + 1
    BY <1>1, <2>2 DEF Acquire, ChainInOrder, Unresolved, InPhase
  <2>4. promise'[r] = created + 1
    BY <1>1 DEF Acquire
  <2>5. \A q \in Unresolved' : promise'[q] \in 1..created' /\ promise'[q] \notin resolved'
    BY <1>1, <2>1, <2>2, <2>3, <2>4 DEF Acquire, ChainInOrder
  <2>6. \A p, q \in Unresolved' : promise'[p] = promise'[q] => p = q
    BY <1>1, <2>2, <2>3, <2>4 DEF Acquire, ChainInOrder
  <2>7. \A q \in Holders' : PreviousResolved(q)'
    <3>1. Holders \subseteq Unresolved
      BY DEF Holders, Unresolved, InPhase
    <3> QED  BY <1>1, <2>2, <2>3, <3>1 DEF Acquire, ChainInOrder, PreviousResolved
  <2>8. 0 \in resolved' /\ \A n \in resolved' : n <= created' /\ \A m \in 0..n : m \in resolved'
    BY <1>1 DEF Acquire, ChainInOrder
  <2> QED  BY <2>5, <2>6, <2>7, <2>8 DEF ChainInOrder
<1>2. ASSUME NEW r \in Request, Reject(r) \/ Admit(r) \/ GiveUp(r) \/ Start(r)
      PROVE  ChainInOrder'
  <2>1. UNCHANGED <<promise, created, resolved>>
    BY <1>2 DEF Reject, Admit, GiveUp, Start
  <2>2. Unresolved' = Unresolved
    BY <1>2 DEF Reject, Admit, GiveUp, Start, Unresolved, InPhase
  <2>3. \A q \in Holders' : q \in Holders \/ PreviousResolved(q)
    BY <1>2 DEF Reject, Admit, GiveUp, Start, Holders, InPhase
  <2> QED  BY <2>1, <2>2, <2>3 DEF ChainInOrder, PreviousResolved
<1>3. ASSUME NEW r \in Request, Forward(r) \/ StartDisposed(r) \/ Finish(r)
      PROVE  ChainInOrder'
  <2>1. /\ r \in Unresolved /\ UNCHANGED <<promise, created>>
        /\ resolved' = resolved \union {promise[r]}
    BY <1>3 DEF Forward, StartDisposed, Finish, Unresolved, InPhase
  <2>2. Unresolved' = Unresolved \ {r} /\ Holders' \subseteq Holders
    BY <1>3 DEF Forward, StartDisposed, Finish, Unresolved, Holders, InPhase
  <2>3. promise[r] - 1 \in resolved /\ promise[r] \in 1..created
    <3>1. CASE Forward(r)
      BY <2>1, <3>1 DEF Forward, PreviousResolved, ChainInOrder
    <3>2. CASE StartDisposed(r) \/ Finish(r)
      <4>1. r \in Holders
        BY <3>2 DEF StartDisposed, Finish, Holders, InPhase
      <4> QED  BY <2>1, <4>1 DEF ChainInOrder, PreviousResolved
    <3> QED  BY <1>3, <3>1, <3>2
  <2>4. \A m \in 0..promise[r] : m \in resolved'
    <3>1. \A m \in 0..promise[r] : m = promise[r] \/ m \in 0..(promise[r] - 1)
      BY <2>3
    <3> QED  BY <2>1, <2>3, <3>1 DEF ChainInOrder
  <2>5. 0 \in resolved' /\ \A n \in resolved' : n <= created' /\ \A m \in 0..n : m \in resolved'
    BY <2>1, <2>3, <2>4 DEF ChainInOrder
  <2>6. \A q \in Unresolved' : promise'[q] \in 1..created' /\ promise'[q] \notin resolved'
    BY <2>1, <2>2 DEF ChainInOrder
  <2>7. \A q \in Holders' : PreviousResolved(q)'
    BY <2>1, <2>2 DEF ChainInOrder, PreviousResolved
  <2> QED  BY <2>1, <2>2, <2>5, <2>6, <2>7 DEF ChainInOrder
<1>4. CASE Dispose \/ UNCHANGED vars
  BY <1>4 DEF Dispose, vars, ChainInOrder, PreviousResolved, Unresolved, Holders, InPhase
<1> QED
  BY <1>1, <1>2, <1>3, <1>4 DEF Next, AbortWaiting, DisposedWaiting

(* The flag is up exactly while a request runs.                            *)
LEMMA FlagStep ==
  ASSUME IInv, [Next]_vars
  PROVE  ActiveFlag'
<1> USE DEF IInv, TypeOK, ActiveFlag
<1>1. ASSUME NEW r \in Request, Acquire(r) \/ Reject(r) \/ Admit(r) \/ GiveUp(r) \/ Forward(r)
      PROVE  ActiveFlag'
  BY <1>1 DEF Acquire, Reject, Admit, GiveUp, Forward, InPhase, Phase
<1>2. ASSUME NEW r \in Request, Start(r)  PROVE ActiveFlag'
  BY <1>2 DEF Start, InPhase
<1>3. ASSUME NEW r \in Request, StartDisposed(r) \/ Finish(r)  PROVE ActiveFlag'
  <2>1. \A q \in Request : phase[q] = "active" => q = r
    BY <1>3, OneHolder DEF StartDisposed, Finish, Holders, InPhase
  <2> QED  BY <1>3, <2>1 DEF StartDisposed, Finish, InPhase
<1>4. CASE Dispose \/ UNCHANGED vars
  BY <1>4 DEF Dispose, vars, InPhase
<1> QED
  BY <1>1, <1>2, <1>3, <1>4 DEF Next, AbortWaiting, DisposedWaiting

(* The inductive invariant holds in every reachable state.                 *)
LEMMA InductiveInvariant == Spec => []IInv
<1>1. Init => IInv
  <2> SUFFICES ASSUME Init PROVE IInv  OBVIOUS
  <2>1. TypeOK
    <3>1. phase \in [Request -> Phase] /\ promise \in [Request -> Nat]
      BY DEF Init, Phase
    <3>2. resolved \subseteq Nat
      BY DEF Init
    <3> QED  BY <3>1, <3>2 DEF Init, TypeOK
  <2>2. ChainInOrder
    BY DEF Init, ChainInOrder, Unresolved, Holders, InPhase
  <2>3. Waiting = {}
    BY DEF Init, Waiting, InPhase
  <2>4. CountInv
    BY <2>3, MaxPendingAssumption, FS_EmptySet DEF Init, PendingIsExact, CountInv
  <2>5. ActiveFlag
    BY DEF Init, ActiveFlag, InPhase
  <2> QED  BY <2>1, <2>2, <2>4, <2>5 DEF IInv
<1>2. IInv /\ [Next]_vars => IInv'
  BY PendingStep, TypeStep, ChainStep, FlagStep DEF IInv
<1> QED  BY <1>1, <1>2, PTL DEF Spec

(* The variables of the gate always have their types.                      *)
THEOREM TypeCorrect == Spec => []TypeOK
<1>1. IInv => TypeOK  BY DEF IInv
<1> QED  BY <1>1, InductiveInvariant, PTL

(* Promises resolve in the order they were created.                        *)
THEOREM ChainCorrect == Spec => []ChainInOrder
<1>1. IInv => ChainInOrder  BY DEF IInv
<1> QED  BY <1>1, InductiveInvariant, PTL

(* A session never serves two requests at once, for any number of callers, *)
(* aborts and disposals, and its active flag is right.                     *)
THEOREM MutualExclusion == Spec => []OneRequestAtATime
<1>1. IInv => OneRequestAtATime
  BY OneHolder DEF IInv, ActiveFlag, OneRequestAtATime
<1> QED  BY <1>1, InductiveInvariant, PTL

(* The pending counter is the number of callers in line and is bounded.    *)
THEOREM PendingCorrect == Spec => []PendingIsExact
<1>1. IInv => PendingIsExact  BY DEF IInv, CountInv
<1> QED  BY <1>1, InductiveInvariant, PTL
--------------------------------------------------------------------------------
(* The refinement of FifoLock, one step of the lock for each step of the   *)
(* gate that touches the line or its holder.                               *)

(* r is next: nobody holds the gate or waits before r.                     *)
LEMMA NextInLine ==
  ASSUME TypeOK, ChainInOrder, NEW r \in Waiting, PreviousResolved(r)
  PROVE  Holders = {} /\ InLineBefore(r) = {}
<1> USE DEF TypeOK
<1>1. /\ r \in Unresolved /\ Waiting \subseteq Unresolved /\ Holders \subseteq Unresolved
      /\ Unresolved \subseteq Request
  BY DEF Waiting, Holders, Unresolved, InPhase
<1>2. promise[r] \in 1..created /\ promise[r] - 1 \in resolved
  BY <1>1 DEF ChainInOrder, PreviousResolved
<1>3. \A q \in Unresolved : ~(promise[q] < promise[r])
  <2> SUFFICES ASSUME NEW q \in Unresolved, promise[q] < promise[r]  PROVE FALSE
    OBVIOUS
  <2>1. promise[q] \in 0..(promise[r] - 1)
    BY <1>1, <1>2 DEF ChainInOrder
  <2> QED  BY <1>2, <2>1 DEF ChainInOrder
<1>4. \A q \in Holders : FALSE
  <2> SUFFICES ASSUME NEW q \in Holders  PROVE FALSE
    OBVIOUS
  <2>1. q # r
    BY DEF Waiting, Holders, InPhase
  <2>2. promise[q] \in 1..created /\ promise[q] # promise[r] /\ promise[q] - 1 \in resolved
    BY <1>1, <2>1 DEF ChainInOrder, PreviousResolved
  <2>3. promise[r] \in 0..(promise[q] - 1)
    BY <1>1, <1>2, <1>3, <2>2
  <2> QED  BY <1>1, <2>2, <2>3 DEF ChainInOrder
<1> QED  BY <1>1, <1>3, <1>4 DEF InLineBefore

(* A caller that leaves the line is no longer before anybody in it.        *)
LEMMA LineShrinks ==
  ASSUME NEW r \in Request, Waiting' = Waiting \ {r}, promise' = promise
  PROVE  Lock!StepOut(r)
  BY DEF Lock!StepOut, InLineBefore

LEMMA LockStep ==
  ASSUME IInv, [Next]_vars
  PROVE  [Lock!LockNext]_(Lock!lvars)
<1> USE DEF IInv
<1>1. ASSUME NEW r \in Request, Acquire(r)  PROVE Lock!Join(r)
  <2>1. r \notin Waiting /\ r \notin Holders /\ Holders' = Holders
    BY <1>1 DEF Acquire, Waiting, Holders, InPhase
  <2>2. Waiting' = Waiting \union {r}
    BY <1>1 DEF Acquire, Waiting, InPhase, TypeOK
  <2>3. Cardinality(Waiting) < MaxPending
    BY <1>1 DEF Acquire, CountInv, PendingIsExact
  <2>4. /\ promise'[r] = created + 1
        /\ \A q \in Waiting : promise'[q] = promise[q] /\ promise[q] \in Nat /\ promise[q] <= created
        /\ created \in Nat
    BY <1>1 DEF Acquire, TypeOK, ChainInOrder, Unresolved, Waiting, InPhase
  <2>5. InLineBefore(r)' = Waiting
    BY <2>1, <2>2, <2>4 DEF InLineBefore
  <2>6. ASSUME NEW q \in Request, q # r  PROVE InLineBefore(q)' = InLineBefore(q)
    <3>1. CASE q \in Waiting
      <4>1. \A p \in Waiting' : promise'[p] < promise'[q] <=> p # r /\ promise[p] < promise[q]
        BY <2>1, <2>2, <2>4, <3>1
      <4> QED  BY <2>1, <2>2, <3>1, <4>1 DEF InLineBefore
    <3>2. CASE q \notin Waiting
      BY <2>2, <2>6, <3>2 DEF InLineBefore
    <3> QED  BY <3>1, <3>2
  <2>7. [q \in Request |-> InLineBefore(q)]' =
            [[q \in Request |-> InLineBefore(q)] EXCEPT ![r] = Waiting]
    BY <2>5, <2>6
  <2>8. Lock!Cardinality(Waiting) = Cardinality(Waiting)
    BY DEF Lock!Cardinality, Cardinality
  <2> QED  BY <2>1, <2>2, <2>3, <2>7, <2>8 DEF Lock!Join
<1>2. ASSUME NEW r \in Request, Admit(r)  PROVE Lock!Grant(r)
  <2>1. r \in Waiting /\ Holders = {} /\ InLineBefore(r) = {}
    BY <1>2, NextInLine DEF Admit, Waiting, InPhase
  <2>2. Waiting' = Waiting \ {r} /\ promise' = promise /\ Holders' = Holders \union {r}
    BY <1>2 DEF Admit, Waiting, Holders, InPhase, TypeOK
  <2> QED  BY <2>1, <2>2, LineShrinks DEF Lock!Grant
<1>3. ASSUME NEW r \in Request, GiveUp(r)  PROVE Lock!Leave(r)
  <2>1. /\ r \in Waiting /\ Waiting' = Waiting \ {r}
        /\ promise' = promise /\ Holders' = Holders
    BY <1>3 DEF GiveUp, Waiting, Holders, InPhase, TypeOK
  <2> QED  BY <2>1, LineShrinks DEF Lock!Leave
<1>4. ASSUME NEW r \in Request, StartDisposed(r) \/ Finish(r)  PROVE Lock!Release(r)
  <2>1. /\ r \in Holders /\ Holders' = Holders \ {r}
        /\ promise' = promise /\ Waiting' = Waiting
    BY <1>4 DEF StartDisposed, Finish, Waiting, Holders, InPhase, TypeOK
  <2> QED  BY <2>1 DEF Lock!Release, InLineBefore
<1>5. ASSUME NEW r \in Request, Reject(r) \/ Forward(r) \/ Start(r)
      PROVE  UNCHANGED Lock!lvars
  <2>1. Waiting' = Waiting /\ promise' = promise /\ Holders' = Holders
    BY <1>5 DEF Reject, Forward, Start, Waiting, Holders, InPhase, TypeOK
  <2> QED  BY <2>1 DEF Lock!lvars, InLineBefore
<1>6. CASE Dispose \/ UNCHANGED vars
  <2>1. Waiting' = Waiting /\ promise' = promise /\ Holders' = Holders
    BY <1>6 DEF Dispose, vars, Waiting, Holders, InPhase
  <2> QED  BY <2>1 DEF Lock!lvars, InLineBefore
<1> QED
  BY <1>1, <1>2, <1>3, <1>4, <1>5, <1>6
  DEF Next, AbortWaiting, DisposedWaiting, Lock!LockNext

(* acquire, the release chain and dispose implement the bounded first-come *)
(* first-served lock, for any number of callers.                           *)
THEOREM GateImplementsLock == Spec => ImplementsLock
<1>1. Init => Lock!LockInit
  <2> SUFFICES ASSUME Init PROVE Lock!LockInit  OBVIOUS
  <2>1. Waiting = {} /\ Holders = {}
    BY DEF Init, Waiting, Holders, InPhase
  <2> QED  BY <2>1 DEF Lock!LockInit, InLineBefore
<1> QED
  BY <1>1, LockStep, InductiveInvariant, PTL DEF Spec, ImplementsLock, Lock!LockSpec
=================================================================================
