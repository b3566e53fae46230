------------------------------ MODULE SessionGate ------------------------------
(***************************************************************************)
(* The gate in front of one XaiWsSession (src/src/ws-events.ts): acquire,  *)
(* the release a request calls when it ends, and dispose.  One session     *)
(* serves one request at a time; the others wait in a chain of promises.   *)
(*                                                                         *)
(* Every acquire creates a promise and leaves it in releaseQueue for the   *)
(* next caller; promise number n is the n-th one created and promise 0 is  *)
(* the resolved promise a session starts with.  A caller waits for the     *)
(* promise before its own.  The function that resolves a caller's own      *)
(* promise is what acquire returns, and what an aborted or disposed caller *)
(* chains to the promise before it, so that the line moves past it.        *)
(*                                                                         *)
(* A step of the model is a stretch of code with no await in it.           *)
(***************************************************************************)
EXTENDS Naturals, FiniteSets

CONSTANTS Request,      \* logical requests of the session; each asks once
          MaxPending    \* poolOptions.maxPendingRequests

ASSUME MaxPendingAssumption == MaxPending \in Nat \ {0}

VARIABLES
    phase,            \* where each request is, see Phase
    promise,          \* the number of the promise it created, 0 if none
    created,          \* promises created so far; releaseQueue is the last one
    resolved,         \* the promises that are resolved
    pendingAcquires,
    active,
    disposed

vars == <<phase, promise, created, resolved, pendingAcquires, active, disposed>>

(* "admitted" is a caller whose acquire has returned but which has not run *)
(* on yet; "abandoned" one whose acquire threw while it was in line: only  *)
(* its promise is left, chained to the one before it.                      *)
Phase == {"idle", "waiting", "admitted", "active", "abandoned", "done", "rejected"}

InPhase(p) == {r \in Request : phase[r] \in p}
Waiting == InPhase({"waiting"})
Holders == InPhase({"admitted", "active"})

(* The caller before r in the chain, if there is one, has let go.          *)
PreviousResolved(r) == promise[r] - 1 \in resolved

Init ==
    /\ phase = [r \in Request |-> "idle"]
    /\ promise = [r \in Request |-> 0]
    /\ created = 0
    /\ resolved = {0}
    /\ pendingAcquires = 0
    /\ active = FALSE
    /\ disposed = FALSE
--------------------------------------------------------------------------------
(* acquire up to its await: take a place in the chain.                     *)
Acquire(r) ==
    /\ phase[r] = "idle"
    /\ ~disposed
    /\ pendingAcquires < MaxPending
    /\ phase' = [phase EXCEPT ![r] = "waiting"]
    /\ pendingAcquires' = pendingAcquires + 1
    /\ created' = created + 1
    /\ promise' = [promise EXCEPT ![r] = created + 1]
    /\ UNCHANGED <<resolved, active, disposed>>

(* acquire throws before it creates a promise: disposed, or the line full. *)
Reject(r) ==
    /\ phase[r] = "idle"
    /\ disposed \/ pendingAcquires >= MaxPending
    /\ phase' = [phase EXCEPT ![r] = "rejected"]
    /\ UNCHANGED <<promise, created, resolved, pendingAcquires, active, disposed>>

(* The race in acquire is won by the previous promise.                     *)
Admit(r) ==
    /\ phase[r] = "waiting"
    /\ PreviousResolved(r)
    /\ phase' = [phase EXCEPT ![r] = "admitted"]
    /\ pendingAcquires' = pendingAcquires - 1
    /\ UNCHANGED <<promise, created, resolved, active, disposed>>

(* A plausible slip: the caller that gives up resolves its promise at once *)
(* instead of chaining it to the previous one.                             *)
GiveUpReleasesAtOnce(r) ==
    /\ phase[r] = "waiting"
    /\ phase' = [phase EXCEPT ![r] = "rejected"]
    /\ pendingAcquires' = pendingAcquires - 1
    /\ resolved' = resolved \union {promise[r]}
    /\ UNCHANGED <<promise, created, active, disposed>>

(* A plausible slip: the decrement is not in a finally block.              *)
GiveUpKeepsCount(r) ==
    /\ phase[r] = "waiting"
    /\ phase' = [phase EXCEPT ![r] = "abandoned"]
    /\ UNCHANGED <<promise, created, resolved, pendingAcquires, active, disposed>>

(* The race is lost: acquire throws, chains its promise to the previous    *)
(* one and is no longer counted.                                           *)
GiveUp(r) ==
    /\ phase[r] = "waiting"
    /\ phase' = [phase EXCEPT ![r] = "abandoned"]
    /\ pendingAcquires' = pendingAcquires - 1
    /\ UNCHANGED <<promise, created, resolved, active, disposed>>

(* The caller's AbortSignal wins the race.                                 *)
AbortWaiting(r) == GiveUp(r)

(* A plausible slip: the wait does not race with disposedPromise.          *)
DisposedNotAwaited(r) == FALSE /\ GiveUp(r)

(* disposedPromise wins the race.                                          *)
DisposedWaiting(r) == disposed /\ GiveUp(r)

(* A plausible slip: an abandoned promise is never resolved.               *)
ForwardForgotten(r) == FALSE /\ UNCHANGED vars

(* previous.then(release, release) of an abandoned place in the line.      *)
Forward(r) ==
    /\ phase[r] = "abandoned"
    /\ PreviousResolved(r)
    /\ phase' = [phase EXCEPT ![r] = "rejected"]
    /\ resolved' = resolved \union {promise[r]}
    /\ UNCHANGED <<promise, created, pendingAcquires, active, disposed>>
--------------------------------------------------------------------------------
(* iterate past its acquire: the request becomes the session's active one. *)
Start(r) ==
    /\ phase[r] = "admitted"
    /\ ~disposed
    /\ phase' = [phase EXCEPT ![r] = "active"]
    /\ active' = TRUE
    /\ UNCHANGED <<promise, created, resolved, pendingAcquires, disposed>>

(* A plausible slip: throwIfDisposed sits outside the try block, so its    *)
(* throw skips the release.                                                *)
StartDisposedKeepsGate(r) ==
    /\ phase[r] = "admitted"
    /\ disposed
    /\ phase' = [phase EXCEPT ![r] = "rejected"]
    /\ UNCHANGED <<promise, created, resolved, pendingAcquires, active, disposed>>

(* iterate past its acquire on a session disposed in between: it throws,   *)
(* and the finally block releases.                                         *)
StartDisposed(r) ==
    /\ phase[r] = "admitted"
    /\ disposed
    /\ phase' = [phase EXCEPT ![r] = "rejected"]
    /\ active' = FALSE
    /\ resolved' = resolved \union {promise[r]}
    /\ UNCHANGED <<promise, created, pendingAcquires, disposed>>

(* A plausible slip: the end of a request counts it out of the line again. *)
FinishCountsAgain(r) ==
    /\ phase[r] = "active"
    /\ phase' = [phase EXCEPT ![r] = "done"]
    /\ active' = FALSE
    /\ resolved' = resolved \union {promise[r]}
    /\ pendingAcquires' = pendingAcquires - 1
    /\ UNCHANGED <<promise, created, disposed>>

(* The finally block of iterate, whichever way the request ended.          *)
Finish(r) ==
    /\ phase[r] = "active"
    /\ phase' = [phase EXCEPT ![r] = "done"]
    /\ active' = FALSE
    /\ resolved' = resolved \union {promise[r]}
    /\ UNCHANGED <<promise, created, pendingAcquires, disposed>>

(* dispose: from now on nothing starts and nobody waits.                   *)
Dispose ==
    /\ ~disposed
    /\ disposed' = TRUE
    /\ UNCHANGED <<phase, promise, created, resolved, pendingAcquires, active>>

Next ==
    \/ \E r \in Request :
          \/ Acquire(r) \/ Reject(r) \/ Admit(r)
          \/ AbortWaiting(r) \/ DisposedWaiting(r) \/ Forward(r)
          \/ Start(r) \/ StartDisposed(r) \/ Finish(r)
    \/ Dispose

(* What a caller does without anybody's help once its promise settles.     *)
Proceed(r) ==
    Admit(r) \/ DisposedWaiting(r) \/ Forward(r) \/ Start(r) \/ StartDisposed(r)

(* Settled promises run their continuations; nothing obliges a caller to   *)
(* ask or to abort, a session to be disposed, or a request to end.         *)
Fairness == \A r \in Request : WF_vars(Proceed(r))

Spec == Init /\ [][Next]_vars /\ Fairness
--------------------------------------------------------------------------------
TypeOK ==
    /\ phase \in [Request -> Phase]
    /\ promise \in [Request -> Nat]
    /\ created \in Nat
    /\ resolved \subseteq Nat
    /\ pendingAcquires \in Nat
    /\ active \in BOOLEAN
    /\ disposed \in BOOLEAN

(* Promises resolve in the order they were created, and nobody resolves    *)
(* one twice or on behalf of another: a caller that has yet to resolve its *)
(* promise is the only one with that promise, everything from it on is     *)
(* still pending, and a caller past acquire had everything before it       *)
(* resolved.                                                               *)
Unresolved == InPhase({"waiting", "admitted", "active", "abandoned"})

ChainInOrder ==
    /\ 0 \in resolved
    /\ \A n \in resolved : n <= created /\ \A m \in 0..n : m \in resolved
    /\ \A r \in Unresolved : promise[r] \in 1..created /\ promise[r] \notin resolved
    /\ \A r, q \in Unresolved : promise[r] = promise[q] => r = q
    /\ \A r \in Holders : PreviousResolved(r)

(* The session serves one request at a time: whatever mix of aborts,       *)
(* disposal and releases the chain has seen, no two callers are past       *)
(* acquire together, and the active flag tells the idle timer and the pool *)
(* exactly whether a request runs.                                         *)
OneRequestAtATime ==
    /\ \A r, q \in Holders : r = q
    /\ active <=> InPhase({"active"}) # {}

(* The counter behind maxPendingRequests is exact: it counts the callers   *)
(* that really wait, however they left the line, so a full line never      *)
(* turns a caller away while a place is free and never exceeds its bound.  *)
PendingIsExact ==
    /\ pendingAcquires = Cardinality(Waiting)
    /\ pendingAcquires <= MaxPending

(* The line is the fair bounded lock of FifoLock: those who wait are       *)
(* ordered by their promises, and an abandoned place is not in it.         *)
InLineBefore(r) ==
    IF r \in Waiting THEN {q \in Waiting : promise[q] < promise[r]} ELSE {}

Lock == INSTANCE FifoLock WITH
            line   <- Waiting,
            ahead  <- [r \in Request |-> InLineBefore(r)],
            holder <- Holders

(* acquire implements the lock: mutual exclusion, first come first served  *)
(* among those still in line, and the bound on the line, in one step each. *)
ImplementsLock == Lock!LockSpec

(* A session with callers in line is never idle for good: a caller that    *)
(* aborted, or was admitted to a disposed session, does not break the      *)
(* chain.  So a caller waits for ever only behind a request that never     *)
(* ends.                                                                   *)
NeverIdleWithWaiters ==
    \A r \in Request : []<>(phase[r] # "waiting" \/ active)

(* dispose lets every waiting caller go even if the request that runs      *)
(* never ends: callers do not hang on a disposed session.                  *)
DisposeFreesWaiters == disposed ~> (Waiting = {} /\ pendingAcquires = 0)
================================================================================
