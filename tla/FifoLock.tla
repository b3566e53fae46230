------------------------------- MODULE FifoLock -------------------------------
(***************************************************************************)
(* What XaiWsSession.acquire promises its callers: a lock with a bounded   *)
(* first-come-first-served line.  A caller that joins the line may leave   *)
(* it at any time (abort, disposal); the lock passes to a caller only when *)
(* it is free and nobody who joined earlier is still in the line.          *)
(* SessionGate implements this with a chain of promises.                   *)
(***************************************************************************)
EXTENDS Naturals, FiniteSets

CONSTANTS Request,     \* the logical requests, each of which asks once
          MaxPending   \* how many may wait at once

VARIABLES line,        \* the callers that wait
          ahead,       \* ahead[r]: who is still in line before r
          holder       \* the caller that holds the lock: {} or {r}

lvars == <<line, ahead, holder>>

LockInit ==
    /\ line = {}
    /\ ahead = [r \in Request |-> {}]
    /\ holder = {}

Join(r) ==
    /\ r \notin line
    /\ r \notin holder
    /\ Cardinality(line) < MaxPending
    /\ line' = line \union {r}
    /\ ahead' = [ahead EXCEPT ![r] = line]
    /\ UNCHANGED holder

(* r is out of the line: nobody waits behind it any more.                  *)
StepOut(r) ==
    /\ line' = line \ {r}
    /\ ahead' = [q \in Request |-> IF q = r THEN {} ELSE ahead[q] \ {r}]

Leave(r) ==
    /\ r \in line
    /\ StepOut(r)
    /\ UNCHANGED holder

Grant(r) ==
    /\ r \in line
    /\ holder = {}
    /\ ahead[r] = {}
    /\ StepOut(r)
    /\ holder' = {r}

Release(r) ==
    /\ r \in holder
    /\ holder' = holder \ {r}
    /\ UNCHANGED <<line, ahead>>

LockNext == \E r \in Request : Join(r) \/ Leave(r) \/ Grant(r) \/ Release(r)

LockSpec == LockInit /\ [][LockNext]_lvars
===============================================================================
