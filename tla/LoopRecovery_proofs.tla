-------------------------- MODULE LoopRecovery_proofs --------------------------
(***************************************************************************)
(* Proofs about LoopRecovery for any policy (limit, cooldown, budget), any *)
(* set of content blocks and any bounds on clock, turns and objects.       *)
(*                                                                         *)
(* Two arguments are independent of each other.  Pacing follows from what  *)
(* the pruned lists still hold (ListsHoldRecent).  The rest follows from   *)
(* where in a turn a detection can be pending (PendingPlaced).             *)
(***************************************************************************)
EXTENDS LoopRecovery, FiniteSetTheorems, TLAPS

(* No detection without a state object; a turn under way has a number.     *)
Anchored == (object = 0 => pending = NoPending) /\ (stage # "idle" => turn > 0)

(* A pending detection is of the turn under way until its compaction has   *)
(* begun, and from then on no turn is under way.                           *)
PendingPlaced ==
    pending # NoPending =>
        IF pending.compactionStarted THEN stage = "idle" /\ pending.automatic
        ELSE stage \in {"message", "said"} /\ pending.turn = turn

(* The detector has read nothing but the turn under way.                   *)
BlockOfTurn == stage # "idle" /\ activeBlock # NoBlock => activeBlock.turn = turn

(* The recovery that is pending has been granted and not sent yet.         *)
SteerReserved == steered + (IF pending.automatic THEN 1 ELSE 0) <= granted

(* Pruning only drops what is out of the window.                           *)
ListsHoldRecent ==
    /\ \A g \in grants : now - g < Cooldown => g \in recoveryTimes
    /\ \A g \in grants : Budget = 0 \/ now - g < Budget => g \in budgetTimes

IInv ==
    /\ TypeOK /\ Anchored /\ InProgressExact /\ PendingPlaced /\ BlockOfTurn /\ SteerReserved
    /\ OnlyLoopIsCut

PacedInv == TypeOK /\ ListsHoldRecent /\ RecoveriesPaced

--------------------------------------------------------------------------------
(* The records of a turn: what is one stays one when turns go by.          *)
LEMMA Records ==
  ASSUME TypeOK, turn' = turn \/ turn' = turn + 1
  PROVE  /\ NoPending \in Pendings' /\ NoBlock \in Blocks'
         /\ pending \in Pendings' /\ activeBlock \in Blocks'
         /\ [pending EXCEPT !.compactionStarted = TRUE] \in Pendings'
<1>1. 0..turn \subseteq 0..turn' /\ 0 \in 0..turn'
  BY DEF TypeOK
<1>2. NoPending \in Pendings' /\ NoBlock \in Blocks'
  BY <1>1 DEF NoPending, NoBlock, Pendings, Blocks
<1>3. pending \in Pendings' /\ [pending EXCEPT !.compactionStarted = TRUE] \in Pendings'
  BY <1>1 DEF TypeOK, Pendings
<1>4. activeBlock \in Blocks'
  BY <1>1 DEF TypeOK, Blocks
<1> QED  BY <1>2, <1>3, <1>4

(* The types are preserved together with what the host's handlers rely on. *)
LEMMA TypeStep ==
  ASSUME TypeOK, Anchored, [Next]_vars
  PROVE  TypeOK' /\ Anchored'
<1> USE DEF TypeOK, Anchored
<1>1. CASE Tick
  BY <1>1, Records, SMT DEF Tick, stateVars, history
<1>2. CASE ClearSession
  <2>1. /\ UNCHANGED <<now, turn, stage, compacting, made>> /\ object' = 0
        /\ activeBlock' = NoBlock /\ pending' = NoPending /\ recoveryInProgress' = FALSE
        /\ budgetTimes' = {} /\ recoveryTimes' = {} /\ grants' = {}
        /\ granted' = 0 /\ steered' = 0
    BY <1>2 DEF ClearSession, Fresh, hostVars
  <2>2. NoPending \in Pendings' /\ NoBlock \in Blocks'
    BY <2>1, Records
  <2>3. /\ now' \in Nat /\ turn' \in Nat /\ made' \in Nat /\ object' \in 0..made'
        /\ stage' \in {"idle", "turn", "message", "said"} /\ compacting' \subseteq 1..made'
    BY <2>1
  <2>4. /\ budgetTimes' \subseteq 0..now' /\ recoveryTimes' \subseteq 0..now'
        /\ grants' \subseteq 0..now' /\ granted' \in Nat /\ steered' \in Nat
    BY <2>1
  <2> QED  BY <2>1, <2>2, <2>3, <2>4
<1>3. CASE TurnStart
  BY <1>3, Records, SMT DEF TurnStart, GetState, history
<1>4. CASE HumanMessage
  BY <1>4, Records, SMT DEF HumanMessage, GetState, hostVars
<1>5. CASE ToolCall
  BY <1>5, Records, SMT DEF ToolCall, Streaming, GetState, history
<1>6. CASE MessageEnd
  BY <1>6, Records, SMT DEF MessageEnd, stateVars
<1>7. CASE TurnEnd
  <2>1. stage = "said" /\ stage' = "idle" /\ turn' = turn /\ now' = now /\ UNCHANGED history
    BY <1>7 DEF TurnEnd
  <2>2. /\ pending' \in Pendings' /\ activeBlock' \in Blocks' /\ recoveryInProgress' \in BOOLEAN
    BY <1>7, <2>1, Records DEF TurnEnd, stateVars
  <2>3. /\ UNCHANGED <<object, made, budgetTimes, recoveryTimes>>
        /\ object = 0 => pending' = NoPending /\ compacting' = compacting
        /\ compacting' \subseteq compacting \union {object}
    BY <1>7 DEF TurnEnd, stateVars
  <2> QED  BY <2>1, <2>2, <2>3 DEF history
<1>8. ASSUME NEW i \in Block, Delta(i)  PROVE TypeOK' /\ Anchored'
  <2>1. /\ stage' = "message" /\ turn > 0
        /\ UNCHANGED <<now, turn, compacting, pending, recoveryInProgress, budgetTimes,
                       recoveryTimes, history>>
    BY <1>8 DEF Delta, Streaming
  <2>2. activeBlock' \in Blocks'
    BY <1>8, <2>1, Records DEF Delta, BlockFor, Blocks
  <2>3. made' \in Nat /\ object' \in 0..made' /\ object' # 0 /\ compacting' \subseteq 1..made'
    BY <1>8, <2>1 DEF Delta, GetState
  <2> QED  BY <2>1, <2>2, <2>3, Records DEF history
<1>9. ASSUME NEW i \in Block, Detect(i)  PROVE TypeOK' /\ Anchored'
  <2>1. /\ stage' = "message" /\ turn > 0
        /\ UNCHANGED <<now, turn, compacting, recoveryInProgress, steered>>
        /\ pending' = [turn |-> turn, automatic |-> Allowed, compactionStarted |-> FALSE]
    BY <1>9 DEF Detect, Streaming
  <2>2. made' \in Nat /\ object' \in 0..made' /\ object' # 0 /\ compacting' \subseteq 1..made'
    BY <1>9, <2>1 DEF Detect, GetState
  <2>3. activeBlock' \in Blocks'
    BY <1>9, <2>1, Records DEF Detect, BlockFor, Blocks
  <2>4. pending' \in Pendings'
    <3>1. Allowed \in BOOLEAN
      BY DEF Allowed
    <3> QED  BY <2>1, <3>1 DEF Pendings
  <2>5. /\ budgetTimes' \subseteq 0..now' /\ recoveryTimes' \subseteq 0..now'
        /\ grants' \subseteq 0..now'
    <3>1. Recovered \subseteq 0..now
      BY DEF Recovered
    <3>2. InBudget(budgetTimes) \subseteq 0..now /\ Within(recoveryTimes, Cooldown) \subseteq 0..now
      BY DEF InBudget, Within
    <3> QED  BY <1>9, <2>1, <3>1, <3>2 DEF Detect
  <2>6. granted' \in Nat
    BY <1>9 DEF Detect
  <2> QED  BY <2>1, <2>2, <2>3, <2>4, <2>5, <2>6
<1>10. ASSUME NEW o \in compacting, Compacted(o)  PROVE TypeOK' /\ Anchored'
  <2>1. /\ UNCHANGED <<now, turn, stage, object, made, activeBlock, budgetTimes, recoveryTimes,
                       grants, granted>>
        /\ compacting' \subseteq compacting
        /\ pending' \in {pending, NoPending} /\ recoveryInProgress' \in {recoveryInProgress, FALSE}
        /\ steered' \in {steered, steered + 1}
    BY <1>10 DEF Compacted
  <2>2. pending' \in Pendings' /\ activeBlock' \in Blocks'
    BY <2>1, Records
  <2>3. steered' \in Nat
    BY <2>1
  <2> QED  BY <2>1, <2>2, <2>3
<1>11. ASSUME NEW o \in compacting, CompactionFails(o)  PROVE TypeOK' /\ Anchored'
  <2>1. /\ UNCHANGED <<now, turn, stage, object, made, activeBlock, budgetTimes, recoveryTimes,
                       grants, granted, steered>>
        /\ compacting' \subseteq compacting
        /\ pending' \in {pending, NoPending} /\ recoveryInProgress' \in {recoveryInProgress, FALSE}
    BY <1>11 DEF CompactionFails, history
  <2>2. pending' \in Pendings' /\ activeBlock' \in Blocks'
    BY <2>1, Records
  <2> QED  BY <2>1, <2>2
<1>12. CASE UNCHANGED vars
  BY <1>12, Records DEF vars, hostVars, stateVars, history
<1> QED
  BY <1>1, <1>2, <1>3, <1>4, <1>5, <1>6, <1>7, <1>8, <1>9, <1>10, <1>11, <1>12 DEF Next

(* What an action other than those of the recovery leaves alone.           *)
LEMMA Quiet ==
  ASSUME Tick \/ TurnStart \/ HumanMessage \/ ToolCall \/ MessageEnd \/ UNCHANGED vars
         \/ \E i \in Block : Delta(i)
  PROVE  /\ UNCHANGED <<pending, recoveryInProgress, compacting, granted, steered>>
         /\ object' = object \/ (object = 0 /\ object' = made + 1)
         /\ cuts' = cuts \/ MessageEnd
<1>1. CASE Tick \/ MessageEnd \/ UNCHANGED vars
  BY <1>1 DEF Tick, MessageEnd, vars, hostVars, stateVars, history
<1>2. CASE TurnStart
  BY <1>2 DEF TurnStart, GetState, history
<1>3. CASE HumanMessage
  BY <1>3 DEF HumanMessage, GetState, hostVars
<1>4. CASE ToolCall
  BY <1>4 DEF ToolCall, Streaming, GetState, history
<1>5. CASE \E i \in Block : Delta(i)
  BY <1>5 DEF Delta, Streaming, GetState, history
<1> QED  BY <1>1, <1>2, <1>3, <1>4, <1>5

(* A recovery is in progress exactly while its own compaction runs.        *)
LEMMA InProgressStep ==
  ASSUME TypeOK, Anchored, InProgressExact, [Next]_vars
  PROVE  InProgressExact'
<1> USE DEF InProgressExact
<1>1. object \notin compacting => made + 1 \notin compacting
  BY DEF TypeOK
<1>2. 0 \notin compacting
  BY DEF TypeOK
<1>3. NoPending.compactionStarted = FALSE
  BY DEF NoPending
<1>4. CASE Tick \/ TurnStart \/ HumanMessage \/ ToolCall \/ MessageEnd \/ UNCHANGED vars
           \/ \E i \in Block : Delta(i)
  BY <1>1, <1>2, <1>4, Quiet
<1>5. CASE ClearSession
  BY <1>2, <1>3, <1>5 DEF ClearSession, Fresh, hostVars
<1>6. CASE TurnEnd
  <2>1. [pending EXCEPT !.compactionStarted = TRUE].compactionStarted = TRUE
    BY DEF TypeOK, Pendings
  <2>2. CASE UNCHANGED <<stateVars, compacting>>
    BY <2>2 DEF stateVars
  <2>3. CASE pending.automatic /\ ~UNCHANGED <<stateVars, compacting>>
    <3>1. /\ pending' = [pending EXCEPT !.compactionStarted = TRUE] /\ recoveryInProgress' = TRUE
          /\ compacting' = compacting \union {object} /\ object' = object
      BY <1>6, <2>3 DEF TurnEnd
    <3> QED  BY <2>1, <3>1
  <2>4. CASE ~pending.automatic /\ ~UNCHANGED <<stateVars, compacting>>
    <3>1. /\ pending' = NoPending /\ pending.compactionStarted = FALSE
          /\ UNCHANGED <<recoveryInProgress, compacting, object>>
      BY <1>6, <2>4 DEF TurnEnd, TypeOK, Pendings
    <3> QED  BY <1>3, <3>1
  <2> QED  BY <2>2, <2>3, <2>4
<1>7. ASSUME NEW i \in Block, Detect(i)  PROVE InProgressExact'
  <2>1. object' = object \/ (object = 0 /\ object' = made + 1)
    BY <1>7 DEF Detect, GetState
  <2>2. UNCHANGED <<recoveryInProgress, compacting>> /\ pending'.compactionStarted = FALSE
        /\ pending.compactionStarted = FALSE
    BY <1>3, <1>7 DEF Detect, Streaming
  <2> QED  BY <1>1, <1>2, <2>1, <2>2
<1>8. ASSUME NEW o \in compacting, Compacted(o) \/ CompactionFails(o)  PROVE InProgressExact'
  BY <1>3, <1>8 DEF Compacted, CompactionFails, stateVars, history
<1> QED  BY <1>4, <1>5, <1>6, <1>7, <1>8 DEF Next

(* Where a detection can be pending.                                       *)
LEMMA PlacedStep ==
  ASSUME TypeOK, Anchored, InProgressExact, PendingPlaced, [Next]_vars
  PROVE  PendingPlaced'
<1> USE DEF PendingPlaced
<1>1. CASE Tick \/ UNCHANGED vars
  BY <1>1 DEF Tick, vars, hostVars, stateVars
<1>2. CASE ClearSession
  BY <1>2 DEF ClearSession, Fresh
<1>3. CASE TurnStart
  <2>1. pending = NoPending
    BY <1>3 DEF TurnStart, InProgressExact
  <2> QED  BY <1>3, <2>1 DEF TurnStart
<1>4. CASE HumanMessage \/ ToolCall \/ \E i \in Block : Delta(i)
  BY <1>4 DEF HumanMessage, ToolCall, Delta, Streaming, hostVars
<1>5. CASE MessageEnd
  BY <1>5 DEF MessageEnd, stateVars
<1>6. CASE TurnEnd
  <2>1. /\ [pending EXCEPT !.compactionStarted = TRUE].compactionStarted = TRUE
        /\ [pending EXCEPT !.compactionStarted = TRUE].automatic = pending.automatic
    BY DEF TypeOK, Pendings
  <2> QED  BY <1>6, <2>1 DEF TurnEnd, stateVars
<1>7. ASSUME NEW i \in Block, Detect(i)  PROVE PendingPlaced'
  BY <1>7 DEF Detect, Streaming
<1>8. ASSUME NEW o \in compacting, Compacted(o) \/ CompactionFails(o)  PROVE PendingPlaced'
  BY <1>8 DEF Compacted, CompactionFails
<1> QED  BY <1>1, <1>2, <1>3, <1>4, <1>5, <1>6, <1>7, <1>8 DEF Next

(* The detector is reset before it reads another turn.                     *)
LEMMA BlockStep ==
  ASSUME TypeOK, BlockOfTurn, [Next]_vars
  PROVE  BlockOfTurn'
<1> USE DEF BlockOfTurn
<1>1. CASE Tick \/ HumanMessage \/ MessageEnd \/ UNCHANGED vars
  BY <1>1 DEF Tick, HumanMessage, MessageEnd, vars, hostVars, stateVars
<1>2. CASE ClearSession \/ TurnStart
  BY <1>2 DEF ClearSession, Fresh, TurnStart
<1>3. CASE TurnEnd
  BY <1>3 DEF TurnEnd
<1>4. CASE ToolCall
  BY <1>4 DEF ToolCall, Streaming
<1>5. ASSUME NEW i \in Block, Delta(i) \/ Detect(i)  PROVE BlockOfTurn'
  <2>1. /\ turn' = turn /\ stage \in {"turn", "message"}
        /\ activeBlock' = BlockFor(i) \/ activeBlock' = activeBlock
    BY <1>5 DEF Delta, Detect, Streaming
  <2>2. activeBlock.turn # 0 => activeBlock # NoBlock
    BY DEF NoBlock
  <2>3. BlockFor(i).turn = turn
    BY <2>1, <2>2 DEF BlockFor
  <2> QED  BY <2>1, <2>3
<1>6. ASSUME NEW o \in compacting, Compacted(o) \/ CompactionFails(o)  PROVE BlockOfTurn'
  BY <1>6 DEF Compacted, CompactionFails, stateVars
<1> QED  BY <1>1, <1>2, <1>3, <1>4, <1>5, <1>6 DEF Next

(* Recoveries that were granted pay for those that are sent.               *)
LEMMA SteerStep ==
  ASSUME TypeOK, InProgressExact, PendingPlaced, SteerReserved, [Next]_vars
  PROVE  SteerReserved'
<1> USE DEF SteerReserved
<1>1. NoPending.automatic = FALSE /\ NoPending.compactionStarted = FALSE
  BY DEF NoPending
<1>2. steered \in Nat /\ granted \in Nat
  BY DEF TypeOK
<1>3. CASE Tick \/ TurnStart \/ HumanMessage \/ ToolCall \/ MessageEnd \/ UNCHANGED vars
           \/ \E i \in Block : Delta(i)
  BY <1>3, Quiet
<1>4. CASE ClearSession
  BY <1>1, <1>4 DEF ClearSession, Fresh
<1>5. CASE TurnEnd
  <2>1. [pending EXCEPT !.compactionStarted = TRUE].automatic = pending.automatic
    BY DEF TypeOK, Pendings
  <2>2. pending'.automatic = pending.automatic
    <3>1. CASE pending.automatic
      BY <1>1, <1>5, <2>1, <3>1 DEF TurnEnd, stateVars
    <3>2. CASE pending.automatic = FALSE
      BY <1>1, <1>5, <3>2 DEF TurnEnd, stateVars
    <3> QED  BY <3>1, <3>2 DEF TypeOK, Pendings
  <2> QED  BY <1>5, <2>2 DEF TurnEnd, history
<1>6. ASSUME NEW i \in Block, Detect(i)  PROVE SteerReserved'
  <2>1. /\ pending = NoPending /\ pending'.automatic = Allowed /\ steered' = steered
        /\ granted' = IF Allowed THEN granted + 1 ELSE granted
    BY <1>6 DEF Detect
  <2> QED  BY <1>1, <1>2, <2>1
<1>7. ASSUME NEW o \in compacting, Compacted(o)  PROVE SteerReserved'
  <2>1. CASE object = o
    <3>1. pending # NoPending /\ pending.automatic
      BY <1>1, <2>1 DEF InProgressExact, PendingPlaced
    <3> QED  BY <1>1, <1>2, <1>7, <2>1, <3>1 DEF Compacted
  <2> QED  BY <1>7, <2>1 DEF Compacted
<1>8. ASSUME NEW o \in compacting, CompactionFails(o)  PROVE SteerReserved'
  BY <1>1, <1>2, <1>8 DEF CompactionFails, history
<1> QED  BY <1>3, <1>4, <1>5, <1>6, <1>7, <1>8 DEF Next

(* A cut message is the one that was detected.                             *)
LEMMA CutStep ==
  ASSUME PendingPlaced, OnlyLoopIsCut, [Next]_vars
  PROVE  OnlyLoopIsCut'
<1> USE DEF OnlyLoopIsCut
<1>1. CASE MessageEnd
  <2>1. \/ cuts' = cuts
        \/ /\ cuts' = cuts \union {[turn |-> turn, detected |-> pending.turn]}
           /\ pending # NoPending /\ stage = "message"
    BY <1>1 DEF MessageEnd
  <2> QED  BY <2>1 DEF PendingPlaced
<1>2. cuts' = cuts \/ MessageEnd
  <2>1. CASE ClearSession \/ TurnEnd
    BY <2>1 DEF ClearSession, TurnEnd, history
  <2>2. ASSUME NEW i \in Block, Detect(i)  PROVE cuts' = cuts
    BY <2>2 DEF Detect
  <2>3. ASSUME NEW o \in compacting, Compacted(o) \/ CompactionFails(o)  PROVE cuts' = cuts
    BY <2>3 DEF Compacted, CompactionFails, history
  <2> QED  BY <2>1, <2>2, <2>3, Quiet DEF Next
<1> QED  BY <1>1, <1>2

(* The handlers that neither prune the lists nor empty them.               *)
LEMMA ListsLeftAlone ==
  ASSUME TypeOK, ListsHoldRecent, RecoveriesPaced,
         UNCHANGED <<grants, budgetTimes, recoveryTimes>>, now' = now \/ now' = now + 1
  PROVE  ListsHoldRecent' /\ RecoveriesPaced'
<1>1. now \in Nat /\ grants \subseteq 0..now /\ grants' = grants
  BY DEF TypeOK
<1>2. ListsHoldRecent'
  BY <1>1, PolicyAssumption DEF ListsHoldRecent
<1>3. ASSUME NEW t \in 0..now'
      PROVE  Cardinality({g \in grants : t <= g /\ (Budget = 0 \/ g < t + Budget)}) <= Limit
  <2>1. CASE t \in 0..now
    BY <2>1 DEF RecoveriesPaced
  <2>2. CASE t \notin 0..now
    <3>1. t \in Int /\ t > now
      BY <1>1, <1>3, <2>2
    <3>2. \A g \in grants : ~(t <= g)
      BY <1>1, <3>1
    <3>3. {g \in grants : t <= g /\ (Budget = 0 \/ g < t + Budget)} = {}
      BY <3>2
    <3> QED  BY <3>3, FS_EmptySet, PolicyAssumption
  <2> QED  BY <2>1, <2>2
<1> QED  BY <1>1, <1>2, <1>3 DEF RecoveriesPaced

(* Nothing granted: nothing to pace.                                       *)
LEMMA NothingGranted ==
  ASSUME NEW S, S = {}
  PROVE  \A t : Cardinality({g \in S : t <= g /\ (Budget = 0 \/ g < t + Budget)}) <= Limit
<1> SUFFICES ASSUME NEW t
             PROVE  Cardinality({g \in S : t <= g /\ (Budget = 0 \/ g < t + Budget)}) <= Limit
  OBVIOUS
<1>1. {g \in S : t <= g /\ (Budget = 0 \/ g < t + Budget)} = {}
  OBVIOUS
<1> QED  BY <1>1, FS_EmptySet, PolicyAssumption

(* A recovery that is granted keeps the pace: the cooldown list holds      *)
(* every recent recovery and is empty; of the budget window, all earlier   *)
(* recoveries are in the pruned list, which holds fewer than Limit.        *)
LEMMA GrantKeepsPace ==
  ASSUME TypeOK, ListsHoldRecent, RecoveriesPaced, Allowed, now' = now,
         grants' = grants \union {now}
  PROVE  RecoveriesPaced'
<1>1. /\ now \in Nat /\ grants \subseteq 0..now /\ budgetTimes \subseteq 0..now
      /\ recoveryTimes \subseteq 0..now /\ Limit \in Nat /\ Budget \in Nat /\ Cooldown \in Nat
  BY PolicyAssumption DEF TypeOK
<1>2. \A g \in grants : now - g >= Cooldown
  <2>1. \A g \in grants : now - g < Cooldown => g \in Within(recoveryTimes, Cooldown)
    BY DEF ListsHoldRecent, Within
  <2> QED  BY <1>1, <2>1 DEF Allowed
<1>3. \A g, h \in grants' : g < h => h - g >= Cooldown
  BY <1>1, <1>2 DEF RecoveriesPaced
<1>4. ASSUME NEW t \in 0..now'
      PROVE  Cardinality({g \in grants' : t <= g /\ (Budget = 0 \/ g < t + Budget)}) <= Limit
  <2> DEFINE W == {g \in grants : t <= g /\ (Budget = 0 \/ g < t + Budget)}
             Wn == {g \in grants' : t <= g /\ (Budget = 0 \/ g < t + Budget)}
  <2>1. CASE Budget = 0 \/ now < t + Budget
    <3>1. W \subseteq InBudget(budgetTimes) /\ Wn = W \union {now}
      <4>1. \A g \in W : g \in budgetTimes /\ (Budget # 0 => now - g < Budget)
        BY <1>1, <1>4, <2>1 DEF ListsHoldRecent
      <4>2. W \subseteq InBudget(budgetTimes)
        BY <4>1 DEF InBudget, Within
      <4>3. Wn = W \union {now}
        BY <1>1, <1>4, <2>1
      <4> QED  BY <4>2, <4>3
    <3>2. IsFiniteSet(InBudget(budgetTimes)) /\ Cardinality(InBudget(budgetTimes)) < Limit
      <4>1. IsFiniteSet(0..now)
        BY <1>1, FS_Interval
      <4>2. InBudget(budgetTimes) \in SUBSET (0..now)
        BY <1>1 DEF InBudget, Within
      <4> QED  BY <4>1, <4>2, FS_Subset DEF Allowed
    <3>3. IsFiniteSet(W) /\ Cardinality(W) <= Cardinality(InBudget(budgetTimes))
      BY <3>1, <3>2, FS_Subset
    <3>4. Cardinality(Wn) <= Cardinality(W) + 1
      <4>1. Cardinality(W) \in Nat
        BY <3>3, FS_CardinalityType
      <4>2. Cardinality(W \union {now}) = IF now \in W THEN Cardinality(W) ELSE Cardinality(W) + 1
        BY <3>3, FS_AddElement
      <4> QED  BY <3>1, <4>1, <4>2
    <3>5. /\ Cardinality(W) \in Nat /\ Cardinality(InBudget(budgetTimes)) \in Nat
          /\ Cardinality(Wn) \in Nat
      BY <3>1, <3>2, <3>3, FS_CardinalityType, FS_AddElement
    <3> QED  BY <1>1, <3>2, <3>3, <3>4, <3>5
  <2>2. CASE ~(Budget = 0 \/ now < t + Budget)
    <3>1. Wn = W
      BY <1>1, <1>4, <2>2
    <3>2. t \in 0..now
      BY <1>4
    <3> QED  BY <3>1, <3>2 DEF RecoveriesPaced
  <2> QED  BY <2>1, <2>2
<1> QED  BY <1>3, <1>4 DEF RecoveriesPaced

LEMMA PaceStep ==
  ASSUME TypeOK, ListsHoldRecent, RecoveriesPaced, [Next]_vars
  PROVE  ListsHoldRecent' /\ RecoveriesPaced'
<1>1. CASE Tick \/ TurnStart \/ ToolCall \/ MessageEnd \/ TurnEnd \/ UNCHANGED vars
  <2>1. UNCHANGED <<grants, budgetTimes, recoveryTimes>> /\ (now' = now \/ now' = now + 1)
    BY <1>1 DEF Tick, TurnStart, ToolCall, Streaming, MessageEnd, TurnEnd,
                vars, hostVars, stateVars, history
  <2> QED  BY <2>1, ListsLeftAlone
<1>2. CASE ClearSession \/ HumanMessage
  <2>1. grants' = {}
    BY <1>2 DEF ClearSession, Fresh, HumanMessage
  <2> QED  BY <2>1, NothingGranted DEF ListsHoldRecent, RecoveriesPaced
<1>3. ASSUME NEW i \in Block, Delta(i)  PROVE ListsHoldRecent' /\ RecoveriesPaced'
  <2>1. UNCHANGED <<grants, budgetTimes, recoveryTimes>> /\ now' = now
    BY <1>3 DEF Delta, Streaming, history
  <2> QED  BY <2>1, ListsLeftAlone
<1>4. ASSUME NEW i \in Block, Detect(i)  PROVE ListsHoldRecent' /\ RecoveriesPaced'
  <2>1. /\ now' = now /\ budgetTimes' = InBudget(budgetTimes) \union Recovered
        /\ recoveryTimes' = Within(recoveryTimes, Cooldown) \union Recovered
        /\ grants' = grants \union Recovered
    BY <1>4 DEF Detect, Streaming
  <2>2. ListsHoldRecent'
    BY <2>1 DEF ListsHoldRecent, InBudget, Within
  <2>3. CASE Allowed
    BY <2>1, <2>2, <2>3, GrantKeepsPace DEF Recovered
  <2>4. CASE ~Allowed
    BY <2>1, <2>2, <2>4 DEF Recovered, RecoveriesPaced
  <2> QED  BY <2>2, <2>3, <2>4
<1>5. ASSUME NEW o \in compacting, Compacted(o) \/ CompactionFails(o)
      PROVE  ListsHoldRecent' /\ RecoveriesPaced'
  <2>1. UNCHANGED <<grants, budgetTimes, recoveryTimes>> /\ now' = now
    BY <1>5 DEF Compacted, CompactionFails, history
  <2> QED  BY <2>1, ListsLeftAlone
<1> QED  BY <1>1, <1>2, <1>3, <1>4, <1>5 DEF Next

LEMMA Initial == Init => IInv /\ PacedInv
<1> SUFFICES ASSUME Init PROVE IInv /\ PacedInv
  OBVIOUS
<1> USE DEF Init
<1>1. TypeOK
  <2>1. pending \in Pendings /\ activeBlock \in Blocks
    BY DEF Pendings, Blocks, NoPending, NoBlock
  <2>2. /\ now \in Nat /\ turn \in Nat /\ made \in Nat /\ object \in 0..made
        /\ stage \in {"idle", "turn", "message", "said"} /\ compacting \subseteq 1..made
    OBVIOUS
  <2>3. /\ recoveryInProgress \in BOOLEAN /\ granted \in Nat /\ steered \in Nat
        /\ budgetTimes \subseteq 0..now /\ recoveryTimes \subseteq 0..now /\ grants \subseteq 0..now
    OBVIOUS
  <2> QED  BY <2>1, <2>2, <2>3 DEF TypeOK
<1>2. /\ Anchored /\ InProgressExact /\ PendingPlaced /\ BlockOfTurn /\ SteerReserved
      /\ OnlyLoopIsCut
  BY DEF Anchored, InProgressExact, PendingPlaced, BlockOfTurn, SteerReserved, OnlyLoopIsCut,
         NoPending
<1>3. ListsHoldRecent /\ RecoveriesPaced
  BY NothingGranted DEF ListsHoldRecent, RecoveriesPaced
<1> QED  BY <1>1, <1>2, <1>3 DEF IInv, PacedInv

LEMMA Inductive == Spec => [](IInv /\ PacedInv)
<1>1. IInv /\ PacedInv /\ [Next]_vars => IInv' /\ PacedInv'
  BY TypeStep, InProgressStep, PlacedStep, BlockStep, SteerStep, CutStep, PaceStep
     DEF IInv, PacedInv
<1> QED  BY Initial, <1>1, PTL DEF Spec
--------------------------------------------------------------------------------
(* What the handlers keep of a session has its type.                       *)
THEOREM TypeCorrect == Spec => []TypeOK
<1>1. IInv /\ PacedInv => TypeOK
  BY DEF IInv
<1> QED  BY Inductive, <1>1, PTL

(* No policy lets the guard become a loop of its own: recoveries keep the  *)
(* cooldown and the budget until a person writes.                          *)
THEOREM Paced == Spec => []RecoveriesPaced
<1>1. IInv /\ PacedInv => RecoveriesPaced
  BY DEF PacedInv
<1> QED  BY Inductive, <1>1, PTL

(* recoveryInProgress is true exactly while the object's compaction runs.  *)
THEOREM InProgressCorrect == Spec => []InProgressExact
<1>1. IInv /\ PacedInv => InProgressExact
  BY DEF IInv
<1> QED  BY Inductive, <1>1, PTL

(* message_end cuts no message but the one the detection was made in.      *)
THEOREM CutsCorrect == Spec => []OnlyLoopIsCut
<1>1. IInv /\ PacedInv => OnlyLoopIsCut
  BY DEF IInv
<1> QED  BY Inductive, <1>1, PTL

(* The detector never joins the text of two turns.                         *)
THEOREM DetectorCorrect == Spec => []DetectorReadsOneTurn
<1>1. IInv /\ PacedInv => DetectorReadsOneTurn
  BY DEF IInv, BlockOfTurn, DetectorReadsOneTurn
<1> QED  BY Inductive, <1>1, PTL

(* The session is sent on at most once for each recovery granted.          *)
THEOREM SteersCorrect == Spec => []SteersWereGranted
<1>1. IInv /\ PacedInv => SteersWereGranted
  BY DEF IInv, TypeOK, SteerReserved, SteersWereGranted
<1> QED  BY Inductive, <1>1, PTL
================================================================================
