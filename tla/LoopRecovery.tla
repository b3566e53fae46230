------------------------------ MODULE LoopRecovery ------------------------------
(***************************************************************************)
(* registerLoopRecovery in src/src/loop-recovery.ts: what happens when the *)
(* detector finds that the model repeats itself.  The response is aborted, *)
(* the message cut, and, if budget and cooldown allow, the context is      *)
(* compacted and the model sent on.                                        *)
(*                                                                         *)
(* The module follows one session ID and the state object the extension    *)
(* keeps for it.  Deleting that object while a compaction runs leaves a    *)
(* callback that belongs to an older one.  The host (pi) starts turns,     *)
(* streams messages and compacts; whether a delta completes a repetition   *)
(* is nondeterministic.                                                    *)
(***************************************************************************)
EXTENDS Integers, FiniteSets

CONSTANTS
    Limit,      \* policy.limit
    Cooldown,   \* policy.cooldownMs
    Budget,     \* policy.budgetMs; 0: recoveries never age out
    Block,      \* content indexes of a message, with their kind
    MaxTime,    \* bound: the clock
    MaxTurn,    \* bound: turns
    MaxObject   \* bound: state objects

ASSUME PolicyAssumption == Limit \in Nat /\ Cooldown \in Nat \ {0} /\ Budget \in Nat
ASSUME BoundsAssumption == MaxTime \in Nat /\ MaxTurn \in Nat /\ MaxObject \in Nat

VARIABLES
    now,            \* Date.now(), taken not to run backwards
    turn,           \* turns started so far
    stage,          \* of the turn: idle, turn, message (it streams), said
    object,         \* the state object in sessions, 0 if none
    made,           \* state objects created so far
    activeBlock,    \* the block the detector reads, and the turn it began in
    pending,        \* a detection that is not settled
    recoveryInProgress,
    budgetTimes, recoveryTimes,
    compacting,     \* state objects with a compaction under way
    grants,         \* history: recoveries granted since the last re-arming
    granted,        \* history: how many in the life of the object
    steered,        \* history: recovery messages sent in that time
    cuts            \* history: turns whose message was cut, and why

stateVars == <<object, made, activeBlock, pending, recoveryInProgress, budgetTimes, recoveryTimes>>
hostVars == <<now, turn, stage, compacting>>
history == <<grants, granted, steered, cuts>>
vars == <<hostVars, stateVars, history>>

NoBlock == [index |-> 0, turn |-> 0]
NoPending == [turn |-> 0, automatic |-> FALSE, compactionStarted |-> FALSE]

(* createState, with the history of a new object.                          *)
Fresh ==
    /\ activeBlock' = NoBlock /\ pending' = NoPending /\ recoveryInProgress' = FALSE
    /\ budgetTimes' = {} /\ recoveryTimes' = {}
    /\ grants' = {} /\ granted' = 0 /\ steered' = 0

Init ==
    /\ now = 0 /\ turn = 0 /\ stage = "idle" /\ compacting = {}
    /\ object = 0 /\ made = 0 /\ activeBlock = NoBlock /\ pending = NoPending
    /\ recoveryInProgress = FALSE /\ budgetTimes = {} /\ recoveryTimes = {}
    /\ grants = {} /\ granted = 0 /\ steered = 0 /\ cuts = {}

(* getState: a handler that needs a state object creates it.               *)
GetState ==
    IF object # 0 THEN UNCHANGED <<object, made>>
    ELSE made < MaxObject /\ made' = made + 1 /\ object' = made + 1
--------------------------------------------------------------------------------
Tick ==
    /\ now < MaxTime
    /\ now' = now + 1
    /\ UNCHANGED <<turn, stage, compacting, stateVars, history>>

(* session_start and session_shutdown delete the object, whatever goes on. *)
ClearSession ==
    /\ object # 0
    /\ object' = 0
    /\ Fresh
    /\ UNCHANGED <<hostVars, made, cuts>>

(* A plausible slip: the detector is not reset when a turn starts.         *)
TurnStartKeepsBlock ==
    /\ stage = "idle"
    /\ object \notin compacting
    /\ turn < MaxTurn
    /\ turn' = turn + 1
    /\ stage' = "turn"
    /\ GetState
    /\ UNCHANGED <<now, compacting, activeBlock, pending, recoveryInProgress, budgetTimes,
                   recoveryTimes, history>>

(* agent_start and turn_start.  The host runs no turn while it compacts.   *)
TurnStart ==
    /\ stage = "idle"
    /\ object \notin compacting
    /\ turn < MaxTurn
    /\ turn' = turn + 1
    /\ stage' = "turn"
    /\ GetState
    /\ activeBlock' = NoBlock
    /\ UNCHANGED <<now, compacting, pending, recoveryInProgress, budgetTimes, recoveryTimes, history>>

(* message_start of a person's message re-arms budget and cooldown.        *)
HumanMessage ==
    /\ stage = "turn"
    /\ GetState
    /\ budgetTimes' = {} /\ recoveryTimes' = {} /\ grants' = {}
    /\ UNCHANGED <<hostVars, activeBlock, pending, recoveryInProgress, granted, steered, cuts>>

(* The detector a delta of block i is appended to.                         *)
BlockFor(i) ==
    IF activeBlock.turn # 0 /\ activeBlock.index = i THEN activeBlock
    ELSE [index |-> i, turn |-> turn]

Streaming ==
    /\ stage \in {"turn", "message"}
    /\ stage' = "message"
    /\ UNCHANGED <<now, turn, compacting>>

(* message_update without a detection, or while one is pending.            *)
Delta(i) ==
    /\ Streaming
    /\ GetState
    /\ activeBlock' = IF pending = NoPending THEN BlockFor(i) ELSE activeBlock
    /\ UNCHANGED <<pending, recoveryInProgress, budgetTimes, recoveryTimes, history>>

(* message_update of a tool call.                                          *)
ToolCall ==
    /\ Streaming
    /\ GetState
    /\ activeBlock' = IF pending = NoPending THEN NoBlock ELSE activeBlock
    /\ UNCHANGED <<pending, recoveryInProgress, budgetTimes, recoveryTimes, history>>

(* decideAutomaticRecovery: what is left of the two lists, and the         *)
(* decision.                                                               *)
Within(times, window) == {t \in times : now - t < window}

(* A plausible slip: the budget is pruned with the cooldown's window.      *)
InBudgetOfCooldown(times) == Within(times, Cooldown)

InBudget(times) == IF Budget = 0 THEN times ELSE Within(times, Budget)

Allowed ==
    /\ ~recoveryInProgress
    /\ Limit # 0
    /\ Within(recoveryTimes, Cooldown) = {}
    /\ Cardinality(InBudget(budgetTimes)) < Limit

(* A plausible slip: a recovery is noted with the end of its cooldown.     *)
RecoveredUntil == IF Allowed THEN {now + Cooldown} ELSE {}

(* The time noted if a recovery is granted.                                *)
Recovered == IF Allowed THEN {now} ELSE {}

(* message_update whose delta completes a repetition: decide, remember the *)
(* detection and abort the response.                                       *)
Detect(i) ==
    /\ Streaming
    /\ pending = NoPending
    /\ GetState
    /\ activeBlock' = BlockFor(i)
    /\ budgetTimes' = InBudget(budgetTimes) \union Recovered
    /\ recoveryTimes' = Within(recoveryTimes, Cooldown) \union Recovered
    /\ grants' = grants \union Recovered
    /\ granted' = IF Allowed THEN granted + 1 ELSE granted
    /\ pending' = [turn |-> turn, automatic |-> Allowed, compactionStarted |-> FALSE]
    /\ UNCHANGED <<recoveryInProgress, steered, cuts>>

(* message_end of the assistant's message: cut it if a detection is        *)
(* pending.                                                                *)
MessageEnd ==
    /\ stage = "message"
    /\ stage' = "said"
    /\ cuts' = IF pending = NoPending THEN cuts
               ELSE cuts \union {[turn |-> turn, detected |-> pending.turn]}
    /\ UNCHANGED <<now, turn, compacting, stateVars, grants, granted, steered>>

(* A plausible slip: a detection without recovery is not settled.          *)
TurnEndKeepsDenied ==
    /\ stage = "said"
    /\ stage' = "idle"
    /\ IF pending = NoPending \/ pending.compactionStarted \/ ~pending.automatic
         THEN UNCHANGED <<stateVars, compacting>>
         ELSE /\ activeBlock' = NoBlock
              /\ pending' = [pending EXCEPT !.compactionStarted = TRUE]
              /\ recoveryInProgress' = TRUE
              /\ compacting' = compacting \union {object}
              /\ UNCHANGED <<object, made, budgetTimes, recoveryTimes>>
    /\ UNCHANGED <<now, turn, history>>

(* turn_end: settle a detection without recovery, start the compaction of  *)
(* one with.                                                               *)
TurnEnd ==
    /\ stage = "said"
    /\ stage' = "idle"
    /\ IF pending = NoPending \/ pending.compactionStarted
         THEN UNCHANGED <<stateVars, compacting>>
         ELSE /\ activeBlock' = NoBlock
              /\ IF pending.automatic
                   THEN /\ pending' = [pending EXCEPT !.compactionStarted = TRUE]
                        /\ recoveryInProgress' = TRUE
                        /\ compacting' = compacting \union {object}
                   ELSE /\ pending' = NoPending
                        /\ UNCHANGED <<recoveryInProgress, compacting>>
              /\ UNCHANGED <<object, made, budgetTimes, recoveryTimes>>
    /\ UNCHANGED <<now, turn, history>>

(* A plausible slip: the callback does not look whose state it resets.     *)
CompactedUnchecked(o) ==
    /\ o \in compacting
    /\ compacting' = compacting \ {o}
    /\ pending' = NoPending
    /\ recoveryInProgress' = FALSE
    /\ steered' = steered + 1
    /\ UNCHANGED <<now, turn, stage, object, made, activeBlock, budgetTimes, recoveryTimes,
                   grants, granted, cuts>>

(* onComplete, or onError with nothing to compact: send the model on.      *)
Compacted(o) ==
    /\ o \in compacting
    /\ compacting' = compacting \ {o}
    /\ IF object = o
         THEN /\ pending' = NoPending
              /\ recoveryInProgress' = FALSE
              /\ steered' \in {steered, steered + 1}  \* sendMessage may throw
         ELSE UNCHANGED <<pending, recoveryInProgress, steered>>
    /\ UNCHANGED <<now, turn, stage, object, made, activeBlock, budgetTimes, recoveryTimes,
                   grants, granted, cuts>>

(* A plausible slip: an error leaves the recovery in progress.             *)
CompactionFailsOpen(o) ==
    /\ o \in compacting
    /\ compacting' = compacting \ {o}
    /\ UNCHANGED <<now, turn, stage, stateVars, history>>

(* onError: the recovery is over.                                          *)
CompactionFails(o) ==
    /\ o \in compacting
    /\ compacting' = compacting \ {o}
    /\ IF object = o THEN pending' = NoPending /\ recoveryInProgress' = FALSE
       ELSE UNCHANGED <<pending, recoveryInProgress>>
    /\ UNCHANGED <<now, turn, stage, object, made, activeBlock, budgetTimes, recoveryTimes, history>>

Next ==
    \/ Tick \/ ClearSession \/ TurnStart \/ HumanMessage \/ ToolCall \/ MessageEnd \/ TurnEnd
    \/ \E i \in Block : Delta(i) \/ Detect(i)
    \/ \E o \in compacting : Compacted(o) \/ CompactionFails(o)

(* The host ends an aborted message, its turn, and a compaction.           *)
Fairness ==
    /\ WF_vars(MessageEnd) /\ WF_vars(TurnEnd)
    /\ WF_vars(\E o \in compacting : Compacted(o) \/ CompactionFails(o))

Spec == Init /\ [][Next]_vars /\ Fairness
--------------------------------------------------------------------------------
Blocks == [index : Block \union {0}, turn : 0..turn]
Pendings == [turn : 0..turn, automatic : BOOLEAN, compactionStarted : BOOLEAN]

TypeOK ==
    /\ now \in Nat /\ turn \in Nat /\ made \in Nat /\ object \in 0..made
    /\ stage \in {"idle", "turn", "message", "said"}
    /\ compacting \subseteq 1..made
    /\ activeBlock \in Blocks /\ pending \in Pendings
    /\ recoveryInProgress \in BOOLEAN
    /\ budgetTimes \subseteq 0..now /\ recoveryTimes \subseteq 0..now
    /\ grants \subseteq 0..now /\ granted \in Nat /\ steered \in Nat

(* The guard cannot itself become a loop: until a person intervenes, two   *)
(* recoveries are at least Cooldown apart, and no window of Budget holds   *)
(* more than Limit of them (no Budget: none beyond Limit at all).          *)
RecoveriesPaced ==
    /\ \A g, h \in grants : g < h => h - g >= Cooldown
    /\ \A t \in 0..now :
          Cardinality({g \in grants : t <= g /\ (Budget = 0 \/ g < t + Budget)}) <= Limit

(* A recovery is in progress exactly while a compaction runs that was      *)
(* started for the present state object, and all that time the detection   *)
(* that caused it is pending: callbacks of an earlier object change        *)
(* nothing, and no outcome leaves the flag set.                            *)
InProgressExact ==
    /\ recoveryInProgress <=> object \in compacting
    /\ recoveryInProgress <=> pending.compactionStarted

(* Only the message the model repeated itself in is cut: a detection never *)
(* outlives its turn into another message.                                 *)
OnlyLoopIsCut == \A c \in cuts : c.turn = c.detected

(* The detector judges text of one turn only.                              *)
DetectorReadsOneTurn ==
    stage = "message" /\ activeBlock # NoBlock => activeBlock.turn = turn

(* A session is sent on at most once for each recovery it was granted, and *)
(* never for one granted to an object that is gone.                        *)
SteersWereGranted == steered <= granted

(* Every detection is settled, so the next repetition can be detected.     *)
DetectionsSettle == pending # NoPending ~> pending = NoPending

(* docs/transport.md:366 - "Automatic recovery is capped at two per        *)
(* session."                                                               *)
CappedPerSession == granted <= 2
================================================================================
