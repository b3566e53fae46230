----------------------------- MODULE StoredContext -----------------------------
(***************************************************************************)
(* src/src/stored-context.ts, for one session ID: the estimate of what a   *)
(* stored request would make xAI store, the latch that a "too large to     *)
(* store" rejection sets, and the warning the user gets.                   *)
(*                                                                         *)
(* A message is a record: its role ("summary" is a compaction, in either   *)
(* of the shapes isCompactionMessage knows; what is neither that nor an    *)
(* assistant's is "input"), its timestamp, its size as                     *)
(* estimateMessageTokens counts it, and, of an assistant, whether it       *)
(* failed (stop reason error or aborted) and the usage it reports, 0 if    *)
(* none.                                                                   *)
(***************************************************************************)
EXTENDS Integers, Sequences

CONSTANTS
    Cutoff,     \* maxStoredContextTokens; 0: not configured
    HasUI       \* ctx.hasUI of the session

ASSUME CutoffAssumption == Cutoff \in Nat
ASSUME HasUIAssumption == HasUI \in BOOLEAN

VARIABLES storeRejectedAt,  \* storeRejectedAtMs of the session, Never if none
          safetyActive,     \* the session is in safetyActiveSessions
          warned            \* the session is in warnedSessions

storedVars == <<storeRejectedAt, safetyActive, warned>>

Never == -1

StoredInit == storeRejectedAt = Never /\ safetyActive = FALSE /\ warned = FALSE
--------------------------------------------------------------------------------
Size(ms) ==
    LET sum[n \in 0..Len(ms)] == IF n = 0 THEN 0 ELSE sum[n - 1] + ms[n].size
    IN  sum[Len(ms)]

LatestOf(indices) == IF indices = {} THEN 0 ELSE CHOOSE i \in indices : \A j \in indices : j <= i

(* findLatestCompactionIndex and latestCompactionTimestamp; 0 if none.     *)
LatestCompaction(ms) == LatestOf({i \in DOMAIN ms : ms[i].role = "summary"})
CompactionTime(ms) == IF LatestCompaction(ms) = 0 THEN 0 ELSE ms[LatestCompaction(ms)].at

(* A plausible slip: an assistant of the same millisecond counts.          *)
NotBeforeCompaction(m, ms) == LatestCompaction(ms) = 0 \/ m.at >= CompactionTime(ms)

(* isAfterCompaction: usage measured before a compaction says nothing      *)
(* about what is left.                                                     *)
IsAfterCompaction(m, ms) ==
    LatestCompaction(ms) = 0 \/ (CompactionTime(ms) > 0 /\ m.at > CompactionTime(ms))

(* findLatestReliableUsage: the index of the assistant, 0 if none.         *)
LatestUsage(ms) ==
    LatestOf({i \in DOMAIN ms :
                 /\ i > LatestCompaction(ms)
                 /\ ms[i].role = "assistant" /\ ~ms[i].failed
                 /\ IsAfterCompaction(ms[i], ms)
                 /\ ms[i].usage > 0})

(* latestUsageFloor: failed assistants count, too.                         *)
UsageFloor(ms) ==
    LET i == LatestOf({k \in DOMAIN ms : /\ k > LatestCompaction(ms)
                                         /\ ms[k].role = "assistant"
                                         /\ IsAfterCompaction(ms[k], ms) /\ ms[k].usage > 0})
    IN  IF i = 0 THEN 0 ELSE ms[i].usage

(* estimateContextTokens: the usage and what came after it, or everything  *)
(* from the compaction on.                                                 *)
EstimateContext(ms) ==
    LET u == LatestUsage(ms)
        c == LatestCompaction(ms)
        tokens == IF u # 0 THEN ms[u].usage + Size(SubSeq(ms, u + 1, Len(ms)))
                  ELSE Size(SubSeq(ms, IF c = 0 THEN 1 ELSE c, Len(ms)))
    IN  IF tokens >= UsageFloor(ms) THEN tokens ELSE UsageFloor(ms)

(* estimateStoredRequestTokens, of a payload that measures prepared.       *)
EstimateStoredRequest(ms, prepared) ==
    IF LatestUsage(ms) # 0 \/ EstimateContext(ms) >= prepared THEN EstimateContext(ms)
    ELSE prepared
--------------------------------------------------------------------------------
(* A plausible slip: any compaction releases the latch, also an older one. *)
RejectedUntilAnyCompaction(ms) == storeRejectedAt # Never /\ LatestCompaction(ms) = 0

(* hasStoredResponseTooLarge: a later compaction releases the latch.       *)
Rejected(ms) == storeRejectedAt # Never /\ CompactionTime(ms) <= storeRejectedAt

LatchAfter(ms) == IF Rejected(ms) THEN storeRejectedAt ELSE Never

(* setStoredContextSafetyActive.                                           *)
SetSafetyActive(on) ==
    /\ safetyActive' = on
    /\ warned' = (warned /\ on)

(* markStoredResponseTooLarge.                                             *)
MarkTooLarge(time) ==
    /\ storeRejectedAt' = time
    /\ safetyActive' = TRUE

(* turn_end: warn once while the safety is on and there is a UI.           *)
WarnIfActive(active) == warned' = (warned \/ (active /\ HasUI))

(* session_start and session_shutdown.                                     *)
ClearStored == storeRejectedAt' = Never /\ safetyActive' = FALSE /\ warned' = FALSE
================================================================================
