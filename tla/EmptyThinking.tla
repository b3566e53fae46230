----------------------------- MODULE EmptyThinking -----------------------------
(***************************************************************************)
(* src/src/empty-thinking.ts, for one session ID: when the model stops in  *)
(* the middle of an agent run with nothing but thinking, it is sent on     *)
(* with a hidden message, once in the run.  The session's model is an xAI  *)
(* chat model and the test latch is off.                                   *)
(*                                                                         *)
(* A turn ends with an answer (stop), with nothing but thinking            *)
(* (isEmptyThinkingStop), with tool calls (toolUse), or failed.            *)
(***************************************************************************)
EXTENDS Naturals

VARIABLES alreadyNudged, priorAssistants

nudgeVars == <<alreadyNudged, priorAssistants>>

NudgeInit == alreadyNudged = FALSE /\ priorAssistants = 0

(* A plausible slip: the message that ends the turn is counted first.      *)
ShouldNudgeCounted(end) == ~alreadyNudged /\ end = "thinking"

(* shouldNudgeEmptyThinking.                                               *)
ShouldNudge(end) == ~alreadyNudged /\ priorAssistants >= 1 /\ end = "thinking"

(* turn_end, of a turn that an assistant's message ends.                   *)
CountTurn(end) ==
    /\ priorAssistants' = priorAssistants + 1
    /\ alreadyNudged' = (alreadyNudged \/ ShouldNudge(end))

(* agent_start; session_start and session_shutdown come to the same.       *)
ResetNudge == alreadyNudged' = FALSE /\ priorAssistants' = 0
================================================================================
