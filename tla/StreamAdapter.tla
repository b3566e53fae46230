------------------------------ MODULE StreamAdapter ------------------------------
(***************************************************************************)
(* The turns of one session through src/src/stream.ts: what each request   *)
(* is made of and whether it is stored, decided anew from the history, the *)
(* latch of StoredContext and the memory of ImageOmission; how it may end; *)
(* and what the turn_end handlers make of that.                            *)
(*                                                                         *)
(* The host (pi) prompts, runs tools, compacts and goes back in the        *)
(* history.  Storing is configured.  Of xAI the module knows that it       *)
(* reports what a request measured, or nothing, and that it may reject     *)
(* to store it, before output or after.  ws-events.ts answers a rejection  *)
(* before output by the same request without store.                        *)
(***************************************************************************)
EXTENDS StoredContext, ImageOmission, EmptyThinking

CONSTANTS
    Image,          \* screenshots, named by their size in bytes
    Overhead,       \* what instructions and tools add to every request
    MaxTime,        \* bound: the clock
    MaxMade,        \* bound: messages made
    MaxHistory      \* bound: messages in the history

ASSUME ImageAssumption == Image \subseteq Nat \ {0}
ASSUME OverheadAssumption == Overhead \in Nat
ASSUME MaxTimeAssumption == MaxTime \in Nat \ {0}

VARIABLES
    now,            \* Date.now(), from 1
    made,           \* messages made so far
    history,        \* the messages pi has
    stage,          \* idle, ready (a request is due), requesting
    request,        \* the request under way: when it began, context, store,
                    \* and, as history, which screenshots were left out of it
                    \* and whether a rejection is why it is not stored
    rejection,      \* history: the last rejection, see Rejection
    everOmitted,    \* history: the screenshots an earlier request left out
    resumed,        \* history: the session was started anew with what it has
    nudges,         \* history: nudges, sent or failed, in this agent run
    stalled         \* history: it ended with thinking only, after other turns

hostVars == <<now, made, history, stage>>
runVars == <<nudges, stalled>>
ghostVars == <<rejection, everOmitted, resumed, runVars>>
vars == <<storedVars, omittedKeys, nudgeVars, hostVars, request, ghostVars>>

(* No rejection since the last compaction; one; one that was followed by a *)
(* compaction within the same millisecond.                                 *)
Rejection == [state : {"none", "standing", "same time"}, at : Nat]
NoRejection == [state |-> "none", at |-> 0]

NoRequest == [at |-> 0, context |-> <<>>, store |-> FALSE, omitted |-> {}, rejected |-> FALSE]

(* Of the time a message was made only a summary's and an answer's matter. *)
Input(image) ==
    [role |-> "input", at |-> 0, image |-> image,
     size |-> 1 + (IF image = 0 THEN 0 ELSE ImageSize), usage |-> 0, failed |-> FALSE]
Summary == [Input(0) EXCEPT !.role = "summary", !.at = now]
Answer(end, usage) ==
    [Input(0) EXCEPT !.role = "assistant", !.at = request.at,
                     !.usage = usage, !.failed = (end = "failed")]

Init ==
    /\ StoredInit /\ NudgeInit /\ omittedKeys = {}
    /\ now = 1 /\ made = 0 /\ history = <<>> /\ stage = "idle"
    /\ request = NoRequest
    /\ rejection = NoRejection /\ everOmitted = {} /\ resumed = FALSE
    /\ nudges = 0 /\ stalled = FALSE
--------------------------------------------------------------------------------
Tick ==
    /\ now < MaxTime
    /\ now' = now + 1
    /\ UNCHANGED <<storedVars, omittedKeys, nudgeVars, made, history, stage, request, ghostVars>>

(* The history grows by messages that have just been made.                 *)
Extend(ms) ==
    /\ made + Len(ms) <= MaxMade /\ Len(history) + Len(ms) <= MaxHistory
    /\ history' = history \o ms
    /\ made' = made + Len(ms)

(* The user writes, perhaps with a screenshot: an agent run starts.        *)
Prompt(image) ==
    /\ stage = "idle" /\ stage' = "ready"
    /\ Extend(<<Input(image)>>)
    /\ ResetNudge /\ nudges' = 0 /\ stalled' = FALSE
    /\ UNCHANGED <<storedVars, omittedKeys, now, request, rejection, everOmitted, resumed>>

(* streamXaiResponsesWs up to its request: the context, the estimate, the  *)
(* decision to store.                                                      *)
Measure(context) == Overhead + Size(context)

Storable(context) ==
    /\ Cutoff = 0 \/ EstimateStoredRequest(context, Measure(context)) < Cutoff
    /\ ~Rejected(context)

Stream ==
    /\ stage = "ready"
    /\ stage' = "requesting"
    /\ LET sanitized == Sanitized(history)
           context == Limited(sanitized)
       IN  /\ omittedKeys' = OmittedAfter(sanitized)
           /\ storeRejectedAt' = LatchAfter(context)
           /\ SetSafetyActive(~Storable(context))
           /\ request' =
                  [at |-> now, context |-> context, store |-> Storable(context),
                   rejected |-> rejection.state # "none",
                   omitted |-> {sanitized[i].image : i \in Images(sanitized) \ Images(context)}]
    /\ UNCHANGED <<nudgeVars, now, made, history, ghostVars>>

NoteRejection == rejection' = [state |-> "standing", at |-> now]

(* xAI rejects to store before any output: ws-events.ts marks the session  *)
(* and repeats the request without store.                                  *)
TooLargeEarly ==
    /\ stage = "requesting" /\ request.store
    /\ MarkTooLarge(now)
    /\ request' = [request EXCEPT !.store = FALSE, !.rejected = TRUE]
    /\ NoteRejection
    /\ UNCHANGED <<warned, omittedKeys, nudgeVars, hostVars, everOmitted, resumed, runVars>>
--------------------------------------------------------------------------------
(* turn_end: the warning, the nudge, and what the host does next: run the  *)
(* tools, send the nudge, or end the run.                                  *)
TurnEnd(end, usage, active, toolImage) ==
    /\ stage = "requesting"
    /\ WarnIfActive(active)
    /\ CountTurn(end)
    /\ \/ /\ end = "toolUse" /\ Extend(<<Answer(end, usage), Input(toolImage)>>)
          /\ stage' = "ready" /\ UNCHANGED runVars
       \/ /\ ShouldNudge(end) /\ Extend(<<Answer(end, usage), Input(0)>>)
          /\ stage' = "ready" /\ nudges' = nudges + 1 /\ UNCHANGED stalled
       \/ /\ end # "toolUse" /\ Extend(<<Answer(end, usage)>>)
          /\ stage' = "idle"      \* also when the nudge could not be sent
          /\ nudges' = IF ShouldNudge(end) THEN nudges + 1 ELSE nudges
          /\ stalled' = (end = "thinking" /\ priorAssistants >= 1)
    /\ everOmitted' = everOmitted \union request.omitted
    /\ request' = NoRequest
    /\ UNCHANGED <<omittedKeys, now, resumed>>

(* The response completes, with or without usage, or the request fails or  *)
(* is aborted.                                                             *)
Completes(end, reported, toolImage) ==
    /\ TurnEnd(end, IF reported THEN Measure(request.context) + 1 ELSE 0,
               safetyActive, toolImage)
    /\ UNCHANGED <<storeRejectedAt, safetyActive, rejection>>

(* xAI rejects to store after output: what arrived is kept as a completed  *)
(* answer, by ws-events.ts if the request was stored, by the catch block   *)
(* of stream.ts otherwise.                                                 *)
TooLargeLate(end, toolImage) ==
    /\ MarkTooLarge(now)
    /\ TurnEnd(end, 0, TRUE, toolImage)
    /\ NoteRejection
--------------------------------------------------------------------------------
(* The host replaces the history but for a tail by a summary.              *)
Compact(n) ==
    /\ stage = "idle" /\ made < MaxMade
    /\ history' = <<Summary>> \o SubSeq(history, n + 1, Len(history))
    /\ made' = made + 1
    /\ rejection' = IF now > rejection.at THEN NoRejection
                    ELSE [rejection EXCEPT !.state = "same time"]
    /\ resumed' = FALSE
    /\ UNCHANGED <<storedVars, omittedKeys, nudgeVars, now, stage, request, everOmitted, runVars>>

(* The user goes back to an earlier message.                               *)
GoBack(n) ==
    /\ stage = "idle"
    /\ history' = SubSeq(history, 1, n)
    /\ UNCHANGED <<storedVars, omittedKeys, nudgeVars, now, made, stage, request, ghostVars>>

(* session_start or session_shutdown, also while a request runs: what it   *)
(* left out is not remembered then, and a new agent run is counted.        *)
ClearSession ==
    /\ ClearStored /\ ClearOmitted /\ ResetNudge
    /\ rejection' = NoRejection /\ everOmitted' = {} /\ resumed' = (history # <<>>)
    /\ request' = [request EXCEPT !.omitted = {}]
    /\ nudges' = 0 /\ stalled' = FALSE
    /\ UNCHANGED hostVars

Next ==
    \/ Tick \/ Stream \/ TooLargeEarly \/ ClearSession
    \/ \E image \in Image \union {0} :
          \/ Prompt(image)
          \/ \E reported \in BOOLEAN : Completes("toolUse", reported, image)
          \/ TooLargeLate("toolUse", image)
    \/ \E end \in {"stop", "thinking", "failed"} :
          \/ \E reported \in BOOLEAN : Completes(end, reported, 0)
          \/ end # "failed" /\ TooLargeLate(end, 0)
    \/ \E n \in DOMAIN history :
          \/ Compact(n)
          \/ n < Len(history) /\ GoBack(n)

Spec == Init /\ [][Next]_vars
--------------------------------------------------------------------------------
TypeOK ==
    /\ storeRejectedAt \in Nat \union {Never}
    /\ safetyActive \in BOOLEAN /\ warned \in BOOLEAN
    /\ omittedKeys \subseteq Image
    /\ alreadyNudged \in BOOLEAN /\ priorAssistants \in Nat
    /\ now \in 1..MaxTime /\ made \in Nat
    /\ \A i \in DOMAIN history : history[i].image \in Image \union {0}
    /\ stage \in {"idle", "ready", "requesting"}
    /\ request.store \in BOOLEAN
    /\ rejection \in Rejection
    /\ resumed \in BOOLEAN /\ nudges \in Nat /\ stalled \in BOOLEAN

(* A session whose response was too large to store stores nothing until it *)
(* has been compacted after that rejection: not by an older compaction, a  *)
(* retry, or going back in the history.                                    *)
StoreOffUntilCompaction == rejection.state = "standing" => ~request.store

(* When a session is started anew its memory of omitted screenshots is     *)
(* gone: those that come back are not in the usage reported before.        *)
OlderImages(ms) == {i \in Images(ms) : \E j \in Images(ms) : j > i}
Returned == IF resumed THEN ImageSize * Cardinality(OlderImages(request.context)) ELSE 0

(* Storage is neither used for a context at or above the cutoff nor        *)
(* withheld from one below it unless after a rejection, whatever usage the *)
(* assistants that were kept in the history report, in whichever           *)
(* millisecond they were compacted, and whenever the session is cleared;   *)
(* screenshots may count although they have been omitted since, and may    *)
(* not count if they came back when the session was started anew.  While   *)
(* a stored request runs the user's warning is re-armed.                   *)
StoreFollowsSize ==
    stage = "requesting" /\ Cutoff # 0 =>
        /\ request.store => /\ Measure(request.context) < Cutoff + Returned
                            /\ ~warned /\ ~safetyActive
        /\ ~request.store /\ ~request.rejected =>
              Measure(Sanitized(history)) >= Cutoff

(* A screenshot that was once left out of a request of this session is not *)
(* sent in a later one unless it is the newest: the beginning of what is   *)
(* sent does not change by an old screenshot that comes back.              *)
OmittedStaysOut ==
    LET c == request.context
    IN  \A i \in Images(c) : c[i].image \in everOmitted => \A j \in Images(c) : j <= i

(* An agent run is sent on at most once for a turn of thinking only, and   *)
(* never for its first answer; and a run that ends with such a turn after  *)
(* other turns has been sent on before.  Clearing the session counts anew. *)
OneNudgePerRun ==
    /\ nudges <= 1
    /\ nudges = 1 => priorAssistants >= 2
    /\ stalled => nudges = 1
================================================================================
