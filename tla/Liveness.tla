-------------------------------- MODULE Liveness --------------------------------
(***************************************************************************)
(* SocketLiveness in src/src/liveness.ts, as XaiWsSocket uses it: a        *)
(* watchdog that pings a quiet socket and gives up if the silence lasts.   *)
(* XaiWsSocket.LivenessFails lets it fire at any time; this module says    *)
(* when it does.                                                           *)
(*                                                                         *)
(* Time is discrete.  The interval timer and the handlers of frames that   *)
(* have arrived run up to Late after they could, in either order: the      *)
(* event loop may be busy.  A peer that is up answers a ping in RoundTrip. *)
(***************************************************************************)
EXTENDS Integers

CONSTANTS
    PingInterval,       \* pingIntervalMs
    LivenessTimeout,    \* livenessTimeoutMs
    Period,             \* of the timer, 250 ms
    Late,               \* delay of handlers by the event loop, at most
    RoundTrip,          \* delay of an answer, at most
    MaxTime             \* bound: the clock

ASSUME LivenessAssumption ==
    /\ PingInterval \in Nat \ {0} /\ LivenessTimeout \in Nat \ {0} /\ Period \in Nat \ {0}
    /\ Late \in Nat /\ RoundTrip \in Nat

VARIABLES
    now,
    phase,              \* made (no timer yet), running, stopped (by a close), dead
    lastInbound,        \* lastInboundMs
    pingSentAt,         \* pingSentAtMs, None for null
    tickDue,            \* when the timer is due next
    peer,               \* up, gone
    answerDue,          \* when the answer to a ping must be here, None if none is awaited
    frame               \* when the oldest frame not yet handled arrived, None if none

None == -1
vars == <<now, phase, lastInbound, pingSentAt, tickDue, peer, answerDue, frame>>

Init ==
    /\ now = 0 /\ phase = "made" /\ lastInbound = 0 /\ pingSentAt = None /\ tickDue = 0
    /\ peer = "up" /\ answerDue = None /\ frame = None

(* Time passes unless something is due that cannot wait.                   *)
Pass ==
    /\ now < MaxTime
    /\ phase = "running" => now < tickDue + Late
    /\ frame # None => now < frame + Late
    /\ peer = "up" /\ answerDue # None => now < answerDue
    /\ now' = now + 1
    /\ UNCHANGED <<phase, lastInbound, pingSentAt, tickDue, peer, answerDue, frame>>

(* start, when the socket is open and its hook has settled.                *)
Start ==
    /\ phase = "made"
    /\ phase' = "running"
    /\ lastInbound' = now
    /\ tickDue' = now + Period
    /\ UNCHANGED <<now, pingSentAt, peer, answerDue, frame>>

(* A frame that the server sends of itself, or the answer to a ping.       *)
FrameArrives ==
    /\ peer = "up"
    /\ frame' = IF frame = None THEN now ELSE frame
    /\ answerDue' \in {answerDue, None}
    /\ UNCHANGED <<now, phase, lastInbound, pingSentAt, tickDue, peer>>

(* The peer falls silent, or ends the connection.                          *)
PeerVanishes ==
    /\ peer = "up"
    /\ peer' = "gone"
    /\ UNCHANGED <<now, phase, lastInbound, pingSentAt, tickDue, answerDue, frame>>

(* A plausible slip: the ping stays unanswered.                            *)
NoteInboundKeepsPing ==
    /\ frame # None
    /\ frame' = None
    /\ IF phase \in {"made", "running"} THEN lastInbound' = now ELSE UNCHANGED lastInbound
    /\ UNCHANGED <<now, phase, pingSentAt, tickDue, peer, answerDue>>

(* The handlers of message, ping and pong: noteInbound.                    *)
NoteInbound ==
    /\ frame # None
    /\ frame' = None
    /\ IF phase \in {"made", "running"} THEN lastInbound' = now /\ pingSentAt' = None
       ELSE UNCHANGED <<lastInbound, pingSentAt>>
    /\ UNCHANGED <<now, phase, tickDue, peer, answerDue>>

(* A plausible slip: the timer has the timeout for its period.             *)
RearmByTimeout == tickDue' = now + LivenessTimeout

Rearm == tickDue' = now + Period

TickDue == phase = "running" /\ now >= tickDue

(* Plausible slips: the deadline is noted instead of the ping, and all of  *)
(* the silence is held against the timeout.                                *)
PingNotesDeadline ==
    /\ pingSentAt' = now + LivenessTimeout
    /\ answerDue' = IF answerDue = None THEN now + RoundTrip ELSE answerDue
    /\ Rearm /\ UNCHANGED phase

ExpiredBySilence == now - lastInbound >= LivenessTimeout

(* sendPing: the ping is on its way, or throws and closes the socket, or   *)
(* is silently not sent because the socket is no longer open: its close    *)
(* event is still to come, but the other side has gone already.            *)
Ping ==
    /\ pingSentAt' = now
    /\ \/ answerDue' = (IF answerDue = None THEN now + RoundTrip ELSE answerDue)
          /\ Rearm /\ UNCHANGED phase
       \/ phase' = "stopped" /\ UNCHANGED <<tickDue, answerDue>>
       \/ peer = "gone" /\ Rearm /\ UNCHANGED <<phase, answerDue>>

Quiet == now - lastInbound >= PingInterval

Expired == now - pingSentAt >= LivenessTimeout

(* tick: ping a quiet line once, and give up if the silence lasts.         *)
Tick ==
    /\ TickDue
    /\ \/ pingSentAt = None /\ Quiet /\ Ping
       \/ /\ pingSentAt = None /\ ~Quiet
          /\ Rearm /\ UNCHANGED <<phase, pingSentAt, answerDue>>
       \/ /\ pingSentAt # None /\ ~Expired
          /\ Rearm /\ UNCHANGED <<phase, pingSentAt, answerDue>>
       \/ /\ pingSentAt # None /\ Expired
          /\ phase' = "dead" /\ UNCHANGED <<tickDue, pingSentAt, answerDue>>
    /\ UNCHANGED <<now, lastInbound, peer, frame>>

(* stop, when the socket closes for another reason.                        *)
Stop ==
    /\ phase \in {"made", "running"}
    /\ phase' = "stopped"
    /\ UNCHANGED <<now, lastInbound, pingSentAt, tickDue, peer, answerDue, frame>>

Next == Pass \/ Start \/ FrameArrives \/ PeerVanishes \/ NoteInbound \/ Tick \/ Stop

Spec == Init /\ [][Next]_vars
--------------------------------------------------------------------------------
TypeOK ==
    /\ now \in Nat /\ phase \in {"made", "running", "stopped", "dead"}
    /\ lastInbound \in 0..now /\ pingSentAt \in {None} \union 0..now
    /\ tickDue \in Nat /\ peer \in {"up", "gone"}
    /\ answerDue \in {None} \union Nat /\ frame \in {None} \union 0..now

(* The turn is failed only after a full interval of silence, a ping, and   *)
(* another full timeout of silence.                                        *)
NeverEarly ==
    phase = "dead" =>
        /\ now - lastInbound >= PingInterval + LivenessTimeout
        /\ pingSentAt - lastInbound >= PingInterval

(* Silence is noticed: two rounds of the timer are all that is added to    *)
(* the interval and the timeout.                                           *)
SilenceBounded ==
    phase = "running" =>
        now - lastInbound < PingInterval + LivenessTimeout + 2 * (Period + Late)

(* A peer that answers pings in time is never given up, however the        *)
(* handlers of its answers and the timer are interleaved.                  *)
AnsweringPeerLives ==
    RoundTrip + Late < LivenessTimeout /\ peer = "up" => phase # "dead"
================================================================================
