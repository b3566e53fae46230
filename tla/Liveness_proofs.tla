---------------------------- MODULE Liveness_proofs ----------------------------
(***************************************************************************)
(* Proofs about Liveness for every interval, timeout, period, delay and    *)
(* round trip.  Each property needs to know how far the clock can run past *)
(* what is due (Punctual); silence is bounded because the timer is always  *)
(* near (TimerNear), and an answering peer lives because its answer is on  *)
(* its way or waits to be handled (AnswerComing).                          *)
(***************************************************************************)
EXTENDS Liveness, TLAPS

Punctual ==
    /\ phase = "running" => now <= tickDue + Late /\ tickDue <= now + Period
    /\ frame # None => now <= frame + Late
    /\ peer = "up" /\ answerDue # None => now <= answerDue /\ answerDue <= now + RoundTrip

(* A ping is sent after an interval of silence, and not much later.        *)
PingAfterQuiet ==
    /\ phase = "made" => pingSentAt = None
    /\ pingSentAt # None =>
          /\ pingSentAt - lastInbound >= PingInterval
          /\ pingSentAt - lastInbound < PingInterval + Period + Late

TimerNear ==
    phase = "running" =>
        IF pingSentAt = None THEN tickDue < lastInbound + PingInterval + Period
        ELSE tickDue < pingSentAt + LivenessTimeout + Period

AnswerComing ==
    phase = "running" /\ pingSentAt # None /\ peer = "up" =>
        \/ frame # None /\ frame <= pingSentAt + RoundTrip
        \/ answerDue # None /\ answerDue <= pingSentAt + RoundTrip

IInv ==
    /\ TypeOK /\ Punctual /\ PingAfterQuiet /\ TimerNear /\ AnswerComing
    /\ NeverEarly /\ AnsweringPeerLives

--------------------------------------------------------------------------------
LEMMA TypeStep ==
  ASSUME TypeOK, [Next]_vars
  PROVE  TypeOK'
<1> USE LivenessAssumption DEF TypeOK, None
<1>1. CASE Pass
  BY <1>1 DEF Pass
<1>2. CASE Start
  BY <1>2 DEF Start
<1>3. CASE FrameArrives
  BY <1>3 DEF FrameArrives
<1>4. CASE PeerVanishes
  BY <1>4 DEF PeerVanishes
<1>5. CASE NoteInbound
  BY <1>5 DEF NoteInbound
<1>6. CASE Tick
  BY <1>6 DEF Tick, TickDue, Ping, Rearm
<1>7. CASE Stop
  BY <1>7 DEF Stop
<1>8. CASE UNCHANGED vars
  BY <1>8 DEF vars
<1> QED  BY <1>1, <1>2, <1>3, <1>4, <1>5, <1>6, <1>7, <1>8 DEF Next

(* The clock waits for what is due.                                        *)
LEMMA PunctualStep ==
  ASSUME TypeOK, Punctual, [Next]_vars
  PROVE  Punctual'
<1> USE LivenessAssumption DEF TypeOK, None, Punctual
<1>1. CASE Pass
  BY <1>1 DEF Pass
<1>2. CASE Start
  BY <1>2 DEF Start
<1>3. CASE FrameArrives
  BY <1>3 DEF FrameArrives
<1>4. CASE PeerVanishes
  BY <1>4 DEF PeerVanishes
<1>5. CASE NoteInbound
  BY <1>5 DEF NoteInbound
<1>6. CASE Tick
  BY <1>6 DEF Tick, TickDue, Ping, Rearm
<1>7. CASE Stop
  BY <1>7 DEF Stop
<1>8. CASE UNCHANGED vars
  BY <1>8 DEF vars
<1> QED  BY <1>1, <1>2, <1>3, <1>4, <1>5, <1>6, <1>7, <1>8 DEF Next

(* When the timer is due, counted from what it will judge.                 *)
LEMMA TimerStep ==
  ASSUME TypeOK, Punctual, PingAfterQuiet, TimerNear, [Next]_vars
  PROVE  PingAfterQuiet' /\ TimerNear'
<1> USE LivenessAssumption DEF TypeOK, None, Punctual, PingAfterQuiet, TimerNear
<1>1. CASE Pass
  BY <1>1 DEF Pass
<1>2. CASE Start
  BY <1>2 DEF Start
<1>3. CASE FrameArrives \/ PeerVanishes
  BY <1>3 DEF FrameArrives, PeerVanishes
<1>4. CASE NoteInbound
  BY <1>4 DEF NoteInbound
<1>5. CASE Tick
  <2>1. CASE pingSentAt = None /\ Quiet /\ Ping
    BY <1>5, <2>1 DEF Tick, TickDue, Ping, Rearm, Quiet
  <2>2. CASE pingSentAt = None /\ ~Quiet
    BY <1>5, <2>2 DEF Tick, TickDue, Rearm, Quiet
  <2>3. CASE pingSentAt # None
    BY <1>5, <2>3 DEF Tick, TickDue, Rearm, Expired
  <2> QED  BY <1>5, <2>1, <2>2, <2>3 DEF Tick
<1>6. CASE Stop
  BY <1>6 DEF Stop
<1>7. CASE UNCHANGED vars
  BY <1>7 DEF vars
<1> QED  BY <1>1, <1>2, <1>3, <1>4, <1>5, <1>6, <1>7 DEF Next

(* A peer that is up answers a ping, and the answer is not lost.           *)
LEMMA AnswerStep ==
  ASSUME TypeOK, Punctual, PingAfterQuiet, AnswerComing, [Next]_vars
  PROVE  AnswerComing'
<1> USE LivenessAssumption DEF TypeOK, None, AnswerComing
<1>1. CASE Pass
  BY <1>1 DEF Pass
<1>2. CASE Start
  BY <1>2 DEF Start, PingAfterQuiet
<1>3. CASE FrameArrives
  <2>1. CASE frame # None
    BY <1>3, <2>1 DEF FrameArrives, Punctual
  <2>2. CASE frame = None
    BY <1>3, <2>2 DEF FrameArrives, Punctual
  <2> QED  BY <2>1, <2>2
<1>4. CASE PeerVanishes \/ Stop
  BY <1>4 DEF PeerVanishes, Stop
<1>5. CASE NoteInbound
  BY <1>5 DEF NoteInbound
<1>6. CASE Tick
  BY <1>6 DEF Tick, TickDue, Ping, Rearm, Punctual
<1>7. CASE UNCHANGED vars
  BY <1>7 DEF vars
<1> QED  BY <1>1, <1>2, <1>3, <1>4, <1>5, <1>6, <1>7 DEF Next

(* The tick that gives up has seen both silences, and no answer on its way *)
(* could have been in time.                                                *)
LEMMA DeathStep ==
  ASSUME TypeOK, Punctual, PingAfterQuiet, AnswerComing, NeverEarly, AnsweringPeerLives,
         [Next]_vars
  PROVE  NeverEarly' /\ AnsweringPeerLives'
<1> USE LivenessAssumption DEF TypeOK, None, NeverEarly, AnsweringPeerLives
<1>1. CASE Pass
  BY <1>1 DEF Pass
<1>2. CASE Start \/ Stop
  BY <1>2 DEF Start, Stop
<1>3. CASE FrameArrives \/ PeerVanishes
  BY <1>3 DEF FrameArrives, PeerVanishes
<1>4. CASE NoteInbound
  BY <1>4 DEF NoteInbound
<1>5. CASE Tick
  <2>1. phase' = "dead" => pingSentAt # None /\ Expired /\ phase = "running"
    BY <1>5 DEF Tick, TickDue, Ping
  <2>2. UNCHANGED <<now, lastInbound, peer>> /\ (phase' = "dead" => pingSentAt' = pingSentAt)
    BY <1>5, <2>1 DEF Tick
  <2>3. NeverEarly'
    BY <2>1, <2>2 DEF Expired, PingAfterQuiet
  <2>4. AnsweringPeerLives'
    BY <2>1, <2>2 DEF Expired, AnswerComing, Punctual
  <2> QED  BY <2>3, <2>4
<1>6. CASE UNCHANGED vars
  BY <1>6 DEF vars
<1> QED  BY <1>1, <1>2, <1>3, <1>4, <1>5, <1>6 DEF Next

LEMMA Inductive == Spec => []IInv
<1>1. Init => IInv
  BY LivenessAssumption DEF Init, IInv, TypeOK, None, Punctual, PingAfterQuiet, TimerNear,
     AnswerComing, NeverEarly, AnsweringPeerLives
<1>2. IInv /\ [Next]_vars => IInv'
  BY TypeStep, PunctualStep, TimerStep, AnswerStep, DeathStep DEF IInv
<1> QED  BY <1>1, <1>2, PTL DEF Spec
--------------------------------------------------------------------------------
(* The fields of SocketLiveness have their types.                          *)
THEOREM TypeCorrect == Spec => []TypeOK
<1>1. IInv => TypeOK
  BY DEF IInv
<1> QED  BY Inductive, <1>1, PTL

(* tick fails a turn only after the interval and the timeout of silence.   *)
THEOREM NotEarly == Spec => []NeverEarly
<1>1. IInv => NeverEarly
  BY DEF IInv
<1> QED  BY Inductive, <1>1, PTL

(* tick notices silence within two late rounds of its timer.               *)
THEOREM NotLate == Spec => []SilenceBounded
<1>1. IInv => SilenceBounded
  BY LivenessAssumption DEF IInv, TypeOK, None, Punctual, PingAfterQuiet, TimerNear, SilenceBounded
<1> QED  BY Inductive, <1>1, PTL

(* tick never gives up a peer whose answers and their handlers together    *)
(* take less than the timeout.                                             *)
THEOREM AnswersSuffice == Spec => []AnsweringPeerLives
<1>1. IInv => AnsweringPeerLives
  BY DEF IInv
<1> QED  BY Inductive, <1>1, PTL
================================================================================
