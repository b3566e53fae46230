--------------------------- MODULE RequestLoop_proofs ---------------------------
(***************************************************************************)
(* Proofs of the safety of RequestLoop, for every limit of the queue and   *)
(* every number of frames.  The argument follows the frames of an attempt: *)
(* what is on the wire, in the queue and in hand belongs to the attempt,   *)
(* and nothing of it comes after its terminal frame (FramesInOrder); so    *)
(* when a terminal frame is in hand, output that has arrived has been      *)
(* seen (OutputAccounted), and an error knows whether output arrived       *)
(* (FaultKnows).                                                           *)
(***************************************************************************)
EXTENDS RequestLoop, FiniteSetTheorems, TLAPS

FaultKind == {"none", "abort", "hook", "protocol", "queue", "socket", "liveness", "connect"}

(* TypeOK leaves the types of these variables open.                        *)
FlagTypes ==
    /\ fault \in [kind : FaultKind, output : BOOLEAN]
    /\ outputStarted \in BOOLEAN /\ aborted \in BOOLEAN
    /\ hook \in {"new", "now", "done"}
    /\ store \in BOOLEAN /\ refers \in BOOLEAN /\ disposed \in BOOLEAN
    /\ replayed \in BOOLEAN /\ fellBack \in BOOLEAN /\ forceStoreFalse \in BOOLEAN
    /\ arrived \subseteq Nat

(* Where the generator is when the loop is not with it, and when there is  *)
(* a frame in hand or in the queue.                                        *)
Places ==
    /\ phase = "consumer" => gen = "yielded"
    /\ phase # "idle" => attempt # 0 /\ outcome = "none"
    /\ gen = "yielded" \/ held = NoFrame
    /\ Pending \/ queue = <<>>

Types == TypeOK /\ FlagTypes /\ Places

(* An error tells whether output had arrived; a pending request that has   *)
(* its error has no socket, so nothing arrives after it.                   *)
FaultKnows ==
    /\ fault # NoFault => fault.kind # "none" /\ fault.output = outputStarted
    /\ fault # NoFault => Pending \/ gen = "threw"
    /\ gen = "threw" => fault # NoFault
    /\ Pending /\ fault # NoFault => phys = "none"
    /\ aborted => phase = "idle" \/ fault.kind = "abort"
    /\ phys = "none" => wire = <<>> /\ served = Nobody

IsTerminal(frame) == frame.kind \in TerminalKind
Clean == served = Nobody /\ \A i \in 1..Len(wire) : wire[i].of = Nobody

(* Frames are of the attempt, or the server's notice of the limit.         *)
OfAttempt(frame) == /\ frame.of \in {attempt, Nobody}
                    /\ frame.of = Nobody => frame.kind = "limit"

(* On the wire nothing of the attempt comes after its terminal frame, and  *)
(* only a request that is pending has frames of its own there.             *)
WireInOrder ==
    /\ \A i \in 1..Len(wire) : OfAttempt(wire[i])
    /\ served \in {attempt, Nobody}
    /\ Pending \/ Clean
    /\ \A i \in 1..Len(wire) : IsTerminal(wire[i]) /\ wire[i].of # Nobody =>
          served = Nobody /\ \A j \in (i + 1)..Len(wire) : wire[j].of = Nobody

(* Once a terminal frame is queued the wire has nothing of the attempt any *)
(* more, and no output is queued behind it.                                *)
QueueInOrder ==
    /\ \A i \in 1..Len(queue) : OfAttempt(queue[i])
    /\ \A i \in 1..Len(queue) : IsTerminal(queue[i]) =>
          Clean /\ \A j \in (i + 1)..Len(queue) : queue[j].kind # "output"
HeldInOrder ==
    /\ gen = "yielded" => OfAttempt(held)
    /\ IsTerminal(held) => Clean /\ \A j \in 1..Len(queue) : queue[j].kind # "output"
FramesInOrder == WireInOrder /\ QueueInOrder /\ HeldInOrder

NoTerminalLeft == ~IsTerminal(held) /\ \A i \in 1..Len(queue) : ~IsTerminal(queue[i])

(* Output that has arrived is in the queue, in hand or with the caller,    *)
(* but for what an abort or an overflow dropped.                           *)
OutputQueued == \E i \in 1..Len(queue) : queue[i].kind = "output"
ArrivedExact == phase # "idle" => arrived = IF outputStarted THEN {attempt} ELSE {}
GivenInHand ==
    phase = "consumer" /\ held.kind = "output" => [kind |-> "output", of |-> attempt] \in given
OutputKept ==
    outputStarted => OutputQueued \/ OutputSeen \/ aborted \/ (fault.kind = "queue" /\ NoTerminalLeft)
OutputAccounted == ArrivedExact /\ GivenInHand /\ OutputKept

Terminals == {e \in given : e.kind \in TerminalKind}
TerminalsGiven ==
    /\ \A e, f \in Terminals : e = f
    /\ phase = "looping" => Terminals = {}
    /\ phase = "consumer" => (IsTerminal(held) <=> Terminals # {})
    /\ outcome = "returned" => Terminals # {}

(* A request that has ended without an abort or an overflow has given the  *)
(* caller the output that arrived.                                         *)
OutputTold ==
    /\ phase = "idle" => outputStarted = FALSE
    /\ outcome \in {"returned", "protocol", "socket", "liveness", "connect"} /\ ~aborted =>
          \A n \in arrived : [kind |-> "output", of |-> n] \in given

Safe == Types /\ FaultKnows /\ FramesInOrder /\ OutputAccounted
IInv == Safe /\ AttemptsBounded /\ TerminalsGiven /\ OutputTold /\ NoSocketAfterDispose
--------------------------------------------------------------------------------
(* What the frames still coming for an ended request are turned into.      *)
LEMMA ForgetType ==
  ASSUME NEW w \in Seq(Frame)
  PROVE  /\ Forget(w) \in Seq(Frame) /\ Len(Forget(w)) = Len(w)
         /\ \A i \in 1..Len(w) : /\ Forget(w)[i].kind = w[i].kind
                                 /\ w[i].of = Nobody => Forget(w)[i].of = Nobody
<1>1. \A i \in 1..Len(w) : w[i] \in Frame
  OBVIOUS
<1>2. Len(w) \in Nat /\ DOMAIN Forget(w) = 1..Len(w)
  BY DEF Forget
<1>3. ASSUME NEW i \in 1..Len(w)
      PROVE  /\ Forget(w)[i] \in Frame
             /\ Forget(w)[i].kind = w[i].kind
             /\ w[i].of = Nobody => Forget(w)[i].of = Nobody
  BY <1>1, <1>3 DEF Forget, Frame, Nobody, Stale
<1>4. Forget(w) \in [1..Len(w) -> Frame]
  BY <1>2, <1>3 DEF Forget
<1> QED  BY <1>2, <1>3, <1>4

LEMMA Members ==
  /\ NoFrame \in Frame /\ NoFrame.kind = "none" /\ NoFrame.of = Nobody
  /\ <<>> \in Seq(Frame)
  /\ NoFault \in [kind : FaultKind, output : BOOLEAN] /\ NoFault.kind = "none"
  /\ 0 \in 0..MaxFrames /\ Nobody \in Nat
BY QueueAssumption DEF NoFrame, Frame, NoFault, FaultKind, Nobody

(* The variables keep their types.                                         *)
LEMMA InitTypes == Init => Types
<1> SUFFICES ASSUME Init  PROVE Types
  OBVIOUS
<1> USE Members DEF Init, SocketInit
<1>1. TypeOK
  BY DEF TypeOK, Generator, Outcome
<1>2. FlagTypes /\ Places
  BY DEF FlagTypes, Places
<1> QED  BY <1>1, <1>2 DEF Types

(* What a close does to the types.                                         *)
LEMMA CloseTypes ==
  ASSUME Types, NEW kind \in FaultKind \ {"none"}, Close(kind),
         UNCHANGED <<queue, outputStarted, phase, store, refers, replayed, fellBack,
                     forceStoreFalse, given, outcome>>,
         disposed' \in BOOLEAN, arrived' \subseteq Nat
  PROVE  Types'
<1> USE Members DEF Types, Close, Gone
<1>1. TypeOK'
  BY DEF TypeOK, Generator
<1>2. fault' \in [kind : FaultKind, output : BOOLEAN]
  BY DEF FlagTypes, FaultOf
<1>3. FlagTypes'
  BY <1>2 DEF FlagTypes
<1>4. Places'
  BY DEF Places, Pending
<1> QED  BY <1>1, <1>3, <1>4

LEMMA EndTypes ==
  ASSUME Types, NEW how \in Outcome, End(how), Gone \/ KeepSocket
  PROVE  Types'
<1> USE Members DEF Types, End
<1>1. wire' \in Seq(Frame) /\ served' \in Nat /\ sent' \in 0..MaxFrames
  <2>1. CASE Gone
    BY <2>1 DEF Gone
  <2>2. CASE KeepSocket
    <3>1. wire' = Forget(wire) /\ served' \in {Nobody, Stale} /\ sent' = sent
      BY <2>2 DEF KeepSocket
    <3> QED  BY <3>1, ForgetType DEF TypeOK, Stale
  <2> QED  BY <2>1, <2>2
<1>2. phys' \in {"none", "connecting", "hook", "open"}
  BY DEF TypeOK, Gone, KeepSocket
<1>3. TypeOK'
  BY <1>1, <1>2 DEF TypeOK, Generator
<1>4. FlagTypes'
  BY DEF FlagTypes
<1>5. Places'
  BY DEF Places, Pending
<1> QED  BY <1>3, <1>4, <1>5

(* What a further attempt does to them.                                    *)
LEMMA NextAttemptTypes ==
  ASSUME Types, phase # "idle", NextAttempt, arrived' = arrived,
         replayed' \in BOOLEAN, fellBack' \in BOOLEAN, forceStoreFalse' \in BOOLEAN,
         refers' \in BOOLEAN
  PROVE  Types'
<1> USE Members DEF Types, NextAttempt, OpenAttempt
<1>1. TypeOK'
  BY DEF TypeOK, Generator
<1>2. FlagTypes'
  BY DEF FlagTypes
<1>3. Places'
  BY DEF TypeOK, Places, Pending
<1> QED  BY <1>1, <1>2, <1>3

LEMMA LoopTypes ==
  ASSUME Types, Begin \/ Retries \/ Yields \/ Pulls \/ Returns \/ Catches \/ Dispose
  PROVE  Types'
<1>1. ASSUME Begin  PROVE Types'
  <2> USE Members, <1>1 DEF Types, Begin, OpenAttempt, networkVars
  <2>1. phys' \in {"none", "connecting", "hook", "open"} /\ wire' \in Seq(Frame)
        /\ served' \in Nat /\ sent' \in 0..MaxFrames /\ gen' \in Generator \ {"none"}
    BY DEF TypeOK, Generator
  <2>4. TypeOK'
    BY <2>1 DEF TypeOK, Outcome
  <2>2. FlagTypes'
    BY DEF FlagTypes
  <2>3. Places'
    BY DEF Places, Pending
  <2> QED  BY <2>2, <2>3, <2>4
<1>2. ASSUME Retries  PROVE Types'
  <2>1. phase # "idle" /\ {"lifecycle", "abort"} \subseteq Outcome
    BY <1>2 DEF Retries, EventInHand, Outcome
  <2>2. CASE disposed
    BY <1>2, <2>1, <2>2, EndTypes DEF Retries
  <2>3. CASE ~disposed /\ aborted
    BY <1>2, <2>1, <2>3, EndTypes DEF Retries
  <2>4. CASE ~disposed /\ ~aborted
    <3>1. NextAttempt
      BY <1>2, <2>4 DEF Retries
    <3>2. /\ replayed' = (replayed \/ IsConnectionLimit)
          /\ fellBack' = (fellBack \/ IsRejection)
          /\ forceStoreFalse' = (forceStoreFalse \/ IsTooLarge)
          /\ refers' = (refers /\ IsConnectionLimit)
      BY <1>2, <2>4 DEF Retries
    <3>3. arrived' = arrived
      BY <3>1 DEF NextAttempt
    <3> QED  BY <2>1, <3>1, <3>2, <3>3, NextAttemptTypes DEF Types, FlagTypes
  <2> QED  BY <2>2, <2>3, <2>4 DEF Types, FlagTypes
<1>3. ASSUME Yields  PROVE Types'
  <2> USE Members, <1>3 DEF Types, Yields, EventInHand
  <2>1. [kind |-> IF IsTooLarge THEN "completed" ELSE held.kind, of |-> attempt] \in Frame
    BY DEF TypeOK, Frame, Kind, TerminalKind
  <2>2. phys' \in {"none", "connecting", "hook", "open"} /\ wire' \in Seq(Frame)
        /\ served' \in Nat /\ sent' \in 0..MaxFrames
    BY DEF TypeOK, Gone, networkVars
  <2>3. TypeOK'
    BY <2>1, <2>2 DEF TypeOK, Generator
  <2>4. FlagTypes' /\ Places'
    BY DEF FlagTypes, Places, Pending
  <2> QED  BY <2>3, <2>4
<1>4. ASSUME Pulls  PROVE Types'
  <2>1. CASE held.kind \in TerminalKind
    BY <1>4, <2>1, EndTypes DEF Pulls, Outcome
  <2>2. CASE held.kind \notin TerminalKind
    <3> USE Members, <1>4, <2>2 DEF Types, Pulls, networkVars
    <3>1. TypeOK'
      BY DEF TypeOK, Generator
    <3>2. FlagTypes' /\ Places'
      BY DEF FlagTypes, Places, Pending
    <3> QED  BY <3>1, <3>2
  <2> QED  BY <2>1, <2>2
<1>5. ASSUME Returns  PROVE Types'
  BY <1>5, EndTypes DEF Returns, Outcome
<1>6. ASSUME Catches  PROVE Types'
  <2>1. phase # "idle"
    BY <1>6 DEF Catches
  <2>2. CASE Replays
    <3>1. NextAttempt /\ replayed' = TRUE /\ UNCHANGED <<fellBack, forceStoreFalse, refers>>
      BY <1>6, <2>2 DEF Catches
    <3>2. arrived' = arrived
      BY <3>1 DEF NextAttempt
    <3> QED  BY <2>1, <3>1, <3>2, NextAttemptTypes DEF Types, FlagTypes
  <2>3. CASE ~Replays
    <3>1. (IF disposed THEN "lifecycle" ELSE fault.kind) \in Outcome
      BY DEF Types, FlagTypes, FaultKind, Outcome
    <3> QED  BY <1>6, <2>3, <3>1, EndTypes DEF Catches
  <2> QED  BY <2>2, <2>3
<1>7. ASSUME Dispose  PROVE Types'
  BY <1>7, CloseTypes DEF Dispose, FaultKind, Types, FlagTypes
<1> QED  BY <1>1, <1>2, <1>3, <1>4, <1>5, <1>6, <1>7

(* The branches of the message handler, by what they do: the frame closes  *)
(* the socket, is dropped, overflows the queue, is the last one queued, or *)
(* is queued.                                                              *)
ClosesOn(kind) == Close(kind) /\ UNCHANGED <<queue, outputStarted>>
Dropped == /\ ~Pending
           /\ wire' = Tail(wire)
           /\ UNCHANGED <<phys, served, sent, gen, attempt, fault, held, hook, aborted,
                          queue, outputStarted>>
Overflows == /\ Pending
             /\ outputStarted' = (outputStarted \/ Head(wire).kind = "output")
             /\ Gone
             /\ gen' = IF gen = "waiting" THEN "draining" ELSE gen
             /\ fault' = [kind |-> "queue", output |-> outputStarted']
             /\ UNCHANGED <<attempt, held, hook, aborted, queue>>
QueuesLast == /\ Pending /\ Head(wire).kind = "limit"
              /\ Close("socket")
              /\ queue' = Append(queue, Head(wire)) /\ UNCHANGED outputStarted
Queues == /\ Pending /\ Head(wire).kind # "limit"
          /\ outputStarted' = (outputStarted \/ Head(wire).kind = "output")
          /\ queue' = Append(queue, Head(wire))
          /\ wire' = Tail(wire)
          /\ gen' = IF gen = "waiting" THEN "draining" ELSE gen
          /\ UNCHANGED <<phys, served, sent, attempt, fault, held, hook, aborted>>

LEMMA Delivers ==
  ASSUME Deliver, Types
  PROVE  /\ wire # <<>> /\ Head(wire) \in Frame /\ Tail(wire) \in Seq(Frame)
         /\ phys \in {"hook", "open"}
         /\ \/ ClosesOn("protocol") \/ ClosesOn("socket") \/ Dropped
            \/ Overflows \/ QueuesLast \/ Queues
<1>1. wire # <<>> /\ wire \in Seq(Frame) /\ phys \in {"hook", "open"}
  BY DEF Deliver, Types, TypeOK
<1>2. CASE Head(wire).kind = "garbage"
  BY <1>1, <1>2 DEF Deliver, ClosesOn
<1>3. CASE Head(wire).kind # "garbage" /\ ~Pending
  BY <1>1, <1>3 DEF Deliver, ClosesOn, Dropped
<1>4. CASE Head(wire).kind # "garbage" /\ Pending
  BY <1>1, <1>4 DEF Deliver, Overflows, QueuesLast, Queues, Types, FlagTypes
<1> QED  BY <1>1, <1>2, <1>3, <1>4

(* A step of the socket, as the loop sees it.                              *)
Quiet == UNCHANGED <<phase, store, refers, replayed, fellBack, forceStoreFalse, disposed,
                     given, outcome>>

LEMMA SocketTypes ==
  ASSUME Types, Quiet, arrived' = IF outputStarted' THEN arrived \union {attempt} ELSE arrived,
         Opens \/ HookSettles \/ HookThrows \/ Send \/ Drain \/ Abort \/ Network \/ Drops
  PROVE  Types'
<1>1. arrived' \subseteq Nat
  BY DEF Types, TypeOK, FlagTypes
<1>2. disposed' \in BOOLEAN
  BY DEF Types, FlagTypes, Quiet
<1> USE Members, <1>1, <1>2 DEF Types, Quiet
<1>3. ASSUME NEW kind \in FaultKind \ {"none"}, Close(kind), UNCHANGED <<queue, outputStarted>>
      PROVE  Types'
  BY <1>3, CloseTypes
<1>4. ASSUME Opens \/ HookSettles  PROVE Types'
  <2>1. TypeOK'
    BY <1>4 DEF TypeOK, Opens, HookSettles, Generator
  <2>2. FlagTypes' /\ Places'
    BY <1>4 DEF FlagTypes, Places, Opens, HookSettles, Pending
  <2> QED  BY <2>1, <2>2
<1>5. ASSUME HookThrows  PROVE Types'
  <2>1. CASE phys = "hook" /\ Close("hook") /\ UNCHANGED <<queue, outputStarted>>
    BY <2>1, <1>3 DEF FaultKind
  <2>2. CASE ~(phys = "hook" /\ Close("hook") /\ UNCHANGED <<queue, outputStarted>>)
    <3> USE <1>5, <2>2 DEF HookThrows
    <3>1. TypeOK'
      BY DEF TypeOK, Generator
    <3>2. FlagTypes'
      BY DEF FlagTypes, FaultKind, FaultOf
    <3>3. Places'
      BY DEF TypeOK, Places, Pending
    <3> QED  BY <3>1, <3>2, <3>3
  <2> QED  BY <2>1, <2>2
<1>6. ASSUME Send  PROVE Types'
  <2> USE <1>6 DEF Send, Gone, networkVars
  <2>1. TypeOK'
    BY DEF TypeOK, Generator
  <2>2. FlagTypes'
    BY DEF FlagTypes, FaultKind, FaultOf
  <2>3. Places'
    BY DEF Places, Pending
  <2> QED  BY <2>1, <2>2, <2>3
<1>7. ASSUME Drain  PROVE Types'
  <2> USE <1>7 DEF Drain, networkVars
  <2>1. queue' \in Seq(Frame) /\ held' \in Frame
    BY DEF TypeOK
  <2>2. TypeOK'
    BY <2>1 DEF TypeOK, Generator
  <2>3. FlagTypes'
    BY DEF FlagTypes
  <2>4. Places'
    BY DEF Places, Pending
  <2> QED  BY <2>2, <2>3, <2>4
<1>8. ASSUME Abort  PROVE Types'
  <2> USE <1>8 DEF Abort, Gone
  <2>1. TypeOK'
    BY DEF TypeOK, Generator
  <2>2. FlagTypes'
    BY DEF FlagTypes, FaultKind, FaultOf
  <2>3. Places'
    BY DEF Places, Pending
  <2> QED  BY <2>1, <2>2, <2>3
<1>9. ASSUME ServerSends  PROVE Types'
  <2> USE <1>9 DEF ServerSends
  <2>1. wire' \in Seq(Frame) /\ served' \in Nat
    BY DEF TypeOK, Frame
  <2>2. sent' \in 0..MaxFrames
    BY QueueAssumption DEF TypeOK
  <2>3. TypeOK'
    BY <2>1, <2>2 DEF TypeOK
  <2>4. FlagTypes' /\ Places'
    BY DEF FlagTypes, Places, Pending
  <2> QED  BY <2>3, <2>4
<1>10. ASSUME ServerLimits  PROVE Types'
  <2> USE <1>10 DEF ServerLimits
  <2>1. wire' \in Seq(Frame)
    BY DEF TypeOK, Frame, Kind, TerminalKind
  <2>2. TypeOK'
    BY <2>1 DEF TypeOK
  <2>3. FlagTypes' /\ Places'
    BY DEF FlagTypes, Places, Pending
  <2> QED  BY <2>2, <2>3
<1>11. ASSUME Pong  PROVE Types'
  <2> USE <1>11 DEF Pong, networkVars
  <2>1. TypeOK'
    BY DEF TypeOK, Generator
  <2>2. FlagTypes' /\ Places'
    BY DEF FlagTypes, Places, Pending
  <2> QED  BY <2>1, <2>2
<1>12. ASSUME Drops  PROVE Types'
  BY <1>12, <1>3 DEF Drops, ConnectFails, NetworkDrops, FrameTooBig, LivenessFails, AgeFires,
     FaultKind
<1>13. ASSUME Deliver  PROVE Types'
  <2> USE <1>13, Delivers
  <2>1. ASSUME ClosesOn("protocol") \/ ClosesOn("socket")  PROVE Types'
    BY <2>1, <1>3 DEF ClosesOn, FaultKind
  <2>2. ASSUME Dropped  PROVE Types'
    <3>1. TypeOK'
      BY <2>2 DEF Dropped, TypeOK
    <3>2. FlagTypes' /\ Places'
      BY <2>2 DEF Dropped, FlagTypes, Places, Pending
    <3> QED  BY <3>1, <3>2
  <2>3. ASSUME Overflows  PROVE Types'
    <3>1. TypeOK'
      BY <2>3 DEF Overflows, TypeOK, Gone, Generator
    <3>2. FlagTypes'
      BY <2>3 DEF Overflows, FlagTypes, FaultKind
    <3>3. Places'
      BY <2>3 DEF Overflows, Places, Pending
    <3> QED  BY <3>1, <3>2, <3>3
  <2>4. ASSUME QueuesLast  PROVE Types'
    <3> USE <2>4 DEF QueuesLast, Close, Gone
    <3>1. queue' \in Seq(Frame)
      BY DEF TypeOK
    <3>2. TypeOK'
      BY <3>1 DEF TypeOK, Generator
    <3>3. FlagTypes'
      BY DEF FlagTypes, FaultKind, FaultOf
    <3>4. Places'
      BY DEF Places, Pending
    <3> QED  BY <3>2, <3>3, <3>4
  <2>5. ASSUME Queues  PROVE Types'
    <3> USE <2>5 DEF Queues
    <3>1. queue' \in Seq(Frame)
      BY DEF TypeOK
    <3>2. TypeOK'
      BY <3>1 DEF TypeOK, Generator
    <3>3. FlagTypes'
      BY DEF FlagTypes
    <3>4. Places'
      BY DEF Places, Pending
    <3> QED  BY <3>2, <3>3, <3>4
  <2> QED  BY <2>1, <2>2, <2>3, <2>4, <2>5
<1> QED  BY <1>4, <1>5, <1>6, <1>7, <1>8, <1>9, <1>10, <1>11, <1>12, <1>13 DEF Network
--------------------------------------------------------------------------------
(* What an error knows.                                                    *)
LEMMA CloseFaults ==
  ASSUME Types, FaultKnows, NEW kind \in FaultKind \ {"none"}, Close(kind),
         UNCHANGED <<outputStarted, phase>>
  PROVE  FaultKnows'
<1> USE Members DEF FaultKnows, Close, Gone, FaultOf, Types, Pending
<1>1. fault' # NoFault => fault'.kind # "none" /\ fault'.output = outputStarted'
  OBVIOUS
<1>2. aborted' => phase' = "idle" \/ fault'.kind = "abort"
  OBVIOUS
<1> QED  BY <1>1, <1>2

LEMMA LoopFaults ==
  ASSUME Types, FaultKnows, Begin \/ Retries \/ Yields \/ Pulls \/ Returns \/ Catches \/ Dispose
  PROVE  FaultKnows'
<1> USE Members DEF FaultKnows, Pending
<1>1. ASSUME NEW how \in Outcome, End(how), Gone \/ KeepSocket  PROVE FaultKnows'
  <2>1. phys' = "none" => wire' = <<>> /\ served' = Nobody
    BY <1>1 DEF Gone, KeepSocket, Forget
  <2> QED  BY <1>1, <2>1 DEF End
<1>2. ASSUME NextAttempt, aborted = FALSE  PROVE FaultKnows'
  BY <1>2 DEF NextAttempt, OpenAttempt
<1>3. ASSUME Begin  PROVE FaultKnows'
  BY <1>3 DEF Begin, OpenAttempt, networkVars
<1>4. ASSUME Retries  PROVE FaultKnows'
  BY <1>1, <1>2, <1>4 DEF Retries, Outcome, Types, FlagTypes
<1>5. ASSUME Yields  PROVE FaultKnows'
  BY <1>5 DEF Yields, EventInHand, Gone, networkVars
<1>6. ASSUME Pulls  PROVE FaultKnows'
  <2>1. CASE held.kind \in TerminalKind
    BY <1>6, <2>1, <1>1 DEF Pulls, Outcome
  <2>2. CASE held.kind \notin TerminalKind
    BY <1>6, <2>2 DEF Pulls, networkVars, Types, Places
  <2> QED  BY <2>1, <2>2
<1>7. ASSUME Returns  PROVE FaultKnows'
  BY <1>1, <1>7 DEF Returns, Outcome
<1>8. ASSUME Catches  PROVE FaultKnows'
  <2>1. CASE Replays
    <3>1. aborted = FALSE
      BY <1>8, <2>1 DEF Catches, Replays, Replayable, Types, FlagTypes
    <3> QED  BY <1>8, <2>1, <3>1, <1>2 DEF Catches
  <2>2. CASE ~Replays
    <3>1. (IF disposed THEN "lifecycle" ELSE fault.kind) \in Outcome
      BY DEF Types, FlagTypes, FaultKind, Outcome
    <3> QED  BY <1>8, <2>2, <3>1, <1>1 DEF Catches
  <2> QED  BY <2>1, <2>2
<1>9. ASSUME Dispose  PROVE FaultKnows'
  BY <1>9, CloseFaults DEF Dispose, FaultKind
<1> QED  BY <1>3, <1>4, <1>5, <1>6, <1>7, <1>8, <1>9

LEMMA SocketFaults ==
  ASSUME Types, FaultKnows, Quiet,
         Opens \/ HookSettles \/ HookThrows \/ Send \/ Drain \/ Abort \/ Network \/ Drops
  PROVE  FaultKnows'
<1> USE Members DEF Quiet
<1>1. ASSUME NEW kind \in FaultKind \ {"none"}, ClosesOn(kind)  PROVE FaultKnows'
  BY <1>1, CloseFaults DEF ClosesOn
<1>2. ASSUME Opens \/ HookSettles  PROVE FaultKnows'
  BY <1>2 DEF Opens, HookSettles, FaultKnows, Pending
<1>3. ASSUME HookThrows  PROVE FaultKnows'
  <2>1. CASE ClosesOn("hook")
    BY <2>1, <1>1 DEF FaultKind
  <2>2. CASE ~ClosesOn("hook")
    <3>1. fault = NoFault /\ ~aborted
      BY <1>3, <2>2 DEF HookThrows, ClosesOn, FaultKnows, Pending, Types, TypeOK
    <3>2. fault'.kind = "hook" /\ fault'.output = outputStarted'
      BY <1>3, <2>2 DEF HookThrows, ClosesOn, FaultOf
    <3> QED
      BY <1>3, <2>2, <3>1, <3>2 DEF HookThrows, ClosesOn, FaultKnows, Pending
  <2> QED  BY <2>1, <2>2
<1>4. ASSUME Send  PROVE FaultKnows'
  <2>1. fault = NoFault /\ ~aborted
    BY <1>4 DEF Send, FaultKnows, Pending, Types, TypeOK
  <2>2. \/ phys' = "open" /\ fault' = NoFault
        \/ /\ wire' = <<>> /\ served' = Nobody /\ phys' = "none"
           /\ fault'.kind \in {"socket", "connect"} /\ fault'.output = outputStarted'
    BY <1>4, <2>1 DEF Send, FaultKnows, networkVars, Gone, FaultOf
  <2>3. gen' = "draining" /\ aborted' = aborted
    BY <1>4 DEF Send
  <2> QED  BY <2>1, <2>2, <2>3 DEF FaultKnows, Pending
<1>5. ASSUME Drain  PROVE FaultKnows'
  BY <1>5 DEF Drain, networkVars, FaultKnows, Pending
<1>6. ASSUME Abort  PROVE FaultKnows'
  BY <1>6 DEF Abort, Gone, FaultKnows, Pending, FaultOf
<1>7. ASSUME ServerSends \/ ServerLimits  PROVE FaultKnows'
  BY <1>7 DEF ServerSends, ServerLimits, FaultKnows, Pending
<1>8. ASSUME Pong  PROVE FaultKnows'
  BY <1>8 DEF Pong, networkVars, FaultKnows, Pending
<1>9. ASSUME Drops  PROVE FaultKnows'
  BY <1>9, <1>1 DEF Drops, ConnectFails, NetworkDrops, FrameTooBig, LivenessFails, AgeFires,
     FaultKind, ClosesOn
<1>10. ASSUME Deliver  PROVE FaultKnows'
  <2> USE <1>10, Delivers
  <2>1. ASSUME ClosesOn("protocol") \/ ClosesOn("socket")  PROVE FaultKnows'
    BY <2>1, <1>1 DEF FaultKind
  <2>2. ASSUME Dropped  PROVE FaultKnows'
    BY <2>2 DEF Dropped, FaultKnows, Pending
  <2>3. ASSUME Overflows  PROVE FaultKnows'
    <3>1. fault = NoFault /\ ~aborted
      BY <2>3 DEF Overflows, FaultKnows, Pending, Types, TypeOK
    <3> QED  BY <2>3, <3>1 DEF Overflows, FaultKnows, Pending, Gone
  <2>4. ASSUME QueuesLast  PROVE FaultKnows'
    BY <2>4, CloseFaults DEF QueuesLast, FaultKind
  <2>5. ASSUME Queues  PROVE FaultKnows'
    <3>1. fault = NoFault /\ ~aborted
      BY <2>5 DEF Queues, FaultKnows, Pending, Types, TypeOK
    <3> QED  BY <2>5, <3>1 DEF Queues, FaultKnows, Pending
  <2> QED  BY <2>1, <2>2, <2>3, <2>4, <2>5
<1> QED  BY <1>2, <1>3, <1>4, <1>5, <1>6, <1>7, <1>8, <1>9, <1>10 DEF Network
--------------------------------------------------------------------------------
(* The frames stay in order.  First, when the socket goes: only what has   *)
(* been received is left.                                                  *)
LEMMA GoneFrames ==
  ASSUME Types, FramesInOrder, Gone, queue' \in {queue, <<>>},
         attempt' = attempt, held' = held, gen' = "yielded" => gen = "yielded"
  PROVE  FramesInOrder'
<1>1. Clean' /\ Len(wire') = 0
  BY DEF Gone, Clean
<1>2. WireInOrder'
  BY <1>1 DEF WireInOrder, Clean
<1>3. QueueInOrder'
  BY <1>1 DEF FramesInOrder, QueueInOrder, OfAttempt
<1>4. HeldInOrder'
  BY <1>1 DEF FramesInOrder, HeldInOrder, OfAttempt
<1> QED  BY <1>2, <1>3, <1>4 DEF FramesInOrder

(* Between requests, and when an attempt starts, nothing of an attempt is  *)
(* left anywhere.                                                          *)
LEMMA FreshFrames ==
  ASSUME Clean', queue' = <<>>, held' = NoFrame, gen' # "yielded",
         \A i \in 1..Len(wire') : wire'[i].kind = "limit"
  PROVE  FramesInOrder'
<1> USE Members DEF Clean
<1>1. WireInOrder'
  BY DEF WireInOrder, OfAttempt
<1>2. QueueInOrder' /\ HeldInOrder'
  BY DEF QueueInOrder, HeldInOrder, IsTerminal, TerminalKind
<1> QED  BY <1>1, <1>2 DEF FramesInOrder

LEMMA LoopFrames ==
  ASSUME Types, FaultKnows, FramesInOrder,
         Begin \/ Retries \/ Yields \/ Pulls \/ Returns \/ Catches \/ Dispose
  PROVE  FramesInOrder'
<1> USE Members
<1>1. ASSUME NEW how, End(how), Gone \/ (KeepSocket /\ Clean)  PROVE FramesInOrder'
  <2>1. CASE Gone
    BY <1>1, <2>1, FreshFrames DEF End, Gone, Clean
  <2>2. CASE KeepSocket /\ Clean
    <3>1. wire \in Seq(Frame) /\ wire' = Forget(wire) /\ served' = Nobody
      BY <2>2 DEF KeepSocket, Clean, Types, TypeOK
    <3>2. Len(wire') = Len(wire) /\ \A i \in 1..Len(wire) : wire'[i].of = Nobody
      BY <2>2, <3>1, ForgetType DEF Clean
    <3>3. \A i \in 1..Len(wire) : wire[i].kind = "limit"
      BY <2>2 DEF Clean, FramesInOrder, WireInOrder, OfAttempt
    <3>4. \A i \in 1..Len(wire) : wire'[i].kind = wire[i].kind
      BY <3>1, ForgetType
    <3> QED  BY <1>1, <3>1, <3>2, <3>3, <3>4, FreshFrames DEF End, Clean
  <2> QED  BY <1>1, <2>1, <2>2
<1>2. ASSUME NextAttempt  PROVE FramesInOrder'
  BY <1>2, FreshFrames DEF NextAttempt, OpenAttempt, Clean
<1>3. ASSUME Begin  PROVE FramesInOrder'
  <2>1. Clean /\ \A i \in 1..Len(wire) : wire[i].kind = "limit"
    BY <1>3 DEF Begin, FramesInOrder, WireInOrder, OfAttempt, Clean, Types, TypeOK, Pending
  <2>2. Clean' /\ \A i \in 1..Len(wire') : wire'[i].kind = "limit"
    BY <1>3, <2>1 DEF Begin, OpenAttempt, networkVars, Clean
  <2> QED  BY <1>3, <2>2, FreshFrames DEF Begin, OpenAttempt
<1>4. ASSUME Retries  PROVE FramesInOrder'
  BY <1>1, <1>2, <1>4 DEF Retries
<1>5. ASSUME Yields  PROVE FramesInOrder'
  <2>1. UNCHANGED <<gen, attempt, queue, held>>
    BY <1>5 DEF Yields
  <2>2. CASE Gone
    BY <2>1, <2>2, GoneFrames
  <2>3. CASE ~Gone
    <3>1. UNCHANGED <<wire, served>>
      BY <1>5, <2>3 DEF Yields, networkVars
    <3> QED
      BY <2>1, <3>1 DEF FramesInOrder, WireInOrder, QueueInOrder, HeldInOrder, OfAttempt, Clean,
                        Pending
  <2> QED  BY <2>2, <2>3
<1>6. ASSUME Pulls  PROVE FramesInOrder'
  <2>1. CASE held.kind \in TerminalKind
    BY <1>6, <2>1, <1>1 DEF Pulls, FramesInOrder, HeldInOrder, IsTerminal
  <2>2. CASE held.kind \notin TerminalKind
    <3> USE <1>6, <2>2 DEF Pulls, networkVars
    <3>1. Pending /\ Pending'
      BY DEF Types, Places, Pending
    <3>2. WireInOrder' /\ QueueInOrder'
      BY <3>1 DEF FramesInOrder, WireInOrder, QueueInOrder, OfAttempt, Clean
    <3>3. HeldInOrder'
      BY DEF HeldInOrder, IsTerminal, TerminalKind
    <3> QED  BY <3>2, <3>3 DEF FramesInOrder
  <2> QED  BY <2>1, <2>2
<1>7. ASSUME Returns  PROVE FramesInOrder'
  BY <1>1, <1>7 DEF Returns, FramesInOrder, HeldInOrder, IsTerminal
<1>8. ASSUME Catches  PROVE FramesInOrder'
  <2>1. Clean
    BY <1>8 DEF Catches, FramesInOrder, WireInOrder, Pending
  <2> QED  BY <1>1, <1>2, <1>8, <2>1 DEF Catches
<1>9. ASSUME Dispose  PROVE FramesInOrder'
  BY <1>9, GoneFrames DEF Dispose, Close
<1> QED  BY <1>3, <1>4, <1>5, <1>6, <1>7, <1>8, <1>9

(* What the server sends goes to the end of the wire.                      *)
LEMMA ServerFrames ==
  ASSUME Types, FramesInOrder, ServerSends \/ ServerLimits
  PROVE  FramesInOrder'
<1> USE Members
<1> USE DEF FramesInOrder
<1>1. wire \in Seq(Frame) /\ UNCHANGED <<gen, attempt, queue, held>>
  BY DEF Types, TypeOK, ServerSends, ServerLimits
<1>2. PICK f \in Frame : wire' = Append(wire, f) /\ OfAttempt(f)
                         /\ (f.of = Nobody \/ f.of = served)
                         /\ (IF f.of # Nobody /\ ~IsTerminal(f) THEN served' = served ELSE served' = Nobody)
  <2>1. CASE ServerSends
    <3>1. PICK kind \in Kind : /\ wire' = Append(wire, [kind |-> kind, of |-> served])
                               /\ served' = IF kind \in TerminalKind THEN Nobody ELSE served
      BY <2>1 DEF ServerSends
    <3>2. served # Nobody /\ served = attempt /\ served \in Nat
      BY <2>1 DEF ServerSends, WireInOrder, Types, TypeOK
    <3>3. [kind |-> kind, of |-> served] \in Frame
      BY <3>1, <3>2 DEF Frame
    <3> QED  BY <3>1, <3>2, <3>3 DEF OfAttempt, IsTerminal
  <2>2. CASE ServerLimits
    <3>1. [kind |-> "limit", of |-> Nobody] \in Frame
      BY DEF Frame, Kind, TerminalKind
    <3> QED  BY <2>2, <3>1 DEF ServerLimits, OfAttempt
  <2> QED  BY <2>1, <2>2
<1>3. /\ Len(wire') = Len(wire) + 1 /\ wire'[Len(wire) + 1] = f
      /\ \A i \in 1..Len(wire) : wire'[i] = wire[i]
      /\ Len(wire) \in Nat
  BY <1>1, <1>2
<1>4. Clean => Clean'
  BY <1>2, <1>3 DEF Clean
<1>5. WireInOrder'
  <2>1. \A i \in 1..Len(wire') : OfAttempt(wire[i])' 
    BY <1>1, <1>2, <1>3 DEF WireInOrder, OfAttempt
  <2>2. served' \in {attempt', Nobody} /\ (Pending' \/ Clean')
    BY <1>1, <1>2, <1>4 DEF WireInOrder, Pending
  <2>3. ASSUME NEW i \in 1..Len(wire'), IsTerminal(wire'[i]), wire'[i].of # Nobody
        PROVE  served' = Nobody /\ \A j \in (i + 1)..Len(wire') : wire'[j].of = Nobody
    <3>1. CASE i \in 1..Len(wire)
      <4>1. served = Nobody /\ \A j \in (i + 1)..Len(wire) : wire[j].of = Nobody
        BY <1>3, <2>3, <3>1 DEF WireInOrder
      <4> QED  BY <1>2, <1>3, <4>1
    <3>2. CASE i = Len(wire) + 1
      BY <1>2, <1>3, <2>3, <3>2
    <3> QED  BY <1>3, <3>1, <3>2
  <2> QED  BY <2>1, <2>2, <2>3 DEF WireInOrder
<1>6. QueueInOrder' /\ HeldInOrder'
  BY <1>1, <1>4 DEF QueueInOrder, HeldInOrder, OfAttempt
<1> QED  BY <1>5, <1>6

LEMMA SocketFrames ==
  ASSUME Types, FaultKnows, FramesInOrder, Quiet,
         Opens \/ HookSettles \/ HookThrows \/ Send \/ Drain \/ Abort \/ Network \/ Drops
  PROVE  FramesInOrder'
<1> USE Members
<1>1. ASSUME NEW kind, ClosesOn(kind)  PROVE FramesInOrder'
  BY <1>1, GoneFrames DEF ClosesOn, Close
<1>2. ASSUME UNCHANGED <<wire, served, attempt, queue, held>>,
             gen' = "yielded" => gen = "yielded", Pending => Pending'
      PROVE  FramesInOrder'
  BY <1>2 DEF FramesInOrder, WireInOrder, QueueInOrder, HeldInOrder, OfAttempt, Clean
<1>3. ASSUME Opens \/ HookSettles \/ Pong  PROVE FramesInOrder'
  BY <1>2, <1>3 DEF Opens, HookSettles, Pong, networkVars, Pending
<1>4. ASSUME HookThrows  PROVE FramesInOrder'
  <2>1. CASE ClosesOn("hook")
    BY <1>1, <2>1
  <2>2. CASE ~ClosesOn("hook")
    BY <1>2, <1>4, <2>2 DEF HookThrows, ClosesOn, Pending
  <2> QED  BY <2>1, <2>2
<1>5. ASSUME Send  PROVE FramesInOrder'
  <2>1. Clean /\ queue = <<>> /\ held = NoFrame
    BY <1>5 DEF Send, FramesInOrder, WireInOrder, Types, Places, Pending
  <2>2. \A i \in 1..Len(wire) : wire[i].of = Nobody /\ wire[i].kind = "limit"
    BY <2>1 DEF Clean, FramesInOrder, WireInOrder, OfAttempt
  <2>3. UNCHANGED <<attempt, queue, held>> /\ gen' = "draining"
    BY <1>5 DEF Send
  <2>4. (wire' = wire \/ wire' = <<>>) /\ served' \in {attempt, Nobody}
    BY <1>5, <2>1 DEF Send, Gone, networkVars, Clean
  <2>5. WireInOrder'
    BY <2>2, <2>3, <2>4 DEF WireInOrder, OfAttempt, Pending
  <2>6. QueueInOrder' /\ HeldInOrder'
    BY <2>1, <2>3 DEF QueueInOrder, HeldInOrder, IsTerminal, TerminalKind
  <2> QED  BY <2>5, <2>6 DEF FramesInOrder
<1>6. ASSUME Drain  PROVE FramesInOrder'
  <2>1. queue \in Seq(Frame) /\ UNCHANGED <<phys, wire, served, attempt>>
    BY <1>6 DEF Drain, networkVars, Types, TypeOK
  <2>0. Clean => Clean'
    BY <2>1 DEF Clean
  <2>2. CASE queue = <<>>
    <3>1. UNCHANGED <<held, queue>> /\ gen' \in {"threw", "waiting"} /\ (gen' = "threw" => fault # NoFault)
      BY <1>6, <2>2 DEF Drain
    <3>2. gen' = "threw" => Clean
      BY <1>6, <3>1 DEF Drain, FaultKnows, Clean, Pending
    <3>3. WireInOrder'
      BY <2>1, <3>1, <3>2 DEF FramesInOrder, WireInOrder, OfAttempt, Clean, Pending
    <3>4. QueueInOrder' /\ HeldInOrder'
      BY <2>1, <3>1 DEF FramesInOrder, QueueInOrder, HeldInOrder, OfAttempt, Clean
    <3> QED  BY <3>3, <3>4 DEF FramesInOrder
  <2>3. CASE queue # <<>>
    <3>1. held' = queue[1] /\ queue' = Tail(queue) /\ gen' = "yielded"
      BY <1>6, <2>1, <2>3 DEF Drain
    <3>2. Len(queue) \in Nat /\ Len(queue) > 0 /\ Len(queue') = Len(queue) - 1
          /\ \A i \in 1..Len(queue') : queue'[i] = queue[i + 1]
      BY <2>1, <2>3, <3>1
    <3>3. WireInOrder'
      BY <1>6, <2>1, <3>1 DEF Drain, FramesInOrder, WireInOrder, OfAttempt, Clean, Pending
    <3>4. QueueInOrder'
      <4>1. ASSUME NEW i \in 1..Len(queue')  PROVE OfAttempt(queue[i])'
        BY <2>1, <3>2 DEF FramesInOrder, QueueInOrder, OfAttempt
      <4>2. ASSUME NEW i \in 1..Len(queue'), IsTerminal(queue'[i])
            PROVE  Clean' /\ \A j \in (i + 1)..Len(queue') : queue'[j].kind # "output"
        <5>1. i + 1 \in 1..Len(queue) /\ IsTerminal(queue[i + 1])
          BY <3>2, <4>2
        <5>2. Clean /\ \A j \in (i + 2)..Len(queue) : queue[j].kind # "output"
          BY <5>1 DEF FramesInOrder, QueueInOrder
        <5>3. ASSUME NEW j \in (i + 1)..Len(queue')  PROVE queue'[j].kind # "output"
          BY <3>2, <5>2
        <5> QED  BY <2>0, <5>2, <5>3
      <4> QED  BY <4>1, <4>2 DEF QueueInOrder
    <3>5. HeldInOrder'
      <4>1. OfAttempt(held)'
        BY <2>1, <3>1, <3>2 DEF FramesInOrder, QueueInOrder, OfAttempt
      <4>2. ASSUME IsTerminal(held')
            PROVE  Clean' /\ \A j \in 1..Len(queue') : queue'[j].kind # "output"
        <5>1. Clean /\ \A j \in 2..Len(queue) : queue[j].kind # "output"
          BY <3>1, <3>2, <4>2 DEF FramesInOrder, QueueInOrder
        <5>2. ASSUME NEW j \in 1..Len(queue')  PROVE queue'[j].kind # "output"
          BY <3>2, <5>1
        <5> QED  BY <2>0, <5>1, <5>2
      <4> QED  BY <4>1, <4>2 DEF HeldInOrder
    <3> QED  BY <3>3, <3>4, <3>5 DEF FramesInOrder
  <2> QED  BY <2>2, <2>3
<1>7. ASSUME Abort  PROVE FramesInOrder'
  BY <1>7, GoneFrames DEF Abort
<1>8. ASSUME Deliver  PROVE FramesInOrder'
  <2>1. /\ wire # <<>> /\ wire \in Seq(Frame) /\ queue \in Seq(Frame)
        /\ Head(wire) = wire[1] /\ Len(wire) \in Nat /\ Len(wire) > 0 /\ wire[1] \in Frame
        /\ Len(Tail(wire)) = Len(wire) - 1 /\ \A i \in 1..Len(Tail(wire)) : Tail(wire)[i] = wire[i + 1]
    BY <1>8, Delivers DEF Types, TypeOK
  <2>2. /\ Len(Append(queue, wire[1])) = Len(queue) + 1
        /\ Append(queue, wire[1])[Len(queue) + 1] = wire[1]
        /\ \A i \in 1..Len(queue) : Append(queue, wire[1])[i] = queue[i]
        /\ Len(queue) \in Nat
    BY <2>1
  <2>3. ASSUME ClosesOn("protocol") \/ ClosesOn("socket") \/ Overflows  PROVE FramesInOrder'
    BY <2>3, <1>1, GoneFrames DEF Overflows
  <2>4. ASSUME wire' = Tail(wire), UNCHANGED <<served, attempt>>, Pending => Pending'
        PROVE  WireInOrder' /\ (Clean => Clean')
    <3>1. Clean => Clean'
      BY <2>1, <2>4 DEF Clean
    <3>2. \A i \in 1..Len(wire') : OfAttempt(wire[i])'
      BY <2>1, <2>4 DEF FramesInOrder, WireInOrder, OfAttempt
    <3>3. ASSUME NEW i \in 1..Len(wire'), IsTerminal(wire'[i]), wire'[i].of # Nobody
          PROVE  served' = Nobody /\ \A j \in (i + 1)..Len(wire') : wire'[j].of = Nobody
      <4>1. served = Nobody /\ \A j \in (i + 2)..Len(wire) : wire[j].of = Nobody
        BY <2>1, <2>4, <3>3 DEF FramesInOrder, WireInOrder
      <4> QED  BY <2>1, <2>4, <4>1
    <3>4. served' \in {attempt', Nobody} /\ (Pending' \/ Clean')
      BY <2>4, <3>1 DEF FramesInOrder, WireInOrder
    <3> QED  BY <3>1, <3>2, <3>3, <3>4 DEF WireInOrder
  <2>5. ASSUME Dropped  PROVE FramesInOrder'
    <3>1. WireInOrder' /\ (Clean => Clean')
      BY <2>4, <2>5 DEF Dropped, Pending
    <3>2. QueueInOrder' /\ HeldInOrder'
      BY <2>5, <3>1 DEF Dropped, FramesInOrder, QueueInOrder, HeldInOrder, OfAttempt
    <3> QED  BY <3>1, <3>2 DEF FramesInOrder
  <2>6. ASSUME QueuesLast  PROVE FramesInOrder'
    <3>1. /\ Clean' /\ Len(wire') = 0 /\ UNCHANGED <<attempt, held>> /\ (gen' = "yielded" => gen = "yielded")
          /\ queue' = Append(queue, wire[1]) /\ wire[1].kind = "limit"
      BY <2>1, <2>6 DEF QueuesLast, Close, Gone, Clean
    <3>2. WireInOrder'
      BY <3>1 DEF WireInOrder, Clean
    <3>3. OfAttempt(wire[1])
      BY <2>1 DEF FramesInOrder, WireInOrder
    <3>4. QueueInOrder'
      BY <2>2, <3>1, <3>3 DEF FramesInOrder, QueueInOrder, OfAttempt
    <3>5. HeldInOrder'
      BY <2>2, <3>1 DEF FramesInOrder, HeldInOrder, OfAttempt
    <3> QED  BY <3>2, <3>4, <3>5 DEF FramesInOrder
  <2>7. ASSUME Queues  PROVE FramesInOrder'
    <3>1. /\ UNCHANGED <<served, attempt, held>> /\ Pending' /\ (gen' = "yielded" => gen = "yielded")
          /\ queue' = Append(queue, wire[1]) /\ wire' = Tail(wire) /\ wire[1].kind # "limit"
      BY <2>1, <2>7 DEF Queues, Pending
    <3>2. WireInOrder'
      BY <2>4, <3>1
    <3>3. OfAttempt(wire[1]) /\ wire[1].of # Nobody
      BY <2>1, <3>1 DEF FramesInOrder, WireInOrder, OfAttempt
    <3>4. ~Clean
      BY <2>1, <3>3 DEF Clean
    <3>5. NoTerminalLeft
      BY <3>4 DEF FramesInOrder, QueueInOrder, HeldInOrder, NoTerminalLeft
    <3>6. IsTerminal(wire[1]) => Clean'
      <4>1. IsTerminal(wire[1]) => served = Nobody /\ \A j \in 2..Len(wire) : wire[j].of = Nobody
        BY <2>1, <3>3 DEF FramesInOrder, WireInOrder
      <4> QED  BY <2>1, <3>1, <4>1 DEF Clean
    <3>7. QueueInOrder'
      BY <2>2, <3>1, <3>3, <3>5, <3>6 DEF FramesInOrder, QueueInOrder, OfAttempt, NoTerminalLeft
    <3>8. HeldInOrder'
      BY <3>1, <3>5 DEF FramesInOrder, HeldInOrder, OfAttempt, NoTerminalLeft
    <3> QED  BY <3>2, <3>7, <3>8 DEF FramesInOrder
  <2> QED  BY <1>8, Delivers, <2>3, <2>5, <2>6, <2>7
<1>9. ASSUME Drops  PROVE FramesInOrder'
  BY <1>9, <1>1 DEF Drops, ConnectFails, NetworkDrops, FrameTooBig, LivenessFails, AgeFires,
     ClosesOn
<1> QED  BY <1>3, <1>4, <1>5, <1>6, <1>7, <1>8, <1>9, ServerFrames DEF Network
--------------------------------------------------------------------------------
(* A further attempt is made only when nothing of this one has arrived.    *)
LEMMA NothingArrived ==
  ASSUME Safe, \/ Retries /\ ~disposed /\ ~aborted
               \/ Catches /\ Replays
  PROVE  outputStarted = FALSE /\ arrived = {} /\ phase # "idle"
<1>1. outputStarted = FALSE /\ phase # "idle"
  <2>1. CASE Retries /\ ~disposed /\ ~aborted
    <3>1. IsTerminal(held) /\ ~OutputSeen /\ phase # "idle"
      BY <2>1 DEF Retries, EventInHand, IsConnectionLimit, IsRejection, IsTooLarge, IsTerminal,
         TerminalKind
    <3>2. ~OutputQueued /\ ~NoTerminalLeft
      BY <3>1 DEF Safe, FramesInOrder, HeldInOrder, OutputQueued, NoTerminalLeft
    <3> QED  BY <2>1, <3>1, <3>2 DEF Safe, OutputAccounted, OutputKept, Types, FlagTypes
  <2>2. CASE Catches /\ Replays
    BY <2>2 DEF Catches, Replays, Safe, FaultKnows, Types, FlagTypes
  <2> QED  BY <2>1, <2>2
<1> QED  BY <1>1 DEF Safe, OutputAccounted, ArrivedExact

LEMMA LoopOutput ==
  ASSUME Safe, Begin \/ Retries \/ Yields \/ Pulls \/ Returns \/ Catches \/ Dispose
  PROVE  OutputAccounted'
<1> USE Members DEF OutputAccounted
<1>1. ASSUME NEW how, End(how)  PROVE OutputAccounted'
  BY <1>1 DEF End, ArrivedExact, GivenInHand, OutputKept
<1>2. ASSUME NextAttempt, arrived = {}  PROVE OutputAccounted'
  BY <1>2 DEF NextAttempt, OpenAttempt, ArrivedExact, GivenInHand, OutputKept
<1>3. ASSUME Begin  PROVE OutputAccounted'
  BY <1>3 DEF Begin, OpenAttempt, ArrivedExact, GivenInHand, OutputKept
<1>4. ASSUME Retries  PROVE OutputAccounted'
  <2>1. CASE disposed \/ aborted
    BY <1>1, <1>4, <2>1 DEF Retries
  <2>2. CASE ~disposed /\ ~aborted
    BY <1>2, <1>4, <2>2, NothingArrived DEF Retries
  <2> QED  BY <2>1, <2>2
<1>5. ASSUME Yields  PROVE OutputAccounted'
  <2>1. UNCHANGED <<attempt, queue, outputStarted, fault, held, aborted, arrived>> /\ phase # "idle"
        /\ given \subseteq given'
    BY <1>5 DEF Yields, EventInHand
  <2>2. held.kind = "output" => [kind |-> "output", of |-> attempt] \in given'
    BY <1>5 DEF Yields, IsTooLarge
  <2>3. ArrivedExact' /\ GivenInHand'
    BY <2>1, <2>2 DEF Safe, ArrivedExact, GivenInHand
  <2>4. OutputKept'
    BY <2>1 DEF Safe, OutputKept, OutputQueued, OutputSeen, NoTerminalLeft
  <2> QED  BY <2>3, <2>4
<1>6. ASSUME Pulls  PROVE OutputAccounted'
  <2>1. CASE held.kind \in TerminalKind
    BY <1>1, <1>6, <2>1 DEF Pulls
  <2>2. CASE held.kind \notin TerminalKind
    <3>1. UNCHANGED <<attempt, queue, outputStarted, fault, aborted, arrived, given>>
          /\ phase = "consumer" /\ phase' = "looping" /\ held' = NoFrame
      BY <1>6, <2>2 DEF Pulls
    <3>2. OutputSeen => OutputSeen'
      BY <3>1 DEF Safe, GivenInHand, OutputSeen
    <3>3. ArrivedExact' /\ GivenInHand'
      BY <3>1 DEF Safe, ArrivedExact, GivenInHand
    <3>4. OutputKept'
      BY <3>1, <3>2 DEF Safe, OutputKept, OutputQueued, NoTerminalLeft, IsTerminal, TerminalKind
    <3> QED  BY <3>3, <3>4
  <2> QED  BY <2>1, <2>2
<1>7. ASSUME Returns  PROVE OutputAccounted'
  BY <1>1, <1>7 DEF Returns
<1>8. ASSUME Catches  PROVE OutputAccounted'
  BY <1>1, <1>2, <1>8, NothingArrived DEF Catches
<1>9. ASSUME Dispose  PROVE OutputAccounted'
  <2>1. UNCHANGED <<phase, attempt, queue, outputStarted, held, aborted, arrived, given>>
        /\ (fault.kind = "queue" => fault' = fault)
    BY <1>9 DEF Dispose, Close
  <2> QED
    BY <2>1 DEF Safe, ArrivedExact, GivenInHand, OutputKept, OutputQueued, OutputSeen,
       NoTerminalLeft
<1> QED  BY <1>3, <1>4, <1>5, <1>6, <1>7, <1>8, <1>9

LEMMA SocketOutput ==
  ASSUME Safe, Quiet, arrived' = IF outputStarted' THEN arrived \union {attempt} ELSE arrived,
         Opens \/ HookSettles \/ HookThrows \/ Send \/ Drain \/ Abort \/ Network \/ Drops
  PROVE  OutputAccounted'
<1> USE Members DEF Quiet
<1>1. ASSUME attempt' = attempt, outputStarted => outputStarted', outputStarted' \in BOOLEAN
      PROVE  ArrivedExact'
  BY <1>1 DEF Safe, OutputAccounted, ArrivedExact
<1>2. ASSUME UNCHANGED <<attempt, queue, outputStarted, held, aborted>>,
             fault.kind = "queue" => fault'.kind = "queue"
      PROVE  OutputAccounted'
  <2>1. ArrivedExact'
    BY <1>1, <1>2 DEF Safe, Types, FlagTypes
  <2>2. GivenInHand' /\ OutputKept'
    BY <1>2 DEF Safe, OutputAccounted, GivenInHand, OutputKept, OutputQueued, OutputSeen,
       NoTerminalLeft
  <2> QED  BY <2>1, <2>2 DEF OutputAccounted
<1>3. ASSUME NEW kind, ClosesOn(kind)  PROVE OutputAccounted'
  BY <1>2, <1>3 DEF ClosesOn, Close
<1>4. ASSUME Opens \/ HookSettles \/ Pong \/ ServerSends \/ ServerLimits  PROVE OutputAccounted'
  BY <1>2, <1>4 DEF Opens, HookSettles, Pong, ServerSends, ServerLimits
<1>5. ASSUME HookThrows \/ Send  PROVE OutputAccounted'
  <2>1. CASE ClosesOn("hook")
    BY <1>3, <2>1
  <2>2. CASE ~ClosesOn("hook")
    <3>1. gen \in {"opening", "reuseHook"} => fault.kind = "none"
      BY DEF Safe, FaultKnows, Pending
    <3> QED  BY <1>2, <1>5, <2>2, <3>1 DEF HookThrows, Send, ClosesOn
  <2> QED  BY <2>1, <2>2
<1>6. ASSUME Drain  PROVE OutputAccounted'
  <2>1. CASE queue = <<>>
    BY <1>2, <1>6, <2>1 DEF Drain
  <2>2. CASE queue # <<>>
    <3>1. /\ UNCHANGED <<attempt, outputStarted, fault, aborted>> /\ queue \in Seq(Frame)
          /\ held' = queue[1] /\ queue' = Tail(queue)
          /\ held = NoFrame /\ phase # "consumer"
      BY <1>6, <2>2 DEF Drain, Safe, Types, TypeOK, Places
    <3>2. Len(queue) \in Nat /\ Len(queue) > 0 /\ Len(queue') = Len(queue) - 1
          /\ \A i \in 1..Len(queue') : queue'[i] = queue[i + 1]
      BY <2>2, <3>1
    <3>3. ArrivedExact'
      BY <1>1, <3>1 DEF Safe, Types, FlagTypes
    <3>4. GivenInHand'
      BY <3>1 DEF GivenInHand
    <3>5. OutputQueued => OutputQueued' \/ OutputSeen'
      <4>1. ASSUME NEW i \in 1..Len(queue), queue[i].kind = "output", i # 1
            PROVE  OutputQueued'
        <5>1. i - 1 \in 1..Len(queue') /\ queue'[i - 1] = queue[i]
          BY <3>2, <4>1
        <5> QED  BY <4>1, <5>1 DEF OutputQueued
      <4> QED  BY <3>1, <4>1 DEF OutputQueued, OutputSeen
    <3>6. OutputSeen => OutputSeen'
      BY <3>1 DEF OutputSeen
    <3>7. ASSUME NoTerminalLeft  PROVE NoTerminalLeft'
      <4>1. ~IsTerminal(held')
        BY <3>1, <3>2, <3>7 DEF NoTerminalLeft
      <4>2. ASSUME NEW i \in 1..Len(queue')  PROVE ~IsTerminal(queue'[i])
        BY <3>2, <3>7 DEF NoTerminalLeft
      <4> QED  BY <4>1, <4>2 DEF NoTerminalLeft
    <3>8. OutputKept'
      BY <3>1, <3>5, <3>6, <3>7 DEF Safe, OutputAccounted, OutputKept
    <3> QED  BY <3>3, <3>4, <3>8 DEF OutputAccounted
  <2> QED  BY <2>1, <2>2
<1>7. ASSUME Abort  PROVE OutputAccounted'
  <2>1. UNCHANGED <<attempt, outputStarted, held>> /\ aborted'
    BY <1>7 DEF Abort
  <2>2. ArrivedExact'
    BY <1>1, <2>1 DEF Safe, Types, FlagTypes
  <2>3. GivenInHand' /\ OutputKept'
    BY <2>1 DEF Safe, OutputAccounted, GivenInHand, OutputKept
  <2> QED  BY <2>2, <2>3 DEF OutputAccounted
<1>8. ASSUME Deliver  PROVE OutputAccounted'
  <2>1. /\ wire # <<>> /\ wire \in Seq(Frame) /\ queue \in Seq(Frame)
        /\ Head(wire) = wire[1] /\ Len(wire) \in Nat /\ Len(wire) > 0 /\ phys # "none"
    BY <1>8, Delivers DEF Safe, Types, TypeOK
  <2>2. /\ Len(Append(queue, wire[1])) = Len(queue) + 1
        /\ Append(queue, wire[1])[Len(queue) + 1] = wire[1]
        /\ \A i \in 1..Len(queue) : Append(queue, wire[1])[i] = queue[i]
        /\ Len(queue) \in Nat
    BY <2>1
  <2>3. ASSUME ClosesOn("protocol") \/ ClosesOn("socket")  PROVE OutputAccounted'
    BY <1>3, <2>3
  <2>4. ASSUME Dropped  PROVE OutputAccounted'
    BY <1>2, <2>4 DEF Dropped
  <2>5. ASSUME Overflows  PROVE OutputAccounted'
    <3>1. UNCHANGED <<attempt, queue, held, aborted>> /\ fault'.kind = "queue"
          /\ outputStarted' = (outputStarted \/ wire[1].kind = "output")
      BY <2>1, <2>5 DEF Overflows
    <3>2. wire[1].kind = "output" => NoTerminalLeft
      <4>1. OfAttempt(wire[1])
        BY <2>1 DEF Safe, FramesInOrder, WireInOrder
      <4>2. wire[1].kind = "output" => ~Clean
        BY <2>1, <4>1 DEF OfAttempt, Clean
      <4> QED
        BY <4>2 DEF Safe, FramesInOrder, QueueInOrder, HeldInOrder, NoTerminalLeft
    <3>3. ArrivedExact'
      BY <1>1, <3>1 DEF Safe, Types, FlagTypes
    <3>4. GivenInHand' /\ OutputKept'
      BY <3>1, <3>2 DEF Safe, OutputAccounted, GivenInHand, OutputKept, OutputQueued, OutputSeen,
         NoTerminalLeft
    <3> QED  BY <3>3, <3>4 DEF OutputAccounted
  <2>6. ASSUME QueuesLast \/ Queues  PROVE OutputAccounted'
    <3>1. /\ UNCHANGED <<attempt, held, aborted>> /\ queue' = Append(queue, wire[1])
          /\ outputStarted' = (outputStarted \/ wire[1].kind = "output")
      <4>1. outputStarted \in BOOLEAN
        BY DEF Safe, Types, FlagTypes
      <4>2. CASE QueuesLast
        BY <2>1, <4>1, <4>2 DEF QueuesLast, Close
      <4>3. CASE Queues
        BY <2>1, <4>3 DEF Queues
      <4> QED  BY <2>6, <4>2, <4>3
    <3>2. fault.kind = "none"
      BY <2>1, <2>6 DEF QueuesLast, Queues, Safe, FaultKnows
    <3>3. ArrivedExact'
      BY <1>1, <3>1 DEF Safe, Types, FlagTypes
    <3>4. OutputQueued \/ wire[1].kind = "output" => OutputQueued'
      BY <2>2, <3>1 DEF OutputQueued
    <3>5. GivenInHand' /\ OutputKept'
      BY <3>1, <3>2, <3>4 DEF Safe, OutputAccounted, GivenInHand, OutputKept, OutputSeen
    <3> QED  BY <3>3, <3>5 DEF OutputAccounted
  <2> QED  BY <1>8, Delivers, <2>3, <2>4, <2>5, <2>6 DEF Safe
<1>9. ASSUME Drops  PROVE OutputAccounted'
  BY <1>9, <1>3 DEF Drops, ConnectFails, NetworkDrops, FrameTooBig, LivenessFails, AgeFires,
     ClosesOn
<1> QED  BY <1>4, <1>5, <1>6, <1>7, <1>8, <1>9 DEF Network
--------------------------------------------------------------------------------
(* Every further attempt spends a budget that was not spent before.        *)
LEMMA AttemptsStep ==
  ASSUME Safe, AttemptsBounded, Next  PROVE AttemptsBounded'
<1> USE DEF AttemptsBounded
<1>1. /\ attempt \in Nat
      /\ replayed \in BOOLEAN /\ fellBack \in BOOLEAN /\ forceStoreFalse \in BOOLEAN
  BY DEF Safe, Types, TypeOK, FlagTypes
<1>2. ASSUME NEW how, End(how)  PROVE AttemptsBounded'
  BY <1>1, <1>2 DEF End
<1>3. ASSUME UNCHANGED <<attempt, replayed, fellBack, forceStoreFalse>>  PROVE AttemptsBounded'
  BY <1>3
<1>4. ASSUME Begin  PROVE AttemptsBounded'
  BY <1>4 DEF Begin, OpenAttempt
<1>5. ASSUME Retries, ~disposed, ~aborted  PROVE AttemptsBounded'
  <2>1. /\ attempt' = attempt + 1
        /\ replayed' = (replayed \/ IsConnectionLimit)
        /\ fellBack' = (fellBack \/ IsRejection)
        /\ forceStoreFalse' = (forceStoreFalse \/ IsTooLarge)
    BY <1>5 DEF Retries, NextAttempt, OpenAttempt
  <2>2. /\ replayed => replayed'
        /\ fellBack => fellBack'
        /\ forceStoreFalse => forceStoreFalse'
    BY <2>1
  <2>3. \/ ~replayed /\ replayed'
        \/ ~fellBack /\ fellBack'
        \/ ~forceStoreFalse /\ forceStoreFalse'
    BY <1>5, <2>1 DEF Retries, IsConnectionLimit, IsRejection, IsTooLarge
  <2> QED  BY <1>1, <2>1, <2>2, <2>3
<1>6. ASSUME Catches  PROVE AttemptsBounded'
  <2>1. CASE Replays
    <3>1. attempt' = attempt + 1 /\ replayed' = TRUE /\ UNCHANGED <<fellBack, forceStoreFalse>>
          /\ replayed = FALSE
      BY <1>1, <1>6, <2>1 DEF Catches, NextAttempt, OpenAttempt, Replays
    <3> QED  BY <1>1, <3>1
  <2>2. CASE ~Replays
    BY <1>2, <1>6, <2>2 DEF Catches
  <2> QED  BY <2>1, <2>2
<1>7. ASSUME Retries \/ Pulls \/ Returns, ~(Retries /\ ~disposed /\ ~aborted)  PROVE AttemptsBounded'
  <2>1. CASE \E how : End(how)
    BY <1>2, <2>1
  <2>2. CASE UNCHANGED <<attempt, replayed, fellBack, forceStoreFalse>>
    BY <1>3, <2>2
  <2> QED  BY <1>7, <2>1, <2>2 DEF Retries, Pulls, Returns
<1>8. ASSUME Yields \/ Dispose  PROVE AttemptsBounded'
  BY <1>3, <1>8 DEF Yields, Dispose, Close
<1>9. ASSUME Quiet,
             Opens \/ HookSettles \/ HookThrows \/ Send \/ Drain \/ Abort \/ Network \/ Drops
      PROVE  AttemptsBounded'
  <2>1. UNCHANGED <<replayed, fellBack, forceStoreFalse>>
    BY <1>9 DEF Quiet
  <2>2. attempt' = attempt
    <3>1. ASSUME Opens \/ HookSettles \/ HookThrows \/ Send \/ Drain \/ Abort \/ Drops
          PROVE  attempt' = attempt
      BY <3>1 DEF Opens, HookSettles, HookThrows, Send, Drain, Abort, Drops, ConnectFails,
         NetworkDrops, FrameTooBig, LivenessFails, AgeFires, Close
    <3>2. ASSUME ServerSends \/ ServerLimits \/ Pong  PROVE attempt' = attempt
      BY <3>2 DEF ServerSends, ServerLimits, Pong
    <3>3. ASSUME Deliver  PROVE attempt' = attempt
      BY <3>3, Delivers DEF Safe, ClosesOn, Close, Dropped, Overflows, QueuesLast, Queues
    <3> QED  BY <1>9, <3>1, <3>2, <3>3 DEF Network
  <2> QED  BY <1>3, <2>1, <2>2
<1> QED  BY <1>4, <1>5, <1>6, <1>7, <1>8, <1>9 DEF Next, SocketStep, Quiet

(* A frame is in the caller's hands until the caller asks on.              *)
LEMMA HeldStays ==
  ASSUME Types, phase = "consumer",
         Opens \/ HookSettles \/ HookThrows \/ Send \/ Drain \/ Abort \/ Network \/ Drops
  PROVE  held' = held
<1>1. gen = "yielded"
  BY DEF Types, Places
<1>2. ASSUME Opens \/ HookSettles \/ HookThrows \/ Send \/ Drain \/ Abort \/ Drops  PROVE held' = held
  BY <1>1, <1>2 DEF Opens, HookSettles, HookThrows, Send, Drain, Abort, Drops, ConnectFails,
     NetworkDrops, FrameTooBig, LivenessFails, AgeFires, Close
<1>3. ASSUME ServerSends \/ ServerLimits \/ Pong  PROVE held' = held
  BY <1>3 DEF ServerSends, ServerLimits, Pong
<1>4. ASSUME Deliver  PROVE held' = held
  BY <1>4, Delivers DEF ClosesOn, Close, Dropped, Overflows, QueuesLast, Queues
<1> QED  BY <1>2, <1>3, <1>4 DEF Network

(* The caller has a terminal event only from the event in hand, or at the  *)
(* end.                                                                    *)
LEMMA TerminalsStep ==
  ASSUME Safe, TerminalsGiven, Next  PROVE TerminalsGiven'
<1> USE DEF TerminalsGiven
<1>1. ASSUME NEW how, End(how), how = "returned" => Terminals # {}  PROVE TerminalsGiven'
  BY <1>1 DEF End, Terminals
<1>2. ASSUME NextAttempt, phase = "looping"  PROVE TerminalsGiven'
  BY <1>2 DEF NextAttempt, Terminals
<1>3. ASSUME Begin  PROVE TerminalsGiven'
  BY <1>3 DEF Begin, Terminals
<1>4. ASSUME Retries  PROVE TerminalsGiven'
  BY <1>1, <1>2, <1>4 DEF Retries, EventInHand
<1>5. ASSUME Yields  PROVE TerminalsGiven'
  <2> DEFINE e == [kind |-> IF IsTooLarge THEN "completed" ELSE held.kind, of |-> attempt]
  <2>1. Terminals = {} /\ given' = given \union {e} /\ held' = held /\ phase' = "consumer"
        /\ outcome' # "returned"
    BY <1>5 DEF Yields, EventInHand, Safe, Types, Places
  <2>2. e.kind \in TerminalKind <=> IsTerminal(held)
    BY DEF IsTooLarge, IsTerminal, TerminalKind
  <2>3. Terminals' = IF IsTerminal(held) THEN {e} ELSE {}
    BY <2>1, <2>2 DEF Terminals
  <2> QED  BY <2>1, <2>3 DEF IsTerminal
<1>6. ASSUME Pulls  PROVE TerminalsGiven'
  <2>1. CASE held.kind \in TerminalKind
    BY <1>1, <1>6, <2>1 DEF Pulls, IsTerminal
  <2>2. CASE held.kind \notin TerminalKind
    BY <1>6, <2>2 DEF Pulls, IsTerminal, Terminals
  <2> QED  BY <2>1, <2>2
<1>7. ASSUME Returns  PROVE TerminalsGiven'
  BY <1>1, <1>7 DEF Returns
<1>8. ASSUME Catches  PROVE TerminalsGiven'
  <2>1. fault.kind # "returned"
    BY DEF Safe, Types, FlagTypes, FaultKind
  <2> QED  BY <1>1, <1>2, <1>8, <2>1 DEF Catches
<1>9. ASSUME Dispose  PROVE TerminalsGiven'
  BY <1>9 DEF Dispose, Close, Terminals
<1>10. ASSUME Quiet,
              Opens \/ HookSettles \/ HookThrows \/ Send \/ Drain \/ Abort \/ Network \/ Drops
       PROVE  TerminalsGiven'
  BY <1>10, HeldStays DEF Quiet, Terminals, Safe
<1> QED  BY <1>3, <1>4, <1>5, <1>6, <1>7, <1>8, <1>9, <1>10 DEF Next, SocketStep, Quiet

(* When a request ends its queue has been read, unless it was dropped.     *)
LEMMA ToldStep ==
  ASSUME Safe, Safe', OutputTold, Next  PROVE OutputTold'
<1> DEFINE Told == \A n \in arrived : [kind |-> "output", of |-> n] \in given
           Given == [kind |-> "output", of |-> attempt] \in given
<1>1. CASE phase' # "idle"
  BY <1>1 DEF OutputTold, Safe, Types, Places
<1>2. ASSUME NEW how, End(how), phase # "idle",
             how \in {"returned", "protocol", "socket", "liveness", "connect"} /\ ~aborted
                /\ outputStarted => Given
      PROVE  OutputTold'
  <2>1. /\ outcome' = how /\ UNCHANGED <<arrived, given, aborted>> /\ outputStarted' = FALSE
    BY <1>2 DEF End
  <2>2. arrived = IF outputStarted THEN {attempt} ELSE {}
    BY <1>2 DEF Safe, OutputAccounted, ArrivedExact
  <2>3. outputStarted \in BOOLEAN
    BY DEF Safe, Types, FlagTypes
  <2>4. outputStarted /\ Given => Told
    BY <2>2
  <2>5. ~outputStarted => Told
    BY <2>2
  <2> QED  BY <1>2, <2>1, <2>3, <2>4, <2>5 DEF OutputTold
<1>3. ASSUME Retries, phase' = "idle"  PROVE OutputTold'
  <2>1. \E how \in {"lifecycle", "abort"} : End(how)
    BY <1>3 DEF Retries, NextAttempt
  <2> QED  BY <1>2, <1>3, <2>1 DEF Retries, EventInHand
<1>4. ASSUME Pulls, phase' = "idle"  PROVE OutputTold'
  <2>1. IsTerminal(held) /\ End("returned") /\ phase = "consumer"
    BY <1>4 DEF Pulls, IsTerminal
  <2>2. ~OutputQueued /\ ~NoTerminalLeft /\ held.kind # "output"
    BY <2>1 DEF Safe, FramesInOrder, HeldInOrder, OutputQueued, NoTerminalLeft, IsTerminal,
       TerminalKind
  <2>3. ~aborted /\ outputStarted => Given
    BY <2>2 DEF Safe, OutputAccounted, OutputKept, OutputSeen
  <2> QED  BY <1>2, <2>1, <2>3
<1>5. ASSUME Returns  PROVE OutputTold'
  <2>1. End("abandoned") /\ phase = "consumer"
    BY <1>5 DEF Returns
  <2> QED  BY <1>2, <2>1
<1>6. ASSUME Catches, phase' = "idle"  PROVE OutputTold'
  <2>1. PICK how : how = IF disposed THEN "lifecycle" ELSE fault.kind
    OBVIOUS
  <2>2. gen = "threw" /\ End(how) /\ phase = "looping"
    BY <1>6, <2>1 DEF Catches, NextAttempt
  <2>3. queue = <<>> /\ held = NoFrame
    BY <2>2 DEF Safe, Types, Places, Pending
  <2>4. ~OutputQueued
    BY <2>3 DEF OutputQueued
  <2>5. how \in {"returned", "protocol", "socket", "liveness", "connect"} => fault.kind # "queue"
    BY <2>1
  <2>6. fault.kind # "queue" /\ ~aborted /\ outputStarted => Given
    BY <2>3, <2>4 DEF Safe, OutputAccounted, OutputKept, OutputSeen, NoFrame
  <2> QED  BY <1>2, <2>2, <2>5, <2>6
<1>7. ASSUME Yields \/ Begin, phase' = "idle"  PROVE OutputTold'
  BY <1>7 DEF Yields, Begin
<1>8. ASSUME Dispose  PROVE OutputTold'
  BY <1>8 DEF Dispose, Close, OutputTold
<1>9. ASSUME Quiet, arrived' = IF outputStarted' THEN arrived \union {attempt} ELSE arrived,
             phase' = "idle",
             Opens \/ HookSettles \/ HookThrows \/ Send \/ Drain \/ Abort \/ Network \/ Drops
      PROVE  OutputTold'
  <2>1. phase = "idle" /\ gen = "none" /\ outputStarted = FALSE
    BY <1>9 DEF Quiet, Safe, Types, TypeOK, OutputTold
  <2>2. UNCHANGED <<outputStarted, aborted>>
    <3>1. ASSUME Opens \/ HookSettles \/ HookThrows \/ Send \/ Drain \/ Abort \/ Drops
          PROVE  UNCHANGED <<outputStarted, aborted>>
      BY <2>1, <3>1 DEF Opens, HookSettles, HookThrows, Send, Drain, Abort, Drops, ConnectFails,
         NetworkDrops, FrameTooBig, LivenessFails, AgeFires, Close
    <3>2. ASSUME ServerSends \/ ServerLimits \/ Pong  PROVE UNCHANGED <<outputStarted, aborted>>
      BY <3>2 DEF ServerSends, ServerLimits, Pong
    <3>3. ASSUME Deliver  PROVE UNCHANGED <<outputStarted, aborted>>
      BY <2>1, <3>3 DEF Deliver, Pending, Close
    <3> QED  BY <1>9, <3>1, <3>2, <3>3 DEF Network
  <2>3. arrived' = arrived
    BY <1>9, <2>1, <2>2
  <2> QED  BY <1>9, <2>1, <2>2, <2>3 DEF Quiet, OutputTold
<1> QED  BY <1>1, <1>3, <1>4, <1>5, <1>6, <1>7, <1>8, <1>9 DEF Next, SocketStep, Quiet

(* Without a socket there is no step that opens one but Begin and a        *)
(* further attempt, which a disposed session does not make.                *)
LEMMA DisposedStep ==
  ASSUME Safe, NoSocketAfterDispose, Next  PROVE NoSocketAfterDispose'
<1> USE DEF NoSocketAfterDispose
<1>1. ASSUME Begin \/ Retries \/ Yields \/ Pulls \/ Returns \/ Catches \/ Dispose
      PROVE  NoSocketAfterDispose'
  BY <1>1 DEF Begin, Retries, Yields, Pulls, Returns, Catches, Dispose, Close, Gone, KeepSocket,
     networkVars, Replays, NextAttempt, End
<1>2. ASSUME Quiet,
             Opens \/ HookSettles \/ HookThrows \/ Send \/ Drain \/ Abort \/ Drops
      PROVE  NoSocketAfterDispose'
  BY <1>2 DEF Quiet, Opens, HookSettles, HookThrows, Send, Drain, Abort, Drops, ConnectFails,
     NetworkDrops, FrameTooBig, LivenessFails, AgeFires, Close, Gone, networkVars
<1>3. ASSUME Quiet, Network  PROVE NoSocketAfterDispose'
  <2>1. ASSUME ServerSends \/ ServerLimits \/ Pong  PROVE phys' = phys
    BY <2>1 DEF ServerSends, ServerLimits, Pong, networkVars
  <2>2. ASSUME Deliver  PROVE phys' \in {phys, "none"}
    BY <2>2, Delivers DEF Safe, ClosesOn, Close, Gone, Dropped, Overflows, QueuesLast, Queues
  <2> QED  BY <1>3, <2>1, <2>2 DEF Quiet, Network
<1> QED  BY <1>1, <1>2, <1>3 DEF Next, SocketStep, Quiet
--------------------------------------------------------------------------------
LEMMA SafeStep == Safe /\ Next => Safe'
<1> SUFFICES ASSUME Safe, Next  PROVE Safe'
  OBVIOUS
<1> USE DEF Safe
<1>1. CASE Begin \/ Retries \/ Yields \/ Pulls \/ Returns \/ Catches \/ Dispose
  BY <1>1, LoopTypes, LoopFaults, LoopFrames, LoopOutput
<1>2. CASE /\ Quiet /\ arrived' = IF outputStarted' THEN arrived \union {attempt} ELSE arrived
           /\ \/ Opens \/ HookSettles \/ HookThrows \/ Send \/ Drain \/ Abort
              \/ Network \/ Drops
  BY <1>2, SocketTypes, SocketFaults, SocketFrames, SocketOutput
<1> QED  BY <1>1, <1>2 DEF Next, SocketStep, Quiet

LEMMA Initially == Init => IInv
<1> SUFFICES ASSUME Init  PROVE IInv
  OBVIOUS
<1> USE Members DEF Init, SocketInit
<1>1. Types
  BY InitTypes
<1>2. FaultKnows
  BY DEF FaultKnows, Pending
<1>3. FramesInOrder
  BY DEF FramesInOrder, WireInOrder, QueueInOrder, HeldInOrder, Clean, IsTerminal, TerminalKind
<1>4. OutputAccounted
  BY DEF OutputAccounted, ArrivedExact, GivenInHand, OutputKept
<1>5. AttemptsBounded /\ NoSocketAfterDispose
  BY DEF AttemptsBounded, NoSocketAfterDispose
<1>6. TerminalsGiven
  BY DEF TerminalsGiven, Terminals
<1>7. OutputTold
  BY DEF OutputTold
<1> QED  BY <1>1, <1>2, <1>3, <1>4, <1>5, <1>6, <1>7 DEF IInv, Safe

(* Every step keeps the invariant.                                         *)
LEMMA Inductive == IInv /\ [Next]_vars => IInv'
<1> SUFFICES ASSUME IInv, [Next]_vars  PROVE IInv'
  OBVIOUS
<1>1. CASE Next
  BY <1>1, SafeStep, AttemptsStep, TerminalsStep, ToldStep, DisposedStep DEF IInv
<1>2. CASE UNCHANGED vars
  <2> USE <1>2 DEF vars, socketVars, loopVars, IInv
  <2>1. Safe'
    BY DEF Safe, Types, TypeOK, FlagTypes, Places, FaultKnows, FramesInOrder, WireInOrder,
           QueueInOrder, HeldInOrder, OfAttempt, Clean, Pending, OutputAccounted, ArrivedExact,
           GivenInHand, OutputKept, OutputQueued, OutputSeen, NoTerminalLeft
  <2>2. AttemptsBounded' /\ NoSocketAfterDispose'
    BY DEF AttemptsBounded, NoSocketAfterDispose
  <2>3. TerminalsGiven'
    BY DEF TerminalsGiven, Terminals
  <2>4. OutputTold'
    BY DEF OutputTold
  <2> QED  BY <2>1, <2>2, <2>3, <2>4
<1> QED  BY <1>1, <1>2

LEMMA Invariant == Spec => []IInv
BY Initially, Inductive, PTL DEF Spec
--------------------------------------------------------------------------------
(* Every variable keeps to its type; a request is idle exactly when its    *)
(* generator is gone.                                                      *)
THEOREM TypeCorrect == Spec => []TypeOK
<1>1. IInv => TypeOK
  BY DEF IInv, Safe, Types
<1> QED  BY <1>1, Invariant, PTL

(* Once output of a request has arrived no further attempt is made, for    *)
(* whatever reason.                                                        *)
THEOREM OutputOnce == Spec => []NoAttemptAfterOutput
<1>1. IInv => NoAttemptAfterOutput
  BY DEF IInv, Safe, OutputAccounted, ArrivedExact, NoAttemptAfterOutput
<1> QED  BY <1>1, Invariant, PTL

(* What a request reads was sent for its attempt, or is the notice of the  *)
(* connection limit, on however many requests a socket is used.            *)
THEOREM CrossTalkFree == Spec => []NoCrossTalk
<1>1. IInv => NoCrossTalk
  BY DEF IInv, Safe, FramesInOrder, QueueInOrder, HeldInOrder, OfAttempt, NoCrossTalk
<1> QED  BY <1>1, Invariant, PTL

(* Attempts are paid for by three budgets, so there are four at most.      *)
THEOREM AttemptsCorrect == Spec => [](AttemptsBounded /\ attempt <= 4)
<1>1. IInv => AttemptsBounded /\ attempt <= 4
  BY DEF IInv, Safe, Types, TypeOK, AttemptsBounded
<1> QED  BY <1>1, Invariant, PTL

(* A request has one terminal event at most, and one exactly when it       *)
(* returns; neither that nor an error of the transport comes before output *)
(* that has arrived.                                                       *)
THEOREM EndingCorrect == Spec => []EndsInOrder
<1>1. ASSUME TerminalsGiven, OutputTold  PROVE EndsInOrder
  <2>1. Cardinality(Terminals) <= 1 /\ (Terminals # {} => Cardinality(Terminals) = 1)
    <3>1. CASE Terminals = {}
      BY <3>1, FS_EmptySet
    <3>2. CASE Terminals # {}
      <4>1. PICK e \in Terminals : TRUE
        BY <3>2
      <4>2. Terminals = {e}
        BY <1>1, <4>1 DEF TerminalsGiven
      <4>3. Cardinality(Terminals) = 1
        BY <4>2, FS_Singleton
      <4> QED  BY <4>3
    <3> QED  BY <3>1, <3>2
  <2>2. outcome = "returned" => Cardinality(Terminals) = 1
    BY <1>1, <2>1 DEF TerminalsGiven
  <2> QED  BY <1>1, <2>1, <2>2 DEF EndsInOrder, Terminals, OutputTold
<1>2. IInv => EndsInOrder
  BY <1>1 DEF IInv
<1> QED  BY <1>2, Invariant, PTL

(* A disposed session has no socket.                                       *)
THEOREM DisposeCorrect == Spec => []NoSocketAfterDispose
<1>1. IInv => NoSocketAfterDispose
  BY DEF IInv
<1> QED  BY <1>1, Invariant, PTL
================================================================================
