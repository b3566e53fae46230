------------------------------ MODULE XaiWsSocket ------------------------------
(***************************************************************************)
(* The WebSocket under a session: class XaiWsSocket in                     *)
(* src/src/ws-events.ts - request, ensureOpen, close and the handlers of   *)
(* the physical socket - with the network and the server it talks to.      *)
(*                                                                         *)
(* A request is a generator that drains a queue the message handler fills. *)
(* An XaiWsSocket opens one physical socket in its life: the session makes *)
(* a new XaiWsSocket after a close.  The variables are those of the one    *)
(* the session holds.                                                      *)
(*                                                                         *)
(* A frame is what the code tells apart of an event, and the attempt the   *)
(* server sent it for.                                                     *)
(***************************************************************************)
EXTENDS Naturals, Sequences

CONSTANTS
    MaxQueued,   \* MAX_QUEUED_EVENTS (the byte limit maxQueuedBytes acts alike)
    MaxFrames    \* bound: frames the server sends for one attempt

ASSUME QueueAssumption == MaxQueued \in Nat \ {0} /\ MaxFrames \in Nat \ {0}

VARIABLES
    phys,           \* the physical socket: none, connecting, hook, open
    wire,           \* frames on their way to the client
    served,         \* the attempt the server works on, Nobody if none
    sent,           \* frames the server has sent for it
    gen,            \* where the request generator is, see Generator
    attempt,        \* the number of the attempt it runs
    queue,          \* frames received and not yet consumed
    outputStarted,  \* has model output of this attempt arrived?
    fault,          \* the error the attempt will end with
    held,           \* the frame the generator has yielded
    hook,           \* the caller's onOpen: new, now (it runs), done
    aborted         \* the caller's signal

socketVars == <<phys, wire, served, sent, gen, attempt, queue, outputStarted,
                fault, held, hook, aborted>>
networkVars == <<phys, wire, served, sent>>

(* opening and reuseHook: in ensureOpen, for a new or an open socket;      *)
(* draining: about to look at the queue; waiting: in wait();               *)
(* yielded: suspended at its yield; threw: its error is being caught.      *)
Generator == {"none", "opening", "reuseHook", "draining", "waiting", "yielded", "threw"}

(* Attempts are numbered from 1.  Nobody also marks a frame that belongs   *)
(* to no request; Stale one that was sent for an earlier request.          *)
Nobody == 0
Stale == 99

TerminalKind == {"completed", "failed", "limit", "rejected", "tooLarge"}
Kind == {"created", "output", "garbage"} \union TerminalKind
NoFrame == [kind |-> "none", of |-> Nobody]

NoFault == [kind |-> "none", output |-> FALSE]
Replayable(f) == f.kind \in {"connect", "liveness", "socket"}

SocketInit ==
    /\ phys = "none" /\ wire = <<>> /\ served = Nobody /\ sent = 0
    /\ gen = "none" /\ attempt = 0 /\ queue = <<>> /\ outputStarted = FALSE
    /\ fault = NoFault /\ held = NoFrame /\ hook = "done" /\ aborted = FALSE
--------------------------------------------------------------------------------
Gone == phys' = "none" /\ wire' = <<>> /\ served' = Nobody /\ sent' = 0

(* A plausible slip: the error says output began only once output is       *)
(* consumed, not when it arrives.                                          *)
FaultOfConsumed(kind) == [kind |-> kind, output |-> held.kind = "output"]

(* The error a close gives the request: it remembers whether output of the *)
(* attempt had arrived.                                                    *)
FaultOf(kind) == [kind |-> kind, output |-> outputStarted]

(* A plausible slip: close does not wake the generator.                    *)
CloseWithoutWake(kind) ==
    /\ Gone
    /\ fault' = IF gen \in {"opening", "draining", "waiting", "yielded"} /\ fault = NoFault
                  THEN FaultOf(kind) ELSE fault
    /\ gen' = IF gen = "opening" THEN "draining" ELSE gen
    /\ UNCHANGED <<attempt, held, hook, aborted>>

(* close: reject a handshake that waits, fail the pending request unless   *)
(* it already has an error, wake it, and let the socket go.  A generator   *)
(* in the onOpen hook of an open socket finds out when the hook settles.   *)
Close(kind) ==
    /\ Gone
    /\ fault' = IF gen \in {"opening", "draining", "waiting", "yielded"} /\ fault = NoFault
                  THEN FaultOf(kind) ELSE fault
    /\ gen' = IF gen \in {"opening", "waiting"} THEN "draining" ELSE gen
    /\ UNCHANGED <<attempt, held, hook, aborted>>

(* request and ensureOpen up to the first await, with a new physical       *)
(* socket or on the open one.                                              *)
OpenAttempt(new, number) ==
    /\ attempt' = number
    /\ queue' = <<>> /\ outputStarted' = FALSE /\ fault' = NoFault /\ held' = NoFrame
    /\ IF new
         THEN /\ phys' = "connecting" /\ wire' = <<>> /\ served' = Nobody /\ sent' = 0
              /\ gen' = "opening"
         ELSE /\ gen' = "reuseHook"
              /\ UNCHANGED networkVars

(* The open event: the handler calls the onOpen hook, which passes on to   *)
(* the caller's only once per logical request.                             *)
Opens ==
    /\ phys = "connecting"
    /\ phys' = "hook"
    /\ hook' = IF hook = "new" THEN "now" ELSE hook
    /\ UNCHANGED <<wire, served, sent, gen, attempt, queue, outputStarted, fault, held, aborted>>

(* The handshake fails or times out.                                       *)
ConnectFails ==
    /\ phys = "connecting"
    /\ Close("socket")
    /\ UNCHANGED <<queue, outputStarted>>

(* The hook of a new socket settles: opened becomes true, liveness and the *)
(* age timer start.                                                        *)
HookSettles ==
    /\ phys = "hook"
    /\ phys' = "open"
    /\ hook' = "done"
    /\ UNCHANGED <<wire, served, sent, gen, attempt, queue, outputStarted, fault, held, aborted>>

(* The caller's onOpen throws: a new socket is closed, an open one stays.  *)
HookThrows ==
    /\ hook = "now"
    /\ \/ phys = "hook" /\ Close("hook") /\ UNCHANGED <<queue, outputStarted>>
       \/ /\ gen = "reuseHook"
          /\ fault' = FaultOf("hook")
          /\ gen' = "threw"
          /\ UNCHANGED <<phys, wire, served, sent, attempt, queue, outputStarted,
                         held, hook, aborted>>

(* request after ensureOpen: the socket must still be open; the payload is *)
(* sent, and a send that throws closes the socket.                         *)
Send ==
    /\ \/ gen = "opening" /\ phys = "open"
       \/ gen = "reuseHook"
    /\ hook' = "done"
    /\ gen' = "draining"
    /\ \/ /\ phys = "open"
          /\ served' = attempt /\ sent' = 0
          /\ UNCHANGED <<phys, wire, fault>>
       \/ phys = "open" /\ Gone /\ fault' = FaultOf("socket")
       \/ phys = "none" /\ fault' = FaultOf("connect") /\ UNCHANGED networkVars
    /\ UNCHANGED <<attempt, queue, outputStarted, held, aborted>>

(* A plausible slip: the error goes before the events that are queued.     *)
DrainErrorFirst ==
    /\ gen = "draining"
    /\ IF fault = NoFault /\ queue # <<>>
         THEN held' = Head(queue) /\ queue' = Tail(queue) /\ gen' = "yielded"
         ELSE /\ gen' = IF fault # NoFault THEN "threw" ELSE "waiting"
              /\ UNCHANGED <<held, queue>>
    /\ UNCHANGED <<networkVars, attempt, outputStarted, fault, hook, aborted>>

(* A turn of request's loop: queued events first, then the error, else     *)
(* wait.                                                                   *)
Drain ==
    /\ gen = "draining"
    /\ IF queue # <<>>
         THEN held' = Head(queue) /\ queue' = Tail(queue) /\ gen' = "yielded"
         ELSE /\ gen' = IF fault # NoFault THEN "threw" ELSE "waiting"
              /\ UNCHANGED <<held, queue>>
    /\ UNCHANGED <<networkVars, attempt, outputStarted, fault, hook, aborted>>
--------------------------------------------------------------------------------
(* External: the server answers the request it works on; a terminal frame  *)
(* is the last one.                                                        *)
ServerSends ==
    /\ phys = "open"
    /\ served # Nobody
    /\ \E kind \in Kind :
          /\ sent + 1 < MaxFrames \/ (sent < MaxFrames /\ kind \in TerminalKind)
          /\ wire' = Append(wire, [kind |-> kind, of |-> served])
          /\ served' = IF kind \in TerminalKind THEN Nobody ELSE served
          /\ sent' = sent + 1
    /\ UNCHANGED <<phys, gen, attempt, queue, outputStarted, fault, held, hook, aborted>>

(* External: the server announces the connection limit of an idle socket.  *)
ServerLimits ==
    /\ phys \in {"hook", "open"}
    /\ served = Nobody
    /\ \A i \in 1..Len(wire) : wire[i].kind # "limit"
    /\ wire' = Append(wire, [kind |-> "limit", of |-> Nobody])
    /\ UNCHANGED <<phys, served, sent, gen, attempt, queue, outputStarted, fault, held, hook, aborted>>

(* Is there a pending request for a frame to go to?                        *)
Pending == gen \in {"draining", "waiting", "yielded"}

(* The message handler: a frame that does not parse is a protocol error; a *)
(* frame without a request is dropped; output is noted before the queue    *)
(* limit is tested; a connection limit is queued and retires the socket.   *)
Deliver ==
    /\ phys \in {"hook", "open"}
    /\ wire # <<>>
    /\ LET frame == Head(wire)
           limit == frame.kind = "limit"
       IN  CASE frame.kind = "garbage" ->
                  Close("protocol") /\ UNCHANGED <<queue, outputStarted>>
             [] frame.kind # "garbage" /\ ~Pending ->
                  /\ IF limit THEN Close("socket")
                     ELSE /\ wire' = Tail(wire)
                          /\ UNCHANGED <<phys, served, sent, gen, attempt, fault, held, hook, aborted>>
                  /\ UNCHANGED <<queue, outputStarted>>
             [] OTHER ->
                  /\ outputStarted' = (outputStarted \/ frame.kind = "output")
                  /\ IF Len(queue) >= MaxQueued
                       THEN /\ Gone
                            /\ gen' = IF gen = "waiting" THEN "draining" ELSE gen
                            /\ fault' = [kind |-> "queue", output |-> outputStarted']
                            /\ UNCHANGED <<attempt, held, hook, aborted, queue>>
                     ELSE IF limit
                       THEN Close("socket") /\ queue' = Append(queue, frame)
                     ELSE /\ queue' = Append(queue, frame)
                          /\ wire' = Tail(wire)
                          /\ gen' = IF gen = "waiting" THEN "draining" ELSE gen
                          /\ UNCHANGED <<phys, served, sent, attempt, fault, held, hook, aborted>>

(* A pong proves liveness and wakes the generator for nothing.             *)
Pong ==
    /\ phys = "open"
    /\ gen = "waiting"
    /\ gen' = "draining"
    /\ UNCHANGED <<networkVars, attempt, queue, outputStarted, fault, held, hook, aborted>>

(* The network drops the socket, a ping cannot be sent.                    *)
NetworkDrops ==
    /\ phys \in {"hook", "open"}
    /\ Close("socket")
    /\ UNCHANGED <<queue, outputStarted>>

(* A frame over maxInboundFrameBytes.                                      *)
FrameTooBig ==
    /\ phys = "open"
    /\ served # Nobody
    /\ Close("protocol")
    /\ UNCHANGED <<queue, outputStarted>>

(* The liveness timer found the socket silent.                             *)
LivenessFails ==
    /\ phys = "open"
    /\ Close("liveness")
    /\ UNCHANGED <<queue, outputStarted>>

(* The socket reached its maximum age.                                     *)
AgeFires ==
    /\ phys = "open"
    /\ Close("socket")
    /\ UNCHANGED <<queue, outputStarted>>

(* The caller aborts: in ensureOpen the race is lost, later the queue is   *)
(* dropped; either way the socket goes.  What was yielded stays yielded.   *)
Abort ==
    /\ ~aborted
    /\ gen \notin {"none", "threw"}
    /\ aborted' = TRUE
    /\ Gone
    /\ fault' = FaultOf("abort")
    /\ queue' = <<>>
    /\ gen' = IF gen = "yielded" THEN gen ELSE "draining"
    /\ UNCHANGED <<attempt, outputStarted, held, hook>>

Network == ServerSends \/ ServerLimits \/ Deliver \/ Pong
Drops == ConnectFails \/ NetworkDrops \/ FrameTooBig \/ LivenessFails \/ AgeFires
================================================================================
