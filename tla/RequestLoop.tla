------------------------------ MODULE RequestLoop ------------------------------
(***************************************************************************)
(* The loop of XaiWsSession.iterate (src/src/ws-events.ts) over the        *)
(* attempts of one logical request, its retries and its exits, on top of   *)
(* XaiWsSocket.  Requests follow one another through SessionGate; what a   *)
(* request sends is the matter of Continuation.                            *)
(***************************************************************************)
EXTENDS XaiWsSocket, FiniteSets

VARIABLES
    phase,     \* idle; looping: in the loop; consumer: an event is with the caller
    store,     \* storeResponses
    refers,    \* does the current attempt carry previous_response_id?
    replayed,  \* transportReplayed
    fellBack,  \* continuationFallbackUsed
    forceStoreFalse,
    disposed,
    given,     \* history: per delivered event, its kind and attempt
    arrived,   \* history: attempts of which output reached the client
    outcome    \* history: how the last request ended

loopVars == <<phase, store, refers, replayed, fellBack, forceStoreFalse, disposed,
              given, arrived, outcome>>
vars == <<socketVars, loopVars>>

Outcome == {"none", "returned", "abandoned", "abort", "lifecycle", "hook", "protocol",
            "queue", "socket", "liveness", "connect"}

Init ==
    /\ SocketInit
    /\ phase = "idle" /\ store = FALSE /\ refers = FALSE /\ replayed = FALSE
    /\ fellBack = FALSE /\ forceStoreFalse = FALSE /\ disposed = FALSE
    /\ given = {} /\ arrived = {} /\ outcome = "none"

(* Has this attempt delivered output to the caller (the loop's own         *)
(* outputStarted, which counts the event in hand too)?                     *)
OutputSeen == held.kind = "output" \/ [kind |-> "output", of |-> attempt] \in given
--------------------------------------------------------------------------------
(* A request passes the gate: the loop's flags start afresh and the first  *)
(* attempt opens, on the socket the session has or - none, too old for a   *)
(* request, or another transport identity - on a new one.                  *)
Begin ==
    /\ phase = "idle"
    /\ ~disposed
    /\ phase' = "looping"
    /\ store' \in BOOLEAN
    /\ refers' \in (IF store' THEN BOOLEAN ELSE {FALSE})
    /\ replayed' = FALSE /\ fellBack' = FALSE /\ forceStoreFalse' = FALSE
    /\ given' = {} /\ arrived' = {} /\ outcome' = "none"
    /\ aborted' = FALSE
    /\ \E new \in BOOLEAN :
          /\ phys # "open" => new
          /\ hook' = IF new THEN "new" ELSE "now"
          /\ OpenAttempt(new, 1)
    /\ UNCHANGED disposed

(* What the server still sends for a request that has ended is stale.      *)
Forget(frames) == [i \in 1..Len(frames) |->
    [frames[i] EXCEPT !.of = IF @ = Nobody THEN Nobody ELSE Stale]]

(* A plausible slip: the request does not let go of its pending record.    *)
EndKeepsPending(how) ==
    /\ phase' = "idle" /\ outcome' = how
    /\ attempt' = 0 /\ hook' = "done"
    /\ UNCHANGED <<gen, queue, outputStarted, fault, held, store, refers, replayed, fellBack,
                   forceStoreFalse, disposed, given, arrived, aborted>>

(* A request ends.                                                         *)
End(how) ==
    /\ phase' = "idle" /\ gen' = "none" /\ outcome' = how
    /\ queue' = <<>> /\ outputStarted' = FALSE /\ fault' = NoFault /\ held' = NoFrame
    /\ attempt' = 0 /\ hook' = "done"
    /\ UNCHANGED <<store, refers, replayed, fellBack, forceStoreFalse, disposed,
                   given, arrived, aborted>>

KeepSocket ==
    /\ wire' = Forget(wire)
    /\ served' = IF served = Nobody THEN Nobody ELSE Stale
    /\ UNCHANGED <<phys, sent>>

(* The loop closes its connection and goes round again.                    *)
NextAttempt ==
    /\ OpenAttempt(TRUE, attempt + 1)
    /\ hook' = IF hook = "new" THEN "new" ELSE "done"
    /\ phase' = "looping"
    /\ UNCHANGED <<store, disposed, given, arrived, outcome, aborted>>

IsConnectionLimit == held.kind = "limit" /\ ~replayed /\ ~OutputSeen
IsRejection == held.kind = "rejected" /\ store /\ refers /\ ~fellBack /\ ~OutputSeen
IsTooLarge == held.kind = "tooLarge" /\ store /\ ~forceStoreFalse

EventInHand == phase = "looping" /\ gen = "yielded"

(* The connection limit, a refused reference or a response too large to    *)
(* store, each before any output: leave the generator and try again, once  *)
(* for each reason - unless the session has been disposed or the caller    *)
(* has aborted since.                                                      *)
Retries ==
    /\ EventInHand
    /\ IsConnectionLimit \/ IsRejection \/ (IsTooLarge /\ ~OutputSeen)
    /\ IF disposed THEN End("lifecycle") /\ Gone
       ELSE IF aborted THEN End("abort") /\ Gone
       ELSE /\ NextAttempt
            /\ replayed' = (replayed \/ IsConnectionLimit)
            /\ fellBack' = (fellBack \/ IsRejection)
            /\ forceStoreFalse' = (forceStoreFalse \/ IsTooLarge)
            /\ refers' = (refers /\ IsConnectionLimit)

(* The event goes to the caller.  A connection limit that is not retried   *)
(* closes the socket; an error that output was too large to store becomes  *)
(* a completion, since the output is kept.                                 *)
Yields ==
    /\ EventInHand
    /\ ~(IsConnectionLimit \/ IsRejection \/ (IsTooLarge /\ ~OutputSeen))
    /\ phase' = "consumer"
    /\ given' = given \union
         {[kind |-> IF IsTooLarge THEN "completed" ELSE held.kind, of |-> attempt]}
    /\ IF held.kind = "limit" THEN Gone ELSE UNCHANGED networkVars
    /\ UNCHANGED <<gen, attempt, queue, outputStarted, fault, held, hook, aborted, store, refers,
                   replayed, fellBack, forceStoreFalse, disposed, arrived, outcome>>

(* The caller asks for the next event.  After a terminal one the generator *)
(* and the loop return.                                                    *)
Pulls ==
    /\ phase = "consumer"
    /\ IF held.kind \in TerminalKind
         THEN End("returned") /\ KeepSocket
         ELSE /\ phase' = "looping" /\ gen' = "draining" /\ held' = NoFrame
              /\ UNCHANGED <<networkVars, attempt, queue, outputStarted, fault, hook, aborted,
                             store, refers, replayed, fellBack, forceStoreFalse, disposed,
                             given, arrived, outcome>>

(* A plausible slip: leaving early does not close the socket.              *)
ReturnsKeepingSocket ==
    /\ phase = "consumer"
    /\ End("abandoned") /\ KeepSocket

(* The caller leaves early (return or throw at the yield): a socket whose  *)
(* request has no terminal event yet is closed.                            *)
Returns ==
    /\ phase = "consumer"
    /\ End("abandoned")
    /\ IF held.kind \in TerminalKind THEN KeepSocket ELSE Gone

(* A plausible slip: the replay is not remembered.                         *)
ReplaysAgain == ~disposed /\ Replayable(fault) /\ ~fault.output

(* A plausible slip: nobody asks whether the session was disposed.         *)
ReplaysDisposed == Replayable(fault) /\ ~replayed /\ ~fault.output

(* Does the catch block of the loop try again?                             *)
Replays == ~disposed /\ Replayable(fault) /\ ~replayed /\ ~fault.output

(* The catch block: one replay of a request that had no output, else the   *)
(* error ends it.  A hook that threw leaves an open socket open.           *)
Catches ==
    /\ phase = "looping"
    /\ gen = "threw"
    /\ IF Replays
         THEN /\ NextAttempt
              /\ replayed' = TRUE
              /\ UNCHANGED <<fellBack, forceStoreFalse, refers>>
         ELSE /\ End(IF disposed THEN "lifecycle" ELSE fault.kind)
              /\ IF fault.kind = "hook" THEN KeepSocket ELSE Gone

(* session_shutdown while the session is idle or runs a request.           *)
Dispose ==
    /\ ~disposed
    /\ disposed' = TRUE
    /\ Close("socket")
    /\ UNCHANGED <<queue, outputStarted, phase, store, refers, replayed, fellBack,
                   forceStoreFalse, given, arrived, outcome>>

(* A step of the socket leaves the loop alone; the history notes output.   *)
SocketStep(A) ==
    /\ A
    /\ arrived' = IF outputStarted' THEN arrived \union {attempt} ELSE arrived
    /\ UNCHANGED <<phase, store, refers, replayed, fellBack, forceStoreFalse, disposed,
                   given, outcome>>

Next ==
    \/ Begin \/ Retries \/ Yields \/ Pulls \/ Returns \/ Catches \/ Dispose
    \/ SocketStep(Opens) \/ SocketStep(HookSettles) \/ SocketStep(HookThrows)
    \/ SocketStep(Send) \/ SocketStep(Drain) \/ SocketStep(Abort)
    \/ SocketStep(Network) \/ SocketStep(Drops)

(* Code that can run runs, the caller keeps asking and its onOpen settles, *)
(* a handshake ends (handshakeTimeout), and the age timer bounds what      *)
(* liveness does not.  Neither the server nor the network owes anything.   *)
Fairness ==
    /\ WF_vars(Retries) /\ WF_vars(Yields) /\ WF_vars(Pulls) /\ WF_vars(Catches)
    /\ WF_vars(SocketStep(HookSettles)) /\ WF_vars(SocketStep(Send)) /\ WF_vars(SocketStep(Drain))
    /\ WF_vars(SocketStep(Opens) \/ SocketStep(ConnectFails))
    /\ WF_vars(SocketStep(AgeFires))

Spec == Init /\ [][Next]_vars /\ Fairness
--------------------------------------------------------------------------------
Frame == [kind : Kind \union {"none"}, of : Nat]

TypeOK ==
    /\ phys \in {"none", "connecting", "hook", "open"}
    /\ wire \in Seq(Frame) /\ queue \in Seq(Frame) /\ held \in Frame
    /\ served \in Nat /\ sent \in 0..MaxFrames /\ attempt \in Nat
    /\ gen \in Generator
    /\ phase \in {"idle", "looping", "consumer"}
    /\ phase = "idle" <=> gen = "none"
    /\ outcome \in Outcome
    /\ given \subseteq Frame

(* Generated work is not repeated, whatever fails and is retried: once     *)
(* output of a request has arrived, even if the caller has not seen it, no *)
(* further attempt is made.  So the caller sees output of one attempt.     *)
NoAttemptAfterOutput == \A n \in arrived : n = attempt \/ phase = "idle"

(* A socket is passed on to the next request only when the last one is     *)
(* over for the server, too: what a request reads was sent for it, or is   *)
(* the server's notice that the socket has reached its limit.              *)
NoCrossTalk ==
    /\ \A i \in 1..Len(queue) : queue[i].of \in {attempt, Nobody}
    /\ gen = "yielded" => held.of \in {attempt, Nobody}

(* The retries have budgets of their own, each spent at most once: at most *)
(* four attempts, and a fallback does not buy a second transport replay.   *)
AttemptsBounded ==
    attempt <= 1 + (IF replayed THEN 1 ELSE 0) + (IF fellBack THEN 1 ELSE 0)
                 + (IF forceStoreFalse THEN 1 ELSE 0)

(* A request gives the caller what has arrived, in this order: output, and *)
(* then one terminal event (which the loop may have made up) or an error.  *)
(* So one that ends normally has given exactly one terminal event; and no  *)
(* error of the transport overtakes output that was queued when the socket *)
(* closed.  Only an abort and an overflow drop events.                     *)
EndsInOrder ==
    LET terminals == {e \in given : e.kind \in TerminalKind}
    IN  /\ Cardinality(terminals) <= 1
        /\ outcome = "returned" => Cardinality(terminals) = 1
        /\ outcome \in {"returned", "protocol", "socket", "liveness", "connect"} /\ ~aborted =>
              \A n \in arrived : [kind |-> "output", of |-> n] \in given

(* A disposed session has no socket, whatever its last request was doing   *)
(* when it was disposed, and opens none.                                   *)
NoSocketAfterDispose == disposed => phys = "none"

(* Every request ends: no wake-up is lost, and no wait is without a bound. *)
RequestsEnd == phase # "idle" ~> phase = "idle"
================================================================================
