# A formal model of pi-xai-ws

pi-xai-ws is an extension of the pi coding agent. It runs xAI's Responses API
over WebSockets that outlive a request, continues conversations from responses
the server has stored, and watches the model's output for loops. This directory
holds TLA+ specifications of its core, the TLC configurations that check them
on small instances, and proofs checked by TLAPS.

Paths below are those of the repository; `ws-events.ts` is
`src/ws-events.ts` in it, and so on.

## The system

| Component | Source | State | Operations | Hard because |
|---|---|---|---|---|
| Session pool | `ws-events.ts` `XaiWsSessionPool` | map from session ID to session | iterate, closeSession, closeAll, pruning of unused sessions | a session is dropped and replaced while callers hold it |
| Session gate | `ws-events.ts` `acquire`, `dispose` | `releaseQueue`, `pendingAcquires`, `active`, `disposed` | acquire, release, abort, dispose | a chain of promises with aborts and disposal in every order |
| Request loop | `ws-events.ts` `XaiWsSession.iterate` | retry flags of one logical request | begin, retry (three kinds), yield, leave early, fail, end | retries interact with output already seen, aborts and disposal |
| Socket | `ws-events.ts` `XaiWsSocket` | one physical socket, the pending request, its queue and error, waiter | open, send, receive, close, abort, age out | callbacks of the socket race the consumer of a generator |
| Liveness | `liveness.ts` | last inbound time, time of the ping, dead | note, start, stop, tick | timeout against late answer |
| Continuation | `ws-events.ts`, `continuation.ts` | socket-local head, durable checkpoint, last socket with a stored terminal | plan, observe, clear, restore | the server reuses IDs; the history may be rewritten; sockets come and go |
| Durable checkpoint | `durable-checkpoint.ts` | one file per session ID | read, write, remove, sweep | crashes, failing file operations, other processes |
| Stored-context latch | `stored-context.ts` | sessions whose store was rejected | mark, ask, clear | clock comparison with compactions |
| Loop recovery | `loop-recovery.ts` | pending detection, budget and cooldown times, compaction in progress | host events, compaction callbacks | callbacks after the session was replaced |
| Repetition detector | `repetition-detector.ts` | tails of the text, fence state | append | boundary arithmetic over segments |
| Empty-thinking nudge | `empty-thinking.ts` | nudged, assistant count | turn events | one nudge per run, never for its first answer |
| Screenshot omission | `history.ts` | omitted image keys per session | limit | stickiness against a changing history |
| Stream adapter | `stream.ts` | none between requests | one request: sanitise, limit, decide to store, end | several ends, some of which change a session's state |
| Payload, configuration, provider, pi-ai fallback | `payload.ts`, `config.ts`, ... | none | conversions | - |

How they interact. pi calls the stream adapter for a turn; the adapter decides
whether the server is to store the response and iterates the pool. The pool
finds the session of the session ID. The session lets one request at a time
through its gate; the request runs a loop of attempts over the session's
socket; each attempt plans what to send from the continuation state. Events of
the socket reach the generator of the attempt through a queue and one wake-up;
the loop passes them on to the adapter, which pulls. A terminal event that the
adapter has taken moves the continuation state, which writes the checkpoint
file. Timers (age, idle, liveness), the caller's abort signal and pi's
`session_shutdown` cut in at any await.

What makes each part correct:

- gate: one request at a time, in order of arrival, a bounded line, and no
  caller left behind whatever the others do;
- loop and socket: model output is never generated twice for one request,
  frames never reach another request, queued output reaches the caller before
  the end or the error that follows it, one terminal event at most, bounded
  retries, every request ends, nothing opens after disposal;
- continuation and checkpoint: what the server rebuilds from a request is the
  caller's whole history; a reference never leaves its endpoint; a checkpoint
  that outlives its socket means on any socket what the client thinks it means;
- watchdogs, latches and recovery: they fire once, within their bounds, and not
  for a session that has moved on.

`PROJECT.json` lists the hazards at their lines with the properties that cover
them.

## The modules

### `FifoLock.tla`, `SessionGate.tla`

`FifoLock` is the abstract promise: a lock with a bounded line, first come first
served among those who have not left. `SessionGate` is the code: promise number
n is the n-th that `acquire` created, `releaseQueue` is the last one, and
`resolved` are those resolved. A step is a stretch of code with no await:
`Acquire` up to the race, `Admit`, `AbortWaiting` and `DisposedWaiting` the
outcomes of the race, `Forward` the `previous.then(release, release)` of a caller
that gave up, `Start` and `StartDisposed` the code after `acquire` returns,
`Finish` the finally block. `InLineBefore` is the refinement mapping: who is
ahead of a caller are the waiting ones with smaller promises.

### `XaiWsSocket.tla`, `RequestLoop.tla`

`XaiWsSocket` is the socket with the network and the server behind it. A frame
is what the code tells apart of an event (`created`, `output`, `garbage` and five
kinds of terminal event: completed, failed, the connection limit, a rejected
reference, too large to store) together with the attempt it was sent for, which
the code cannot see. `gen` is the program counter of the `request` generator.
`fault` is `pending.error` with the `outputStarted` it was created with. `Close`
stands for the close method and for the close and error handlers, which do the
same to this state.

`RequestLoop` is `iterate` on top of it: `Begin` (past the gate), `Retries` (the
three flags after the for-await), `Yields`, `Pulls` and `Returns` (the caller
takes the next event or leaves), `Catches` (the catch block) and `Dispose`.
`given` and `arrived` are history variables for the properties.

What a socket that is still being opened, `isExpired` or past its request age
can be: `Begin` may always choose a new socket, which covers
`shouldRotateBeforeRequest` and a change of transport identity; the state
`expired` is never seen from outside because the age timer closes the socket in
the same callback that sets it. Event sizes are counted as events.

### `Continuation.tla`

The continuation fields of every session object of one session ID, the sockets,
the checkpoint file, and the server's memory. An item of a conversation is a model
value and a digest is the prefix itself (SHA-256 is taken to be injective).
`SendAttempt` is a turn of the loop up to the send, `Setup` what `iterate` does
before the loop, `Observe` the observation of a stored terminal, which writes the
`Checkpoint` to the file, `Fails`, `CompletesUnstored`, `Rejected`, `TooLarge` and
`Replay` the other ways an attempt ends. The error that `Rejected` or `TooLarge` handles
may have been queued before its socket closed; `AgainInFull` is what the two share. `Dispose` is pi's `session_shutdown`, after which the next request gets a new
session while the old one may still unwind its last request; `Crash` is the end
of the process; `SidecarSwept` is the sweep of another process, and expiry.

The server is external, and modelled from the code's comments and
`docs/transport.md`: on the socket that produced it, an ID stands for the latest
response with that ID; on any other socket for the first one. A response has a
new ID, or the one it continues, or - if it continues a response of its own
socket - any ID its socket has used. The first response on a socket that
continues a checkpoint has a new ID or the checkpoint's. The constant
`ReuseAnywhere` drops the condition: then a full request may get a used ID,
too.

### `Liveness.tla`

`SocketLiveness` with its interval timer (`Tick`, which is due every `Period`), the
handlers that call `noteInbound`, and a peer that answers pings within `RoundTrip` or has
vanished. A frame arrives (`FrameArrives`) before its handler runs, so a late
handler races the timer, in either order; `Late` bounds the delay of both. `Ping` is
`sendPing` in `ws-events.ts`, which may find the socket broken and close it, or not open
any more and send nothing.

### `LoopRecovery.tla`

`registerLoopRecovery`, one session ID: the state object of the session map, and the
compactions whose callbacks still hold an object, the present one or one that
`session_start` or `session_shutdown` has deleted since. An action is a handler of
pi's events; `GetState` is the creation of the object on first use. `Detect` is the
`message_update` that completes a repetition, with `decideAutomaticRecovery`;
`budgetTimes` and `recoveryTimes` are sets because two recoveries of one instant are
impossible (the first is still in progress). `Compacted` stands for `onComplete` and
for `onError` of a compaction that had nothing to do. `grants`, `granted`, `steered`
and `cuts` are history variables.

Of pi it assumes that turns follow one another, that a turn ends after its message,
that no turn runs while the session compacts, and that the clock does not run
backwards. Under these the denial "in-progress" is never reached: while a recovery is in
progress its detection is pending, and then no other is made. Events of other
providers' models change nothing and are left out.

### `SessionPool.tla`

The pool's map and the session objects it has made. A session is `FifoLock` (which
`SessionGate` implements) with a socket and a continuation that a running request may
gain or lose at any time. `IterateExisting`, `IterateNew` and `IterateOwn` are the three ways
into the pool's `iterate`, up to the await in `acquire`; `Leave` and `Finish` are its two
ways out, both through `Prune`, the finally blocks. `Finish` is one step from the end of
the request to pruning, although there is a microtask boundary between: the caller that
`release` lets go needs more microtasks to leave `acquire` than the error or the end
needs to reach the pool. A caller between `acquire` and `active = true` ("admitted") is
seen by nobody, so a call that leaves at that moment may dispose its session; it
then gets a lifecycle error. `PruneSparesTheLine` says what holds of everybody else.

### `RepetitionDetector.tla`

The detector is a record with the fields of the class, and its methods are operators
on it. One step appends one delta. Where the code compares sets of
five-word grams of normalised words, the model compares sets of letters: a letter stands for
a word with what follows it, the backtick for none, so a window may have no words, and then
it is like no other (`Similar`). A fence that is passed (`PassFence`) begins a new segment
(`ResetAnalyzedSegment`). A content kind is chosen at the start, and
visible text may begin with a block of code, so that all detections happen after a
fence, too. The loops (`AppendAnalyzed`, `Visible`, `ZArray`) are written with `Loop`: what a
number of rounds, as many as there are characters, makes of a state that stays as it is once
the loop is over. The reference definitions `Segment`, `EndsInCopies` and `Alike` speak of the
text only.

### `StoredContext.tla`, `ImageOmission.tla`, `EmptyThinking.tla`, `StreamAdapter.tla`

The first three are the state that `stored-context.ts`, `history.ts` and `empty-thinking.ts`
keep for a session ID, with one operator per function. `StreamAdapter` composes them the
way `stream.ts` and pi's events do. `Stream` is `streamXaiResponsesWs` up to the request,
`TooLargeEarly` the retry without store in `ws-events.ts`, `Completes` and `TooLargeLate` the
ends of a request with the `turn_end` handlers, `ClearSession` the handlers of
`session_start` and `session_shutdown`, at any moment, so while a request runs, too.
`rejection`, `everOmitted`, `resumed`, `nudges` and `stalled` are history variables, and so are
the fields `omitted` and `rejected` of the request. The loops over messages (`Sanitized`, `Scanned`, `Size`) are
recursive functions of the number of messages done, which is also how the proofs take them.

A message has a size, a screenshot or none, and what an assistant's carries: when it
began, its usage, whether it failed. A screenshot is named by its size. The host may
run tools, compact to a summary and any tail of the history, and go back to any
message of the present history (not before a compaction: then the history has none, and
the latch stays as it is, or the rejection is met once more). Sending a nudge may
fail. It is assumed that storing is configured, that the model is an xAI
chat model, that the test latch is off, and that a nudge continues the agent run it was
sent in (`docs/troubleshooting.md:295`).

## What is checked

| Run | Bounds | What it shows |
|---|---|---|
| `session_gate` | 4 callers, a line of 2 | the invariants, the refinement of `FifoLock`, and that no caller is left behind |
| `request_loop` | a queue of 2, 3 frames per attempt, unboundedly many requests | no repeated output, no crosstalk, queued output before the end, one terminal event, bounded attempts, disposal, and that every request ends |
| `session_pool` | 4 calls, 2 session IDs or none, a line of 2 | no session or socket outlives its reference; pruning loses nothing |
| `repetition_detector` | 2 letters and the backtick, 8 characters after an opening, deltas of up to 4, periods 1 to 3 | the detector finds what a definition over the text finds, however deltas are cut |
| `stream_adapter` | 7 messages made, 6 in the history, 2 screenshots, 2 milliseconds | when responses are stored, which screenshots are sent, how often a run is nudged |
| `continuation` | 4 histories, 2 outputs, 2 endpoints, 3 sockets, 2 IDs, 2 session objects | the server sees the whole history; checkpoints, endpoints and positions agree |
| `continuation_reuse` | 2 sockets, 2 IDs, 1 session, `ReuseAnywhere` | finding 1 |
| `continuation_shutdown` | 2 sockets, 2 IDs, 2 sessions | finding 2 |
| `liveness` | interval 2, timeout 4, lateness 1, round trip 2 in periods of the timer; 20 periods | silence is noticed neither early nor late; an answering peer lives |
| `loop_recovery` | the default policy on a clock of five-minute ticks, past the end of a budget window; 4 turns, 2 state objects | pacing, what is cut and judged, callbacks of a replaced object, and that every detection is settled |
| `loop_recovery_cap` | the same | finding 4 |
| `continuation_unlink` | 2 sockets, 2 IDs, 1 session, `UnlinkMayFail` | finding 3 |

Why the bounds are enough for the interesting cases. Gate: with four callers
one runs, two wait, one is turned away, and an abandoned place can have a
predecessor and a successor in line. Loop: a queue of two overflows and three
frames put output between two others; attempts have budgets, so a request has
at most four, and the state is forgotten between requests, so the state graph is
finite without a bound on their number. Continuation: two IDs are needed for the
sequence A, B, A; three sockets for a checkpoint that crosses two socket
boundaries; two session objects for a restart. Liveness: an
answer and its handler take all but one unit of the timeout, and the clock holds
three rounds of ping and answer, or two of them and a death. Loop recovery: time runs
two ticks past the budget window, so a recovery can be granted, refused for
either reason and granted again; two objects make one replaced during its
compaction; four turns hold three recoveries and a turn between.
Pool: a session can have a runner, two in line and a caller turned away, or be
replaced in the map while callers are left in the old object; with two IDs and calls without
one there are up to four objects. Detector: the constants keep the proportions of the code that
decide something (short blocks need three copies and long ones two, the tail holds two of
the longest, near duplicates need three comparisons and a length), and texts are long enough for
each kind of detection after a fence. Stream adapter: of two screenshots the smaller fits
twice, otherwise only one fits, so one can be omitted and come back into reach, and the cutoff is where one that
came back without being counted decides; two milliseconds put a compaction before a rejection, with it or after it; seven messages hold
a nudge between two more stalls, and a compaction between two requests that differ in
whether they are stored.

What the less obvious properties say. `EndsInOrder`: a request that ends in an error of the
transport has given the caller every output that was queued when the error came, and one that
ends normally has given that and exactly one terminal event; only an abort and an overflow
drop what is queued. `LiveSessionsAreMapped`: there is one live session,
queue and socket for an ID; what is not disposed is in the map or belongs to a call
without an ID that has not ended. `PruneSparesTheLine`: a call that ends removes its session
if and only if nobody else waits or runs in it and it has no socket and no
continuation. `CutIsTheRepetition`: the prefix that recovery keeps ends where the
repetition begins, by a definition over the plain text, in a stretch outside code, and no
earlier check could have found it. `CutsDoNotMatter`: the whole state of the detector is the
same for every cut of the text into deltas. `StoreOffUntilCompaction`: after a rejection nothing is
stored until a later compaction. `StoreFollowsSize`: a request that is stored measures less than the
cutoff, and one that is not, without a rejection, has a history that reaches it. The estimate
is usage where there is some, and usage does not follow the screenshots: it may include some
that have been omitted since, so the second half speaks of the history as it is; and it does
not include those that come back when `session_start` has cleared the memory of what was
omitted, so the first half allows for the older screenshots of a session that was started anew
with a history (`Returned`), until its next compaction. The second was found by the proof:
without it the invariant does not hold, and at the cutoff of this run TLC finds a stored
request that measures the cutoff. `OmittedStaysOut`: a screenshot that an earlier request left out is in a later
one only as the newest. Two copies of one screenshot in one request are told apart by
nobody: the older may be omitted while the newer is sent. `OneNudgePerRun`: also that a run does not end
in thinking only, after other turns, without having been nudged.

The runs disable TLC's deadlock
check because each of the systems may stop: every caller of the gate asks once,
a disposed session is idle for good, and the bounds of `Continuation` are
reached.

Symmetry is used for endpoints in the continuation runs, for calls and IDs in
`session_pool` and for letters in `repetition_detector`; these runs check no liveness.

### Fairness

`SessionGate` gives weak fairness to what settled promises do by themselves. It
assumes nothing of callers: nobody has to ask, abort, finish or dispose.

`RequestLoop` gives weak fairness to code that can run, to the caller that pulls and
the onOpen hook that settles (they belong to the caller of the extension), to the
end of a handshake (`handshakeTimeout`) and to the age timer, which the code
starts when a socket opens and never stops before the socket closes. Neither the
server nor the network owes an answer, and liveness need not fire.

`LoopRecovery` gives weak fairness to what pi owes: the end of a message that was
aborted, of its turn, and of a compaction that was begun. A turn that streams for
ever is no counterexample to `DetectionsSettle`, because the detection aborted it.

### Findings

1. `docs/transport.md:124-126` says that later terminals on a socket do not
   advance the durable checkpoint. `clearContinuation` forgets which socket
   produced the last stored terminal while that socket stays open; a later
   terminal on it becomes the checkpoint. If the server reuses one of the
   socket's IDs for that response, a reconnect rehydrates an older one.
   The passing run assumes that the server does not do so for a full request.
2. `docs/transport.md:281-282` says that the checkpoint file remains when pi
   shuts a session down. A session that runs a stored request at that moment
   removes it in its finally block, after its successor may have written a
   new one.
3. `durable-checkpoint.ts:240` says that a file that cannot be unlinked is
   unusable. It may be usable, and then the next request restores the position
   the session meant to forget. The passing run assumes that unlinking succeeds.

4. `docs/transport.md:366` says that automatic recovery is capped at two per
   session. The code, and `README.md:131`, cap it per rolling window, and a
   person's message re-arms it.

## What is proved

`SessionGate_proofs.tla` proves, for every set of callers (finite or not) and
every line length of at least one:

- `TypeCorrect`, `ChainCorrect`, `MutualExclusion`, `PendingCorrect`: the four
  invariants that `session_gate` checks;
- `GateImplementsLock`: the gate implements `FifoLock` under the refinement
  mapping.

The only assumption is `MaxPendingAssumption`. The inductive invariant is `IInv`:
the types, `ChainInOrder`, the exact count and the exact `active` flag.
`OneRequestAtATime` is not inductive: that two callers are never past acquire
together follows from the chain. A caller past acquire has its predecessor's
promise resolved and its own unresolved, resolved promises are an initial
segment of the numbers, so two such callers would have the same promise, and a
promise has one creator. The count needs that the set of waiting callers is
finite, which it is because it starts empty and changes by one.

`Liveness_proofs.tla` proves the invariants of `liveness` for all times and delays (the
interval, timeout and period not zero):

- `NotEarly`: a ping is sent after an interval of silence and forgotten with the first frame
  (`PingAfterQuiet`), so the timeout measured from it adds to the interval.
- `NotLate`: the timer is never due later than a period after what it waits for
  (`TimerNear`), and runs at most `Late` after it is due (`Punctual`).
- `AnswersSuffice`: while a ping is out, an answer is due, or a frame that came in time waits
  for its handler (`AnswerComing`).

`LoopRecovery_proofs.tla` proves all safety invariants of `loop_recovery` for every
limit, cooldown and budget (`PolicyAssumption`: natural numbers, the cooldown not zero),
every set of blocks and every bound:

- `Paced`. The invariant behind it is `ListsHoldRecent`: pruning drops from the two
  lists only what has left the window, so a recovery that the cooldown or the
  budget must count is still there. A granted recovery finds the cooldown list empty,
  and the earlier recoveries of any window it falls into are among the fewer than
  `Limit` of the pruned budget list.
- `CutsCorrect`, `InProgressCorrect`, `SteersCorrect`, `DetectorCorrect` (and
  `TypeCorrect`). Their invariant says where a detection can be pending
  (`PendingPlaced`: in its own turn before the compaction, between turns from then on)
  and that its recovery is granted and not yet sent (`SteerReserved`).

`RequestLoop_proofs.tla` proves every safety invariant of `request_loop` for every limit of
the queue and every number of frames (`QueueAssumption`): `OutputOnce`, `CrossTalkFree`,
`AttemptsCorrect` (which adds that a request has at most four attempts), `EndingCorrect`,
`DisposeCorrect`, `TypeCorrect`. The argument follows the frames of an attempt. What is
on the wire, in the queue and in hand is of the attempt, and nothing of it comes behind its
terminal frame (`FramesInOrder`). Output that arrived is in the queue, in hand or with the
caller, but for what an abort or an overflow dropped (`OutputAccounted`); when a request
ends the queue has been read, so what arrived was given (`OutputTold`). An error knows
whether output had arrived (`FaultKnows`). So an attempt that retries, which it decides
on what it has seen, has not shown the caller anything.

`SessionPool_proofs.tla` proves `LiveCorrect`, `PruneCorrect` (an action property) and
`TypeCorrect` for every set of calls and of IDs and every length of the line. What pruning
may take away is decided from the line, so the invariant is that a session's line lists its
waiting callers, each once (`LineExact`).

`Continuation_proofs.tla` proves the invariants of `continuation` for every number of
sessions, sockets, IDs and histories:

- `EndpointCorrect` and `TypeCorrect` hold whatever IDs the server gives and whether or not
  unlinking succeeds. The invariant is `Placed`: of whose endpoint every ID is that a
  session, a request, a socket or the file mentions.
- `HistoryCorrect`, `CheckpointsCorrect` and `PositionsCorrect` are stated under
  `ReuseAnywhere = FALSE` and `UnlinkMayFail = FALSE`; `continuation_reuse` and
  `continuation_unlink` show that they fail without either. The invariant is `Truthful`: a
  checkpoint is what the server rehydrates, a head is what its socket has, and a request on
  its way continues from there. Between an answer and its observation the new ID is known
  to its request only (`Secret`), so no other session and no file can be overtaken by it.

`StreamAdapter_proofs.tla` proves the invariants of `stream_adapter` for every set of
screenshots, every cutoff, limit and bound: `LatchCorrect`, `SizeCorrect`, `OmissionCorrect`,
`NudgeCorrect` and `TypeCorrect`. What the loops over messages compute for contexts of any
length is proved, too. The library's induction theorems cannot be used here, but its theorem
on minimal elements of well-founded sets (`WFMin`) can, and gives induction for sets of numbers
(`Induction`, `InductionUpTo`) and the existence of functions that are given step by step
(`Recursion`). With these:

- `ScannedFacts`: the scan keeps the newest screenshot, leaves out only what it remembers,
  and never keeps an older one that it remembered before;
- `SizeCounts`, `SizeAround`: what a context and its parts measure;
- `SanitizedOrigin`: each message that is sent is one of the history, and what is sent before
  it is what would have been sent of the history before it;
- `EstimateBounds`: the estimate of a context is at most what its history measures, and at
  least what it measures itself, but for screenshots that came back.

The last needs that usage is true (`UsageTrue`): an answer newer than the summary reports at
most what the history before it measures, and at least that with only the screenshots that
cannot have been left out. This is inductive because the beginning of the history changes
only by a compaction, after which no answer of the history counts, and because what has been
left out is remembered until the session is started anew.

`RepetitionDetector_proofs.tla` proves `CutsCorrect`, that the cuts do not matter, for every
text and every value of the numbers (`NumberAssumption`: they are natural numbers, and the
interval between checks is not zero). That a loop whose rounds come closer to an end has one
result, however many more rounds it is given, is `LoopEnds`; so each loop of the code is its
first round and then the rest (`AnalyzedUnfolds`, `VisibleUnfolds`). Then, one layer after
the other, feeding a text is feeding its front and then the rest:

- `UncheckedTwice`, because the tail of a tail is the tail (`KeepTailOfTail`);
- `AnalyzedJoin`: a cut falls before the next check (`AnalyzedBeforeCheck`) or after it;
- `VisibleJoin`: the first fence of a text is there whatever follows (`FirstFenceStays`), and
  what is left of a text without a fence, when the backticks at its end are held back, has no
  fence in it and none begins in it (`CleanFront`, `VisibleAfterClean`);
- `FeedJoin` and, character by character, `OneByOne`.

What the checks find plays no part in this, so it holds for the whole of what they compare.

It also proves `CutCorrect`, the invariant `CutIsTheRepetition`: what is found is what the
text says, by definitions over the text alone. By `FedText` the detector of every reachable
state is what the text has made of a new one, so this is about one text given at once. What the
detector knows while it goes through it is `Knows`: it is in a segment in which no fence has
begun, its two tails are tails of what it has read of the segment (`Reads`), the next check is
the next multiple of the interval (`Timed`), no check so far had a repetition to find (`Quiet`),
and the series of comparisons is what the text says of the windows up to the last check
(`Compared`). The steps:

- `ZArrayAgrees`: the array that the code computes with a window, from left to right, says how
  far each suffix agrees with the whole; so `ExactIs`: the check finds the shortest block that
  the text ends in copies of, if there is one, and nothing else;
- `WindowsAre`, `NearIs`: the comparison is of the last two windows of the text, and a series
  begins, goes on and ends with what it finds; `CheckTells` puts the checks together;
- `OneMore`, `AnalyzedKnows`: one more character, and by induction (with `AnalyzedJoin`) one
  more piece of the segment, leaves `Knows` true or finds what `Cut` says;
- `ToldToEnd`, `ToldOverFence`, `VisibleKnows`: a fence is passed where the text has its next
  one. None can begin before the position and end after it (`NoFenceOver`), because the
  position is at the beginning of its segment or not after a backtick (`AtEdge`);
- `SegmentIs`: the segment in which the detector is (`Passed`) is the one that the definition
  over the text arrives at. It is stated of where all paths from a segment end, so that it
  goes from one segment to the next without a second induction.

Two more assumptions are needed here. The tail holds all the copies of a block
(`PeriodAssumption`: three copies of 399 characters and two of 4096 fit into 8192), and the
two windows are not empty and fit into what is kept for them (`WindowAssumption`: two windows
of 1024 into 56000).

The inductive invariants were checked by TLC on the instances of the runs before they were
proved. Each module's assumptions on its constants are its named ASSUMEs, which TLC evaluates
on every run.

## What is only model-checked

The four liveness properties (`NeverIdleWithWaiters`, `DisposeFreesWaiters`, `RequestsEnd`,
`DetectionsSettle`): liveness under fairness is out of the prover's reach. Every safety
invariant and the action properties of the passing runs have a theorem.

## What is not modelled

The conversions (payload, messages, configuration, error texts, the removal of foreign
thinking signatures, the normalisation of words in the repetition detector), the loader and
fallback of pi-ai, registration and debug counters. Event and frame sizes are
counted in events, times are nondeterministic choices. `iterateXaiWsEvents`,
which runs one request over a socket of its own, is the special case of
`RequestLoop` without retries. The idle timer is a socket that may close at any
time (`SocketCloses`, `NetworkDrops`). Concurrent processes that use one session ID at the
same time are not modelled; the sweep of another process is.

## Plan

The directory of checkpoint files, with the validation of what is read.
