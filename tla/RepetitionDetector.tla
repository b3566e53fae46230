--------------------------- MODULE RepetitionDetector ---------------------------
(***************************************************************************)
(* The detector of repeated output, src/src/repetition-detector.ts.  The   *)
(* text of one content block arrives in deltas, cut anywhere; the detector *)
(* keeps a tail of it and every few characters asks whether the tail       *)
(* repeats itself.  In visible text, code fences are skipped and start a   *)
(* new segment, and a fence may be cut in two by the deltas.               *)
(*                                                                         *)
(* A detector is a record, and its methods are operators on that record.   *)
(* A letter stands for a word where words are compared, and the backtick   *)
(* for none (word grams are single words); the numbers are constants.      *)
(***************************************************************************)
EXTENDS Integers, Sequences, FiniteSets, SequencesExt

CONSTANTS
    Letter,                         \* characters other than the backtick
    Tick,                           \* the backtick
    CheckInterval,                  \* CHECK_INTERVAL_CHARS
    ExactMinPeriod, ExactMaxPeriod, LongExactPeriod,
    NearWindow, NearMin,            \* NEAR_DUPLICATE_WINDOW_CHARS, _MIN_CHARS
    NearPercent,                    \* NEAR_DUPLICATE_SIMILARITY, in percent
    NoveltyInterval, NoveltyMin, NoveltyPrevious, NoveltyRecent,  \* LOW_NOVELTY_*
    NoveltyPercent,                 \* lowNoveltyThreshold, in percent
    MaxText,                        \* bound: length of the text
    MaxDelta                        \* bound: length of a delta

ASSUME NumberAssumption ==
    /\ CheckInterval \in Nat \ {0}
    /\ {ExactMaxPeriod, LongExactPeriod, NearWindow, NearMin, NearPercent} \subseteq Nat
    /\ {NoveltyInterval, NoveltyMin, NoveltyPrevious, NoveltyRecent, NoveltyPercent} \subseteq Nat

ASSUME PeriodAssumption ==
    /\ ExactMinPeriod \in 1..ExactMaxPeriod
    /\ ExactMinPeriod <= LongExactPeriod
    /\ 3 * (LongExactPeriod - 1) <= 2 * ExactMaxPeriod  \* EXACT_TAIL_CHARS holds the copies

ASSUME WindowAssumption ==
    /\ NearWindow > 0 /\ NoveltyRecent > 0
    /\ 2 * NearWindow <= NoveltyPrevious + NoveltyRecent

VARIABLES detector,     \* the fields of the RepetitionDetector
          detection,    \* what append has returned last
          text          \* history: all the text appended

vars == <<detector, detection, text>>

None == [kind |-> "none", count |-> 0, clean |-> 0, period |-> 0]

(* What a method leaves of detector d, and what it returns.                *)
Result(d, found) == [detector |-> d, detection |-> found]

New(kind) ==
    [contentKind |-> kind,
     absolute |-> 0,            \* absoluteCharacterCount
     analyzed |-> 0,            \* analyzedCharacterCount
     exactTail |-> <<>>, fenceCarry |-> <<>>, insideFence |-> FALSE,
     lowNoveltyText |-> <<>>,
     nextLowNoveltyCheckAt |-> NoveltyMin,
     comparisons |-> 0,         \* nearDuplicateComparisons
     nearStart |-> 0,           \* nearDuplicateStart
     nextCheckAt |-> CheckInterval,
     segmentStart |-> 0]
--------------------------------------------------------------------------------
(* A loop of the code: what n rounds make of state x.                      *)
Loop(Round(_), x, n) ==
    LET after[k \in 0..n] == IF k = 0 THEN x ELSE Round(after[k - 1])
    IN  after[n]

(* Two of the loops take text until none is left or something is found.    *)
Begin(d, s) == [fed |-> Result(d, None), rest |-> s]
Over(x) == x.rest = <<>> \/ x.fed.detection # None

(* keepTail, and slice(-n).                                                *)
KeepTail(s, n) == IF Len(s) <= n THEN s ELSE SubSeq(s, Len(s) - n + 1, Len(s))

(* zArray: how far each suffix agrees with the whole, computed from left   *)
(* to right with the window [left, right] that agrees furthest right.      *)
Agreement(s, i, from) ==
    CHOOSE n \in from..(Len(s) - i) :
        /\ \A k \in from..(n - 1) : s[k + 1] = s[i + k + 1]
        /\ i + n = Len(s) \/ s[n + 1] # s[i + n + 1]

ZNext(s, scan) ==
    LET i == Len(scan.z)
        inside == scan.z[i - scan.left + 1]
        known == IF i > scan.right THEN 0
                 ELSE IF scan.right - i + 1 < inside THEN scan.right - i + 1 ELSE inside
        zi == Agreement(s, i, known)
        z == Append(scan.z, zi)
    IN  IF i + zi - 1 > scan.right THEN [z |-> z, left |-> i, right |-> i + zi - 1]
        ELSE [scan EXCEPT !.z = z]

ZArray(s) ==
    IF s = <<>> THEN <<>>
    ELSE Loop(LAMBDA scan : ZNext(s, scan), [z |-> <<0>>, left |-> 0, right |-> 0], Len(s) - 1).z

Copies(period) == IF period >= LongExactPeriod THEN 2 ELSE 3

Repeats(z, n, period) ==
    /\ period * Copies(period) <= n
    /\ z[period + 1] >= period * (Copies(period) - 1)

Found(d, kind, repeated, period) ==
    [kind |-> kind, count |-> d.absolute, period |-> period,
     clean |-> IF repeated < d.analyzed THEN d.segmentStart + d.analyzed - repeated
               ELSE d.segmentStart]

(* detectExact: the shortest period that fills the tail.                   *)
DetectExact(d) ==
    LET n == Len(d.exactTail)
        Shortest(periods) == CHOOSE p \in periods : \A q \in periods : p <= q
        Of(periods) == IF periods = {} THEN None
                       ELSE LET p == Shortest(periods) IN Found(d, "exact", p * Copies(p), p)
        Fitting(z) == {p \in ExactMinPeriod..ExactMaxPeriod : 2 * p <= n /\ Repeats(z, n, p)}
    IN  Of(Fitting(ZArray(Reverse(d.exactTail))))
--------------------------------------------------------------------------------
(* normalizeForComparison: the words of s; backticks are between them.     *)
Words(s) == SelectSeq(s, LAMBDA c : c # Tick)

WordGramSet(s) == ToSet(Words(s))

(* jaccard of the two windows, against the threshold; 0 without words.     *)
Similar(previous, recent) ==
    LET left == WordGramSet(previous)
        right == WordGramSet(recent)
    IN  /\ left # {} /\ right # {}
        /\ 100 * Cardinality(left \intersect right) >= NearPercent * Cardinality(left \union right)

(* detectNearDuplicate, with what it does to the series of comparisons.    *)
DetectNearDuplicate(d) ==
    LET n == Len(d.lowNoveltyText)
        pair == 2 * NearWindow
        previous == SubSeq(d.lowNoveltyText, n - pair + 1, n - NearWindow)
        recent == KeepTail(d.lowNoveltyText, NearWindow)
        start == IF d.comparisons = 0 THEN d.analyzed - pair ELSE d.nearStart
        next == [d EXCEPT !.comparisons = @ + 1, !.nearStart = start]
        repeated == d.analyzed - (start + NearWindow)
    IN  IF n < pair THEN Result(d, None)
        ELSE IF ~Similar(previous, recent)
          THEN Result([d EXCEPT !.comparisons = 0, !.nearStart = 0], None)
        ELSE IF next.comparisons < 3 \/ repeated < NearMin THEN Result(next, None)
        ELSE Result(next, Found(next, "near-duplicate", repeated, 0))

(* detectLowNovelty: how many of the recent words were there before.       *)
DetectLowNovelty(d) ==
    LET n == Len(d.lowNoveltyText)
        previous == WordGramSet(SubSeq(d.lowNoveltyText, 1, n - NoveltyRecent))
        recent == Words(KeepTail(d.lowNoveltyText, NoveltyRecent))
        seen == Len(SelectSeq(recent, LAMBDA c : c \in previous))
    IN  IF d.analyzed <= NoveltyMin \/ n < 2 * NoveltyRecent
           \/ recent = <<>> \/ 100 * seen < NoveltyPercent * Len(recent) THEN None
        ELSE Found(d, "low-novelty", NoveltyRecent, 0)

(* detect: the frequent checks, and at times the one for novelty.          *)
Check(d) ==
    LET OrNear(exact) == IF exact # None THEN Result(d, exact) ELSE DetectNearDuplicate(d)
        Novelty(e) == Result(e, DetectLowNovelty(e))
        OrNovelty(frequent) ==
            IF frequent.detection # None \/ d.analyzed < d.nextLowNoveltyCheckAt THEN frequent
            ELSE Novelty([frequent.detector EXCEPT
                             !.nextLowNoveltyCheckAt = d.analyzed + NoveltyInterval])
    IN  OrNovelty(OrNear(DetectExact(d)))
--------------------------------------------------------------------------------
AppendUnchecked(d, s) ==
    [d EXCEPT !.absolute = @ + Len(s), !.analyzed = @ + Len(s),
              !.exactTail = KeepTail(@ \o s, 2 * ExactMaxPeriod),
              !.lowNoveltyText = KeepTail(@ \o s, NoveltyPrevious + NoveltyRecent)]

(* appendAnalyzed: up to the next check, the check, and so on; what is     *)
(* left when something is found is dropped.                                *)
CheckIfDue(d) ==
    IF d.analyzed < d.nextCheckAt THEN Result(d, None)
    ELSE Check([d EXCEPT !.nextCheckAt = @ + CheckInterval])

AnalyzePart(x) ==
    LET d == x.fed.detector
        untilCheck == IF d.nextCheckAt > d.analyzed THEN d.nextCheckAt - d.analyzed ELSE 1
        end == IF untilCheck < Len(x.rest) THEN untilCheck ELSE Len(x.rest)
    IN  IF Over(x) THEN x
        ELSE [fed |-> CheckIfDue(AppendUnchecked(d, SubSeq(x.rest, 1, end))),
              rest |-> SubSeq(x.rest, end + 1, Len(x.rest))]

AppendAnalyzed(d, s) == Loop(AnalyzePart, Begin(d, s), Len(s)).fed

AppendVisibleSegment(d, s) ==
    IF d.insideFence
      THEN Result([d EXCEPT !.absolute = @ + Len(s)], None)
      ELSE AppendAnalyzed(d, s)

(* A plausible slip: a new segment keeps the tail of the text before it.   *)
ResetKeepsTail(d) ==
    [d EXCEPT !.segmentStart = d.absolute, !.analyzed = 0, !.lowNoveltyText = <<>>,
              !.nextCheckAt = CheckInterval, !.nextLowNoveltyCheckAt = NoveltyMin,
              !.comparisons = 0, !.nearStart = 0]

ResetAnalyzedSegment(d) ==
    [d EXCEPT !.segmentStart = d.absolute,
              !.analyzed = 0, !.exactTail = <<>>, !.lowNoveltyText = <<>>,
              !.nextCheckAt = CheckInterval, !.nextLowNoveltyCheckAt = NoveltyMin,
              !.comparisons = 0, !.nearStart = 0]

(* A fence leads in or out of code, and a new segment begins behind it.    *)
PassFence(d) ==
    ResetAnalyzedSegment([d EXCEPT !.absolute = @ + 3, !.insideFence = ~@])

Fence == <<Tick, Tick, Tick>>
FencesIn(s) == {i \in 0..(Len(s) - 3) : SubSeq(s, i + 1, i + 3) = Fence}

(* A plausible slip: backticks at the end of a delta are not held back.    *)
NoTrailing(s) == 0

(* trailingBackticks of a text without a fence.                            *)
Trailing(s) ==
    CHOOSE n \in 0..2 :
        /\ n <= Len(s) /\ \A k \in 1..n : s[Len(s) - k + 1] = Tick
        /\ n = 2 \/ n = Len(s) \/ s[Len(s) - n] # Tick

(* The loop of appendVisible: up to the next fence and over it, or, if     *)
(* there is none, all but the backticks that may begin one.                *)
UpToFence(d, s) ==
    LET at == CHOOSE i \in FencesIn(s) : \A j \in FencesIn(s) : i <= j
        fed == AppendVisibleSegment(d, SubSeq(s, 1, at))
    IN  [fed |-> IF fed.detection # None THEN fed ELSE Result(PassFence(fed.detector), None),
         rest |-> SubSeq(s, at + 4, Len(s))]

UpToEnd(d, s) ==
    LET end == Len(s) - Trailing(s)
        fed == AppendVisibleSegment(d, SubSeq(s, 1, end))
    IN  [fed |-> [fed EXCEPT !.detector.fenceCarry = SubSeq(s, end + 1, Len(s))],
         rest |-> <<>>]

VisiblePart(x) ==
    IF Over(x) THEN x
    ELSE IF FencesIn(x.rest) = {} THEN UpToEnd(x.fed.detector, x.rest)
    ELSE UpToFence(x.fed.detector, x.rest)

Visible(d, s) == Loop(VisiblePart, Begin(d, s), Len(s)).fed

Feed(d, s) ==
    IF d.contentKind = "thinking" THEN AppendAnalyzed(d, s)
    ELSE Visible([d EXCEPT !.fenceCarry = <<>>], d.fenceCarry \o s)
--------------------------------------------------------------------------------
Delta == UNION {[1..n -> Letter \union {Tick}] : n \in 1..MaxDelta}

(* The text may have begun with a block of code, after a letter or none.   *)
Opening == {<<>>, Fence \o Fence} \union {<<c>> \o Fence \o Fence : c \in Letter}

Room == MaxText + CHOOSE n \in {Len(o) : o \in {x \in Opening : IsPrefix(x, text)}} :
                     \A o \in Opening : IsPrefix(o, text) => Len(o) <= n

Init ==
    /\ text \in Opening
    /\ \E kind \in {"text", "thinking"} :
          LET fed == Feed(New(kind), text)
          IN  detector = fed.detector /\ detection = fed.detection

(* append; after a detection the caller gives the detector up.             *)
AppendDelta(delta) ==
    /\ detection = None
    /\ Len(text) + Len(delta) <= Room
    /\ LET fed == Feed(detector, delta)
       IN  detector' = fed.detector /\ detection' = fed.detection
    /\ text' = text \o delta

Next == \E delta \in Delta : AppendDelta(delta)

Spec == Init /\ [][Next]_vars
--------------------------------------------------------------------------------
(* Where the segment that text[1..n] ends in begins, and whether it is     *)
(* code, told from the text alone: fences are taken from the left and do   *)
(* not overlap.                                                            *)
NextSegment(n, segment) ==
    LET fences == {i \in segment.start..(n - 3) : SubSeq(text, i + 1, i + 3) = Fence}
    IN  IF detector.contentKind = "thinking" \/ fences = {} THEN segment
        ELSE [start |-> 3 + CHOOSE i \in fences : \A j \in fences : i <= j, code |-> ~segment.code]

Segment(n) == Loop(LAMBDA segment : NextSegment(n, segment), [start |-> 0, code |-> FALSE], n)

(* text[1..n] ends in the copies of some block that count as a repetition, *)
(* within its segment and within reach.                                    *)
EndsInCopies(n, p) ==
    /\ n - p * Copies(p) >= Segment(n).start
    /\ \A i \in (n - p * Copies(p) + 1)..(n - p) : text[i] = text[i + p]

Periods(n) == {p \in ExactMinPeriod..ExactMaxPeriod : EndsInCopies(n, p)}

(* The moments of its segment at which the detector looks at text[1..n].   *)
Checks(n) == {k \in (Segment(n).start + 1)..n :
                  \E rounds \in 1..n : k = Segment(n).start + CheckInterval * rounds}

(* At k, the two windows before it are alike.                              *)
Alike(k) == /\ k - 2 * NearWindow >= Segment(k).start
            /\ Similar(SubSeq(text, k - 2 * NearWindow + 1, k - NearWindow),
                       SubSeq(text, k - NearWindow + 1, k))

(* The detector counts the characters it was given, less the backticks it  *)
(* holds back, and what it has cut away is what repeats, wherever the      *)
(* fences fall and however the deltas were cut.  The cut lies in one       *)
(* stretch of text outside code.  For an exact detection it is the copies  *)
(* of the shortest block that the text ends in, and no earlier check of    *)
(* that stretch had anything to find; for near duplicates it begins after  *)
(* the first window of an unbroken series of windows that are alike.       *)
CutIsTheRepetition ==
    LET n == detector.absolute
        seg == Segment(n)
        first == detection.clean + NearWindow
        looked == {k \in Checks(n) : k < n \/ detection.kind # "exact"}
    IN  /\ detection = None => n + Len(detector.fenceCarry) = Len(text)
        /\ ~seg.code => \A k \in looked : Periods(k) = {}
        /\ detection # None =>
              /\ ~seg.code /\ detection.count = n /\ n \in Checks(n)
              /\ detection.clean \in seg.start..(n - 1)
        /\ detection.kind = "exact" =>
              /\ detection.period \in Periods(n)
              /\ \A p \in Periods(n) : detection.period <= p
              /\ detection.clean = n - detection.period * Copies(detection.period)
        /\ detection.kind = "near-duplicate" =>
              /\ \A k \in Checks(n) : k >= first => Alike(k)
              /\ ~Alike(first - CheckInterval)
              /\ n - detection.clean >= NearMin

(* How the text is cut into deltas makes no difference to what the         *)
(* detector knows or finds: the state, the detection included, is that of  *)
(* a detector that got the same text character by character or at once.    *)
FeedNext(x) ==
    IF Over(x) THEN x ELSE [fed |-> Feed(x.fed.detector, <<Head(x.rest)>>), rest |-> Tail(x.rest)]
FeedEach(d, s) == Loop(FeedNext, Begin(d, s), Len(s)).fed

CutsDoNotMatter ==
    LET Agree(now, whole, each) ==
            /\ now = whole
            /\ IF now.detection = None THEN now = each ELSE now.detection = each.detection
        new == New(detector.contentKind)
    IN  Agree(Result(detector, detection), Feed(new, text), FeedEach(new, text))
================================================================================
