------------------------- MODULE RepetitionDetector_proofs -------------------------
(***************************************************************************)
(* Proofs about RepetitionDetector, for every text, every cut into deltas  *)
(* and every interval, period and window.                                  *)
(***************************************************************************)
EXTENDS RepetitionDetector, FiniteSetTheorems, SequenceTheorems, WellFoundedInduction, TLAPS

--------------------------------------------------------------------------------
(* Loops.                                                                  *)

(* A set with 0 that is closed under successors holds every number.        *)
LEMMA Induction ==
    ASSUME NEW T, 0 \in T, \A n \in Nat : n \in T => n + 1 \in T
    PROVE  Nat \subseteq T
<1> DEFINE R == {p \in Nat \X Nat : p[1] < p[2]}
           B == Nat \ T
<1>1. SUFFICES ASSUME B # {} PROVE FALSE
  OBVIOUS
<1>2. IsWellFoundedOn(R, Nat)
  BY NatLessThanWellFounded DEF OpToRel
<1> HIDE DEF B, R
<1>3. B \subseteq Nat
  BY DEF B
<1>4. PICK x \in B : \A y \in B : ~ (<<y, x>> \in R)
  BY <1>1, <1>2, <1>3, WFMin
<1>5. \A y \in B : ~(y < x)
  BY <1>4, <1>3 DEF R
<1>6. x # 0 /\ x \in Nat
  BY <1>4 DEF B
<1>7. x - 1 \in Nat /\ x - 1 < x /\ x - 1 + 1 = x
  BY <1>6
<1>8. x - 1 \in T
  BY <1>5, <1>7 DEF B
<1> QED
  BY <1>7, <1>8, <1>4 DEF B

(* The same up to a bound.                                                 *)
LEMMA InductionUpTo ==
    ASSUME NEW N \in Nat, NEW T, 0 \in T, \A n \in 1..N : n - 1 \in T => n \in T
    PROVE  \A n \in 0..N : n \in T
<1> DEFINE U == {n \in Nat : n <= N => n \in T}
<1>1. 0 \in U
  OBVIOUS
<1>2. ASSUME NEW n \in Nat, n \in U PROVE n + 1 \in U
  <2>1. n + 1 - 1 = n
    OBVIOUS
  <2> QED
    BY <1>2, <2>1
<1> HIDE DEF U
<1>3. Nat \subseteq U
  BY <1>1, <1>2, Induction
<1> QED
  BY <1>3 DEF U

(* Rounds of a loop over states in X that goes on as f says.               *)
Rounds(g, n, f, x, X) ==
    g \in [0..n -> X] /\ g[0] = x /\ \A k \in 1..n : g[k] = f[g[k - 1]]

LEMMA RoundsExist ==
    ASSUME NEW X, NEW x \in X, NEW f \in [X -> X], NEW n \in Nat
    PROVE  \E g : Rounds(g, n, f, x, X)
<1> DEFINE T == {m \in Nat : \E g : Rounds(g, m, f, x, X)}
<1>1. 0 \in T
  <2> DEFINE g == [k \in 0..0 |-> x]
  <2>1. g \in [0..0 -> X] /\ g[0] = x /\ \A k \in 1..0 : g[k] = f[g[k - 1]]
    OBVIOUS
  <2>2. Rounds(g, 0, f, x, X)
    BY <2>1 DEF Rounds
  <2> HIDE DEF g
  <2> QED
    BY <2>2
<1>2. ASSUME NEW m \in Nat, m \in T PROVE m + 1 \in T
  <2>1. PICK g : Rounds(g, m, f, x, X)
    BY <1>2
  <2>2. /\ g \in [0..m -> X] /\ g[0] = x
        /\ \A k \in 1..m : g[k] = f[g[k - 1]]
    BY <2>1 DEF Rounds
  <2> DEFINE h == [k \in 0..m + 1 |-> IF k = m + 1 THEN f[g[m]] ELSE g[k]]
  <2>3. h \in [0..m + 1 -> X] /\ h[0] = x
    BY <2>2
  <2>4. ASSUME NEW k \in 1..m + 1 PROVE h[k] = f[h[k - 1]]
    <3>1. h[k - 1] = g[k - 1]
      OBVIOUS
    <3>2. CASE k = m + 1
      BY <3>1, <3>2
    <3>3. CASE k # m + 1
      <4>1. k \in 1..m
        BY <3>3
      <4> QED
        BY <4>1, <3>1, <2>2
    <3> QED
      BY <3>2, <3>3
  <2> HIDE DEF h
  <2>5. Rounds(h, m + 1, f, x, X)
    BY <2>3, <2>4 DEF Rounds
  <2>6. m + 1 \in Nat
    OBVIOUS
  <2> QED
    BY <2>5, <2>6
<1> HIDE DEF T
<1>3. n \in T
  BY <1>1, <1>2, Induction
<1> QED
  BY <1>3 DEF T

(* A loop whose rounds come closer to an end that they do not leave has a  *)
(* result, however many more rounds it is given.                           *)
Closer(f, m, D, X) ==
    /\ f \in [X -> X] /\ m \in [X -> Nat]
    /\ \A x \in X : x \in D => f[x] = x
    /\ \A x \in X : x \notin D => m[f[x]] < m[x]

EndsIn(x, y, f, m, X) ==
    y \in X /\ \A n \in Nat : \A g : Rounds(g, n, f, x, X) /\ m[x] <= n => g[n] = y

LEMMA RoundsStay ==
    ASSUME NEW X, NEW f, NEW m, NEW D, Closer(f, m, D, X), NEW x \in X, x \in D,
           NEW n \in Nat, NEW g, Rounds(g, n, f, x, X)
    PROVE  g[n] = x
<1> DEFINE T == {k \in 0..n : g[k] = x}
<1>1. /\ f \in [X -> X] /\ f[x] = x
      /\ g \in [0..n -> X] /\ g[0] = x /\ \A k \in 1..n : g[k] = f[g[k - 1]]
  BY DEF Closer, Rounds
<1>2. 0 \in T
  BY <1>1
<1>3. ASSUME NEW k \in 1..n, k - 1 \in T PROVE k \in T
  BY <1>1, <1>3
<1> HIDE DEF T
<1>4. \A k \in 0..n : k \in T
  BY <1>2, <1>3, InductionUpTo
<1>5. n \in T
  BY <1>4
<1> QED
  BY <1>5 DEF T

LEMMA RoundsAfter ==
    ASSUME NEW X, NEW f \in [X -> X], NEW x, NEW n \in Nat \ {0}, NEW g, Rounds(g, n, f, x, X)
    PROVE  \E h : Rounds(h, n - 1, f, f[x], X) /\ h[n - 1] = g[n]
<1> DEFINE h == [k \in 0..n - 1 |-> g[k + 1]]
<1>1. g \in [0..n -> X] /\ g[0] = x /\ \A k \in 1..n : g[k] = f[g[k - 1]]
  BY DEF Rounds
<1>2. h \in [0..n - 1 -> X]
  BY <1>1
<1>3. h[0] = f[x]
  <2>1. h[0] = g[1] /\ 1 \in 1..n
    OBVIOUS
  <2>2. g[1] = f[g[0]]
    BY <1>1, <2>1
  <2> QED
    BY <2>1, <2>2, <1>1
<1>4. ASSUME NEW k \in 1..n - 1 PROVE h[k] = f[h[k - 1]]
  <2>1. h[k] = g[k + 1] /\ h[k - 1] = g[k] /\ k + 1 \in 1..n /\ k + 1 - 1 = k
    OBVIOUS
  <2>2. g[k + 1] = f[g[k]]
    BY <1>1, <2>1
  <2> QED
    BY <2>1, <2>2
<1>5. h[n - 1] = g[n]
  OBVIOUS
<1> HIDE DEF h
<1>6. Rounds(h, n - 1, f, f[x], X)
  BY <1>2, <1>3, <1>4 DEF Rounds
<1> QED
  BY <1>5, <1>6

LEMMA EndsLikeNext ==
    ASSUME NEW X, NEW f, NEW m, NEW D, Closer(f, m, D, X), NEW x \in X, NEW y,
           x \notin D, EndsIn(f[x], y, f, m, X)
    PROVE  EndsIn(x, y, f, m, X)
<1>1. f \in [X -> X] /\ m \in [X -> Nat] /\ m[f[x]] < m[x] /\ f[x] \in X
  BY DEF Closer
<1>2. ASSUME NEW n \in Nat, NEW g, Rounds(g, n, f, x, X), m[x] <= n PROVE g[n] = y
  <2>1. n \in Nat \ {0} /\ n - 1 \in Nat /\ m[f[x]] <= n - 1
    <3>1. m[x] \in Nat /\ m[f[x]] \in Nat
      BY <1>1
    <3> QED
      BY <3>1, <1>1, <1>2
  <2>2. PICK h : Rounds(h, n - 1, f, f[x], X) /\ h[n - 1] = g[n]
    BY <2>1, <1>1, <1>2, RoundsAfter
  <2> QED
    BY <2>1, <2>2 DEF EndsIn
<1> QED
  BY <1>2 DEF EndsIn

LEMMA LoopEnds ==
    ASSUME NEW X, NEW f, NEW m, NEW D, Closer(f, m, D, X), NEW x \in X
    PROVE  \E y : EndsIn(x, y, f, m, X)
<1> DEFINE T == {k \in Nat : \A z \in X : m[z] <= k => \E y : EndsIn(z, y, f, m, X)}
<1>1. f \in [X -> X] /\ m \in [X -> Nat]
  BY DEF Closer
<1>2. ASSUME NEW z \in X, z \in D PROVE EndsIn(z, z, f, m, X)
  BY <1>2, RoundsStay DEF EndsIn
<1>3. 0 \in T
  <2>1. ASSUME NEW z \in X, m[z] <= 0 PROVE z \in D
    <3>1. m[z] \in Nat /\ f[z] \in X
      BY <1>1
    <3>2. m[f[z]] \in Nat
      BY <3>1, <1>1
    <3>3. ~(m[f[z]] < m[z])
      BY <3>1, <3>2, <2>1
    <3> QED
      BY <3>3 DEF Closer
  <2> QED
    BY <2>1, <1>2
<1>4. ASSUME NEW k \in Nat, k \in T PROVE k + 1 \in T
  <2>1. ASSUME NEW z \in X, m[z] <= k + 1, z \notin D PROVE \E y : EndsIn(z, y, f, m, X)
    <3>1. m[z] \in Nat /\ f[z] \in X /\ m[f[z]] < m[z]
      BY <1>1, <2>1 DEF Closer
    <3>2. m[f[z]] \in Nat
      BY <3>1, <1>1
    <3>3. m[f[z]] <= k
      BY <3>1, <3>2, <2>1
    <3>4. PICK y : EndsIn(f[z], y, f, m, X)
      BY <3>1, <3>3, <1>4
    <3> QED
      BY <3>4, <2>1, EndsLikeNext
  <2>2. k + 1 \in Nat
    OBVIOUS
  <2> QED
    BY <2>1, <2>2, <1>2
<1> HIDE DEF T
<1>5. m[x] \in T
  <2>1. m[x] \in Nat
    BY <1>1
  <2> QED
    BY <2>1, <1>3, <1>4, Induction
<1>6. m[x] \in Nat /\ m[x] <= m[x]
  BY <1>1
<1> QED
  BY <1>5, <1>6 DEF T

(* So the result is that of the next round.                                *)
LEMMA LoopUnfolds ==
    ASSUME NEW X, NEW f, NEW m, NEW D, Closer(f, m, D, X), NEW x \in X,
           NEW a \in Nat, NEW g, Rounds(g, a, f, x, X), m[x] <= a,
           NEW b \in Nat, NEW h, Rounds(h, b, f, f[x], X), m[f[x]] <= b
    PROVE  g[a] = h[b]
<1>1. f \in [X -> X] /\ f[x] \in X
  BY DEF Closer
<1>2. PICK y : EndsIn(f[x], y, f, m, X)
  BY <1>1, LoopEnds
<1>3. h[b] = y
  BY <1>2 DEF EndsIn
<1>4. CASE x \in D
  <2>1. f[x] = x
    BY <1>4 DEF Closer
  <2> QED
    BY <2>1, <1>2, <1>3 DEF EndsIn
<1>5. CASE x \notin D
  <2>1. EndsIn(x, y, f, m, X)
    BY <1>2, <1>5, EndsLikeNext
  <2> QED
    BY <2>1, <1>3 DEF EndsIn
<1> QED
  BY <1>4, <1>5

(* Whatever goes on as f says as long as it is in X goes the same way.     *)
LEMMA RoundsAgree ==
    ASSUME NEW X, NEW f \in [X -> X], NEW x, NEW n \in Nat, NEW g, Rounds(g, n, f, x, X),
           NEW h, h[0] = x, \A k \in 1..n : h[k - 1] \in X => h[k] = f[h[k - 1]]
    PROVE  h[n] = g[n]
<1> DEFINE T == {k \in 0..n : h[k] = g[k]}
<1>1. /\ g \in [0..n -> X] /\ g[0] = x
      /\ \A k \in 1..n : g[k] = f[g[k - 1]]
  BY DEF Rounds
<1>2. 0 \in T
  BY <1>1
<1>3. ASSUME NEW k \in 1..n, k - 1 \in T PROVE k \in T
  <2>1. k \in 0..n /\ k - 1 \in 0..n
    OBVIOUS
  <2>2. h[k - 1] = g[k - 1] /\ g[k - 1] \in X
    BY <2>1, <1>1, <1>3
  <2>3. h[k] = g[k]
    BY <2>2, <1>1
  <2> QED
    BY <2>1, <2>3
<1> HIDE DEF T
<1>4. n \in T
  <2>1. \A k \in 0..n : k \in T
    BY <1>2, <1>3, InductionUpTo
  <2> QED
    BY <2>1
<1> QED
  BY <1>4 DEF T

--------------------------------------------------------------------------------
(* Detectors, and what the checks leave of them.                           *)

Char == Letter \union {Tick}

Detector ==
    [contentKind : {"text", "thinking"}, absolute : Nat, analyzed : Nat,
     exactTail : Seq(Char), fenceCarry : Seq(Char), insideFence : BOOLEAN,
     lowNoveltyText : Seq(Char), nextLowNoveltyCheckAt : Nat, comparisons : Nat,
     nearStart : Int, nextCheckAt : Nat, segmentStart : Nat]

Fed == [detector : Detector, detection : {Check(d).detection : d \in Detector} \union {None}]

(* A method that looks at the text leaves alone what the fences decide.    *)
SameFences(d, e) ==
    /\ e.contentKind = d.contentKind
    /\ e.fenceCarry = d.fenceCarry
    /\ e.insideFence = d.insideFence

LEMMA NearTypes ==
    ASSUME NEW d \in Detector
    PROVE  DetectNearDuplicate(d).detector \in Detector
           /\ SameFences(d, DetectNearDuplicate(d).detector)
<1> DEFINE pair == 2 * NearWindow
           start == IF d.comparisons = 0 THEN d.analyzed - pair ELSE d.nearStart
           next == [d EXCEPT !.comparisons = @ + 1, !.nearStart = start]
           over == [d EXCEPT !.comparisons = 0, !.nearStart = 0]
<1>1. \/ DetectNearDuplicate(d).detector = d
      \/ DetectNearDuplicate(d).detector = next
      \/ DetectNearDuplicate(d).detector = over
  BY DEF DetectNearDuplicate, Result
<1>2. d.comparisons + 1 \in Nat /\ start \in Int
  <2>1. NearWindow \in Nat
    BY NumberAssumption
  <2>2. d.comparisons \in Nat /\ d.analyzed \in Nat /\ d.nearStart \in Int
    BY DEF Detector
  <2> QED
    BY <2>1, <2>2
<1> HIDE DEF start
<1>3. next \in Detector /\ SameFences(d, next)
  BY <1>2 DEF Detector, SameFences
<1>4. over \in Detector /\ SameFences(d, over)
  <2>1. over \in Detector
    <3>1. PICK zero \in Nat : zero = 0
      OBVIOUS
    <3>2. PICK whole \in Int : whole = 0
      OBVIOUS
    <3>3. [d EXCEPT !.comparisons = zero, !.nearStart = whole] \in Detector
      BY DEF Detector
    <3> QED
      BY <3>1, <3>2, <3>3
  <2>2. SameFences(d, over)
    BY DEF Detector, SameFences
  <2> QED
    BY <2>1, <2>2
<1>5. SameFences(d, d)
  BY DEF SameFences
<1> HIDE DEF next, over
<1> QED
  BY <1>1, <1>3, <1>4, <1>5

LEMMA CheckTypes ==
    ASSUME NEW d \in Detector
    PROVE  Check(d) \in Fed /\ SameFences(d, Check(d).detector)
<1> DEFINE exact == DetectExact(d)
           frequent == IF exact # None THEN Result(d, exact) ELSE DetectNearDuplicate(d)
           later == [frequent.detector EXCEPT
                        !.nextLowNoveltyCheckAt = d.analyzed + NoveltyInterval]
<1>1. frequent.detector \in Detector /\ SameFences(d, frequent.detector)
  <2>1. SameFences(d, d)
    BY DEF SameFences
  <2> QED
    BY <2>1, NearTypes DEF Result
<1>2. Check(d) = frequent \/ Check(d) = Result(later, DetectLowNovelty(later))
  BY DEF Check
<1>3. Check(d) = [detector |-> Check(d).detector, detection |-> Check(d).detection]
  <2>1. DetectNearDuplicate(d) = [detector |-> DetectNearDuplicate(d).detector,
                                  detection |-> DetectNearDuplicate(d).detection]
    BY DEF DetectNearDuplicate, Result
  <2>2. frequent = [detector |-> frequent.detector, detection |-> frequent.detection]
    BY <2>1 DEF Result
  <2> HIDE DEF frequent, later
  <2> QED
    BY <1>2, <2>2 DEF Result
<1> HIDE DEF frequent
<1>4. later \in Detector /\ SameFences(d, later)
  <2>1. NoveltyInterval \in Nat
    BY NumberAssumption
  <2>2. d.analyzed \in Nat
    BY DEF Detector
  <2>3. d.analyzed + NoveltyInterval \in Nat
    BY <2>1, <2>2
  <2>4. later \in Detector
    BY <2>3, <1>1 DEF Detector
  <2>5. SameFences(frequent.detector, later)
    BY <1>1 DEF Detector, SameFences
  <2> QED
    BY <2>4, <2>5, <1>1 DEF SameFences
<1> HIDE DEF later
<1>5. Check(d).detector \in Detector /\ SameFences(d, Check(d).detector)
  BY <1>1, <1>2, <1>4 DEF Result
<1>6. Check(d).detection \in {Check(e).detection : e \in Detector}
  OBVIOUS
<1> QED
  BY <1>3, <1>5, <1>6 DEF Fed

--------------------------------------------------------------------------------
(* Tails of texts.                                                         *)

(* Cutting a text leaves the front and the rest of it.                     *)
LEMMA CutText ==
    ASSUME NEW C, NEW s \in Seq(C), NEW n \in 0..Len(s)
    PROVE  /\ SubSeq(s, 1, n) \in Seq(C) /\ Len(SubSeq(s, 1, n)) = n
           /\ \A i \in 1..n : SubSeq(s, 1, n)[i] = s[i]
           /\ SubSeq(s, n + 1, Len(s)) \in Seq(C) /\ Len(SubSeq(s, n + 1, Len(s))) = Len(s) - n
           /\ \A i \in 1..Len(s) - n : SubSeq(s, n + 1, Len(s))[i] = s[n + i]
           /\ SubSeq(s, 1, n) \o SubSeq(s, n + 1, Len(s)) = s
<1>1. Len(s) \in Nat /\ n \in Int /\ n + 1 \in Int /\ Len(s) \in Int /\ 1 \in Int
  OBVIOUS
<1>2. \A i \in 1..n : s[i] \in C
  <2>1. \A i \in 1..n : i \in 1..Len(s)
    BY <1>1
  <2> QED
    BY <2>1, ElementOfSeq
<1>3. \A i \in n + 1..Len(s) : s[i] \in C
  <2>1. \A i \in n + 1..Len(s) : i \in 1..Len(s)
    BY <1>1
  <2> QED
    BY <2>1, ElementOfSeq
<1> DEFINE u == SubSeq(s, 1, n)
           v == SubSeq(s, n + 1, Len(s))
<1>4. /\ u \in Seq(C) /\ Len(u) = IF 1 <= n THEN n - 1 + 1 ELSE 0
      /\ \A i \in 1..n - 1 + 1 : u[i] = s[1 + i - 1]
  BY <1>1, <1>2, SubSeqProperties
<1>5. /\ v \in Seq(C) /\ Len(v) = IF n + 1 <= Len(s) THEN Len(s) - (n + 1) + 1 ELSE 0
      /\ \A i \in 1..Len(s) - (n + 1) + 1 : v[i] = s[n + 1 + i - 1]
  BY <1>1, <1>3, SubSeqProperties
<1> HIDE DEF u, v
<1>6. Len(u) = n /\ Len(v) = Len(s) - n
  BY <1>1, <1>4, <1>5
<1>7. \A i \in 1..n : u[i] = s[i]
  <2>1. \A i \in 1..n : i \in 1..n - 1 + 1 /\ 1 + i - 1 = i
    BY <1>1
  <2> QED
    BY <2>1, <1>4
<1>8. \A i \in 1..Len(s) - n : v[i] = s[n + i]
  <2>1. \A i \in 1..Len(s) - n : i \in 1..Len(s) - (n + 1) + 1 /\ n + 1 + i - 1 = n + i
    BY <1>1
  <2> QED
    BY <2>1, <1>5
<1>9. u \o v = s
  <2>1. SubSeq(s, 1, n) \o SubSeq(s, n + 1, Len(s)) = SubSeq(s, 1, Len(s))
    <3>1. 1 \in 1..Len(s) + 1 /\ n \in 1 - 1..Len(s) /\ Len(s) \in n..Len(s)
      BY <1>1
    <3> QED
      BY <3>1, ConcatAdjacentSubSeq
  <2> QED
    BY <2>1, SubSeqFull DEF u, v
<1> QED
  BY <1>4, <1>5, <1>6, <1>7, <1>8, <1>9 DEF u, v

LEMMA JoinText ==
    ASSUME NEW C, NEW s \in Seq(C), NEW t \in Seq(C)
    PROVE  /\ s \o t \in Seq(C) /\ Len(s \o t) = Len(s) + Len(t)
           /\ \A i \in 1..Len(s) : (s \o t)[i] = s[i]
           /\ \A i \in 1..Len(t) : (s \o t)[Len(s) + i] = t[i]
<1>1. Len(s) \in Nat /\ Len(t) \in Nat
  OBVIOUS
<1>2. /\ s \o t \in Seq(C) /\ Len(s \o t) = Len(s) + Len(t)
      /\ \A i \in 1..Len(s) + Len(t) : (s \o t)[i] = IF i <= Len(s) THEN s[i] ELSE t[i - Len(s)]
  BY ConcatProperties
<1>3. \A i \in 1..Len(s) : i \in 1..Len(s) + Len(t) /\ i <= Len(s)
  BY <1>1
<1>4. \A i \in 1..Len(t) : /\ Len(s) + i \in 1..Len(s) + Len(t)
                           /\ ~(Len(s) + i <= Len(s)) /\ Len(s) + i - Len(s) = i
  BY <1>1
<1>5. \A i \in 1..Len(s) : (s \o t)[i] = s[i]
  BY <1>2, <1>3
<1>6. \A i \in 1..Len(t) : (s \o t)[Len(s) + i] = t[i]
  BY <1>2, <1>4
<1> QED
  BY <1>2, <1>5, <1>6

LEMMA JoinThree ==
    ASSUME NEW C, NEW s \in Seq(C), NEW t \in Seq(C), NEW u \in Seq(C)
    PROVE  (s \o t) \o u = s \o (t \o u)
BY ConcatAssociative

(* Two ways to cut the same text in the same place.                        *)
LEMMA CutJoined ==
    ASSUME NEW C, NEW s \in Seq(C), NEW t \in Seq(C), NEW n \in 0..Len(t)
    PROVE  /\ SubSeq(s \o t, 1, Len(s) + n) = s \o SubSeq(t, 1, n)
           /\ SubSeq(s \o t, Len(s) + n + 1, Len(s \o t)) = SubSeq(t, n + 1, Len(t))
<1>1. Len(s) \in Nat /\ Len(t) \in Nat /\ n \in Nat
  OBVIOUS
<1> DEFINE u == s \o t
           f == SubSeq(t, 1, n)
           r == SubSeq(t, n + 1, Len(t))
           N == Len(s) + n
<1>2. /\ u \in Seq(C) /\ Len(u) = Len(s) + Len(t)
      /\ \A i \in 1..Len(s) : u[i] = s[i]
      /\ \A i \in 1..Len(t) : u[Len(s) + i] = t[i]
  BY JoinText
<1>3. /\ f \in Seq(C) /\ Len(f) = n /\ \A i \in 1..n : f[i] = t[i]
      /\ r \in Seq(C) /\ Len(r) = Len(t) - n /\ \A i \in 1..Len(t) - n : r[i] = t[n + i]
  BY CutText
<1>4. /\ s \o f \in Seq(C) /\ Len(s \o f) = N
      /\ \A i \in 1..Len(s) : (s \o f)[i] = s[i]
      /\ \A i \in 1..n : (s \o f)[Len(s) + i] = f[i]
  <2>1. Len(f) = n
    BY <1>3
  <2>3. f \in Seq(C)
    BY <1>3
  <2> HIDE DEF f
  <2>2. /\ s \o f \in Seq(C) /\ Len(s \o f) = Len(s) + Len(f)
        /\ \A i \in 1..Len(s) : (s \o f)[i] = s[i]
        /\ \A i \in 1..Len(f) : (s \o f)[Len(s) + i] = f[i]
    BY <2>3, JoinText
  <2> QED
    BY <2>1, <2>2
<1> HIDE DEF u, f, r
<1>5. /\ SubSeq(u, 1, N) \in Seq(C) /\ Len(SubSeq(u, 1, N)) = N
      /\ \A i \in 1..N : SubSeq(u, 1, N)[i] = u[i]
      /\ SubSeq(u, N + 1, Len(u)) \in Seq(C) /\ Len(SubSeq(u, N + 1, Len(u))) = Len(u) - N
      /\ \A i \in 1..Len(u) - N : SubSeq(u, N + 1, Len(u))[i] = u[N + i]
  <2>1. N \in 0..Len(u)
    BY <1>1, <1>2
  <2> HIDE DEF N
  <2> QED
    BY <2>1, <1>2, CutText
<1>6. SubSeq(u, 1, N) = s \o f
  <2>1. ASSUME NEW i \in 1..N PROVE SubSeq(u, 1, N)[i] = (s \o f)[i]
    <3>1. CASE i <= Len(s)
      <4>1. i \in 1..Len(s)
        BY <3>1, <1>1
      <4> QED
        BY <4>1, <1>2, <1>4, <1>5
    <3>2. CASE ~(i <= Len(s))
      <4>1. i - Len(s) \in 1..n /\ i - Len(s) \in 1..Len(t) /\ i = Len(s) + (i - Len(s))
        BY <3>2, <1>1
      <4> DEFINE j == i - Len(s)
      <4>2. (s \o f)[Len(s) + j] = t[j] /\ u[Len(s) + j] = t[j]
        BY <4>1, <1>2, <1>3, <1>4
      <4> QED
        BY <4>1, <4>2, <1>5
    <3> QED
      BY <3>1, <3>2
  <2> HIDE DEF N
  <2> QED
    BY <2>1, <1>4, <1>5, SeqEqual
<1>7. SubSeq(u, N + 1, Len(u)) = r
  <2>1. Len(u) - N = Len(t) - n
    BY <1>1, <1>2
  <2>2. ASSUME NEW i \in 1..Len(t) - n PROVE SubSeq(u, N + 1, Len(u))[i] = r[i]
    <3>1. n + i \in 1..Len(t) /\ N + i = Len(s) + (n + i)
      BY <1>1
    <3>2. u[Len(s) + (n + i)] = t[n + i]
      BY <3>1, <1>2
    <3>3. SubSeq(u, N + 1, Len(u))[i] = u[N + i]
      BY <2>1, <1>5
    <3> QED
      BY <3>1, <3>2, <3>3, <1>3
  <2> DEFINE w == SubSeq(u, N + 1, Len(u))
  <2> HIDE DEF N
  <2>3. w \in Seq(C) /\ r \in Seq(C) /\ Len(w) = Len(t) - n /\ Len(r) = Len(t) - n
    BY <2>1, <1>3, <1>5
  <2>4. \A i \in 1..Len(w) : w[i] = r[i]
    BY <2>2, <2>3
  <2> HIDE DEF w
  <2>5. w = r
    BY <2>3, <2>4, SeqEqual
  <2> QED
    BY <2>5 DEF w
<1> QED
  BY <1>6, <1>7 DEF u, f, r

LEMMA KeepTailTypes ==
    ASSUME NEW C, NEW s \in Seq(C), NEW n \in Nat
    PROVE  /\ KeepTail(s, n) \in Seq(C)
           /\ Len(KeepTail(s, n)) = IF Len(s) <= n THEN Len(s) ELSE n
           /\ \A i \in 1..Len(KeepTail(s, n)) :
                  KeepTail(s, n)[i] = s[Len(s) - Len(KeepTail(s, n)) + i]
<1>1. Len(s) \in Nat
  OBVIOUS
<1>2. CASE Len(s) <= n
  <2>1. KeepTail(s, n) = s
    BY <1>2 DEF KeepTail
  <2>2. \A i \in 1..Len(s) : Len(s) - Len(s) + i = i
    BY <1>1
  <2> QED
    BY <2>1, <2>2, <1>2
<1>3. CASE ~(Len(s) <= n)
  <2> DEFINE m == Len(s) - n
  <2>1. m \in 0..Len(s) /\ Len(s) - m = n
    BY <1>1, <1>3
  <2>2. KeepTail(s, n) = SubSeq(s, m + 1, Len(s))
    BY <1>3 DEF KeepTail
  <2> HIDE DEF m
  <2>3. /\ SubSeq(s, m + 1, Len(s)) \in Seq(C) /\ Len(SubSeq(s, m + 1, Len(s))) = Len(s) - m
        /\ \A i \in 1..Len(s) - m : SubSeq(s, m + 1, Len(s))[i] = s[m + i]
    BY <2>1, CutText
  <2>4. Len(s) - n = m
    BY DEF m
  <2> QED
    BY <2>1, <2>2, <2>3, <2>4, <1>3
<1> QED
  BY <1>2, <1>3

(* What is kept of a text does not depend on how it came.                  *)
LEMMA KeepTailOfTail ==
    ASSUME NEW C, NEW s \in Seq(C), NEW t \in Seq(C), NEW n \in Nat
    PROVE  KeepTail(KeepTail(s, n) \o t, n) = KeepTail(s \o t, n)
<1> DEFINE k == KeepTail(s, n)
           u == s \o t
           v == k \o t
<1>1. /\ k \in Seq(C) /\ Len(k) = IF Len(s) <= n THEN Len(s) ELSE n
      /\ \A i \in 1..Len(k) : k[i] = s[Len(s) - Len(k) + i]
  BY KeepTailTypes
<1> HIDE DEF k
<1>2. /\ u \in Seq(C) /\ Len(u) = Len(s) + Len(t)
      /\ \A i \in 1..Len(s) : u[i] = s[i]
      /\ \A i \in 1..Len(t) : u[Len(s) + i] = t[i]
  BY JoinText
<1>3. /\ v \in Seq(C) /\ Len(v) = Len(k) + Len(t)
      /\ \A i \in 1..Len(k) : v[i] = k[i]
      /\ \A i \in 1..Len(t) : v[Len(k) + i] = t[i]
  <2>1. k \in Seq(C)
    BY <1>1
  <2> QED
    BY <2>1, JoinText
<1> HIDE DEF u, v
<1>4. Len(s) \in Nat /\ Len(t) \in Nat /\ Len(k) \in Nat
  BY <1>1
<1> DEFINE a == KeepTail(v, n)
           b == KeepTail(u, n)
<1>5. /\ a \in Seq(C) /\ Len(a) = IF Len(v) <= n THEN Len(v) ELSE n
      /\ \A i \in 1..Len(a) : a[i] = v[Len(v) - Len(a) + i]
  <2>1. v \in Seq(C)
    BY <1>3
  <2> QED
    BY <2>1, KeepTailTypes
<1>6. /\ b \in Seq(C) /\ Len(b) = IF Len(u) <= n THEN Len(u) ELSE n
      /\ \A i \in 1..Len(b) : b[i] = u[Len(u) - Len(b) + i]
  <2>1. u \in Seq(C)
    BY <1>2
  <2> QED
    BY <2>1, KeepTailTypes
<1> HIDE DEF a, b
<1>7. Len(a) = Len(b) /\ Len(a) <= Len(v) /\ Len(b) <= Len(u) /\ Len(a) \in Nat
  BY <1>1, <1>2, <1>3, <1>4, <1>5, <1>6
<1>8. ASSUME NEW i \in 1..Len(v) PROVE v[i] = u[Len(u) - Len(v) + i]
  <2>1. CASE i <= Len(k)
    <3>1. i \in 1..Len(k) /\ Len(s) - Len(k) + i \in 1..Len(s)
          /\ Len(u) - Len(v) + i = Len(s) - Len(k) + i
      BY <2>1, <1>1, <1>2, <1>3, <1>4
    <3>2. v[i] = s[Len(s) - Len(k) + i]
      BY <3>1, <1>1, <1>3
    <3> QED
      BY <3>1, <3>2, <1>2
  <2>2. CASE ~(i <= Len(k))
    <3> DEFINE j == i - Len(k)
    <3>1. j \in 1..Len(t) /\ i = Len(k) + j /\ Len(u) - Len(v) + i = Len(s) + j
      BY <2>2, <1>2, <1>3, <1>4
    <3> HIDE DEF j
    <3>2. v[Len(k) + j] = t[j] /\ u[Len(s) + j] = t[j]
      BY <3>1, <1>2, <1>3
    <3> QED
      BY <3>1, <3>2
  <2> QED
    BY <2>1, <2>2
<1>9. ASSUME NEW i \in 1..Len(a) PROVE a[i] = b[i]
  <2> DEFINE j == Len(v) - Len(a) + i
  <2>1. j \in 1..Len(v) /\ Len(u) - Len(v) + j = Len(u) - Len(b) + i /\ i \in 1..Len(b)
    BY <1>2, <1>3, <1>4, <1>7
  <2>2. a[i] = v[j]
    BY <1>5
  <2> HIDE DEF j
  <2>3. v[j] = u[Len(u) - Len(v) + j]
    BY <2>1, <1>8
  <2> QED
    BY <2>1, <2>2, <2>3, <1>6
<1> QED
  BY <1>5, <1>6, <1>7, <1>9, SeqEqual DEF a, b, u, v, k

--------------------------------------------------------------------------------
(* appendUnchecked and the check that may follow.                          *)

LEMMA UncheckedTypes ==
    ASSUME NEW d \in Detector, NEW s \in Seq(Char)
    PROVE  /\ AppendUnchecked(d, s) \in Detector
           /\ SameFences(d, AppendUnchecked(d, s))
           /\ AppendUnchecked(d, s).analyzed = d.analyzed + Len(s)
           /\ AppendUnchecked(d, s).nextCheckAt = d.nextCheckAt
<1>1. /\ d.absolute \in Nat /\ d.analyzed \in Nat /\ Len(s) \in Nat
      /\ d.exactTail \in Seq(Char) /\ d.lowNoveltyText \in Seq(Char)
  BY DEF Detector
<1>2. 2 * ExactMaxPeriod \in Nat /\ NoveltyPrevious + NoveltyRecent \in Nat
  <2>1. ExactMaxPeriod \in Nat /\ NoveltyPrevious \in Nat /\ NoveltyRecent \in Nat
    BY NumberAssumption
  <2> QED
    BY <2>1
<1> DEFINE exact == KeepTail(d.exactTail \o s, 2 * ExactMaxPeriod)
           novel == KeepTail(d.lowNoveltyText \o s, NoveltyPrevious + NoveltyRecent)
           far == d.absolute + Len(s)
           done == d.analyzed + Len(s)
<1>3. exact \in Seq(Char) /\ novel \in Seq(Char)
  <2>1. d.exactTail \o s \in Seq(Char) /\ d.lowNoveltyText \o s \in Seq(Char)
    BY <1>1, JoinText
  <2> QED
    BY <2>1, <1>2, KeepTailTypes
<1>4. far \in Nat /\ done \in Nat
  BY <1>1
<1> DEFINE e == [d EXCEPT !.absolute = far, !.analyzed = done,
                          !.exactTail = exact, !.lowNoveltyText = novel]
<1>5. AppendUnchecked(d, s) = e
  BY DEF AppendUnchecked
<1> HIDE DEF exact, novel, far, done
<1>6. e \in Detector
  BY <1>3, <1>4 DEF Detector
<1>7. SameFences(d, e) /\ e.analyzed = done /\ e.nextCheckAt = d.nextCheckAt
  BY DEF SameFences, Detector
<1> HIDE DEF e
<1> QED
  BY <1>5, <1>6, <1>7 DEF done

LEMMA UncheckedTwice ==
    ASSUME NEW d \in Detector, NEW s \in Seq(Char), NEW t \in Seq(Char)
    PROVE  AppendUnchecked(AppendUnchecked(d, s), t) = AppendUnchecked(d, s \o t)
<1>1. /\ d.absolute \in Nat /\ d.analyzed \in Nat /\ Len(s) \in Nat /\ Len(t) \in Nat
      /\ d.exactTail \in Seq(Char) /\ d.lowNoveltyText \in Seq(Char)
  BY DEF Detector
<1>2. 2 * ExactMaxPeriod \in Nat /\ NoveltyPrevious + NoveltyRecent \in Nat
  <2>1. ExactMaxPeriod \in Nat /\ NoveltyPrevious \in Nat /\ NoveltyRecent \in Nat
    BY NumberAssumption
  <2> QED
    BY <2>1
<1> DEFINE X == 2 * ExactMaxPeriod
           N == NoveltyPrevious + NoveltyRecent
           exact == KeepTail(d.exactTail \o s, X)
           novel == KeepTail(d.lowNoveltyText \o s, N)
           exact2 == KeepTail(d.exactTail \o (s \o t), X)
           novel2 == KeepTail(d.lowNoveltyText \o (s \o t), N)
           far == d.absolute + Len(s)
           done == d.analyzed + Len(s)
           far2 == d.absolute + Len(s \o t)
           done2 == d.analyzed + Len(s \o t)
<1>3. ASSUME NEW q \in Seq(Char), NEW n \in Nat
      PROVE  KeepTail(KeepTail(q \o s, n) \o t, n) = KeepTail(q \o (s \o t), n)
  <2> DEFINE u == q \o s
  <2>1. u \in Seq(Char)
    BY JoinText
  <2>2. u \o t = q \o (s \o t)
    BY JoinThree, SMTT(30)
  <2> HIDE DEF u
  <2>3. KeepTail(KeepTail(u, n) \o t, n) = KeepTail(u \o t, n)
    BY <2>1, KeepTailOfTail
  <2> QED
    BY <2>2, <2>3 DEF u
<1>4. KeepTail(exact \o t, X) = exact2 /\ KeepTail(novel \o t, N) = novel2
  BY <1>1, <1>2, <1>3
<1>5. far + Len(t) = far2 /\ done + Len(t) = done2
  <2>1. Len(s \o t) = Len(s) + Len(t)
    BY JoinText
  <2> QED
    BY <2>1, <1>1
<1> DEFINE e == [d EXCEPT !.absolute = far, !.analyzed = done,
                          !.exactTail = exact, !.lowNoveltyText = novel]
           g == [d EXCEPT !.absolute = far2, !.analyzed = done2,
                          !.exactTail = exact2, !.lowNoveltyText = novel2]
<1>6. AppendUnchecked(d, s) = e /\ AppendUnchecked(d, s \o t) = g
  BY DEF AppendUnchecked
<1>7. AppendUnchecked(e, t) = [e EXCEPT !.absolute = e.absolute + Len(t),
                                        !.analyzed = e.analyzed + Len(t),
                                        !.exactTail = KeepTail(e.exactTail \o t, X),
                                        !.lowNoveltyText = KeepTail(e.lowNoveltyText \o t, N)]
  BY DEF AppendUnchecked
<1> HIDE DEF X, N, exact, novel, exact2, novel2, far, done, far2, done2
<1>8. /\ e.absolute = far /\ e.analyzed = done
      /\ e.exactTail = exact /\ e.lowNoveltyText = novel
  BY DEF Detector
<1>9. [e EXCEPT !.absolute = far2, !.analyzed = done2,
                !.exactTail = exact2, !.lowNoveltyText = novel2] = g
  BY DEF Detector
<1> HIDE DEF e, g
<1> QED
  BY <1>4, <1>5, <1>6, <1>7, <1>8, <1>9

LEMMA FedIsResult ==
    /\ \A d \in Detector : Result(d, None) \in Fed
    /\ \A r \in Fed : /\ r = Result(r.detector, r.detection) /\ r.detector \in Detector
                      /\ \A e \in Detector : Result(e, r.detection) \in Fed
<1>1. \A d : Result(d, None) = [detector |-> d, detection |-> None]
  BY DEF Result
<1> QED
  BY <1>1 DEF Fed, Result

LEMMA ResultParts ==
    \A d, f : Result(d, f).detector = d /\ Result(d, f).detection = f
BY DEF Result

LEMMA DueTypes ==
    ASSUME NEW d \in Detector
    PROVE  /\ CheckIfDue(d) \in Fed /\ SameFences(d, CheckIfDue(d).detector)
           /\ d.analyzed < d.nextCheckAt => CheckIfDue(d) = Result(d, None)
<1>1. CASE d.analyzed < d.nextCheckAt
  <2>1. CheckIfDue(d) = Result(d, None)
    BY <1>1 DEF CheckIfDue
  <2>2. SameFences(d, d)
    BY DEF SameFences
  <2> QED
    BY <2>1, <2>2, FedIsResult, ResultParts
<1>2. CASE ~(d.analyzed < d.nextCheckAt)
  <2> DEFINE next == d.nextCheckAt + CheckInterval
             e == [d EXCEPT !.nextCheckAt = next]
  <2>1. next \in Nat
    <3>1. d.nextCheckAt \in Nat /\ CheckInterval \in Nat
      BY NumberAssumption DEF Detector
    <3> QED
      BY <3>1
  <2>2. CheckIfDue(d) = Check(e)
    BY <1>2 DEF CheckIfDue
  <2> HIDE DEF next
  <2>3. e \in Detector /\ SameFences(d, e)
    BY <2>1 DEF Detector, SameFences
  <2> HIDE DEF e
  <2>4. Check(e) \in Fed /\ SameFences(e, Check(e).detector)
    BY <2>3, CheckTypes
  <2>5. SameFences(d, Check(e).detector)
    BY <2>3, <2>4 DEF SameFences
  <2> QED
    BY <1>2, <2>2, <2>4, <2>5
<1> QED
  BY <1>1, <1>2

--------------------------------------------------------------------------------
(* appendAnalyzed.                                                         *)

LoopState == [fed : Fed, rest : Seq(Char)]
OverStates == {x \in LoopState : Over(x)}
Left == [x \in LoopState |-> Len(x.rest)]

LEMMA LoopStates ==
    /\ \A x \in LoopState : /\ x.fed \in Fed /\ x.fed.detector \in Detector
                            /\ x.rest \in Seq(Char) /\ Len(x.rest) \in Nat
                            /\ x = [fed |-> x.fed, rest |-> x.rest]
    /\ \A r \in Fed, s \in Seq(Char) : [fed |-> r, rest |-> s] \in LoopState
    /\ \A d \in Detector, s \in Seq(Char) :
          /\ Begin(d, s) \in LoopState /\ Begin(d, s).rest = s
          /\ Begin(d, s).fed = Result(d, None)
          /\ Over(Begin(d, s)) <=> s = <<>>
    /\ \A x \in LoopState : x.fed.detection = None => x = Begin(x.fed.detector, x.rest)
<1>1. \A x \in LoopState : x.fed \in Fed /\ x.rest \in Seq(Char)
                           /\ x = [fed |-> x.fed, rest |-> x.rest]
  BY DEF LoopState
<1>2. \A x \in LoopState : x.fed.detector \in Detector /\ Len(x.rest) \in Nat
  BY <1>1, FedIsResult, LenProperties
<1>3. \A r \in Fed, s \in Seq(Char) : [fed |-> r, rest |-> s] \in LoopState
  BY DEF LoopState
<1>4. \A d, s : Begin(d, s).rest = s /\ Begin(d, s).fed = Result(d, None)
  BY DEF Begin
<1>5. \A d \in Detector, s \in Seq(Char) : Begin(d, s) \in LoopState
  BY <1>3, FedIsResult DEF Begin
<1>6. \A d, s : Over(Begin(d, s)) <=> s = <<>>
  BY <1>4, ResultParts DEF Over
<1>7. \A x \in LoopState : x.fed.detection = None => x = Begin(x.fed.detector, x.rest)
  BY <1>1, FedIsResult DEF Begin
<1> QED
  BY <1>1, <1>2, <1>3, <1>4, <1>5, <1>6, <1>7

(* The length of the part up to the next check.                            *)
Until(d) == IF d.nextCheckAt > d.analyzed THEN d.nextCheckAt - d.analyzed ELSE 1
PartOf(d, s) == IF Until(d) < Len(s) THEN Until(d) ELSE Len(s)

LEMMA PartTypes ==
    ASSUME NEW d \in Detector, NEW s \in Seq(Char), s # <<>>
    PROVE  Until(d) \in Nat \ {0} /\ PartOf(d, s) \in 1..Len(s)
<1>1. d.nextCheckAt \in Nat /\ d.analyzed \in Nat
  BY DEF Detector
<1>2. Until(d) \in Nat \ {0}
  BY <1>1 DEF Until
<1>3. Len(s) \in Nat \ {0}
  BY EmptySeq
<1> QED
  BY <1>2, <1>3 DEF PartOf

LEMMA AnalyzePartOf ==
    ASSUME NEW d \in Detector, NEW s \in Seq(Char), s # <<>>
    PROVE  AnalyzePart(Begin(d, s)) =
               [fed |-> CheckIfDue(AppendUnchecked(d, SubSeq(s, 1, PartOf(d, s)))),
                rest |-> SubSeq(s, PartOf(d, s) + 1, Len(s))]
<1>1. ~Over(Begin(d, s)) /\ Begin(d, s).rest = s /\ Begin(d, s).fed = Result(d, None)
  BY LoopStates
<1>2. Begin(d, s).fed.detector = d
  BY <1>1, ResultParts
<1> QED
  BY <1>1, <1>2 DEF AnalyzePart, PartOf, Until

LEMMA AnalyzePartTypes ==
    ASSUME NEW x \in LoopState
    PROVE  /\ AnalyzePart(x) \in LoopState
           /\ Over(x) => AnalyzePart(x) = x
           /\ ~Over(x) => Len(AnalyzePart(x).rest) < Len(x.rest)
           /\ SameFences(x.fed.detector, AnalyzePart(x).fed.detector)
<1>1. CASE Over(x)
  <2>1. AnalyzePart(x) = x
    BY <1>1 DEF AnalyzePart
  <2> QED
    BY <2>1, <1>1 DEF SameFences
<1>2. CASE ~Over(x)
  <2> DEFINE d == x.fed.detector
             s == x.rest
             n == PartOf(d, s)
             e == AppendUnchecked(d, SubSeq(s, 1, n))
  <2>1. d \in Detector /\ s \in Seq(Char) /\ s # <<>> /\ x = Begin(d, s) /\ Len(s) \in Nat
    BY <1>2, LoopStates DEF Over
  <2>2. AnalyzePart(x) = [fed |-> CheckIfDue(e), rest |-> SubSeq(s, n + 1, Len(s))]
    <3> HIDE DEF d, s
    <3> QED
      BY <2>1, AnalyzePartOf
  <2> HIDE DEF d, s
  <2>3. n \in 1..Len(s)
    BY <2>1, PartTypes
  <2> HIDE DEF n
  <2>4. /\ SubSeq(s, 1, n) \in Seq(Char) /\ SubSeq(s, n + 1, Len(s)) \in Seq(Char)
        /\ Len(SubSeq(s, n + 1, Len(s))) = Len(s) - n
    <3>1. n \in 0..Len(s)
      BY <2>3
    <3> QED
      BY <2>1, <3>1, CutText
  <2>5. e \in Detector /\ SameFences(d, e)
    BY <2>1, <2>4, UncheckedTypes
  <2> HIDE DEF e
  <2>6. CheckIfDue(e) \in Fed /\ SameFences(e, CheckIfDue(e).detector)
    BY <2>5, DueTypes
  <2>7. AnalyzePart(x) \in LoopState
    BY <2>2, <2>4, <2>6, LoopStates
  <2>8. Len(AnalyzePart(x).rest) < Len(s)
    <3>1. Len(s) - n < Len(s)
      BY <2>1, <2>3
    <3> QED
      BY <3>1, <2>2, <2>4
  <2>9. SameFences(d, AnalyzePart(x).fed.detector)
    BY <2>2, <2>5, <2>6 DEF SameFences
  <2> QED
    BY <1>2, <2>7, <2>8, <2>9 DEF d, s
<1> QED
  BY <1>1, <1>2

Analyze == [x \in LoopState |-> AnalyzePart(x)]

LEMMA AnalyzeCloser == Closer(Analyze, Left, OverStates, LoopState)
<1>1. Analyze \in [LoopState -> LoopState]
  BY AnalyzePartTypes DEF Analyze
<1>2. Left \in [LoopState -> Nat]
  BY LoopStates DEF Left
<1>3. \A x \in LoopState : x \in OverStates => Analyze[x] = x
  BY AnalyzePartTypes DEF Analyze, OverStates
<1>4. \A x \in LoopState : x \notin OverStates => Left[Analyze[x]] < Left[x]
  BY AnalyzePartTypes DEF Analyze, OverStates, Left
<1> QED
  BY <1>1, <1>2, <1>3, <1>4 DEF Closer

LEMMA AnalyzeRounds ==
    ASSUME NEW x \in LoopState, NEW n \in Nat
    PROVE  \E g : Rounds(g, n, Analyze, x, LoopState) /\ Loop(AnalyzePart, x, n) = g[n]
<1> DEFINE Is(g) == g = [k \in 0..n |-> IF k = 0 THEN x ELSE AnalyzePart(g[k - 1])]
<1>1. PICK f : Rounds(f, n, Analyze, x, LoopState)
  BY AnalyzeCloser, RoundsExist DEF Closer
<1>2. /\ f \in [0..n -> LoopState] /\ f[0] = x
      /\ \A k \in 1..n : f[k] = Analyze[f[k - 1]]
  BY <1>1 DEF Rounds
<1>3. Is(f)
  <2>1. ASSUME NEW k \in 0..n PROVE f[k] = IF k = 0 THEN x ELSE AnalyzePart(f[k - 1])
    <3>1. CASE k = 0
      BY <3>1, <1>2
    <3>2. CASE k # 0
      <4>1. k \in 1..n /\ k - 1 \in 0..n
        BY <3>2
      <4>2. f[k - 1] \in LoopState /\ f[k] = Analyze[f[k - 1]]
        BY <4>1, <1>2
      <4> QED
        BY <4>2, <3>2 DEF Analyze
    <3> QED
      BY <3>1, <3>2
  <2> QED
    BY <2>1, <1>2
<1>4. Loop(AnalyzePart, x, n) = (CHOOSE g : Is(g))[n]
  BY DEF Loop
<1>5. PICK h : h = CHOOSE g : Is(g)
  OBVIOUS
<1>6. Is(h)
  <2> HIDE DEF Is
  <2> QED
    BY <1>3, <1>5
<1>7. h[0] = x /\ \A k \in 1..n : h[k] = AnalyzePart(h[k - 1])
  <2>1. \A k \in 0..n : h[k] = IF k = 0 THEN x ELSE AnalyzePart(h[k - 1])
    BY <1>6
  <2>2. 0 \in 0..n /\ \A k \in 1..n : k \in 0..n /\ k # 0
    OBVIOUS
  <2> QED
    BY <2>1, <2>2
<1>8. \A k \in 1..n : h[k - 1] \in LoopState => h[k] = Analyze[h[k - 1]]
  BY <1>7 DEF Analyze
<1> HIDE DEF Is
<1>9. h[n] = f[n]
  <2>1. Analyze \in [LoopState -> LoopState]
    BY AnalyzeCloser DEF Closer
  <2> QED
    BY <2>1, <1>1, <1>7, <1>8, RoundsAgree
<1> QED
  BY <1>1, <1>4, <1>5, <1>9

LEMMA AnalyzedEnds ==
    ASSUME NEW x \in LoopState, NEW n \in Nat, Over(x)
    PROVE  Loop(AnalyzePart, x, n) = x
<1>1. PICK g : Rounds(g, n, Analyze, x, LoopState) /\ Loop(AnalyzePart, x, n) = g[n]
  BY AnalyzeRounds
<1>2. x \in OverStates
  BY DEF OverStates
<1>3. g[n] = x
  BY <1>1, <1>2, AnalyzeCloser, RoundsStay
<1> QED
  BY <1>1, <1>3

(* appendAnalyzed is its first part and then the rest.                     *)
LEMMA AnalyzedUnfolds ==
    ASSUME NEW d \in Detector, NEW s \in Seq(Char)
    PROVE  AppendAnalyzed(d, s) =
               IF s = <<>> THEN Result(d, None)
               ELSE LET x == AnalyzePart(Begin(d, s))
                    IN  IF x.fed.detection # None THEN x.fed
                        ELSE AppendAnalyzed(x.fed.detector, x.rest)
<1>1. Len(s) \in Nat /\ Begin(d, s) \in LoopState
  BY LoopStates
<1>2. CASE s = <<>>
  <2>1. Over(Begin(d, s)) /\ Begin(d, s).fed = Result(d, None)
    BY <1>2, LoopStates
  <2>2. Loop(AnalyzePart, Begin(d, s), Len(s)) = Begin(d, s)
    BY <1>1, <2>1, AnalyzedEnds
  <2> QED
    BY <1>2, <2>1, <2>2 DEF AppendAnalyzed
<1>3. CASE s # <<>>
  <2> DEFINE b == Begin(d, s)
             x == AnalyzePart(b)
             n == Len(x.rest)
  <2>1. x \in LoopState /\ n \in Nat /\ b.rest = s
    <3>1. x \in LoopState
      BY <1>1, AnalyzePartTypes
    <3> QED
      BY <3>1, LoopStates
  <2>2. Loop(AnalyzePart, b, Len(s)) = Loop(AnalyzePart, x, n)
    <3>1. PICK g : Rounds(g, Len(s), Analyze, b, LoopState) /\ Loop(AnalyzePart, b, Len(s)) = g[Len(s)]
      BY <1>1, AnalyzeRounds
    <3>2. PICK h : Rounds(h, n, Analyze, x, LoopState) /\ Loop(AnalyzePart, x, n) = h[n]
      BY <2>1, AnalyzeRounds
    <3>3. Analyze[b] = x /\ Left[b] <= Len(s) /\ Left[x] <= n
      BY <1>1, <2>1 DEF Analyze, Left
    <3> HIDE DEF b, x, n
    <3>4. b \in LoopState
      BY <1>1 DEF b
    <3>5. Rounds(h, n, Analyze, Analyze[b], LoopState) /\ Left[Analyze[b]] <= n
      BY <3>2, <3>3
    <3>6. g[Len(s)] = h[n]
      BY <1>1, <2>1, <3>1, <3>3, <3>4, <3>5, AnalyzeCloser, LoopUnfolds
    <3> QED
      BY <3>1, <3>2, <3>6
  <2>3. AppendAnalyzed(d, s) = Loop(AnalyzePart, x, n).fed
    BY <2>2 DEF AppendAnalyzed
  <2> HIDE DEF x
  <2>4. CASE x.fed.detection # None
    <3>1. Over(x)
      BY <2>4 DEF Over
    <3>2. Loop(AnalyzePart, x, n) = x
      BY <2>1, <3>1, AnalyzedEnds
    <3> QED
      BY <2>3, <2>4, <3>2, <1>3 DEF x
  <2>5. CASE x.fed.detection = None
    <3>1. x = Begin(x.fed.detector, x.rest)
      BY <2>1, <2>5, LoopStates
    <3>2. AppendAnalyzed(x.fed.detector, x.rest) = Loop(AnalyzePart, x, n).fed
      BY <3>1 DEF AppendAnalyzed
    <3> QED
      BY <2>3, <2>5, <3>2, <1>3 DEF x
  <2> QED
    BY <2>4, <2>5
<1> QED
  BY <1>2, <1>3

LEMMA AnalyzedTypes ==
    ASSUME NEW d \in Detector, NEW s \in Seq(Char)
    PROVE  /\ AppendAnalyzed(d, s) \in Fed
           /\ SameFences(d, AppendAnalyzed(d, s).detector)
<1> DEFINE Good(e, t) == /\ AppendAnalyzed(e, t) \in Fed
                         /\ SameFences(e, AppendAnalyzed(e, t).detector)
           T == {n \in Nat : \A e \in Detector, t \in Seq(Char) : Len(t) <= n => Good(e, t)}
<1>1. ASSUME NEW e \in Detector PROVE Good(e, <<>>)
  <2>1. AppendAnalyzed(e, <<>>) = Result(e, None)
    <3>1. <<>> \in Seq(Char)
      OBVIOUS
    <3> QED
      BY <3>1, AnalyzedUnfolds
  <2>2. SameFences(e, e)
    BY DEF SameFences
  <2> QED
    BY <2>1, <2>2, FedIsResult, ResultParts
<1>2. 0 \in T
  <2>1. ASSUME NEW e \in Detector, NEW t \in Seq(Char), Len(t) <= 0 PROVE Good(e, t)
    <3>1. t = <<>>
      BY <2>1, EmptySeq
    <3> QED
      BY <3>1, <1>1
  <2> HIDE DEF Good
  <2> QED
    BY <2>1
<1>3. ASSUME NEW n \in Nat, n \in T PROVE n + 1 \in T
  <2>1. ASSUME NEW e \in Detector, NEW t \in Seq(Char), Len(t) <= n + 1 PROVE Good(e, t)
    <3>1. CASE t = <<>>
      BY <3>1, <1>1
    <3>2. CASE t # <<>>
      <4> DEFINE x == AnalyzePart(Begin(e, t))
      <4>1. Begin(e, t) \in LoopState /\ Begin(e, t).rest = t /\ ~Over(Begin(e, t))
        BY <3>2, LoopStates
      <4>2. Begin(e, t).fed.detector = e
        BY LoopStates, ResultParts
      <4>3. x \in LoopState /\ Len(x.rest) < Len(t) /\ SameFences(e, x.fed.detector)
        BY <4>1, <4>2, AnalyzePartTypes
      <4>4. AppendAnalyzed(e, t) = IF x.fed.detection # None THEN x.fed
                                   ELSE AppendAnalyzed(x.fed.detector, x.rest)
        BY <3>2, AnalyzedUnfolds
      <4> HIDE DEF x
      <4>5. /\ x.fed \in Fed /\ x.fed.detector \in Detector /\ x.rest \in Seq(Char)
            /\ Len(x.rest) \in Nat /\ Len(t) \in Nat
        BY <4>3, LoopStates
      <4>6. Len(x.rest) <= n
        BY <4>3, <4>5, <2>1
      <4>7. Good(x.fed.detector, x.rest)
        BY <4>5, <4>6, <1>3
      <4>8. SameFences(x.fed.detector, AppendAnalyzed(x.fed.detector, x.rest).detector)
            => SameFences(e, AppendAnalyzed(x.fed.detector, x.rest).detector)
        BY <4>3 DEF SameFences
      <4> QED
        BY <4>3, <4>4, <4>5, <4>7, <4>8
    <3> QED
      BY <3>1, <3>2
  <2> HIDE DEF Good
  <2>2. n + 1 \in Nat
    OBVIOUS
  <2> QED
    BY <2>1, <2>2
<1> HIDE DEF T
<1>4. Len(s) \in T
  <2>1. Len(s) \in Nat
    OBVIOUS
  <2> QED
    BY <2>1, <1>2, <1>3, Induction
<1>5. Len(s) <= Len(s)
  OBVIOUS
<1> HIDE DEF Good
<1>6. Good(d, s)
  BY <1>4, <1>5 DEF T
<1> QED
  BY <1>6 DEF Good

(* A cut in the first of two texts.                                        *)
LEMMA CutFront ==
    ASSUME NEW C, NEW s \in Seq(C), NEW t \in Seq(C), NEW n \in 0..Len(s)
    PROVE  /\ SubSeq(s \o t, 1, n) = SubSeq(s, 1, n)
           /\ SubSeq(s \o t, n + 1, Len(s \o t)) = SubSeq(s, n + 1, Len(s)) \o t
<1> DEFINE f == SubSeq(s, 1, n)
           r == SubSeq(s, n + 1, Len(s))
           u == r \o t
<1>1. f \in Seq(C) /\ Len(f) = n /\ r \in Seq(C) /\ f \o r = s
  BY CutText
<1> HIDE DEF f, r
<1>2. u \in Seq(C)
  <2>1. r \in Seq(C)
    BY <1>1
  <2> QED
    BY <2>1, JoinText
<1>3. s \o t = f \o u
  <2>1. f \in Seq(C) /\ r \in Seq(C) /\ t \in Seq(C)
    BY <1>1
  <2>2. (f \o r) \o t = f \o (r \o t)
    BY <2>1, JoinThree, SMTT(30)
  <2> QED
    BY <2>2, <1>1
<1> HIDE DEF u
<1>4. 0 \in 0..Len(u) /\ n \in Nat
  <2>1. Len(u) \in Nat
    BY <1>2, LenProperties
  <2> QED
    BY <2>1
<1>5. /\ SubSeq(f \o u, 1, Len(f) + 0) = f \o SubSeq(u, 1, 0)
      /\ SubSeq(f \o u, Len(f) + 0 + 1, Len(f \o u)) = SubSeq(u, 0 + 1, Len(u))
  <2>1. f \in Seq(C)
    BY <1>1
  <2> QED
    BY <2>1, <1>2, <1>4, CutJoined
<1>6. SubSeq(u, 1, 0) = <<>> /\ SubSeq(u, 0 + 1, Len(u)) = u
  <2>1. SubSeq(u, 1, 0) = <<>>
    BY SubSeqEmpty
  <2>2. SubSeq(u, 1, Len(u)) = u
    BY <1>2, SubSeqFull
  <2> QED
    BY <2>1, <2>2
<1>7. f \o <<>> = f
  <2>1. f \in Seq(C)
    BY <1>1
  <2> QED
    BY <2>1, ConcatEmptySeq
<1>8. Len(f) + 0 = n
  BY <1>1, <1>4
<1> QED
  BY <1>3, <1>5, <1>6, <1>7, <1>8 DEF f, r, u

(* What more text makes of a result.                                       *)
AnalyzeOn(r, s) == IF r.detection # None THEN r ELSE AppendAnalyzed(r.detector, s)

(* A text that the next check is beyond of.                                *)
LEMMA AnalyzedBeforeCheck ==
    ASSUME NEW d \in Detector, NEW a \in Seq(Char), NEW b \in Seq(Char),
           a # <<>>, b # <<>>, Len(a) < Until(d)
    PROVE  /\ AppendAnalyzed(d, a) = Result(AppendUnchecked(d, a), None)
           /\ AppendAnalyzed(d, a \o b) = AppendAnalyzed(AppendUnchecked(d, a), b)
<1> DEFINE f == AppendUnchecked(d, a)
           U == Until(d)
           n == PartOf(f, b)
           p == SubSeq(b, 1, n)
<1>1. /\ Len(a) \in Nat \ {0} /\ Len(b) \in Nat \ {0} /\ U \in Nat
      /\ d.nextCheckAt \in Nat /\ d.analyzed \in Nat
  <2>1. Len(a) \in Nat \ {0} /\ Len(b) \in Nat \ {0}
    BY EmptySeq
  <2>2. U \in Nat
    BY PartTypes
  <2>3. d.nextCheckAt \in Nat /\ d.analyzed \in Nat
    BY DEF Detector
  <2> QED
    BY <2>1, <2>2, <2>3
<1>2. U = d.nextCheckAt - d.analyzed /\ d.nextCheckAt > d.analyzed
  BY <1>1 DEF Until
<1>3. f \in Detector /\ f.analyzed = d.analyzed + Len(a) /\ f.nextCheckAt = d.nextCheckAt
  BY UncheckedTypes
<1> HIDE DEF f
<1>4. f.analyzed < f.nextCheckAt /\ Until(f) = U - Len(a)
  BY <1>1, <1>2, <1>3 DEF Until
<1>5. AppendAnalyzed(d, a) = Result(f, None)
  <2>1. PartOf(d, a) = Len(a) /\ Len(a) \in 0..Len(a)
    BY <1>1 DEF PartOf
  <2>2. SubSeq(a, 1, Len(a)) = a /\ SubSeq(a, Len(a) + 1, Len(a)) = <<>>
    <3>1. SubSeq(a, 1, Len(a)) = a
      BY SubSeqFull
    <3>2. SubSeq(a, Len(a) + 1, Len(a)) = <<>>
      BY <1>1, SubSeqEmpty
    <3> QED
      BY <3>1, <3>2
  <2>3. AnalyzePart(Begin(d, a)) = [fed |-> Result(f, None), rest |-> <<>>]
    <3>1. CheckIfDue(f) = Result(f, None)
      BY <1>3, <1>4, DueTypes
    <3> QED
      BY <2>1, <2>2, <3>1, AnalyzePartOf DEF f
  <2>4. AppendAnalyzed(d, a) = AppendAnalyzed(f, <<>>)
    <3> DEFINE x == AnalyzePart(Begin(d, a))
    <3>1. x.fed.detection = None /\ x.fed.detector = f /\ x.rest = <<>>
      BY <2>3, ResultParts
    <3>2. AppendAnalyzed(d, a) = IF x.fed.detection # None THEN x.fed
                                 ELSE AppendAnalyzed(x.fed.detector, x.rest)
      BY AnalyzedUnfolds
    <3> HIDE DEF x
    <3> QED
      BY <3>1, <3>2
  <2>5. <<>> \in Seq(Char)
    OBVIOUS
  <2> QED
    BY <2>4, <2>5, <1>3, AnalyzedUnfolds
<1>6. AppendAnalyzed(d, a \o b) = AppendAnalyzed(f, b)
  <2>1. a \o b \in Seq(Char) /\ Len(a \o b) = Len(a) + Len(b)
    BY JoinText
  <2>2. a \o b # <<>>
    <3>1. Len(a \o b) # 0
      BY <2>1, <1>1
    <3> QED
      BY <3>1
  <2>3. PartOf(d, a \o b) = Len(a) + n
    BY <2>1, <1>1, <1>4 DEF PartOf
  <2>4. n \in 1..Len(b)
    BY <1>3, PartTypes
  <2> HIDE DEF n
  <2>5. n \in 0..Len(b)
    BY <2>4
  <2>6. /\ SubSeq(a \o b, 1, Len(a) + n) = a \o p
        /\ SubSeq(a \o b, Len(a) + n + 1, Len(a \o b)) = SubSeq(b, n + 1, Len(b))
    BY <2>5, CutJoined
  <2>7. p \in Seq(Char)
    BY <2>5, CutText
  <2> HIDE DEF p
  <2>8. AppendUnchecked(d, a \o p) = AppendUnchecked(f, p)
    BY <2>7, UncheckedTwice DEF f
  <2>9. AnalyzePart(Begin(d, a \o b)) = [fed |-> CheckIfDue(AppendUnchecked(f, p)),
                                         rest |-> SubSeq(b, n + 1, Len(b))]
    BY <2>1, <2>2, <2>3, <2>6, <2>8, AnalyzePartOf
  <2>10. AnalyzePart(Begin(f, b)) = [fed |-> CheckIfDue(AppendUnchecked(f, p)),
                                     rest |-> SubSeq(b, n + 1, Len(b))]
    BY <1>3, AnalyzePartOf DEF p, n
  <2> DEFINE x == AnalyzePart(Begin(f, b))
  <2>11. AppendAnalyzed(f, b) = IF x.fed.detection # None THEN x.fed
                                ELSE AppendAnalyzed(x.fed.detector, x.rest)
    BY <1>3, AnalyzedUnfolds
  <2>12. AnalyzePart(Begin(d, a \o b)) = x
    BY <2>9, <2>10
  <2> DEFINE y == AnalyzePart(Begin(d, a \o b))
  <2>13. AppendAnalyzed(d, a \o b) = IF y.fed.detection # None THEN y.fed
                                     ELSE AppendAnalyzed(y.fed.detector, y.rest)
    BY <2>1, <2>2, AnalyzedUnfolds
  <2>14. x = y
    BY <2>12
  <2> HIDE DEF x, y
  <2> QED
    BY <2>11, <2>13, <2>14
<1> QED
  BY <1>5, <1>6 DEF f

(* It makes no difference to appendAnalyzed where a text is cut.           *)
LEMMA AnalyzedJoin ==
    ASSUME NEW d \in Detector, NEW a \in Seq(Char), NEW b \in Seq(Char)
    PROVE  AppendAnalyzed(d, a \o b) = AnalyzeOn(AppendAnalyzed(d, a), b)
<1> DEFINE Same(e, s) == AppendAnalyzed(e, s \o b) = AnalyzeOn(AppendAnalyzed(e, s), b)
           T == {n \in Nat : \A e \in Detector, s \in Seq(Char) : Len(s) <= n => Same(e, s)}
<1>1. ASSUME NEW e \in Detector PROVE Same(e, <<>>)
  <2>1. AppendAnalyzed(e, <<>>) = Result(e, None)
    <3>1. <<>> \in Seq(Char)
      OBVIOUS
    <3> QED
      BY <3>1, AnalyzedUnfolds
  <2>2. <<>> \o b = b
    BY ConcatEmptySeq
  <2> QED
    BY <2>1, <2>2, ResultParts DEF AnalyzeOn
<1>2. ASSUME NEW e \in Detector, NEW s \in Seq(Char), b = <<>> PROVE Same(e, s)
  <2> DEFINE r == AppendAnalyzed(e, s)
  <2>1. s \o b = s
    BY <1>2, ConcatEmptySeq
  <2>2. r \in Fed
    BY AnalyzedTypes
  <2> HIDE DEF r
  <2>3. r.detector \in Detector /\ r = Result(r.detector, r.detection)
    BY <2>2, FedIsResult
  <2>4. AppendAnalyzed(r.detector, b) = Result(r.detector, None)
    BY <1>2, <2>3, AnalyzedUnfolds
  <2>5. AnalyzeOn(r, b) = r
    BY <2>3, <2>4 DEF AnalyzeOn
  <2> QED
    BY <2>1, <2>5 DEF r
<1>3. 0 \in T
  <2>1. ASSUME NEW e \in Detector, NEW s \in Seq(Char), Len(s) <= 0 PROVE Same(e, s)
    <3>1. s = <<>>
      BY <2>1, EmptySeq
    <3> QED
      BY <3>1, <1>1
  <2> HIDE DEF Same
  <2> QED
    BY <2>1
<1>4. ASSUME NEW n \in Nat, n \in T PROVE n + 1 \in T
  <2>1. ASSUME NEW e \in Detector, NEW s \in Seq(Char), Len(s) <= n + 1, s # <<>>, b # <<>>
        PROVE  Same(e, s)
    <3> DEFINE U == Until(e)
    <3>1. U \in Nat \ {0} /\ Len(s) \in Nat \ {0} /\ Len(b) \in Nat \ {0}
      BY <2>1, PartTypes, EmptySeq
    <3> HIDE DEF U
    <3>2. CASE Len(s) < U
      <4>1. /\ AppendAnalyzed(e, s) = Result(AppendUnchecked(e, s), None)
            /\ AppendAnalyzed(e, s \o b) = AppendAnalyzed(AppendUnchecked(e, s), b)
        BY <2>1, <3>2, AnalyzedBeforeCheck DEF U
      <4> QED
        BY <4>1, ResultParts DEF AnalyzeOn
    <3>3. CASE U <= Len(s)
      <4> DEFINE x == AnalyzePart(Begin(e, s))
                 y == AnalyzePart(Begin(e, s \o b))
      <4>1. s \o b \in Seq(Char) /\ Len(s \o b) = Len(s) + Len(b)
        BY JoinText
      <4>2. s \o b # <<>>
        <5>1. Len(s \o b) # 0
          BY <4>1, <3>1
        <5> QED
          BY <5>1
      <4>3. PartOf(e, s) = U /\ PartOf(e, s \o b) = U /\ U \in 0..Len(s)
        BY <3>1, <3>3, <4>1 DEF PartOf, U
      <4>4. /\ SubSeq(s \o b, 1, U) = SubSeq(s, 1, U)
            /\ SubSeq(s \o b, U + 1, Len(s \o b)) = SubSeq(s, U + 1, Len(s)) \o b
        BY <4>3, CutFront
      <4>5. x = [fed |-> CheckIfDue(AppendUnchecked(e, SubSeq(s, 1, U))),
                 rest |-> SubSeq(s, U + 1, Len(s))]
        BY <2>1, <4>3, AnalyzePartOf
      <4>6. y = [fed |-> CheckIfDue(AppendUnchecked(e, SubSeq(s, 1, U))),
                 rest |-> SubSeq(s, U + 1, Len(s)) \o b]
        BY <4>1, <4>2, <4>3, <4>4, AnalyzePartOf
      <4>7. y.fed = x.fed /\ y.rest = x.rest \o b
        <5> HIDE DEF x, y
        <5> QED
          BY <4>5, <4>6
      <4>8. AppendAnalyzed(e, s) = IF x.fed.detection # None THEN x.fed
                                   ELSE AppendAnalyzed(x.fed.detector, x.rest)
        BY <2>1, AnalyzedUnfolds
      <4>9. AppendAnalyzed(e, s \o b) = IF y.fed.detection # None THEN y.fed
                                        ELSE AppendAnalyzed(y.fed.detector, y.rest)
        BY <4>1, <4>2, AnalyzedUnfolds
      <4>10. x \in LoopState /\ Len(x.rest) < Len(s)
        <5>1. Begin(e, s) \in LoopState /\ Begin(e, s).rest = s /\ ~Over(Begin(e, s))
          BY <2>1, LoopStates
        <5> QED
          BY <5>1, AnalyzePartTypes
      <4> HIDE DEF x, y
      <4>11. /\ x.fed.detector \in Detector /\ x.rest \in Seq(Char)
             /\ Len(x.rest) \in Nat
        BY <4>10, LoopStates
      <4>12. Len(x.rest) <= n
        BY <4>10, <4>11, <3>1, <2>1
      <4>13. Same(x.fed.detector, x.rest)
        BY <4>11, <4>12, <1>4
      <4>14. CASE x.fed.detection # None
        BY <4>14, <4>7, <4>8, <4>9 DEF AnalyzeOn
      <4>15. CASE x.fed.detection = None
        BY <4>15, <4>7, <4>8, <4>9, <4>13
      <4> QED
        BY <4>14, <4>15
    <3> QED
      BY <3>1, <3>2, <3>3
  <2>2. ASSUME NEW e \in Detector, NEW s \in Seq(Char), Len(s) <= n + 1 PROVE Same(e, s)
    <3> HIDE DEF Same
    <3> QED
      BY <2>1, <2>2, <1>1, <1>2
  <2> HIDE DEF Same
  <2>3. n + 1 \in Nat
    OBVIOUS
  <2> QED
    BY <2>2, <2>3
<1> HIDE DEF T
<1>5. Len(a) \in T
  <2>1. Len(a) \in Nat
    OBVIOUS
  <2> QED
    BY <2>1, <1>3, <1>4, Induction
<1>6. Len(a) <= Len(a)
  OBVIOUS
<1> HIDE DEF Same
<1>7. Same(d, a)
  BY <1>5, <1>6 DEF T
<1> QED
  BY <1>7 DEF Same

--------------------------------------------------------------------------------
(* Fences, and the backticks at the end of a text.                         *)

LEMMA LeastExists ==
    ASSUME NEW B, B \subseteq Nat, B # {}
    PROVE  \E x \in B : \A y \in B : x <= y
<1> DEFINE R == {p \in Nat \X Nat : p[1] < p[2]}
<1>1. IsWellFoundedOn(R, Nat)
  BY NatLessThanWellFounded DEF OpToRel
<1> HIDE DEF R
<1>2. PICK x \in B : \A y \in B : ~ (<<y, x>> \in R)
  BY <1>1, WFMin
<1>3. \A y \in B : ~(y < x)
  BY <1>2 DEF R
<1>4. \A y \in B : x <= y
  BY <1>3
<1> QED
  BY <1>4

FirstFence(s) == CHOOSE i \in FencesIn(s) : \A j \in FencesIn(s) : i <= j

LEMMA FencesAre ==
    ASSUME NEW s \in Seq(Char)
    PROVE  FencesIn(s) = {i \in 0..Len(s) - 3 :
                              s[i + 1] = Tick /\ s[i + 2] = Tick /\ s[i + 3] = Tick}
<1>1. ASSUME NEW i \in 0..Len(s) - 3
      PROVE  SubSeq(s, i + 1, i + 3) = Fence
             <=> s[i + 1] = Tick /\ s[i + 2] = Tick /\ s[i + 3] = Tick
  <2> DEFINE u == SubSeq(s, i + 1, i + 3)
  <2>1. i + 1 \in Int /\ i + 3 \in Int /\ i \in Int /\ Len(s) \in Nat
    OBVIOUS
  <2>2. \A k \in i + 1..i + 3 : s[k] \in Char
    <3>1. \A k \in i + 1..i + 3 : k \in 1..Len(s)
      BY <2>1
    <3> QED
      BY <3>1, ElementOfSeq
  <2>3. /\ u \in Seq(Char)
        /\ Len(u) = IF i + 1 <= i + 3 THEN i + 3 - (i + 1) + 1 ELSE 0
        /\ \A k \in 1..i + 3 - (i + 1) + 1 : u[k] = s[i + 1 + k - 1]
    BY <2>1, <2>2, SubSeqProperties
  <2> HIDE DEF u
  <2>4. Len(u) = 3 /\ u[1] = s[i + 1] /\ u[2] = s[i + 2] /\ u[3] = s[i + 3]
    <3>1. i + 3 - (i + 1) + 1 = 3 /\ i + 1 <= i + 3
      BY <2>1
    <3>2. i + 1 + 1 - 1 = i + 1 /\ i + 1 + 2 - 1 = i + 2 /\ i + 1 + 3 - 1 = i + 3
      BY <2>1
    <3>3. Len(u) = 3 /\ \A k \in 1..3 : u[k] = s[i + 1 + k - 1]
      BY <3>1, <2>3
    <3> QED
      BY <3>2, <3>3
  <2>5. /\ Fence \in Seq(Char) /\ Len(Fence) = 3
        /\ Fence[1] = Tick /\ Fence[2] = Tick /\ Fence[3] = Tick
    BY DEF Fence, Char
  <2>6. u = Fence => u[1] = Tick /\ u[2] = Tick /\ u[3] = Tick
    BY <2>5
  <2>7. u[1] = Tick /\ u[2] = Tick /\ u[3] = Tick => u = Fence
    <3> HAVE u[1] = Tick /\ u[2] = Tick /\ u[3] = Tick
    <3>1. \A k \in 1..Len(u) : u[k] = Fence[k]
      BY <2>4, <2>5
    <3>2. u \in Seq(Char) /\ Len(u) = Len(Fence)
      BY <2>3, <2>4, <2>5
    <3> QED
      BY <3>1, <3>2, <2>5, SeqEqual
  <2> QED
    BY <2>4, <2>6, <2>7 DEF u
<1> QED
  BY <1>1 DEF FencesIn

LEMMA FirstFenceIs ==
    ASSUME NEW s \in Seq(Char), FencesIn(s) # {}
    PROVE  /\ FirstFence(s) \in FencesIn(s)
           /\ FirstFence(s) \in 0..Len(s) - 3 /\ FirstFence(s) + 3 \in 0..Len(s)
           /\ FirstFence(s) \in 0..Len(s)
           /\ \A i \in FencesIn(s) : (\A j \in FencesIn(s) : i <= j) => i = FirstFence(s)
<1> DEFINE F == FencesIn(s)
<1>1. F \subseteq 0..Len(s) - 3 /\ Len(s) \in Nat
  BY DEF FencesIn
<1>2. \E x \in F : \A y \in F : x <= y
  <2>1. F \subseteq Nat
    BY <1>1
  <2> QED
    BY <2>1, LeastExists
<1> DEFINE f == CHOOSE i \in F : \A j \in F : i <= j
<1>3. f = FirstFence(s)
  BY DEF FirstFence
<1> HIDE DEF F
<1>4. f \in F /\ \A j \in F : f <= j
  BY <1>2
<1> HIDE DEF f
<1>5. f \in 0..Len(s) - 3 /\ f + 3 \in 0..Len(s) /\ f \in 0..Len(s)
  <2>1. f \in 0..Len(s) - 3
    BY <1>1, <1>4
  <2> QED
    BY <2>1, <1>1
<1>6. \A i \in F : (\A j \in F : i <= j) => i = f
  <2> TAKE i \in F
  <2> HAVE \A j \in F : i <= j
  <2>1. i <= f /\ f <= i /\ i \in 0..Len(s) - 3
    BY <1>1, <1>4
  <2> QED
    BY <2>1, <1>5
<1> QED
  BY <1>3, <1>4, <1>5, <1>6 DEF F

(* How many backticks a text ends in, two at most.                         *)
IsTrailing(s, n) ==
    /\ n \in 0..2 /\ n <= Len(s)
    /\ \A k \in 1..n : s[Len(s) - k + 1] = Tick
    /\ n = 2 \/ n = Len(s) \/ s[Len(s) - n] # Tick

LEMMA TrailingExists ==
    ASSUME NEW s \in Seq(Char)
    PROVE  \E n \in 0..2 : IsTrailing(s, n)
<1> DEFINE N == Len(s)
<1>1. N \in Nat
  OBVIOUS
<1> HIDE DEF N
<1>2. CASE N = 0 \/ s[N] # Tick
  <2>1. IsTrailing(s, 0)
    <3>1. N - 0 = N /\ 1..0 = {} /\ 0 <= N
      BY <1>1
    <3> QED
      BY <3>1, <1>1, <1>2 DEF IsTrailing, N
  <2> QED
    BY <2>1
<1>3. CASE N # 0 /\ s[N] = Tick /\ (N = 1 \/ s[N - 1] # Tick)
  <2>1. IsTrailing(s, 1)
    <3>1. \A k \in 1..1 : N - k + 1 = N
      BY <1>1
    <3>2. 1 <= N
      BY <1>1, <1>3
    <3> QED
      BY <3>1, <3>2, <1>3 DEF IsTrailing, N
  <2> QED
    BY <2>1
<1>4. CASE N # 0 /\ s[N] = Tick /\ N # 1 /\ s[N - 1] = Tick
  <2>1. IsTrailing(s, 2)
    <3>1. \A k \in 1..2 : N - k + 1 = N \/ N - k + 1 = N - 1
      BY <1>1
    <3>2. 2 <= N
      BY <1>1, <1>4
    <3> QED
      BY <3>1, <3>2, <1>4 DEF IsTrailing, N
  <2> QED
    BY <2>1
<1> QED
  BY <1>2, <1>3, <1>4

LEMMA TrailingOnce ==
    ASSUME NEW s \in Seq(Char), NEW n, NEW m, IsTrailing(s, n), IsTrailing(s, m)
    PROVE  ~(n < m)
<1>1. n \in 0..2 /\ m \in 0..2 /\ Len(s) \in Nat /\ n <= Len(s) /\ m <= Len(s)
  BY DEF IsTrailing
<1>2. SUFFICES ASSUME n < m PROVE FALSE
  OBVIOUS
<1>3. n + 1 \in 1..m /\ Len(s) - (n + 1) + 1 = Len(s) - n /\ n # 2 /\ n # Len(s)
  BY <1>1, <1>2
<1>4. s[Len(s) - n] = Tick
  <2>1. s[Len(s) - (n + 1) + 1] = Tick
    BY <1>3 DEF IsTrailing
  <2> QED
    BY <2>1, <1>3
<1> QED
  BY <1>3, <1>4 DEF IsTrailing

LEMMA TrailingIs ==
    ASSUME NEW s \in Seq(Char)
    PROVE  /\ IsTrailing(s, Trailing(s))
           /\ \A n : IsTrailing(s, n) => n = Trailing(s)
<1>1. Trailing(s) = CHOOSE n \in 0..2 : IsTrailing(s, n)
  <2>1. \A n \in 0..2 : IsTrailing(s, n)
          <=> /\ n <= Len(s) /\ \A k \in 1..n : s[Len(s) - k + 1] = Tick
              /\ n = 2 \/ n = Len(s) \/ s[Len(s) - n] # Tick
    BY DEF IsTrailing
  <2> QED
    BY <2>1 DEF Trailing
<1>2. IsTrailing(s, Trailing(s))
  BY <1>1, TrailingExists
<1>3. ASSUME NEW n, IsTrailing(s, n) PROVE n = Trailing(s)
  <2>1. n \in 0..2 /\ Trailing(s) \in 0..2
    BY <1>2, <1>3 DEF IsTrailing
  <2>2. ~(n < Trailing(s)) /\ ~(Trailing(s) < n)
    BY <1>2, <1>3, TrailingOnce
  <2> QED
    BY <2>1, <2>2
<1> QED
  BY <1>2, <1>3

(* The first fence of a text is there whatever comes after.                *)
LEMMA FirstFenceStays ==
    ASSUME NEW a \in Seq(Char), NEW b \in Seq(Char), FencesIn(a) # {}
    PROVE  FencesIn(a \o b) # {} /\ FirstFence(a \o b) = FirstFence(a)
<1> DEFINE u == a \o b
           f == FirstFence(a)
<1>1. /\ u \in Seq(Char) /\ Len(u) = Len(a) + Len(b)
      /\ \A i \in 1..Len(a) : u[i] = a[i]
      /\ Len(a) \in Nat /\ Len(b) \in Nat
  BY JoinText
<1> HIDE DEF u
<1>2. f \in FencesIn(a) /\ f \in 0..Len(a) - 3
  BY FirstFenceIs
<1>3. \A j \in FencesIn(a) : f <= j
  <2>1. FencesIn(a) \subseteq Nat
    BY DEF FencesIn
  <2>2. \E x \in FencesIn(a) : \A y \in FencesIn(a) : x <= y
    BY <2>1, LeastExists
  <2> QED
    BY <2>2, FirstFenceIs
<1> HIDE DEF f
<1>4. \A i \in 0..Len(a) - 3 : i \in FencesIn(u) <=> i \in FencesIn(a)
  <2>3. FencesIn(a) = {i \in 0..Len(a) - 3 : a[i + 1] = Tick /\ a[i + 2] = Tick /\ a[i + 3] = Tick}
    BY FencesAre
  <2>4. FencesIn(u) = {i \in 0..Len(u) - 3 : u[i + 1] = Tick /\ u[i + 2] = Tick /\ u[i + 3] = Tick}
    BY <1>1, FencesAre
  <2> TAKE i \in 0..Len(a) - 3
  <2>1. i + 1 \in 1..Len(a) /\ i + 2 \in 1..Len(a) /\ i + 3 \in 1..Len(a) /\ i \in 0..Len(u) - 3
    BY <1>1
  <2>2. u[i + 1] = a[i + 1] /\ u[i + 2] = a[i + 2] /\ u[i + 3] = a[i + 3]
    BY <2>1, <1>1
  <2> QED
    BY <2>1, <2>2, <2>3, <2>4
<1>5. f \in FencesIn(u)
  BY <1>2, <1>4
<1>6. \A j \in FencesIn(u) : f <= j
  <2> TAKE j \in FencesIn(u)
  <2>1. j \in 0..Len(u) - 3
    BY DEF FencesIn
  <2>2. CASE j \in 0..Len(a) - 3
    BY <2>2, <1>3, <1>4
  <2>3. CASE j \notin 0..Len(a) - 3
    BY <2>1, <2>3, <1>1, <1>2
  <2> QED
    BY <2>2, <2>3
<1> QED
  BY <1>1, <1>5, <1>6, FirstFenceIs DEF u, f

(* A text that no fence is in, nor begins at the end of.                   *)
Clean(p) == FencesIn(p) = {} /\ (p = <<>> \/ p[Len(p)] # Tick)

LEMMA FencesAfterClean ==
    ASSUME NEW p \in Seq(Char), NEW c \in Seq(Char), Clean(p)
    PROVE  FencesIn(p \o c) = {Len(p) + i : i \in FencesIn(c)}
<1> DEFINE u == p \o c
           P == Len(p)
<1>1. /\ u \in Seq(Char) /\ Len(u) = P + Len(c)
      /\ \A i \in 1..P : u[i] = p[i]
      /\ \A i \in 1..Len(c) : u[P + i] = c[i]
      /\ P \in Nat /\ Len(c) \in Nat
  BY JoinText
<1>2. P = 0 \/ p[P] # Tick
  BY EmptySeq DEF Clean
<1>3. FencesIn(p) = {i \in 0..P - 3 : p[i + 1] = Tick /\ p[i + 2] = Tick /\ p[i + 3] = Tick}
  BY FencesAre
<1>4. FencesIn(c) = {i \in 0..Len(c) - 3 : c[i + 1] = Tick /\ c[i + 2] = Tick /\ c[i + 3] = Tick}
  BY FencesAre
<1> HIDE DEF u, P
<1>5. FencesIn(u) = {i \in 0..Len(u) - 3 : u[i + 1] = Tick /\ u[i + 2] = Tick /\ u[i + 3] = Tick}
  BY <1>1, FencesAre
<1>6. FencesIn(p) = {}
  BY DEF Clean
<1>7. ASSUME NEW i \in FencesIn(c) PROVE P + i \in FencesIn(u)
  <2>1. /\ i \in 0..Len(c) - 3 /\ c[i + 1] = Tick /\ c[i + 2] = Tick /\ c[i + 3] = Tick
    BY <1>4
  <2>2. /\ i + 1 \in 1..Len(c) /\ i + 2 \in 1..Len(c) /\ i + 3 \in 1..Len(c)
        /\ P + i + 1 = P + (i + 1) /\ P + i + 2 = P + (i + 2) /\ P + i + 3 = P + (i + 3)
        /\ P + i \in 0..Len(u) - 3
    BY <2>1, <1>1
  <2>3. u[P + (i + 1)] = Tick /\ u[P + (i + 2)] = Tick /\ u[P + (i + 3)] = Tick
    BY <2>1, <2>2, <1>1
  <2> QED
    BY <2>2, <2>3, <1>5
<1>8. ASSUME NEW j \in FencesIn(u) PROVE j - P \in FencesIn(c) /\ j = P + (j - P)
  <2>1. /\ j \in 0..Len(u) - 3 /\ u[j + 1] = Tick /\ u[j + 2] = Tick /\ u[j + 3] = Tick
    BY <1>5
  <2>2. CASE j >= P
    <3> DEFINE i == j - P
    <3>1. /\ i \in 0..Len(c) - 3 /\ j = P + i
          /\ i + 1 \in 1..Len(c) /\ i + 2 \in 1..Len(c) /\ i + 3 \in 1..Len(c)
          /\ j + 1 = P + (i + 1) /\ j + 2 = P + (i + 2) /\ j + 3 = P + (i + 3)
      BY <2>1, <2>2, <1>1
    <3> HIDE DEF i
    <3>2. c[i + 1] = Tick /\ c[i + 2] = Tick /\ c[i + 3] = Tick
      BY <3>1, <2>1, <1>1
    <3>3. i \in FencesIn(c)
      BY <3>1, <3>2, <1>4
    <3> QED
      BY <3>1, <3>3 DEF i
  <2>3. CASE j < P /\ j + 3 <= P
    <3>1. j \in 0..P - 3 /\ j + 1 \in 1..P /\ j + 2 \in 1..P /\ j + 3 \in 1..P
      BY <2>1, <2>3, <1>1
    <3>2. p[j + 1] = Tick /\ p[j + 2] = Tick /\ p[j + 3] = Tick
      BY <3>1, <2>1, <1>1
    <3> QED
      BY <3>1, <3>2, <1>3, <1>6
  <2>4. CASE j < P /\ ~(j + 3 <= P)
    <3>1. P \in 1..P /\ (P = j + 1 \/ P = j + 2)
      BY <2>1, <2>4, <1>1
    <3>2. u[P] = Tick /\ u[P] = p[P] /\ P # 0
      BY <3>1, <2>1, <1>1
    <3> QED
      BY <3>2, <1>2
  <2> QED
    BY <2>1, <2>2, <2>3, <2>4, <1>1
<1> QED
  BY <1>7, <1>8 DEF u, P

LEMMA FirstFenceAfterClean ==
    ASSUME NEW p \in Seq(Char), NEW c \in Seq(Char), Clean(p), FencesIn(c) # {}
    PROVE  FencesIn(p \o c) # {} /\ FirstFence(p \o c) = Len(p) + FirstFence(c)
<1> DEFINE f == FirstFence(c)
<1>1. FencesIn(p \o c) = {Len(p) + i : i \in FencesIn(c)}
  BY FencesAfterClean
<1>2. FencesIn(c) \subseteq Nat /\ Len(p) \in Nat
  BY DEF FencesIn
<1>3. f \in FencesIn(c) /\ \A j \in FencesIn(c) : f <= j
  <2>1. \E x \in FencesIn(c) : \A y \in FencesIn(c) : x <= y
    BY <1>2, LeastExists
  <2> QED
    BY <2>1, FirstFenceIs
<1> HIDE DEF f
<1>4. Len(p) + f \in FencesIn(p \o c)
  BY <1>1, <1>3
<1>5. \A j \in FencesIn(p \o c) : Len(p) + f <= j
  BY <1>1, <1>2, <1>3
<1>6. p \o c \in Seq(Char)
  BY JoinText
<1> QED
  BY <1>4, <1>5, <1>6, FirstFenceIs DEF f

LEMMA TrailingAfterClean ==
    ASSUME NEW p \in Seq(Char), NEW c \in Seq(Char), Clean(p)
    PROVE  Trailing(p \o c) = Trailing(c)
<1> DEFINE u == p \o c
           P == Len(p)
           n == Trailing(c)
<1>1. /\ u \in Seq(Char) /\ Len(u) = P + Len(c)
      /\ \A i \in 1..P : u[i] = p[i]
      /\ \A i \in 1..Len(c) : u[P + i] = c[i]
      /\ P \in Nat /\ Len(c) \in Nat
  BY JoinText
<1>2. P = 0 \/ p[P] # Tick
  BY EmptySeq DEF Clean
<1>3. IsTrailing(c, n)
  BY TrailingIs
<1> HIDE DEF u, P, n
<1>4. n \in 0..2 /\ n <= Len(c)
  BY <1>3 DEF IsTrailing
<1>5. ASSUME NEW k \in 1..n PROVE u[Len(u) - k + 1] = Tick
  <2> DEFINE i == Len(c) - k + 1
  <2>1. i \in 1..Len(c) /\ Len(u) - k + 1 = P + i
    BY <1>1, <1>4
  <2>2. c[i] = Tick
    BY <1>3 DEF IsTrailing
  <2> HIDE DEF i
  <2> QED
    BY <2>1, <2>2, <1>1
<1>6. n = 2 \/ n = Len(u) \/ u[Len(u) - n] # Tick
  <2>1. CASE n = Len(c)
    <3>1. Len(u) - n = P
      BY <2>1, <1>1
    <3>2. CASE P = 0
      BY <3>2, <2>1, <1>1
    <3>3. CASE P # 0
      <4>1. P \in 1..P
        BY <3>3, <1>1
      <4> QED
        BY <4>1, <3>1, <3>3, <1>1, <1>2
    <3> QED
      BY <3>2, <3>3
  <2>2. CASE n # Len(c) /\ n # 2
    <3> DEFINE i == Len(c) - n
    <3>1. i \in 1..Len(c) /\ Len(u) - n = P + i
      BY <2>2, <1>1, <1>4
    <3>2. c[i] # Tick
      BY <2>2, <1>3 DEF IsTrailing
    <3> HIDE DEF i
    <3> QED
      BY <3>1, <3>2, <1>1
  <2> QED
    BY <2>1, <2>2
<1>7. n <= Len(u)
  BY <1>1, <1>4
<1>8. IsTrailing(u, n)
  BY <1>4, <1>5, <1>6, <1>7 DEF IsTrailing
<1> QED
  BY <1>1, <1>8, TrailingIs DEF u, n

(* What is not held back of a text without a fence is clean.               *)
LEMMA CleanFront ==
    ASSUME NEW s \in Seq(Char), FencesIn(s) = {}
    PROVE  Len(s) - Trailing(s) \in 0..Len(s) /\ Clean(SubSeq(s, 1, Len(s) - Trailing(s)))
<1> DEFINE n == Trailing(s)
           m == Len(s) - n
           p == SubSeq(s, 1, m)
<1>1. IsTrailing(s, n) /\ Len(s) \in Nat
  BY TrailingIs
<1> HIDE DEF n
<1>2. n \in 0..2 /\ n <= Len(s) /\ m \in 0..Len(s)
  BY <1>1 DEF IsTrailing
<1>3. p \in Seq(Char) /\ Len(p) = m /\ \A i \in 1..m : p[i] = s[i]
  <2> HIDE DEF m
  <2> QED
    BY <1>2, CutText
<1> HIDE DEF p
<1>4. \A i \in 0..Len(s) - 3 : ~(s[i + 1] = Tick /\ s[i + 2] = Tick /\ s[i + 3] = Tick)
  BY FencesAre
<1>5. FencesIn(p) = {}
  <2>1. ASSUME NEW i \in 0..m - 3
        PROVE  ~(p[i + 1] = Tick /\ p[i + 2] = Tick /\ p[i + 3] = Tick)
    <3>1. /\ i \in 0..Len(s) - 3 /\ i + 1 \in 1..m /\ i + 2 \in 1..m /\ i + 3 \in 1..m
      BY <1>1, <1>2
    <3> HIDE DEF m
    <3>2. p[i + 1] = s[i + 1] /\ p[i + 2] = s[i + 2] /\ p[i + 3] = s[i + 3]
      BY <3>1, <1>3
    <3> QED
      BY <3>1, <3>2, <1>4
  <2> HIDE DEF m
  <2> QED
    BY <2>1, <1>3, FencesAre
<1>6. p = <<>> \/ p[m] # Tick
  <2>1. SUFFICES ASSUME p # <<>> PROVE p[m] # Tick
    OBVIOUS
  <2>2. m \in 1..m
    <3>1. Len(p) # 0
      BY <2>1, <1>3, EmptySeq
    <3> QED
      BY <3>1, <1>2, <1>3
  <2>3. p[m] = s[m]
    <3> HIDE DEF m
    <3> QED
      BY <2>2, <1>3
  <2>4. CASE n # 2
    <3>1. n # Len(s)
      BY <2>2, <1>1, <1>2
    <3>2. s[Len(s) - n] # Tick
      BY <3>1, <2>4, <1>1 DEF IsTrailing
    <3> QED
      BY <3>2, <2>3
  <2>5. CASE n = 2
    <3>1. m - 1 \in 0..Len(s) - 3 /\ m - 1 + 1 = m /\ m - 1 + 2 = m + 1 /\ m - 1 + 3 = m + 2
      BY <2>2, <2>5, <1>1, <1>2
    <3>2. s[m + 1] = Tick /\ s[m + 2] = Tick
      <4>1. \A k \in 1..2 : s[Len(s) - k + 1] = Tick
        BY <1>1, <2>5 DEF IsTrailing
      <4>2. 1 \in 1..2 /\ 2 \in 1..2 /\ Len(s) - 1 + 1 = m + 2 /\ Len(s) - 2 + 1 = m + 1
        BY <2>5, <1>1
      <4> QED
        BY <4>1, <4>2
    <3> HIDE DEF m
    <3> QED
      BY <3>1, <3>2, <2>3, <1>4
  <2> QED
    BY <2>4, <2>5
<1>7. Clean(p)
  BY <1>3, <1>5, <1>6 DEF Clean
<1> QED
  BY <1>2, <1>7 DEF p, n

--------------------------------------------------------------------------------
(* appendVisible.                                                          *)

Holding(d, s) == [d EXCEPT !.fenceCarry = s]

LEMMA HoldingTypes ==
    ASSUME NEW d \in Detector, NEW s \in Seq(Char)
    PROVE  /\ Holding(d, s) \in Detector /\ Holding(d, s).contentKind = d.contentKind
           /\ Holding(d, s).fenceCarry = s
           /\ \A t : Holding(Holding(d, s), t) = Holding(d, t)
           /\ d.fenceCarry = s => Holding(d, s) = d
BY DEF Holding, Detector

LEMMA SegmentTypes ==
    ASSUME NEW d \in Detector, NEW s \in Seq(Char)
    PROVE  /\ AppendVisibleSegment(d, s) \in Fed
           /\ SameFences(d, AppendVisibleSegment(d, s).detector)
<1>1. CASE d.insideFence
  <2> DEFINE far == d.absolute + Len(s)
             e == [d EXCEPT !.absolute = far]
  <2>1. far \in Nat
    <3>1. d.absolute \in Nat /\ Len(s) \in Nat
      BY DEF Detector
    <3> QED
      BY <3>1
  <2>2. AppendVisibleSegment(d, s) = Result(e, None)
    BY <1>1 DEF AppendVisibleSegment
  <2> HIDE DEF far
  <2>3. e \in Detector /\ SameFences(d, e)
    BY <2>1 DEF Detector, SameFences
  <2> HIDE DEF e
  <2> QED
    BY <2>2, <2>3, FedIsResult, ResultParts
<1>2. CASE ~d.insideFence
  <2>1. AppendVisibleSegment(d, s) = AppendAnalyzed(d, s)
    BY <1>2 DEF AppendVisibleSegment
  <2> QED
    BY <2>1, AnalyzedTypes
<1> QED
  BY <1>1, <1>2

SegmentOn(r, s) == IF r.detection # None THEN r ELSE AppendVisibleSegment(r.detector, s)

LEMMA SegmentJoin ==
    ASSUME NEW d \in Detector, NEW a \in Seq(Char), NEW b \in Seq(Char)
    PROVE  AppendVisibleSegment(d, a \o b) = SegmentOn(AppendVisibleSegment(d, a), b)
<1>1. CASE d.insideFence
  <2> DEFINE far == d.absolute + Len(a)
             end == d.absolute + Len(a \o b)
             e == [d EXCEPT !.absolute = far]
             f == [d EXCEPT !.absolute = end]
  <2>1. far + Len(b) = end
    <3>1. d.absolute \in Nat /\ Len(a) \in Nat /\ Len(b) \in Nat
      BY DEF Detector
    <3>2. Len(a \o b) = Len(a) + Len(b)
      BY JoinText
    <3> QED
      BY <3>1, <3>2
  <2>2. AppendVisibleSegment(d, a) = Result(e, None)
    BY <1>1 DEF AppendVisibleSegment
  <2>3. AppendVisibleSegment(d, a \o b) = Result(f, None)
    BY <1>1 DEF AppendVisibleSegment
  <2> HIDE DEF far, end
  <2>4. e.insideFence = d.insideFence /\ e.absolute = far /\ [e EXCEPT !.absolute = end] = f
    BY DEF Detector
  <2> HIDE DEF e, f
  <2>5. AppendVisibleSegment(e, b) = Result(f, None)
    BY <1>1, <2>1, <2>4 DEF AppendVisibleSegment
  <2> QED
    BY <2>2, <2>3, <2>5, ResultParts DEF SegmentOn
<1>2. CASE ~d.insideFence
  <2> DEFINE r == AppendAnalyzed(d, a)
  <2>1. /\ AppendVisibleSegment(d, a \o b) = AppendAnalyzed(d, a \o b)
        /\ AppendVisibleSegment(d, a) = r
    BY <1>2 DEF AppendVisibleSegment
  <2>2. AppendAnalyzed(d, a \o b) = AnalyzeOn(r, b)
    BY AnalyzedJoin
  <2>3. r.detector.insideFence = d.insideFence
    BY AnalyzedTypes DEF SameFences
  <2> HIDE DEF r
  <2>4. AppendVisibleSegment(r.detector, b) = AppendAnalyzed(r.detector, b)
    BY <1>2, <2>3 DEF AppendVisibleSegment
  <2> QED
    BY <2>1, <2>2, <2>4 DEF AnalyzeOn, SegmentOn
<1> QED
  BY <1>1, <1>2

LEMMA SegmentEmpty ==
    ASSUME NEW d \in Detector
    PROVE  AppendVisibleSegment(d, <<>>) = Result(d, None)
<1>1. CASE d.insideFence
  <2>1. AppendVisibleSegment(d, <<>>) = Result([d EXCEPT !.absolute = d.absolute + Len(<<>>)], None)
    BY <1>1 DEF AppendVisibleSegment
  <2>2. d.absolute + Len(<<>>) = d.absolute
    <3>1. d.absolute \in Nat /\ Len(<<>>) = 0
      BY DEF Detector
    <3> QED
      BY <3>1
  <2>3. [d EXCEPT !.absolute = d.absolute] = d
    BY DEF Detector
  <2> QED
    BY <2>1, <2>2, <2>3
<1>2. CASE ~d.insideFence
  <2>1. AppendVisibleSegment(d, <<>>) = AppendAnalyzed(d, <<>>)
    BY <1>2 DEF AppendVisibleSegment
  <2>2. <<>> \in Seq(Char)
    OBVIOUS
  <2> QED
    BY <2>1, <2>2, AnalyzedUnfolds
<1> QED
  BY <1>1, <1>2

(* What a fence leaves of a detector, field by field.                      *)
LEMMA PassFenceValue ==
    ASSUME NEW d \in Detector
    PROVE  PassFence(d) =
               [contentKind |-> d.contentKind, absolute |-> d.absolute + 3, analyzed |-> 0,
                exactTail |-> <<>>, fenceCarry |-> d.fenceCarry, insideFence |-> ~d.insideFence,
                lowNoveltyText |-> <<>>, nextLowNoveltyCheckAt |-> NoveltyMin,
                comparisons |-> 0, nearStart |-> 0, nextCheckAt |-> CheckInterval,
                segmentStart |-> d.absolute + 3]
<1>1. PICK g : g = [d EXCEPT !.absolute = @ + 3, !.insideFence = ~@]
  OBVIOUS
<1>2. g = [contentKind |-> d.contentKind, absolute |-> d.absolute + 3, analyzed |-> d.analyzed,
           exactTail |-> d.exactTail, fenceCarry |-> d.fenceCarry,
           insideFence |-> ~d.insideFence, lowNoveltyText |-> d.lowNoveltyText,
           nextLowNoveltyCheckAt |-> d.nextLowNoveltyCheckAt, comparisons |-> d.comparisons,
           nearStart |-> d.nearStart, nextCheckAt |-> d.nextCheckAt,
           segmentStart |-> d.segmentStart]
  BY <1>1 DEF Detector
<1>3. PassFence(d) = ResetAnalyzedSegment(g)
  BY <1>1 DEF PassFence
<1> QED
  BY <1>2, <1>3 DEF ResetAnalyzedSegment

LEMMA PassFenceTypes ==
    ASSUME NEW d \in Detector
    PROVE  /\ PassFence(d) \in Detector /\ PassFence(d).contentKind = d.contentKind
           /\ PassFence(d).fenceCarry = d.fenceCarry
<1>1. PICK far \in Nat : far = d.absolute + 3
  <2>1. d.absolute \in Nat
    BY DEF Detector
  <2> QED
    BY <2>1
<1>2. PICK zero \in Nat : zero = 0
  OBVIOUS
<1>3. PICK whole \in Int : whole = 0
  OBVIOUS
<1>4. PICK empty \in Seq(Char) : empty = <<>>
  <2>1. <<>> \in Seq(Char)
    BY EmptySeq
  <2> QED
    BY <2>1, Zenon
<1>5. PICK other \in BOOLEAN : other = ~d.insideFence
  OBVIOUS
<1>6. CheckInterval \in Nat /\ NoveltyMin \in Nat
  BY NumberAssumption
<1> DEFINE e == [contentKind |-> d.contentKind, absolute |-> far, analyzed |-> zero,
                 exactTail |-> empty, fenceCarry |-> d.fenceCarry, insideFence |-> other,
                 lowNoveltyText |-> empty, nextLowNoveltyCheckAt |-> NoveltyMin,
                 comparisons |-> zero, nearStart |-> whole, nextCheckAt |-> CheckInterval,
                 segmentStart |-> far]
<1>7. PassFence(d) = e
  BY <1>1, <1>2, <1>3, <1>4, <1>5, PassFenceValue
<1>8. d.contentKind \in {"text", "thinking"} /\ d.fenceCarry \in Seq(Char)
  BY DEF Detector
<1>9. e \in Detector
  BY <1>6, <1>8 DEF Detector
<1> QED
  BY <1>7, <1>9

(* One round of the loop, without a fence and with one.                    *)
LEMMA VisiblePartOf ==
    ASSUME NEW d \in Detector, NEW s \in Seq(Char), s # <<>>
    PROVE  /\ FencesIn(s) = {} =>
                 LET n == Len(s) - Trailing(s)
                     r == AppendVisibleSegment(d, SubSeq(s, 1, n))
                 IN  VisiblePart(Begin(d, s)) =
                       [fed |-> Result(Holding(r.detector, SubSeq(s, n + 1, Len(s))), r.detection),
                        rest |-> <<>>]
           /\ FencesIn(s) # {} =>
                 LET f == FirstFence(s)
                     r == AppendVisibleSegment(d, SubSeq(s, 1, f))
                 IN  VisiblePart(Begin(d, s)) =
                       [fed |-> IF r.detection # None THEN r
                                ELSE Result(PassFence(r.detector), None),
                        rest |-> SubSeq(s, f + 4, Len(s))]
<1>1. ~Over(Begin(d, s)) /\ Begin(d, s).rest = s /\ Begin(d, s).fed.detector = d
  BY LoopStates, ResultParts
<1>2. CASE FencesIn(s) = {}
  <2> DEFINE n == Len(s) - Trailing(s)
             r == AppendVisibleSegment(d, SubSeq(s, 1, n))
             w == SubSeq(s, n + 1, Len(s))
  <2>1. VisiblePart(Begin(d, s)) = [fed |-> [r EXCEPT !.detector.fenceCarry = w], rest |-> <<>>]
    BY <1>1, <1>2 DEF VisiblePart, UpToEnd
  <2>2. r \in Fed
    <3>1. n \in 0..Len(s)
      BY <1>2, CleanFront
    <3> HIDE DEF n
    <3>2. SubSeq(s, 1, n) \in Seq(Char)
      BY <3>1, CutText
    <3> QED
      BY <3>2, SegmentTypes
  <2> HIDE DEF r, w, n
  <2>3. r = [detector |-> r.detector, detection |-> r.detection]
    BY <2>2, FedIsResult DEF Result
  <2>4. [r EXCEPT !.detector.fenceCarry = w] = Result(Holding(r.detector, w), r.detection)
    BY <2>3 DEF Result, Holding
  <2> QED
    BY <2>1, <2>4, <1>2 DEF r, w, n
<1>3. CASE FencesIn(s) # {}
  BY <1>1, <1>3 DEF VisiblePart, UpToFence, FirstFence
<1> QED
  BY <1>2, <1>3

SameKind(d, e) == e.contentKind = d.contentKind

LEMMA VisiblePartTypes ==
    ASSUME NEW x \in LoopState
    PROVE  /\ VisiblePart(x) \in LoopState
           /\ Over(x) => VisiblePart(x) = x
           /\ ~Over(x) => Len(VisiblePart(x).rest) < Len(x.rest)
           /\ SameKind(x.fed.detector, VisiblePart(x).fed.detector)
<1>1. CASE Over(x)
  <2>1. VisiblePart(x) = x
    BY <1>1 DEF VisiblePart
  <2> QED
    BY <2>1, <1>1 DEF SameKind
<1>2. CASE ~Over(x)
  <2> DEFINE d == x.fed.detector
             s == x.rest
             y == VisiblePart(x)
  <2>1. d \in Detector /\ s \in Seq(Char) /\ s # <<>> /\ x = Begin(d, s)
    BY <1>2, LoopStates DEF Over
  <2>2. Len(s) \in Nat \ {0}
    BY <2>1, EmptySeq
  <2> HIDE DEF d, s
  <2>3. CASE FencesIn(s) = {}
    <3> DEFINE n == Len(s) - Trailing(s)
               r == AppendVisibleSegment(d, SubSeq(s, 1, n))
               w == SubSeq(s, n + 1, Len(s))
    <3>1. y = [fed |-> Result(Holding(r.detector, w), r.detection), rest |-> <<>>]
      BY <2>1, <2>3, VisiblePartOf
    <3>2. n \in 0..Len(s)
      BY <2>1, <2>3, CleanFront
    <3> HIDE DEF n
    <3>3. SubSeq(s, 1, n) \in Seq(Char) /\ w \in Seq(Char)
      BY <2>1, <3>2, CutText
    <3>4. r \in Fed /\ SameFences(d, r.detector)
      BY <2>1, <3>3, SegmentTypes
    <3> HIDE DEF r, w
    <3>5. r.detector \in Detector
      BY <3>4, FedIsResult
    <3>6. Holding(r.detector, w) \in Detector /\ Holding(r.detector, w).contentKind = r.detector.contentKind
      BY <3>3, <3>5, HoldingTypes
    <3>7. Result(Holding(r.detector, w), r.detection) \in Fed
      BY <3>4, <3>6, FedIsResult
    <3>8. <<>> \in Seq(Char) /\ Len(<<>>) = 0
      BY EmptySeq
    <3>9. y \in LoopState
      BY <3>1, <3>7, <3>8, LoopStates
    <3>10. y.rest = <<>> /\ y.fed.detector = Holding(r.detector, w)
      BY <3>1, ResultParts
    <3> HIDE DEF y
    <3>11. Len(y.rest) < Len(s) /\ SameKind(d, y.fed.detector)
      BY <2>2, <3>4, <3>6, <3>8, <3>10 DEF SameKind, SameFences
    <3> QED
      BY <1>2, <3>9, <3>11 DEF y, d, s
  <2>4. CASE FencesIn(s) # {}
    <3> DEFINE f == FirstFence(s)
               r == AppendVisibleSegment(d, SubSeq(s, 1, f))
               q == IF r.detection # None THEN r ELSE Result(PassFence(r.detector), None)
    <3>1. y = [fed |-> q, rest |-> SubSeq(s, f + 4, Len(s))]
      BY <2>1, <2>4, VisiblePartOf
    <3>2. f \in 0..Len(s) /\ f + 3 \in 0..Len(s) /\ f + 3 + 1 = f + 4 /\ f \in Nat
      BY <2>1, <2>2, <2>4, FirstFenceIs
    <3> HIDE DEF f
    <3>3. /\ SubSeq(s, 1, f) \in Seq(Char) /\ SubSeq(s, f + 4, Len(s)) \in Seq(Char)
          /\ Len(SubSeq(s, f + 4, Len(s))) = Len(s) - (f + 3)
      <4>1. SubSeq(s, 1, f) \in Seq(Char)
        BY <2>1, <3>2, CutText
      <4>2. /\ SubSeq(s, f + 3 + 1, Len(s)) \in Seq(Char)
            /\ Len(SubSeq(s, f + 3 + 1, Len(s))) = Len(s) - (f + 3)
        BY <2>1, <3>2, CutText
      <4> QED
        BY <4>1, <4>2, <3>2
    <3>4. r \in Fed /\ SameFences(d, r.detector)
      BY <2>1, <3>3, SegmentTypes
    <3> HIDE DEF r
    <3>5. r.detector \in Detector
      BY <3>4, FedIsResult
    <3>6. PassFence(r.detector) \in Detector /\ PassFence(r.detector).contentKind = r.detector.contentKind
      BY <3>5, PassFenceTypes
    <3>7. q \in Fed /\ q.detector.contentKind = d.contentKind
      BY <3>4, <3>6, FedIsResult, ResultParts DEF SameFences
    <3> HIDE DEF q
    <3>8. y \in LoopState
      BY <3>1, <3>3, <3>7, LoopStates
    <3>9. y.rest = SubSeq(s, f + 4, Len(s)) /\ y.fed = q
      <4> HIDE DEF y
      <4> QED
        BY <3>1
    <3> HIDE DEF y
    <3>10. Len(y.rest) < Len(s) /\ SameKind(d, y.fed.detector)
      BY <2>2, <3>2, <3>3, <3>7, <3>9 DEF SameKind
    <3> QED
      BY <1>2, <3>8, <3>10 DEF y, d, s
  <2> QED
    BY <2>3, <2>4
<1> QED
  BY <1>1, <1>2

GoOverVisible == [x \in LoopState |-> VisiblePart(x)]

LEMMA VisibleCloser == Closer(GoOverVisible, Left, OverStates, LoopState)
<1>1. GoOverVisible \in [LoopState -> LoopState]
  BY VisiblePartTypes DEF GoOverVisible
<1>2. Left \in [LoopState -> Nat]
  BY LoopStates DEF Left
<1>3. \A x \in LoopState : x \in OverStates => GoOverVisible[x] = x
  BY VisiblePartTypes DEF GoOverVisible, OverStates
<1>4. \A x \in LoopState : x \notin OverStates => Left[GoOverVisible[x]] < Left[x]
  BY VisiblePartTypes DEF GoOverVisible, OverStates, Left
<1> QED
  BY <1>1, <1>2, <1>3, <1>4 DEF Closer

LEMMA VisibleRounds ==
    ASSUME NEW x \in LoopState, NEW n \in Nat
    PROVE  \E g : Rounds(g, n, GoOverVisible, x, LoopState) /\ Loop(VisiblePart, x, n) = g[n]
<1> DEFINE Is(g) == g = [k \in 0..n |-> IF k = 0 THEN x ELSE VisiblePart(g[k - 1])]
<1>1. PICK f : Rounds(f, n, GoOverVisible, x, LoopState)
  BY VisibleCloser, RoundsExist DEF Closer
<1>2. /\ f \in [0..n -> LoopState] /\ f[0] = x
      /\ \A k \in 1..n : f[k] = GoOverVisible[f[k - 1]]
  BY <1>1 DEF Rounds
<1>3. Is(f)
  <2>1. ASSUME NEW k \in 0..n PROVE f[k] = IF k = 0 THEN x ELSE VisiblePart(f[k - 1])
    <3>1. CASE k = 0
      BY <3>1, <1>2
    <3>2. CASE k # 0
      <4>1. k \in 1..n /\ k - 1 \in 0..n
        BY <3>2
      <4>2. f[k - 1] \in LoopState /\ f[k] = GoOverVisible[f[k - 1]]
        BY <4>1, <1>2
      <4> QED
        BY <4>2, <3>2 DEF GoOverVisible
    <3> QED
      BY <3>1, <3>2
  <2> QED
    BY <2>1, <1>2
<1>4. Loop(VisiblePart, x, n) = (CHOOSE g : Is(g))[n]
  BY DEF Loop
<1>5. PICK h : h = CHOOSE g : Is(g)
  OBVIOUS
<1>6. Is(h)
  <2> HIDE DEF Is
  <2> QED
    BY <1>3, <1>5
<1>7. h[0] = x /\ \A k \in 1..n : h[k] = VisiblePart(h[k - 1])
  <2>1. \A k \in 0..n : h[k] = IF k = 0 THEN x ELSE VisiblePart(h[k - 1])
    BY <1>6
  <2>2. 0 \in 0..n /\ \A k \in 1..n : k \in 0..n /\ k # 0
    OBVIOUS
  <2> QED
    BY <2>1, <2>2
<1>8. \A k \in 1..n : h[k - 1] \in LoopState => h[k] = GoOverVisible[h[k - 1]]
  BY <1>7 DEF GoOverVisible
<1> HIDE DEF Is
<1>9. h[n] = f[n]
  <2>1. GoOverVisible \in [LoopState -> LoopState]
    BY VisibleCloser DEF Closer
  <2> QED
    BY <2>1, <1>1, <1>7, <1>8, RoundsAgree
<1> QED
  BY <1>1, <1>4, <1>5, <1>9

LEMMA VisibleEnds ==
    ASSUME NEW x \in LoopState, NEW n \in Nat, Over(x)
    PROVE  Loop(VisiblePart, x, n) = x
<1>1. PICK g : Rounds(g, n, GoOverVisible, x, LoopState) /\ Loop(VisiblePart, x, n) = g[n]
  BY VisibleRounds
<1>2. x \in OverStates
  BY DEF OverStates
<1>3. g[n] = x
  BY <1>1, <1>2, VisibleCloser, RoundsStay
<1> QED
  BY <1>1, <1>3

(* appendVisible is its first part and then the rest.                      *)
LEMMA VisibleUnfolds ==
    ASSUME NEW d \in Detector, NEW s \in Seq(Char)
    PROVE  Visible(d, s) =
               IF s = <<>> THEN Result(d, None)
               ELSE LET x == VisiblePart(Begin(d, s))
                    IN  IF x.fed.detection # None THEN x.fed
                        ELSE Visible(x.fed.detector, x.rest)
<1>1. Len(s) \in Nat /\ Begin(d, s) \in LoopState
  BY LoopStates
<1>2. CASE s = <<>>
  <2>1. Over(Begin(d, s)) /\ Begin(d, s).fed = Result(d, None)
    BY <1>2, LoopStates
  <2>2. Loop(VisiblePart, Begin(d, s), Len(s)) = Begin(d, s)
    BY <1>1, <2>1, VisibleEnds
  <2> QED
    BY <1>2, <2>1, <2>2 DEF Visible
<1>3. CASE s # <<>>
  <2> DEFINE b == Begin(d, s)
             x == VisiblePart(b)
             n == Len(x.rest)
  <2>1. x \in LoopState /\ n \in Nat /\ b.rest = s
    <3>1. x \in LoopState
      BY <1>1, VisiblePartTypes
    <3> QED
      BY <3>1, LoopStates
  <2>2. Loop(VisiblePart, b, Len(s)) = Loop(VisiblePart, x, n)
    <3>1. PICK g : Rounds(g, Len(s), GoOverVisible, b, LoopState) /\ Loop(VisiblePart, b, Len(s)) = g[Len(s)]
      BY <1>1, VisibleRounds
    <3>2. PICK h : Rounds(h, n, GoOverVisible, x, LoopState) /\ Loop(VisiblePart, x, n) = h[n]
      BY <2>1, VisibleRounds
    <3>3. GoOverVisible[b] = x /\ Left[b] <= Len(s) /\ Left[x] <= n
      BY <1>1, <2>1 DEF GoOverVisible, Left
    <3> HIDE DEF b, x, n
    <3>4. b \in LoopState
      BY <1>1 DEF b
    <3>5. Rounds(h, n, GoOverVisible, GoOverVisible[b], LoopState) /\ Left[GoOverVisible[b]] <= n
      BY <3>2, <3>3
    <3>6. g[Len(s)] = h[n]
      BY <1>1, <2>1, <3>1, <3>3, <3>4, <3>5, VisibleCloser, LoopUnfolds
    <3> QED
      BY <3>1, <3>2, <3>6
  <2>3. Visible(d, s) = Loop(VisiblePart, x, n).fed
    BY <2>2 DEF Visible
  <2> HIDE DEF x
  <2>4. CASE x.fed.detection # None
    <3>1. Over(x)
      BY <2>4 DEF Over
    <3>2. Loop(VisiblePart, x, n) = x
      BY <2>1, <3>1, VisibleEnds
    <3> QED
      BY <2>3, <2>4, <3>2, <1>3 DEF x
  <2>5. CASE x.fed.detection = None
    <3>1. x = Begin(x.fed.detector, x.rest)
      BY <2>1, <2>5, LoopStates
    <3>2. Visible(x.fed.detector, x.rest) = Loop(VisiblePart, x, n).fed
      BY <3>1 DEF Visible
    <3> QED
      BY <2>3, <2>5, <3>2, <1>3 DEF x
  <2> QED
    BY <2>4, <2>5
<1> QED
  BY <1>2, <1>3

LEMMA VisibleTypes ==
    ASSUME NEW d \in Detector, NEW s \in Seq(Char)
    PROVE  /\ Visible(d, s) \in Fed
           /\ SameKind(d, Visible(d, s).detector)
<1> DEFINE Good(e, t) == /\ Visible(e, t) \in Fed
                         /\ SameKind(e, Visible(e, t).detector)
           T == {n \in Nat : \A e \in Detector, t \in Seq(Char) : Len(t) <= n => Good(e, t)}
<1>1. ASSUME NEW e \in Detector PROVE Good(e, <<>>)
  <2>1. Visible(e, <<>>) = Result(e, None)
    <3>1. <<>> \in Seq(Char)
      OBVIOUS
    <3> QED
      BY <3>1, VisibleUnfolds
  <2>2. SameKind(e, e)
    BY DEF SameKind
  <2> QED
    BY <2>1, <2>2, FedIsResult, ResultParts
<1>2. 0 \in T
  <2>1. ASSUME NEW e \in Detector, NEW t \in Seq(Char), Len(t) <= 0 PROVE Good(e, t)
    <3>1. t = <<>>
      BY <2>1, EmptySeq
    <3> QED
      BY <3>1, <1>1
  <2> HIDE DEF Good
  <2> QED
    BY <2>1
<1>3. ASSUME NEW n \in Nat, n \in T PROVE n + 1 \in T
  <2>1. ASSUME NEW e \in Detector, NEW t \in Seq(Char), Len(t) <= n + 1 PROVE Good(e, t)
    <3>1. CASE t = <<>>
      BY <3>1, <1>1
    <3>2. CASE t # <<>>
      <4> DEFINE x == VisiblePart(Begin(e, t))
      <4>1. Begin(e, t) \in LoopState /\ Begin(e, t).rest = t /\ ~Over(Begin(e, t))
        BY <3>2, LoopStates
      <4>2. Begin(e, t).fed.detector = e
        BY LoopStates, ResultParts
      <4>3. x \in LoopState /\ Len(x.rest) < Len(t) /\ SameKind(e, x.fed.detector)
        BY <4>1, <4>2, VisiblePartTypes
      <4>4. Visible(e, t) = IF x.fed.detection # None THEN x.fed
                                   ELSE Visible(x.fed.detector, x.rest)
        BY <3>2, VisibleUnfolds
      <4> HIDE DEF x
      <4>5. /\ x.fed \in Fed /\ x.fed.detector \in Detector /\ x.rest \in Seq(Char)
            /\ Len(x.rest) \in Nat /\ Len(t) \in Nat
        BY <4>3, LoopStates
      <4>6. Len(x.rest) <= n
        BY <4>3, <4>5, <2>1
      <4>7. Good(x.fed.detector, x.rest)
        BY <4>5, <4>6, <1>3
      <4>8. SameKind(x.fed.detector, Visible(x.fed.detector, x.rest).detector)
            => SameKind(e, Visible(x.fed.detector, x.rest).detector)
        BY <4>3 DEF SameKind
      <4> QED
        BY <4>3, <4>4, <4>5, <4>7, <4>8
    <3> QED
      BY <3>1, <3>2
  <2> HIDE DEF Good
  <2>2. n + 1 \in Nat
    OBVIOUS
  <2> QED
    BY <2>1, <2>2
<1> HIDE DEF T
<1>4. Len(s) \in T
  <2>1. Len(s) \in Nat
    OBVIOUS
  <2> QED
    BY <2>1, <1>2, <1>3, Induction
<1>5. Len(s) <= Len(s)
  OBVIOUS
<1> HIDE DEF Good
<1>6. Good(d, s)
  BY <1>4, <1>5 DEF T
<1> QED
  BY <1>6 DEF Good

LEMMA VisibleToEnd ==
    ASSUME NEW d \in Detector, NEW s \in Seq(Char), s # <<>>, FencesIn(s) = {},
           NEW n, n = Len(s) - Trailing(s), NEW r, r = AppendVisibleSegment(d, SubSeq(s, 1, n))
    PROVE  Visible(d, s) = Result(Holding(r.detector, SubSeq(s, n + 1, Len(s))), r.detection)
<1> DEFINE x == VisiblePart(Begin(d, s))
           e == Holding(r.detector, SubSeq(s, n + 1, Len(s)))
<1>1. x = [fed |-> Result(e, r.detection), rest |-> <<>>]
  BY VisiblePartOf
<1>2. Visible(d, s) = IF x.fed.detection # None THEN x.fed ELSE Visible(x.fed.detector, x.rest)
  BY VisibleUnfolds
<1>3. x.fed.detector \in Detector
  BY LoopStates, VisiblePartTypes
<1> HIDE DEF x, e
<1>4. x.fed = Result(e, r.detection) /\ x.rest = <<>>
  BY <1>1
<1>5. x.fed.detector = e /\ x.fed.detection = r.detection
  BY <1>4, ResultParts
<1>6. Visible(e, <<>>) = Result(e, None)
  <2>1. <<>> \in Seq(Char)
    BY EmptySeq
  <2> QED
    BY <2>1, <1>3, <1>5, VisibleUnfolds
<1>7. Visible(d, s) = Result(e, r.detection)
  BY <1>2, <1>4, <1>5, <1>6
<1> QED
  BY <1>7 DEF e

LEMMA VisibleOverFence ==
    ASSUME NEW d \in Detector, NEW s \in Seq(Char), FencesIn(s) # {},
           NEW f, f = FirstFence(s), NEW r, r = AppendVisibleSegment(d, SubSeq(s, 1, f))
    PROVE  Visible(d, s) = IF r.detection # None THEN r
                           ELSE Visible(PassFence(r.detector), SubSeq(s, f + 4, Len(s)))
<1> DEFINE x == VisiblePart(Begin(d, s))
           q == IF r.detection # None THEN r ELSE Result(PassFence(r.detector), None)
<1>1. s # <<>>
  <2>1. f \in 0..Len(s) - 3 /\ Len(s) \in Nat
    BY FirstFenceIs
  <2>2. Len(s) # 0
    BY <2>1
  <2> QED
    BY <2>2
<1>2. x = [fed |-> q, rest |-> SubSeq(s, f + 4, Len(s))]
  BY <1>1, VisiblePartOf
<1>3. Visible(d, s) = IF x.fed.detection # None THEN x.fed ELSE Visible(x.fed.detector, x.rest)
  BY <1>1, VisibleUnfolds
<1>4. x.fed = q /\ x.rest = SubSeq(s, f + 4, Len(s))
  <2> HIDE DEF x, q
  <2> QED
    BY <1>2
<1> HIDE DEF x
<1>5. CASE r.detection # None
  BY <1>3, <1>4, <1>5
<1>6. CASE r.detection = None
  BY <1>3, <1>4, <1>6, ResultParts
<1> QED
  BY <1>5, <1>6

(* The text up to where a fence may begin, and the rest.                   *)
LEMMA VisibleAfterClean ==
    ASSUME NEW d \in Detector, d.fenceCarry = <<>>, NEW p \in Seq(Char), Clean(p),
           NEW c \in Seq(Char), NEW q, q = AppendVisibleSegment(d, p)
    PROVE  /\ q.detection = None => Visible(d, p \o c) = Visible(q.detector, c)
           /\ q.detection # None => Visible(d, p \o c).detection = q.detection
<1> DEFINE u == p \o c
<1>1. /\ u \in Seq(Char) /\ Len(u) = Len(p) + Len(c)
      /\ Len(p) \in Nat /\ Len(c) \in Nat
  BY JoinText
<1>2. q \in Fed /\ q.detector \in Detector /\ q.detector.fenceCarry = <<>>
  <2>1. q \in Fed /\ SameFences(d, q.detector)
    BY SegmentTypes
  <2> QED
    BY <2>1, FedIsResult DEF SameFences
<1>3. <<>> \in Seq(Char) /\ Len(<<>>) = 0
  BY EmptySeq
<1>4. CASE p = <<>>
  <2>1. u = c
    BY <1>4, ConcatEmptySeq
  <2>2. q = Result(d, None)
    BY <1>4, SegmentEmpty
  <2> QED
    BY <2>1, <2>2, ResultParts
<1>5. CASE p # <<>> /\ FencesIn(c) = {}
  <2> DEFINE m == Len(c) - Trailing(c)
             n == Len(p) + m
             g == SubSeq(c, 1, m)
             w == SubSeq(c, m + 1, Len(c))
             r == AppendVisibleSegment(d, p \o g)
  <2>1. u # <<>>
    <3>1. Len(p) # 0
      BY <1>5, EmptySeq
    <3>2. Len(u) # 0
      BY <3>1, <1>1
    <3> HIDE DEF u
    <3> QED
      BY <3>2
  <2>2. FencesIn(u) = {}
    <3>1. FencesIn(u) = {Len(p) + i : i \in FencesIn(c)}
      BY FencesAfterClean
    <3> HIDE DEF u
    <3> QED
      BY <3>1, <1>5
  <2>3. m \in 0..Len(c) /\ Trailing(c) \in Int
    <3>1. m \in 0..Len(c)
      BY <1>5, CleanFront
    <3>2. Trailing(c) \in 0..2
      BY TrailingIs DEF IsTrailing
    <3> QED
      BY <3>1, <3>2
  <2>4. n = Len(u) - Trailing(u)
    <3>1. Trailing(u) = Trailing(c)
      BY TrailingAfterClean
    <3> HIDE DEF u
    <3> QED
      BY <3>1, <1>1, <2>3
  <2> HIDE DEF m
  <2>5. SubSeq(u, 1, n) = p \o g /\ SubSeq(u, n + 1, Len(u)) = w
    BY <2>3, CutJoined
  <2>6. g \in Seq(Char) /\ w \in Seq(Char) /\ Len(g) = m
    BY <2>3, CutText
  <2>7. Visible(d, u) = Result(Holding(r.detector, w), r.detection)
    <3>1. r = AppendVisibleSegment(d, SubSeq(u, 1, n))
      BY <2>5
    <3> HIDE DEF u, n, r
    <3>2. Visible(d, u) = Result(Holding(r.detector, SubSeq(u, n + 1, Len(u))), r.detection)
      BY <3>1, <1>1, <2>1, <2>2, <2>4, VisibleToEnd
    <3> QED
      BY <3>2, <2>5
  <2> HIDE DEF g, w, n
  <2>8. r = SegmentOn(q, g)
    BY <2>6, SegmentJoin
  <2> HIDE DEF r, u
  <2>9. CASE q.detection # None
    BY <2>7, <2>8, <2>9, ResultParts DEF SegmentOn, u
  <2>10. CASE q.detection = None /\ c # <<>>
    <3>1. r = AppendVisibleSegment(q.detector, SubSeq(c, 1, m))
      BY <2>8, <2>10 DEF SegmentOn, g
    <3>2. Visible(q.detector, c) = Result(Holding(r.detector, SubSeq(c, m + 1, Len(c))), r.detection)
      <4>1. m = Len(c) - Trailing(c)
        BY DEF m
      <4> QED
        BY <4>1, <3>1, <1>2, <1>5, <2>10, VisibleToEnd
    <3> QED
      BY <3>2, <2>7, <2>10 DEF w, u
  <2>11. CASE q.detection = None /\ c = <<>>
    <3>1. m = 0
      BY <2>3, <2>11, <1>3
    <3>2. g = <<>> /\ w = <<>>
      <4>1. g = <<>>
        BY <2>6, <3>1, EmptySeq
      <4>2. w = <<>>
        <5>1. Len(w) = Len(c) - m
          BY <2>3, CutText DEF w
        <5>2. Len(w) = 0
          BY <5>1, <3>1, <2>11, <1>3
        <5> QED
          BY <5>2, <2>6, EmptySeq
      <4> QED
        BY <4>1, <4>2
    <3>3. r = Result(q.detector, None)
      BY <3>2, <2>8, <2>11, <1>2, SegmentEmpty DEF SegmentOn
    <3>4. Holding(q.detector, <<>>) = q.detector
      BY <1>2, <1>3, HoldingTypes
    <3>5. Visible(d, u) = Result(q.detector, None)
      BY <3>2, <3>3, <3>4, <2>7, ResultParts
    <3>6. Visible(q.detector, c) = Result(q.detector, None)
      BY <2>11, <1>2, VisibleUnfolds
    <3> QED
      BY <3>5, <3>6, <2>11 DEF u
  <2> QED
    BY <2>9, <2>10, <2>11
<1>6. CASE p # <<>> /\ FencesIn(c) # {}
  <2> DEFINE F == FirstFence(c)
             n == Len(p) + F
             g == SubSeq(c, 1, F)
             v == SubSeq(c, F + 4, Len(c))
             r == AppendVisibleSegment(d, p \o g)
  <2>1. F \in 0..Len(c) /\ F + 3 \in 0..Len(c) /\ F \in Nat
    <3>1. F \in 0..Len(c) /\ F + 3 \in 0..Len(c)
      BY <1>6, FirstFenceIs
    <3> QED
      BY <3>1
  <2>2. FencesIn(u) # {} /\ FirstFence(u) = n
    BY <1>6, FirstFenceAfterClean
  <2>3. SubSeq(u, 1, n) = p \o g /\ SubSeq(u, n + 4, Len(u)) = v
    <3> HIDE DEF F
    <3>1. SubSeq(u, 1, Len(p) + F) = p \o SubSeq(c, 1, F)
      BY <2>1, CutJoined
    <3>2. SubSeq(u, Len(p) + (F + 3) + 1, Len(u)) = SubSeq(c, F + 3 + 1, Len(c))
      BY <2>1, CutJoined
    <3>3. Len(p) + (F + 3) + 1 = n + 4 /\ F + 3 + 1 = F + 4
      BY <2>1, <1>1
    <3> QED
      BY <3>1, <3>2, <3>3
  <2>4. g \in Seq(Char)
    <3> HIDE DEF F
    <3> QED
      BY <2>1, CutText
  <2>5. Visible(d, u) = IF r.detection # None THEN r ELSE Visible(PassFence(r.detector), v)
    <3>1. r = AppendVisibleSegment(d, SubSeq(u, 1, n))
      BY <2>3
    <3> HIDE DEF u, n, r, v
    <3>2. Visible(d, u) = IF r.detection # None THEN r
                          ELSE Visible(PassFence(r.detector), SubSeq(u, n + 4, Len(u)))
      <4>1. u \in Seq(Char)
        BY <1>1
      <4>2. n = FirstFence(u) /\ FencesIn(u) # {}
        BY <2>2
      <4> QED
        BY <3>1, <4>1, <4>2, VisibleOverFence
    <3> QED
      BY <3>2, <2>3
  <2> HIDE DEF g
  <2>6. r = SegmentOn(q, g)
    BY <2>4, SegmentJoin
  <2> HIDE DEF r, u
  <2>7. CASE q.detection # None
    BY <2>5, <2>6, <2>7 DEF SegmentOn, u
  <2>8. CASE q.detection = None
    <3>1. r = AppendVisibleSegment(q.detector, SubSeq(c, 1, F))
      BY <2>6, <2>8 DEF SegmentOn, g
    <3>2. Visible(q.detector, c) = IF r.detection # None THEN r
                                   ELSE Visible(PassFence(r.detector), SubSeq(c, F + 4, Len(c)))
      BY <3>1, <1>2, <1>6, VisibleOverFence
    <3> QED
      BY <3>2, <2>5, <2>8 DEF u
  <2> QED
    BY <2>7, <2>8
<1> QED
  BY <1>4, <1>5, <1>6

(* What more text makes of a result of appendVisible.                      *)
VisibleOn(r, s) == Visible(Holding(r.detector, <<>>), r.detector.fenceCarry \o s)

GoesOn(r, s, joined) ==
    /\ r.detection = None => joined = VisibleOn(r, s)
    /\ r.detection # None => joined.detection = r.detection

(* It makes no difference to appendVisible where a text is cut, if the     *)
(* backticks held back are put before the rest.                            *)
LEMMA VisibleJoin ==
    ASSUME NEW d \in Detector, d.fenceCarry = <<>>, NEW a \in Seq(Char), NEW b \in Seq(Char)
    PROVE  GoesOn(Visible(d, a), b, Visible(d, a \o b))
<1> DEFINE Same(e, s) == GoesOn(Visible(e, s), b, Visible(e, s \o b))
           T == {n \in Nat : \A e \in Detector, s \in Seq(Char) :
                                 e.fenceCarry = <<>> /\ Len(s) <= n => Same(e, s)}
<1>1. ASSUME NEW e \in Detector, e.fenceCarry = <<>> PROVE Same(e, <<>>)
  <2>1. <<>> \in Seq(Char) /\ <<>> \o b = b
    BY EmptySeq, ConcatEmptySeq
  <2>2. Visible(e, <<>>) = Result(e, None)
    BY <2>1, VisibleUnfolds
  <2>3. Holding(e, <<>>) = e
    BY <1>1, <2>1, HoldingTypes
  <2> DEFINE r == Visible(e, <<>>)
  <2>4. r.detector = e /\ r.detection = None
    BY <2>2, ResultParts
  <2> HIDE DEF r
  <2>5. VisibleOn(r, b) = Visible(e, b)
    BY <1>1, <2>1, <2>3, <2>4 DEF VisibleOn
  <2>6. GoesOn(r, b, Visible(e, b))
    BY <2>4, <2>5 DEF GoesOn
  <2> QED
    BY <2>1, <2>6 DEF r
<1>2. ASSUME NEW e \in Detector, e.fenceCarry = <<>>, NEW s \in Seq(Char), s # <<>>,
             FencesIn(s) = {}
      PROVE  Same(e, s)
  <2> DEFINE n == Len(s) - Trailing(s)
             p == SubSeq(s, 1, n)
             w == SubSeq(s, n + 1, Len(s))
             q == AppendVisibleSegment(e, p)
  <2>1. n \in 0..Len(s) /\ Clean(p)
    BY <1>2, CleanFront
  <2>2. Visible(e, s) = Result(Holding(q.detector, w), q.detection)
    BY <1>2, VisibleToEnd
  <2> HIDE DEF n
  <2>3. p \in Seq(Char) /\ w \in Seq(Char) /\ p \o w = s
    BY <2>1, CutText
  <2> HIDE DEF p, w
  <2>4. s \o b = p \o (w \o b) /\ w \o b \in Seq(Char)
    <3>1. w \o b \in Seq(Char)
      BY <2>3, JoinText
    <3>2. p \in Seq(Char) /\ w \in Seq(Char)
      BY <2>3
    <3>3. (p \o w) \o b = p \o (w \o b)
      BY <3>2, JoinThree, SMTT(30)
    <3> QED
      BY <3>1, <3>3, <2>3
  <2>5. q \in Fed /\ SameFences(e, q.detector)
    BY <2>3, SegmentTypes
  <2> HIDE DEF q
  <2>6. q.detector \in Detector /\ q.detector.fenceCarry = <<>>
    BY <2>5, <1>2, FedIsResult DEF SameFences
  <2> DEFINE c == w \o b
  <2>7. c \in Seq(Char) /\ s \o b = p \o c
    BY <2>4
  <2>8. c = w \o b
    OBVIOUS
  <2> HIDE DEF c
  <2>9. /\ q.detection = None => Visible(e, p \o c) = Visible(q.detector, c)
        /\ q.detection # None => Visible(e, p \o c).detection = q.detection
    BY <1>2, <2>1, <2>3, <2>7, VisibleAfterClean DEF q
  <2>10. <<>> \in Seq(Char)
    BY EmptySeq
  <2> DEFINE h == Holding(q.detector, w)
  <2>11. h.fenceCarry = w /\ Holding(h, <<>>) = q.detector
    <3>1. h.fenceCarry = w /\ Holding(h, <<>>) = Holding(q.detector, <<>>)
      BY <2>3, <2>6, HoldingTypes
    <3>2. Holding(q.detector, <<>>) = q.detector
      BY <2>6, <2>10, HoldingTypes
    <3> QED
      BY <3>1, <3>2
  <2> HIDE DEF h
  <2>12. Visible(e, s).detector = h /\ Visible(e, s).detection = q.detection
    BY <2>2, ResultParts DEF h
  <2>13. VisibleOn(Visible(e, s), b) = Visible(q.detector, c)
    BY <2>8, <2>11, <2>12 DEF VisibleOn
  <2> QED
    BY <2>7, <2>9, <2>12, <2>13 DEF GoesOn
<1>3. 0 \in T
  <2>1. ASSUME NEW e \in Detector, e.fenceCarry = <<>>, NEW s \in Seq(Char), Len(s) <= 0
        PROVE  Same(e, s)
    <3>1. s = <<>>
      BY <2>1, EmptySeq
    <3> QED
      BY <3>1, <2>1, <1>1
  <2> HIDE DEF Same
  <2> QED
    BY <2>1
<1>4. ASSUME NEW n \in Nat, n \in T PROVE n + 1 \in T
  <2>1. ASSUME NEW e \in Detector, e.fenceCarry = <<>>, NEW s \in Seq(Char), Len(s) <= n + 1,
               FencesIn(s) # {}
        PROVE  Same(e, s)
    <3> DEFINE f == FirstFence(s)
               r == AppendVisibleSegment(e, SubSeq(s, 1, f))
               v == SubSeq(s, f + 4, Len(s))
               u == s \o b
    <3>1. f \in 0..Len(s) /\ f + 3 \in 0..Len(s) /\ f \in Nat /\ Len(s) \in Nat
      <4>1. f \in 0..Len(s) /\ f + 3 \in 0..Len(s)
        BY <2>1, FirstFenceIs
      <4> QED
        BY <4>1
    <3>2. u \in Seq(Char)
      BY JoinText
    <3>3. FencesIn(u) # {} /\ FirstFence(u) = f
      BY <2>1, FirstFenceStays
    <3>4. Visible(e, s) = IF r.detection # None THEN r ELSE Visible(PassFence(r.detector), v)
      BY <2>1, VisibleOverFence
    <3>5. /\ SubSeq(u, 1, f) = SubSeq(s, 1, f) /\ SubSeq(u, f + 4, Len(u)) = v \o b
          /\ SubSeq(s, 1, f) \in Seq(Char) /\ v \in Seq(Char) /\ Len(v) = Len(s) - (f + 3)
      <4> HIDE DEF f
      <4>1. SubSeq(u, 1, f) = SubSeq(s, 1, f)
        BY <3>1, CutFront
      <4>2. SubSeq(u, f + 3 + 1, Len(u)) = SubSeq(s, f + 3 + 1, Len(s)) \o b
        BY <3>1, CutFront
      <4>3. SubSeq(s, 1, f) \in Seq(Char)
        BY <3>1, CutText
      <4>4. /\ SubSeq(s, f + 3 + 1, Len(s)) \in Seq(Char)
            /\ Len(SubSeq(s, f + 3 + 1, Len(s))) = Len(s) - (f + 3)
        BY <3>1, CutText
      <4>5. f + 3 + 1 = f + 4
        BY <3>1
      <4> QED
        BY <4>1, <4>2, <4>3, <4>4, <4>5
    <3>6. Visible(e, u) = IF r.detection # None THEN r ELSE Visible(PassFence(r.detector), v \o b)
      <4>1. r = AppendVisibleSegment(e, SubSeq(u, 1, f))
        BY <3>5
      <4>2. f = FirstFence(u) /\ FencesIn(u) # {}
        BY <3>3
      <4> HIDE DEF f, u, r, v
      <4>3. Visible(e, u) = IF r.detection # None THEN r
                            ELSE Visible(PassFence(r.detector), SubSeq(u, f + 4, Len(u)))
        BY <3>2, <4>1, <4>2, VisibleOverFence
      <4> QED
        BY <4>3, <3>5
    <3> HIDE DEF f, v, u
    <3>7. r \in Fed /\ SameFences(e, r.detector)
      BY <3>5, SegmentTypes
    <3> HIDE DEF r
    <3> DEFINE g == PassFence(r.detector)
    <3>8. g \in Detector /\ g.fenceCarry = <<>>
      <4>1. r.detector \in Detector /\ r.detector.fenceCarry = <<>>
        BY <2>1, <3>7, FedIsResult DEF SameFences
      <4> QED
        BY <4>1, PassFenceTypes
    <3> HIDE DEF g
    <3>9. Len(v) <= n
      BY <3>1, <3>5, <2>1
    <3>10. Same(g, v)
      <4> HIDE DEF Same
      <4> QED
        BY <3>5, <3>8, <3>9, <1>4
    <3>11. CASE r.detection # None
      BY <3>4, <3>6, <3>11 DEF GoesOn, u
    <3>12. CASE r.detection = None
      BY <3>4, <3>6, <3>10, <3>12 DEF u, g
    <3> QED
      BY <3>11, <3>12
  <2>2. ASSUME NEW e \in Detector, NEW s \in Seq(Char), e.fenceCarry = <<>> /\ Len(s) <= n + 1
        PROVE  Same(e, s)
    <3> HIDE DEF Same
    <3> QED
      BY <2>1, <2>2, <1>1, <1>2
  <2> HIDE DEF Same
  <2>3. n + 1 \in Nat
    OBVIOUS
  <2> QED
    BY <2>2, <2>3
<1> HIDE DEF T
<1>5. Len(a) \in T
  <2>1. Len(a) \in Nat
    OBVIOUS
  <2> QED
    BY <2>1, <1>3, <1>4, Induction
<1>6. Len(a) <= Len(a)
  OBVIOUS
<1> HIDE DEF Same
<1>7. Same(d, a)
  BY <1>5, <1>6 DEF T
<1> QED
  BY <1>7 DEF Same

--------------------------------------------------------------------------------
(* append.                                                                 *)

LEMMA FeedTypes ==
    ASSUME NEW d \in Detector, NEW s \in Seq(Char)
    PROVE  Feed(d, s) \in Fed /\ SameKind(d, Feed(d, s).detector)
<1>1. CASE d.contentKind = "thinking"
  <2>1. Feed(d, s) = AppendAnalyzed(d, s)
    BY <1>1 DEF Feed
  <2> QED
    BY <2>1, AnalyzedTypes DEF SameFences, SameKind
<1>2. CASE d.contentKind # "thinking"
  <2> DEFINE e == Holding(d, <<>>)
             u == d.fenceCarry \o s
  <2>1. Feed(d, s) = Visible(e, u)
    BY <1>2 DEF Feed, Holding
  <2>2. <<>> \in Seq(Char) /\ d.fenceCarry \in Seq(Char)
    BY EmptySeq DEF Detector
  <2>3. u \in Seq(Char)
    BY <2>2, JoinText
  <2>4. e \in Detector /\ e.contentKind = d.contentKind
    BY <2>2, HoldingTypes
  <2> HIDE DEF e, u
  <2>5. Visible(e, u) \in Fed /\ SameKind(e, Visible(e, u).detector)
    BY <2>3, <2>4, VisibleTypes
  <2> QED
    BY <2>1, <2>4, <2>5 DEF SameKind
<1> QED
  BY <1>1, <1>2

(* It makes no difference where a text is cut.                             *)
LEMMA FeedJoin ==
    ASSUME NEW d \in Detector, NEW a \in Seq(Char), NEW b \in Seq(Char), NEW r, r = Feed(d, a)
    PROVE  /\ r.detection = None => Feed(d, a \o b) = Feed(r.detector, b)
           /\ r.detection # None => Feed(d, a \o b).detection = r.detection
<1>1. r \in Fed /\ r.detector.contentKind = d.contentKind
  BY FeedTypes DEF SameKind
<1>2. CASE d.contentKind = "thinking"
  <2>1. r = AppendAnalyzed(d, a) /\ Feed(d, a \o b) = AppendAnalyzed(d, a \o b)
    BY <1>2 DEF Feed
  <2>2. Feed(d, a \o b) = AnalyzeOn(r, b)
    BY <2>1, AnalyzedJoin
  <2>3. Feed(r.detector, b) = AppendAnalyzed(r.detector, b)
    BY <1>1, <1>2 DEF Feed
  <2> QED
    BY <2>2, <2>3 DEF AnalyzeOn
<1>3. CASE d.contentKind # "thinking"
  <2> DEFINE e == Holding(d, <<>>)
             w == d.fenceCarry
             u == w \o a
  <2>1. <<>> \in Seq(Char) /\ w \in Seq(Char)
    BY EmptySeq DEF Detector
  <2>2. e \in Detector /\ e.fenceCarry = <<>>
    BY <2>1, HoldingTypes
  <2>3. u \in Seq(Char)
    BY <2>1, JoinText
  <2>4. w \o (a \o b) = u \o b
    <3>1. w \in Seq(Char)
      BY <2>1
    <3> HIDE DEF w
    <3>2. (w \o a) \o b = w \o (a \o b)
      BY <3>1, JoinThree, SMTT(30)
    <3> QED
      BY <3>2
  <2>5. r = Visible(e, u) /\ Feed(d, a \o b) = Visible(e, w \o (a \o b))
    BY <1>3 DEF Feed, Holding
  <2>6. Feed(r.detector, b) = VisibleOn(r, b)
    BY <1>1, <1>3 DEF Feed, Holding, VisibleOn
  <2> HIDE DEF e, w, u
  <2>7. GoesOn(Visible(e, u), b, Visible(e, u \o b))
    BY <2>2, <2>3, VisibleJoin
  <2>8. GoesOn(r, b, Feed(d, a \o b))
    BY <2>4, <2>5, <2>7
  <2> QED
    BY <2>6, <2>8 DEF GoesOn
<1> QED
  BY <1>2, <1>3

LEMMA FeedNextTypes ==
    ASSUME NEW x \in LoopState
    PROVE  /\ FeedNext(x) \in LoopState
           /\ Over(x) => FeedNext(x) = x
           /\ ~Over(x) => Len(FeedNext(x).rest) < Len(x.rest)
           /\ SameKind(x.fed.detector, FeedNext(x).fed.detector)
<1>1. CASE Over(x)
  <2>1. FeedNext(x) = x
    BY <1>1 DEF FeedNext
  <2> QED
    BY <2>1, <1>1 DEF SameKind
<1>2. CASE ~Over(x)
  <2> DEFINE d == x.fed.detector
             s == x.rest
             r == Feed(d, <<Head(s)>>)
  <2>1. FeedNext(x) = [fed |-> r, rest |-> Tail(s)]
    BY <1>2 DEF FeedNext
  <2>2. d \in Detector /\ s \in Seq(Char) /\ s # <<>> /\ Len(s) \in Nat
    BY <1>2, LoopStates DEF Over
  <2>3. Head(s) \in Char /\ Tail(s) \in Seq(Char) /\ Len(Tail(s)) = Len(s) - 1
    <3> HIDE DEF s
    <3> QED
      BY <2>2, HeadTailProperties
  <2>4. <<Head(s)>> \in Seq(Char)
    <3> HIDE DEF s
    <3> QED
      BY <2>3
  <2> HIDE DEF d, s
  <2>5. r \in Fed /\ SameKind(d, r.detector)
    BY <2>2, <2>4, FeedTypes
  <2> HIDE DEF r
  <2>6. FeedNext(x) \in LoopState
    BY <2>1, <2>3, <2>5, LoopStates
  <2>7. FeedNext(x).fed = r /\ FeedNext(x).rest = Tail(s)
    BY <2>1
  <2>8. Len(Tail(s)) < Len(s)
    BY <2>2, <2>3
  <2> QED
    BY <1>2, <2>5, <2>6, <2>7, <2>8 DEF d, s
<1> QED
  BY <1>1, <1>2

FeedOn == [x \in LoopState |-> FeedNext(x)]

LEMMA FeedCloser == Closer(FeedOn, Left, OverStates, LoopState)
<1>1. FeedOn \in [LoopState -> LoopState]
  BY FeedNextTypes DEF FeedOn
<1>2. Left \in [LoopState -> Nat]
  BY LoopStates DEF Left
<1>3. \A x \in LoopState : x \in OverStates => FeedOn[x] = x
  BY FeedNextTypes DEF FeedOn, OverStates
<1>4. \A x \in LoopState : x \notin OverStates => Left[FeedOn[x]] < Left[x]
  BY FeedNextTypes DEF FeedOn, OverStates, Left
<1> QED
  BY <1>1, <1>2, <1>3, <1>4 DEF Closer

LEMMA FeedRounds ==
    ASSUME NEW x \in LoopState, NEW n \in Nat
    PROVE  \E g : Rounds(g, n, FeedOn, x, LoopState) /\ Loop(FeedNext, x, n) = g[n]
<1> DEFINE Is(g) == g = [k \in 0..n |-> IF k = 0 THEN x ELSE FeedNext(g[k - 1])]
<1>1. PICK f : Rounds(f, n, FeedOn, x, LoopState)
  BY FeedCloser, RoundsExist DEF Closer
<1>2. /\ f \in [0..n -> LoopState] /\ f[0] = x
      /\ \A k \in 1..n : f[k] = FeedOn[f[k - 1]]
  BY <1>1 DEF Rounds
<1>3. Is(f)
  <2>1. ASSUME NEW k \in 0..n PROVE f[k] = IF k = 0 THEN x ELSE FeedNext(f[k - 1])
    <3>1. CASE k = 0
      BY <3>1, <1>2
    <3>2. CASE k # 0
      <4>1. k \in 1..n /\ k - 1 \in 0..n
        BY <3>2
      <4>2. f[k - 1] \in LoopState /\ f[k] = FeedOn[f[k - 1]]
        BY <4>1, <1>2
      <4> QED
        BY <4>2, <3>2 DEF FeedOn
    <3> QED
      BY <3>1, <3>2
  <2> QED
    BY <2>1, <1>2
<1>4. Loop(FeedNext, x, n) = (CHOOSE g : Is(g))[n]
  BY DEF Loop
<1>5. PICK h : h = CHOOSE g : Is(g)
  OBVIOUS
<1>6. Is(h)
  <2> HIDE DEF Is
  <2> QED
    BY <1>3, <1>5
<1>7. h[0] = x /\ \A k \in 1..n : h[k] = FeedNext(h[k - 1])
  <2>1. \A k \in 0..n : h[k] = IF k = 0 THEN x ELSE FeedNext(h[k - 1])
    BY <1>6
  <2>2. 0 \in 0..n /\ \A k \in 1..n : k \in 0..n /\ k # 0
    OBVIOUS
  <2> QED
    BY <2>1, <2>2
<1>8. \A k \in 1..n : h[k - 1] \in LoopState => h[k] = FeedOn[h[k - 1]]
  BY <1>7 DEF FeedOn
<1> HIDE DEF Is
<1>9. h[n] = f[n]
  <2>1. FeedOn \in [LoopState -> LoopState]
    BY FeedCloser DEF Closer
  <2> QED
    BY <2>1, <1>1, <1>7, <1>8, RoundsAgree
<1> QED
  BY <1>1, <1>4, <1>5, <1>9

LEMMA FeedEnds ==
    ASSUME NEW x \in LoopState, NEW n \in Nat, Over(x)
    PROVE  Loop(FeedNext, x, n) = x
<1>1. PICK g : Rounds(g, n, FeedOn, x, LoopState) /\ Loop(FeedNext, x, n) = g[n]
  BY FeedRounds
<1>2. x \in OverStates
  BY DEF OverStates
<1>3. g[n] = x
  BY <1>1, <1>2, FeedCloser, RoundsStay
<1> QED
  BY <1>1, <1>3

(* The text character by character.                                        *)
LEMMA FeedUnfolds ==
    ASSUME NEW d \in Detector, NEW s \in Seq(Char)
    PROVE  FeedEach(d, s) =
               IF s = <<>> THEN Result(d, None)
               ELSE LET x == FeedNext(Begin(d, s))
                    IN  IF x.fed.detection # None THEN x.fed
                        ELSE FeedEach(x.fed.detector, x.rest)
<1>1. Len(s) \in Nat /\ Begin(d, s) \in LoopState
  BY LoopStates
<1>2. CASE s = <<>>
  <2>1. Over(Begin(d, s)) /\ Begin(d, s).fed = Result(d, None)
    BY <1>2, LoopStates
  <2>2. Loop(FeedNext, Begin(d, s), Len(s)) = Begin(d, s)
    BY <1>1, <2>1, FeedEnds
  <2> QED
    BY <1>2, <2>1, <2>2 DEF FeedEach
<1>3. CASE s # <<>>
  <2> DEFINE b == Begin(d, s)
             x == FeedNext(b)
             n == Len(x.rest)
  <2>1. x \in LoopState /\ n \in Nat /\ b.rest = s
    <3>1. x \in LoopState
      BY <1>1, FeedNextTypes
    <3> QED
      BY <3>1, LoopStates
  <2>2. Loop(FeedNext, b, Len(s)) = Loop(FeedNext, x, n)
    <3>1. PICK g : Rounds(g, Len(s), FeedOn, b, LoopState) /\ Loop(FeedNext, b, Len(s)) = g[Len(s)]
      BY <1>1, FeedRounds
    <3>2. PICK h : Rounds(h, n, FeedOn, x, LoopState) /\ Loop(FeedNext, x, n) = h[n]
      BY <2>1, FeedRounds
    <3>3. FeedOn[b] = x /\ Left[b] <= Len(s) /\ Left[x] <= n
      BY <1>1, <2>1 DEF FeedOn, Left
    <3> HIDE DEF b, x, n
    <3>4. b \in LoopState
      BY <1>1 DEF b
    <3>5. Rounds(h, n, FeedOn, FeedOn[b], LoopState) /\ Left[FeedOn[b]] <= n
      BY <3>2, <3>3
    <3>6. g[Len(s)] = h[n]
      BY <1>1, <2>1, <3>1, <3>3, <3>4, <3>5, FeedCloser, LoopUnfolds
    <3> QED
      BY <3>1, <3>2, <3>6
  <2>3. FeedEach(d, s) = Loop(FeedNext, x, n).fed
    BY <2>2 DEF FeedEach
  <2> HIDE DEF x
  <2>4. CASE x.fed.detection # None
    <3>1. Over(x)
      BY <2>4 DEF Over
    <3>2. Loop(FeedNext, x, n) = x
      BY <2>1, <3>1, FeedEnds
    <3> QED
      BY <2>3, <2>4, <3>2, <1>3 DEF x
  <2>5. CASE x.fed.detection = None
    <3>1. x = Begin(x.fed.detector, x.rest)
      BY <2>1, <2>5, LoopStates
    <3>2. FeedEach(x.fed.detector, x.rest) = Loop(FeedNext, x, n).fed
      BY <3>1 DEF FeedEach
    <3> QED
      BY <2>3, <2>5, <3>2, <1>3 DEF x
  <2> QED
    BY <2>4, <2>5
<1> QED
  BY <1>2, <1>3

(* The text as a whole and character by character.                         *)
AgreeUpTo(whole, each) ==
    IF whole.detection = None THEN whole = each ELSE whole.detection = each.detection

LEMMA OneByOne ==
    ASSUME NEW d \in Detector, NEW s \in Seq(Char), s # <<>>
    PROVE  AgreeUpTo(Feed(d, s), FeedEach(d, s))
<1> DEFINE Same(e, t) == AgreeUpTo(Feed(e, t), FeedEach(e, t))
           T == {n \in Nat : \A e \in Detector, t \in Seq(Char) :
                                 t # <<>> /\ Len(t) <= n => Same(e, t)}
<1>1. 0 \in T
  <2>1. \A t \in Seq(Char) : Len(t) <= 0 => t = <<>>
    BY EmptySeq
  <2> HIDE DEF Same
  <2> QED
    BY <2>1
<1>2. ASSUME NEW n \in Nat, n \in T PROVE n + 1 \in T
  <2>1. ASSUME NEW e \in Detector, NEW t \in Seq(Char), t # <<>>, Len(t) <= n + 1
        PROVE  Same(e, t)
    <3> DEFINE h == <<Head(t)>>
               v == Tail(t)
               r == Feed(e, h)
               x == FeedNext(Begin(e, t))
    <3>1. /\ Head(t) \in Char /\ v \in Seq(Char) /\ Len(v) = Len(t) - 1 /\ Len(t) \in Nat
          /\ \A i \in 1..Len(v) : v[i] = t[i + 1]
      BY <2>1, HeadTailProperties
    <3>2. h \in Seq(Char)
      BY <3>1
    <3>3. h \o v = t
      <4> DEFINE p == Head(t)
      <4>1. p \in Char
        BY <3>1
      <4> DEFINE u == <<p>>
      <4>2. u \in Seq(Char) /\ Len(u) = 1 /\ u[1] = p
        BY <4>1
      <4>3. p = t[1]
        BY <2>1
      <4> HIDE DEF p, v
      <4>4. v \in Seq(Char) /\ Len(v) = Len(t) - 1 /\ Len(t) \in Nat
            /\ \A i \in 1..Len(v) : v[i] = t[i + 1]
        BY <3>1
      <4> HIDE DEF u
      <4>5. /\ u \o v \in Seq(Char) /\ Len(u \o v) = Len(u) + Len(v)
            /\ \A i \in 1..Len(u) : (u \o v)[i] = u[i]
            /\ \A i \in 1..Len(v) : (u \o v)[Len(u) + i] = v[i]
        <5>1. u \in Seq(Char)
          BY <4>2
        <5>2. v \in Seq(Char)
          BY <4>4
        <5> QED
          BY <5>1, <5>2, JoinText
      <4> DEFINE j == u \o v
      <4>6. j \in Seq(Char) /\ Len(j) = Len(t)
        BY <4>2, <4>4, <4>5
      <4>7. ASSUME NEW i \in 1..Len(j) PROVE j[i] = t[i]
        <5>1. CASE i = 1
          BY <5>1, <4>2, <4>3, <4>5
        <5>2. CASE i # 1
          <6>1. i - 1 \in 1..Len(v) /\ Len(u) + (i - 1) = i /\ i - 1 + 1 = i
            BY <5>2, <4>2, <4>4, <4>6
          <6> QED
            BY <6>1, <4>4, <4>5
        <5> QED
          BY <5>1, <5>2
      <4> HIDE DEF j
      <4>8. j = t
        BY <4>6, <4>7, SeqEqual
      <4> QED
        BY <4>8 DEF j, u, p
    <3>4. Begin(e, t).rest = t /\ Begin(e, t).fed.detector = e /\ ~Over(Begin(e, t))
      BY <2>1, LoopStates, ResultParts
    <3>5. x = [fed |-> r, rest |-> v]
      BY <3>4 DEF FeedNext
    <3>6. FeedEach(e, t) = IF x.fed.detection # None THEN x.fed
                           ELSE FeedEach(x.fed.detector, x.rest)
      BY <2>1, FeedUnfolds
    <3>7. x.fed = r /\ x.rest = v
      <4> HIDE DEF x, r, v
      <4> QED
        BY <3>5
    <3> HIDE DEF x, v
    <3>8. r \in Fed /\ r.detector \in Detector /\ r = Result(r.detector, r.detection)
      BY <3>2, FeedTypes, FedIsResult
    <3>9. /\ r.detection = None => Feed(e, t) = Feed(r.detector, v)
          /\ r.detection # None => Feed(e, t).detection = r.detection
      <4>1. v \in Seq(Char) /\ h \in Seq(Char) /\ t = h \o v
        BY <3>1, <3>2, <3>3
      <4> HIDE DEF h
      <4>2. r = Feed(e, h)
        OBVIOUS
      <4> HIDE DEF r
      <4>3. /\ r.detection = None => Feed(e, h \o v) = Feed(r.detector, v)
            /\ r.detection # None => Feed(e, h \o v).detection = r.detection
        BY <4>1, <4>2, FeedJoin
      <4> QED
        BY <4>1, <4>3
    <3> HIDE DEF r
    <3>10. CASE r.detection # None
      BY <3>6, <3>7, <3>9, <3>10 DEF AgreeUpTo
    <3>11. CASE r.detection = None /\ v # <<>>
      <4>1. Len(v) <= n
        BY <3>1, <2>1
      <4>2. Same(r.detector, v)
        <5> HIDE DEF Same
        <5> QED
          BY <4>1, <3>1, <3>8, <3>11, <1>2
      <4> QED
        BY <4>2, <3>6, <3>7, <3>9, <3>11
    <3>12. CASE r.detection = None /\ v = <<>>
      <4>1. FeedEach(r.detector, v) = Result(r.detector, None)
        BY <3>1, <3>8, <3>12, FeedUnfolds
      <4>2. FeedEach(e, t) = r
        BY <4>1, <3>6, <3>7, <3>8, <3>12
      <4>3. Feed(e, t) = r
        <5>1. h \o <<>> = h
          BY <3>2, ConcatEmptySeq
        <5>2. t = h
          BY <5>1, <3>3, <3>12 DEF v
        <5> QED
          BY <5>2 DEF r
      <4> QED
        BY <4>2, <4>3 DEF AgreeUpTo
    <3> QED
      BY <3>10, <3>11, <3>12
  <2> HIDE DEF Same
  <2>2. n + 1 \in Nat
    OBVIOUS
  <2> QED
    BY <2>1, <2>2
<1> HIDE DEF T
<1>3. Len(s) \in T
  <2>1. Len(s) \in Nat
    OBVIOUS
  <2> QED
    BY <2>1, <1>1, <1>2, Induction
<1>4. Len(s) <= Len(s)
  OBVIOUS
<1> HIDE DEF Same
<1>5. Same(d, s)
  BY <1>3, <1>4 DEF T
<1> QED
  BY <1>5 DEF Same

--------------------------------------------------------------------------------
(* The specification.                                                      *)

LEMMA NewTypes ==
    ASSUME NEW kind \in {"text", "thinking"}
    PROVE  New(kind) \in Detector /\ New(kind).contentKind = kind /\ New(kind).fenceCarry = <<>>
<1>1. NoveltyMin \in Nat /\ CheckInterval \in Nat /\ <<>> \in Seq(Char)
  BY NumberAssumption, EmptySeq
<1> QED
  BY <1>1 DEF New, Detector

(* The detector is what the text appended so far has made of a new one.    *)
FedText ==
    /\ detector \in Detector
    /\ text \in Seq(Char)
    /\ Result(detector, detection) = Feed(New(detector.contentKind), text)

LEMMA FedTextAfter ==
    ASSUME NEW kind \in {"text", "thinking"}, NEW s \in Seq(Char), NEW r, r = Feed(New(kind), s)
    PROVE  /\ r.detector \in Detector
           /\ Result(r.detector, r.detection) = Feed(New(r.detector.contentKind), s)
<1>1. New(kind) \in Detector /\ New(kind).contentKind = kind
  BY NewTypes
<1>2. r \in Fed /\ r.detector.contentKind = kind
  BY <1>1, FeedTypes DEF SameKind
<1> QED
  BY <1>2, FedIsResult

LEMMA FedTextInit == Init => FedText
<1> SUFFICES ASSUME Init PROVE FedText
  OBVIOUS
<1>1. PICK kind \in {"text", "thinking"} :
          /\ detector = Feed(New(kind), text).detector
          /\ detection = Feed(New(kind), text).detection
  BY DEF Init
<1>2. text \in Seq(Char)
  <2>1. <<>> \in Seq(Char) /\ Fence \in Seq(Char) /\ \A c \in Letter : <<c>> \in Seq(Char)
    BY DEF Fence, Char
  <2>2. Fence \o Fence \in Seq(Char)
    BY <2>1, JoinText
  <2>3. ASSUME NEW c \in Letter PROVE <<c>> \o Fence \o Fence \in Seq(Char)
    <3>1. <<c>> \o Fence \in Seq(Char)
      BY <2>1, JoinText
    <3> QED
      BY <3>1, <2>1, JoinText
  <2>4. text \in Opening
    BY DEF Init
  <2> QED
    BY <2>1, <2>2, <2>3, <2>4 DEF Opening
<1> QED
  BY <1>1, <1>2, FedTextAfter DEF FedText

LEMMA FedTextNext == FedText /\ [Next]_vars => FedText'
<1> SUFFICES ASSUME FedText, [Next]_vars PROVE FedText'
  OBVIOUS
<1>1. CASE UNCHANGED vars
  BY <1>1 DEF FedText, vars
<1>2. ASSUME NEW delta \in Delta, AppendDelta(delta) PROVE FedText'
  <2> DEFINE kind == detector.contentKind
             whole == Feed(New(kind), text)
             r == Feed(detector, delta)
             u == text \o delta
  <2>1. /\ detector \in Detector /\ text \in Seq(Char)
        /\ Result(detector, detection) = whole
    BY DEF FedText
  <2>2. kind \in {"text", "thinking"}
    BY <2>1 DEF Detector
  <2>3. delta \in Seq(Char)
    <3>1. PICK n \in 1..MaxDelta : delta \in [1..n -> Char]
      BY DEF Delta, Char
    <3>2. n \in Nat
      OBVIOUS
    <3> QED
      BY <3>1, <3>2
  <2>4. /\ detection = None /\ detector' = r.detector /\ detection' = r.detection
        /\ text' = u
    BY <1>2 DEF AppendDelta
  <2>5. New(kind) \in Detector
    BY <2>2, NewTypes
  <2>6. whole.detector = detector /\ whole.detection = None
    BY <2>1, <2>4, ResultParts
  <2>7. Feed(New(kind), u) = r
    <3> HIDE DEF whole, r, kind
    <3>1. whole = Feed(New(kind), text)
      BY DEF whole
    <3>2. Feed(New(kind), u) = Feed(whole.detector, delta)
      BY <3>1, <2>1, <2>3, <2>5, <2>6, FeedJoin
    <3> QED
      BY <3>2, <2>6 DEF r
  <2>8. u \in Seq(Char)
    BY <2>1, <2>3, JoinText
  <2> HIDE DEF u, r, kind
  <2>9. r.detector \in Detector
        /\ Result(r.detector, r.detection) = Feed(New(r.detector.contentKind), u)
    BY <2>2, <2>7, <2>8, FedTextAfter
  <2> QED
    BY <2>4, <2>8, <2>9 DEF FedText
<1> QED
  BY <1>1, <1>2 DEF Next

LEMMA FedTextCuts == FedText => CutsDoNotMatter
<1> SUFFICES ASSUME FedText PROVE CutsDoNotMatter
  OBVIOUS
<1> DEFINE new == New(detector.contentKind)
           now == Result(detector, detection)
           whole == Feed(new, text)
           each == FeedEach(new, text)
<1>1. detector \in Detector /\ text \in Seq(Char) /\ now = whole
  BY DEF FedText
<1>2. new \in Detector /\ new.fenceCarry = <<>>
  <2>1. detector.contentKind \in {"text", "thinking"}
    BY <1>1 DEF Detector
  <2> QED
    BY <2>1, NewTypes
<1> HIDE DEF new, now
<1>3. AgreeUpTo(whole, each)
  <2>1. CASE text # <<>>
    BY <2>1, <1>1, <1>2, OneByOne
  <2>2. CASE text = <<>>
    <3>1. <<>> \in Seq(Char)
      BY EmptySeq
    <3>2. each = Result(new, None)
      BY <3>1, <2>2, <1>2, FeedUnfolds
    <3>3. Feed(new, <<>>) = Result(new, None)
      <4>1. CASE new.contentKind = "thinking"
        <5>1. Feed(new, <<>>) = AppendAnalyzed(new, <<>>)
          BY <4>1 DEF Feed
        <5> QED
          BY <5>1, <3>1, <1>2, AnalyzedUnfolds
      <4>2. CASE new.contentKind # "thinking"
        <5>1. Feed(new, <<>>) = Visible(Holding(new, <<>>), <<>> \o <<>>)
          BY <4>2, <1>2 DEF Feed, Holding
        <5>2. Holding(new, <<>>) = new /\ <<>> \o <<>> = <<>>
          BY <3>1, <1>2, HoldingTypes, ConcatEmptySeq
        <5>3. Visible(new, <<>>) = Result(new, None)
          BY <3>1, <1>2, VisibleUnfolds
        <5> QED
          BY <5>1, <5>2, <5>3
      <4> QED
        BY <4>1, <4>2
    <3> QED
      BY <2>2, <3>2, <3>3 DEF AgreeUpTo
  <2> QED
    BY <2>1, <2>2
<1>4. now.detection = None => now = each
  BY <1>1, <1>3 DEF AgreeUpTo
<1>5. now.detection # None => now.detection = each.detection
  BY <1>1, <1>3 DEF AgreeUpTo
<1> HIDE DEF whole, each
<1> QED
  BY <1>1, <1>4, <1>5 DEF CutsDoNotMatter, now, whole, each, new

(* How the text is cut into deltas makes no difference to what the         *)
(* detector knows or finds: append in repetition-detector.ts.              *)
THEOREM CutsCorrect == Spec => []CutsDoNotMatter
<1>1. Init => FedText
  BY FedTextInit
<1>2. FedText /\ [Next]_vars => FedText'
  BY FedTextNext
<1>3. FedText => CutsDoNotMatter
  BY FedTextCuts
<1> QED
  BY <1>1, <1>2, <1>3, PTL DEF Spec

--------------------------------------------------------------------------------
(* What a detector knows of the text, told from the text alone.            *)

(* A fence begins after text[i].                                           *)
FenceAt(i) ==
    /\ detector.contentKind # "thinking"
    /\ text[i + 1] = Tick /\ text[i + 2] = Tick /\ text[i + 3] = Tick

NoFence(from, upTo) == \A i \in from..(upTo - 3) : ~FenceAt(i)

SegmentSet == [start : Nat, code : BOOLEAN]
Here(d) == [start |-> d.segmentStart, code |-> d.insideFence]

(* Repetitions and checks of a segment that begins at b.                   *)
Copied(b, n, p) ==
    /\ n - p * Copies(p) >= b
    /\ \A i \in (n - p * Copies(p) + 1)..(n - p) : text[i] = text[i + p]

CheckAt(b, k) == \E r \in Nat \ {0} : k = b + CheckInterval * r

AlikeFrom(b, k) ==
    /\ k - 2 * NearWindow >= b
    /\ Similar(SubSeq(text, k - 2 * NearWindow + 1, k - NearWindow),
               SubSeq(text, k - NearWindow + 1, k))

Quiet(b, n) == \A k \in (b + 1)..n : CheckAt(b, k) =>
                   \A p \in ExactMinPeriod..ExactMaxPeriod : ~Copied(b, k, p)

(* Where a series of alike windows began that goes on to the check at k.   *)
Series(b, start, k) ==
    LET first == b + start + 2 * NearWindow
    IN  /\ start >= 0 /\ first <= k /\ CheckAt(b, first)
        /\ ~AlikeFrom(b, first - CheckInterval)
        /\ \A j \in first..k : CheckAt(b, j) => AlikeFrom(b, j)

SeriesIs(b, d, k) == IF d.comparisons = 0 THEN ~AlikeFrom(b, k) ELSE Series(b, d.nearStart, k)

(* The detector has read the text up to where it is in its segment.        *)
Reads(d) ==
    LET read == SubSeq(text, d.segmentStart + 1, d.absolute)
    IN  /\ d.analyzed = d.absolute - d.segmentStart
        /\ d.exactTail = KeepTail(read, 2 * ExactMaxPeriod)
        /\ d.lowNoveltyText = KeepTail(read, NoveltyPrevious + NoveltyRecent)

Timed(d) ==
    /\ d.analyzed < d.nextCheckAt /\ d.nextCheckAt <= d.analyzed + CheckInterval
    /\ \E r \in Nat \ {0} : d.nextCheckAt = CheckInterval * r

Compared(d) == SeriesIs(d.segmentStart, d, d.segmentStart + d.nextCheckAt - CheckInterval)

Knows(d) ==
    /\ d.segmentStart <= d.absolute /\ d.absolute <= Len(text)
    /\ NoFence(d.segmentStart, d.absolute)
    /\ ~d.insideFence =>
          Reads(d) /\ Timed(d) /\ Quiet(d.segmentStart, d.absolute) /\ Compared(d)

(* The position is not within a run of backticks that may be a fence.      *)
AtEdge(d) ==
    \/ d.absolute = d.segmentStart
    \/ text[d.absolute] # Tick
    \/ detector.contentKind = "thinking"

--------------------------------------------------------------------------------
(* The Z-array: how far each suffix agrees with the whole.                 *)

Agrees(s, i, n) ==
    /\ n \in 0..Len(s) - i
    /\ \A k \in 1..n : s[k] = s[i + k]
    /\ i + n = Len(s) \/ s[n + 1] # s[i + n + 1]

LEMMA AgreementIs ==
    ASSUME NEW C, NEW s \in Seq(C), NEW i \in 1..Len(s) - 1, NEW from \in 0..Len(s) - i,
           \A k \in 1..from : s[k] = s[i + k]
    PROVE  Agrees(s, i, Agreement(s, i, from))
<1> DEFINE Ends(n) == i + n = Len(s) \/ s[n + 1] # s[i + n + 1]
           B == {n \in from..Len(s) - i : Ends(n)}
           Is(n) == (\A k \in from..n - 1 : s[k + 1] = s[i + k + 1]) /\ Ends(n)
<1>1. /\ Len(s) \in Nat /\ Len(s) - i \in from..Len(s) - i /\ i + (Len(s) - i) = Len(s)
      /\ from \in Nat /\ i \in Nat /\ Len(s) - i \in Nat
  OBVIOUS
<1>2. B \subseteq Nat /\ B # {}
  <2>1. from..Len(s) - i \subseteq Nat
    BY <1>1
  <2>2. Len(s) - i \in B
    BY <1>1
  <2> QED
    BY <2>1, <2>2
<1>3. PICK n \in B : \A m \in B : n <= m
  <2> HIDE DEF B
  <2> QED
    BY <1>2, LeastExists
<1>4. n \in from..Len(s) - i /\ Is(n)
  <2>1. n \in from..Len(s) - i /\ Ends(n)
    BY <1>3
  <2>2. ASSUME NEW k \in from..n - 1 PROVE s[k + 1] = s[i + k + 1]
    <3>1. k \in from..Len(s) - i /\ ~(n <= k)
      <4> DEFINE e == Len(s) - i
      <4>1. e \in Nat /\ from \in Nat /\ n \in from..e
        BY <2>1, <1>1
      <4> HIDE DEF e
      <4>2. k \in from..e /\ ~(n <= k)
        BY <4>1
      <4> QED
        BY <4>2 DEF e
    <3>2. k \notin B
      BY <3>1, <1>3
    <3> QED
      BY <3>1, <3>2
  <2> QED
    BY <2>1, <2>2
<1>5. PICK a : a = Agreement(s, i, from)
  OBVIOUS
<1>6. a \in from..Len(s) - i /\ Is(a)
  <2>1. a = CHOOSE m \in from..Len(s) - i : Is(m)
    BY <1>5 DEF Agreement
  <2> HIDE DEF Is
  <2> QED
    BY <2>1, <1>4
<1>7. a \in 0..Len(s) - i /\ a \in Nat
  <2> DEFINE e == Len(s) - i
  <2>1. e \in Nat /\ from \in Nat /\ a \in from..e
    BY <1>6, <1>1
  <2> HIDE DEF e
  <2>2. a \in 0..e /\ a \in Nat
    BY <2>1
  <2> QED
    BY <2>2 DEF e
<1>8. ASSUME NEW k \in 1..a PROVE s[k] = s[i + k]
  <2>1. CASE k <= from
    BY <2>1, <1>7
  <2>2. CASE k > from
    <3>1. k - 1 \in from..a - 1 /\ k - 1 + 1 = k /\ i + (k - 1) + 1 = i + k
      BY <2>2, <1>7
    <3>2. s[k - 1 + 1] = s[i + (k - 1) + 1]
      BY <3>1, <1>6
    <3> QED
      BY <3>1, <3>2
  <2> QED
    BY <2>1, <2>2, <1>7
<1> QED
  BY <1>5, <1>6, <1>7, <1>8 DEF Agrees

(* What a scan has found when it has come to some place, and its window.   *)
ScanSet == [z : Seq(Nat), left : Nat, right : Nat]

Scanned(s, scan) ==
    /\ scan \in ScanSet /\ Len(scan.z) \in 1..Len(s)
    /\ \A i \in 1..Len(scan.z) - 1 : Agrees(s, i, scan.z[i + 1])
    /\ \/ scan.left = 0 /\ scan.right = 0
       \/ /\ scan.left \in 1..Len(scan.z) - 1
          /\ scan.right = scan.left + scan.z[scan.left + 1] - 1

(* Within the window an earlier agreement gives a part of the next.        *)
Known(scan) ==
    LET i == Len(scan.z)
        inside == scan.z[i - scan.left + 1]
    IN  IF i > scan.right THEN 0
        ELSE IF scan.right - i + 1 < inside THEN scan.right - i + 1 ELSE inside

LEMMA KnownWithin ==
    ASSUME NEW n \in Nat, NEW i \in 1..n - 1, NEW l \in 1..i - 1, NEW w \in 0..n - l,
           NEW e \in 0..n - (i - l), ~(i > l + w - 1),
           NEW known, known = IF l + w - 1 - i + 1 < e THEN l + w - 1 - i + 1 ELSE e
    PROVE  /\ known \in 0..n - i
           /\ \A k \in 1..known : k \in 1..e /\ i - l + k \in 1..w /\ l + (i - l + k) = i + k
  OBVIOUS

LEMMA KnownAgrees ==
    ASSUME NEW C, NEW s \in Seq(C), NEW scan, Scanned(s, scan), Len(scan.z) < Len(s)
    PROVE  /\ Known(scan) \in 0..Len(s) - Len(scan.z)
           /\ \A k \in 1..Known(scan) : s[k] = s[Len(scan.z) + k]
<1> DEFINE i == Len(scan.z)
           known == Known(scan)
           n == Len(s)
<1>1. i \in 1..n - 1 /\ n \in Nat /\ scan.left \in Nat /\ scan.right \in Nat
  BY DEF Scanned, ScanSet
<1>2. CASE i > scan.right
  BY <1>1, <1>2 DEF Known
<1>3. CASE ~(i > scan.right)
  <2> DEFINE l == scan.left
             w == scan.z[l + 1]
             e == scan.z[i - l + 1]
  <2>1. l \in 1..i - 1 /\ scan.right = l + w - 1
    BY <1>1, <1>3 DEF Scanned
  <2>2. \A j \in 1..i - 1 : Agrees(s, j, scan.z[j + 1])
    BY DEF Scanned
  <2>3. Agrees(s, l, w) /\ Agrees(s, i - l, e)
    <3>1. l \in 1..i - 1 /\ i - l \in 1..i - 1
      <4>1. i \in Nat
        BY <1>1
      <4> HIDE DEF i
      <4> QED
        BY <4>1, <2>1
    <3> HIDE DEF i
    <3> QED
      BY <3>1, <2>2
  <2>4. known = IF scan.right - i + 1 < e THEN scan.right - i + 1 ELSE e
    BY <1>1, <1>3 DEF Known
  <2> HIDE DEF l, w, e, i, known
  <2>5. /\ w \in 0..n - l /\ \A k \in 1..w : s[k] = s[l + k]
        /\ e \in 0..n - (i - l) /\ \A k \in 1..e : s[k] = s[i - l + k]
    BY <2>3 DEF Agrees
  <2> HIDE DEF n
  <2>6. /\ known \in 0..n - i
        /\ \A k \in 1..known : k \in 1..e /\ i - l + k \in 1..w /\ l + (i - l + k) = i + k
    <3>1. ~(i > l + w - 1)
      BY <2>1, <1>3
    <3>2. known = IF l + w - 1 - i + 1 < e THEN l + w - 1 - i + 1 ELSE e
      <4>1. scan.right - i + 1 = l + w - 1 - i + 1
        BY <2>1, <2>5, <1>1
      <4> QED
        BY <4>1, <2>4, Zenon
    <3> QED
      BY <3>1, <3>2, <1>1, <2>1, <2>5, KnownWithin
  <2>7. ASSUME NEW k \in 1..known PROVE s[k] = s[i + k]
    <3>1. k \in 1..e /\ i - l + k \in 1..w /\ l + (i - l + k) = i + k
      BY <2>6
    <3>2. s[k] = s[i - l + k]
      BY <3>1, <2>5
    <3>3. s[i - l + k] = s[l + (i - l + k)]
      BY <3>1, <2>5
    <3> QED
      BY <3>1, <3>2, <3>3
  <2> QED
    BY <2>6, <2>7 DEF known, i, n
<1> QED
  BY <1>2, <1>3

LEMMA ZNextScans ==
    ASSUME NEW C, NEW s \in Seq(C), NEW scan, Scanned(s, scan), Len(scan.z) < Len(s)
    PROVE  Scanned(s, ZNext(s, scan)) /\ Len(ZNext(s, scan).z) = Len(scan.z) + 1
<1> DEFINE i == Len(scan.z)
           zi == Agreement(s, i, Known(scan))
           z == Append(scan.z, zi)
           next == IF i + zi - 1 > scan.right THEN [z |-> z, left |-> i, right |-> i + zi - 1]
                   ELSE [scan EXCEPT !.z = z]
<1>1. ZNext(s, scan) = next
  BY DEF ZNext, Known
<1>2. i \in 1..Len(s) - 1 /\ Len(s) \in Nat /\ scan \in ScanSet /\ scan.z \in Seq(Nat)
  BY DEF Scanned, ScanSet
<1>3. Agrees(s, i, zi)
  <2> HIDE DEF i
  <2>1. /\ Known(scan) \in 0..Len(s) - i
        /\ \A k \in 1..Known(scan) : s[k] = s[i + k]
    BY KnownAgrees DEF i
  <2> QED
    BY <2>1, <1>2, AgreementIs
<1> HIDE DEF zi
<1>4. zi \in 0..Len(s) - i /\ zi \in Nat
  <2>1. zi \in 0..Len(s) - i
    BY <1>3 DEF Agrees
  <2> QED
    BY <2>1, <1>2
<1>5. /\ z \in Seq(Nat) /\ Len(z) = i + 1 /\ z[i + 1] = zi
      /\ \A k \in 1..i : z[k] = scan.z[k]
  BY <1>2, <1>4
<1> HIDE DEF z
<1>6. \A k \in 1..i : Agrees(s, k, z[k + 1])
  <2>1. \A k \in 1..i - 1 : z[k + 1] = scan.z[k + 1]
    BY <1>2, <1>5
  <2>2. \A k \in 1..i - 1 : Agrees(s, k, z[k + 1])
    BY <2>1 DEF Scanned
  <2>3. \A k \in 1..i : k = i \/ k \in 1..i - 1
    BY <1>2
  <2> QED
    BY <2>2, <2>3, <1>5, <1>3
<1>7. scan.left \in Nat /\ scan.right \in Nat
  BY <1>2 DEF ScanSet
<1>8. CASE i + zi - 1 > scan.right
  <2>1. next = [z |-> z, left |-> i, right |-> i + zi - 1]
    BY <1>8
  <2>2. i + zi - 1 \in Nat
    BY <1>2, <1>4, <1>7, <1>8
  <2>3. next \in ScanSet
    BY <2>1, <2>2, <1>2, <1>5 DEF ScanSet
  <2>4. next.z = z /\ next.left = i /\ next.right = i + zi - 1
    BY <2>1
  <2> HIDE DEF next
  <2>5. Len(next.z) \in 1..Len(s) /\ i \in 1..Len(z) - 1
    BY <2>4, <1>5, <1>2
  <2>6. \A k \in 1..Len(next.z) - 1 : Agrees(s, k, next.z[k + 1])
    <3>1. 1..Len(next.z) - 1 = 1..i
      BY <2>4, <1>5, <1>2
    <3> QED
      BY <3>1, <2>4, <1>6
  <2>7. Scanned(s, next)
    BY <2>3, <2>4, <2>5, <2>6, <1>5 DEF Scanned
  <2> QED
    BY <2>7, <2>4, <1>5, <1>1
<1>9. CASE ~(i + zi - 1 > scan.right)
  <2>1. next = [z |-> z, left |-> scan.left, right |-> scan.right]
    BY <1>9, <1>2 DEF ScanSet
  <2>2. next \in ScanSet
    BY <2>1, <1>7, <1>5 DEF ScanSet
  <2>3. next.z = z /\ next.left = scan.left /\ next.right = scan.right
    BY <2>1
  <2> HIDE DEF next
  <2>4. Len(next.z) \in 1..Len(s)
    BY <2>3, <1>5, <1>2
  <2>5. \A k \in 1..Len(next.z) - 1 : Agrees(s, k, next.z[k + 1])
    <3>1. 1..Len(next.z) - 1 = 1..i
      BY <2>3, <1>5, <1>2
    <3> QED
      BY <3>1, <2>3, <1>6
  <2>6. \/ scan.left = 0 /\ scan.right = 0
        \/ scan.left \in 1..Len(z) - 1 /\ scan.right = scan.left + z[scan.left + 1] - 1
    <3>1. CASE scan.left \in 1..i - 1 /\ scan.right = scan.left + scan.z[scan.left + 1] - 1
      <4>1. scan.left + 1 \in 1..i /\ scan.left \in 1..Len(z) - 1
        <5>1. i \in Nat /\ Len(z) = i + 1
          BY <1>5, <1>2
        <5> HIDE DEF i
        <5> QED
          BY <3>1, <5>1
      <4> QED
        BY <4>1, <3>1, <1>5
    <3> QED
      BY <3>1 DEF Scanned
  <2>7. Scanned(s, next)
    BY <2>2, <2>3, <2>4, <2>5, <2>6 DEF Scanned
  <2> QED
    BY <2>7, <2>3, <1>5, <1>1
<1> QED
  BY <1>8, <1>9

(* So the array says of each suffix how far it agrees.                     *)
LEMMA ZArrayAgrees ==
    ASSUME NEW C, NEW s \in Seq(C), s # <<>>
    PROVE  Len(ZArray(s)) = Len(s) /\ \A i \in 1..Len(s) - 1 : Agrees(s, i, ZArray(s)[i + 1])
<1> DEFINE n == Len(s) - 1
           x == [z |-> <<0>>, left |-> 0, right |-> 0]
           X == {scan \in ScanSet : Scanned(s, scan)}
           f == [scan \in X |-> IF Len(scan.z) < Len(s) THEN ZNext(s, scan) ELSE scan]
           Is(g) == g = [k \in 0..n |-> IF k = 0 THEN x ELSE ZNext(s, g[k - 1])]
<1>1. n \in Nat /\ Len(s) = n + 1 /\ Len(s) \in Nat
  OBVIOUS
<1>2. x \in X
  <2>1. x \in ScanSet /\ x.z = <<0>> /\ Len(x.z) = 1 /\ x.left = 0 /\ x.right = 0
    BY DEF ScanSet
  <2> HIDE DEF x, n
  <2>2. Len(x.z) \in 1..Len(s) /\ 1..Len(x.z) - 1 = {}
    BY <2>1, <1>1
  <2>3. Scanned(s, x)
    BY <2>1, <2>2 DEF Scanned
  <2> QED
    BY <2>1, <2>3
<1>3. f \in [X -> X]
  <2>1. ASSUME NEW scan \in X, Len(scan.z) < Len(s) PROVE ZNext(s, scan) \in X
    <3>1. Scanned(s, ZNext(s, scan))
      BY <2>1, ZNextScans
    <3> QED
      BY <3>1 DEF Scanned
  <2> QED
    BY <2>1
<1> HIDE DEF x, n
<1>4. PICK g : Rounds(g, n, f, x, X)
  <2> HIDE DEF f, X
  <2> QED
    BY <1>1, <1>2, <1>3, RoundsExist
<1>5. g \in [0..n -> X] /\ g[0] = x /\ \A k \in 1..n : g[k] = f[g[k - 1]]
  BY <1>4 DEF Rounds
<1>6. \A k \in 0..n : Len(g[k].z) = k + 1
  <2> DEFINE T == {k \in 0..n : Len(g[k].z) = k + 1}
  <2>1. 0 \in T
    BY <1>1, <1>5 DEF x
  <2>2. ASSUME NEW k \in 1..n, k - 1 \in T PROVE k \in T
    <3>1. k - 1 \in 0..n /\ Len(g[k - 1].z) = k
      BY <2>2
    <3>2. g[k - 1] \in X /\ Len(g[k - 1].z) < Len(s)
      BY <3>1, <1>5, <1>1
    <3>3. g[k] = ZNext(s, g[k - 1])
      BY <3>2, <1>5
    <3>4. Scanned(s, g[k - 1])
      BY <3>2
    <3>5. Len(g[k].z) = k + 1
      BY <3>1, <3>2, <3>3, <3>4, ZNextScans
    <3> QED
      BY <3>5
  <2> HIDE DEF T
  <2>3. \A k \in 0..n : k \in T
    BY <1>1, <2>1, <2>2, InductionUpTo
  <2> QED
    BY <2>3 DEF T
<1>7. \A k \in 1..n : g[k] = ZNext(s, g[k - 1])
  <2>1. ASSUME NEW k \in 1..n PROVE g[k] = ZNext(s, g[k - 1])
    <3>1. k - 1 \in 0..n /\ Len(g[k - 1].z) = k
      <4>1. k - 1 \in 0..n /\ k - 1 + 1 = k
        BY <1>1
      <4> QED
        BY <4>1, <1>6
    <3>2. g[k - 1] \in X /\ Len(g[k - 1].z) < Len(s)
      BY <3>1, <1>5, <1>1
    <3> QED
      BY <3>2, <1>5
  <2> QED
    BY <2>1
<1>8. Is(g)
  <2>1. g = [k \in 0..n |-> g[k]]
    BY <1>5
  <2>2. \A k \in 0..n : g[k] = IF k = 0 THEN x ELSE ZNext(s, g[k - 1])
    <3>1. \A k \in 0..n : k = 0 \/ k \in 1..n
      BY <1>1
    <3> QED
      BY <3>1, <1>5, <1>7
  <2> QED
    BY <2>1, <2>2
<1>9. PICK h : h = CHOOSE e : Is(e)
  OBVIOUS
<1>10. Is(h)
  <2> HIDE DEF Is
  <2> QED
    BY <1>8, <1>9
<1>11. h[0] = x /\ \A k \in 1..n : h[k] = ZNext(s, h[k - 1])
  <2>1. \A k \in 0..n : h[k] = IF k = 0 THEN x ELSE ZNext(s, h[k - 1])
    BY <1>10
  <2>2. 0 \in 0..n /\ \A k \in 1..n : k \in 0..n /\ k # 0
    BY <1>1
  <2> QED
    BY <2>1, <2>2
<1>12. ZArray(s) = h[n].z
  BY <1>9 DEF ZArray, Loop, x, n
<1> HIDE DEF Is
<1>13. h[n] = g[n]
  <2> DEFINE T == {k \in 0..n : h[k] = g[k]}
  <2>1. 0 \in T
    BY <1>1, <1>5, <1>11
  <2>2. ASSUME NEW k \in 1..n, k - 1 \in T PROVE k \in T
    BY <2>2, <1>7, <1>11
  <2> HIDE DEF T
  <2>3. \A k \in 0..n : k \in T
    BY <1>1, <2>1, <2>2, InductionUpTo
  <2>4. n \in 0..n
    BY <1>1
  <2> QED
    BY <2>3, <2>4 DEF T
<1>14. Scanned(s, g[n]) /\ Len(g[n].z) = Len(s)
  <2>1. n \in 0..n
    BY <1>1
  <2> QED
    BY <2>1, <1>1, <1>5, <1>6
<1> QED
  BY <1>12, <1>13, <1>14 DEF Scanned

--------------------------------------------------------------------------------
(* The tail of what has been read, and what repeats in it.                 *)

LEMMA ReadIs ==
    ASSUME NEW C, NEW u \in Seq(C), NEW b \in Nat, NEW n \in b..Len(u)
    PROVE  /\ SubSeq(u, b + 1, n) \in Seq(C) /\ Len(SubSeq(u, b + 1, n)) = n - b
           /\ \A i \in 1..n - b : SubSeq(u, b + 1, n)[i] = u[b + i]
<1>1. /\ Len(u) \in Nat /\ n \in Nat /\ b <= n /\ n <= Len(u)
      /\ b + 1 \in Int /\ n \in Int
  OBVIOUS
<1>2. \A i \in b + 1..n : u[i] \in C
  <2>1. \A i \in b + 1..n : i \in 1..Len(u)
    BY <1>1
  <2> QED
    BY <2>1, ElementOfSeq
<1> DEFINE v == SubSeq(u, b + 1, n)
<1>3. /\ v \in Seq(C) /\ Len(v) = IF b + 1 <= n THEN n - (b + 1) + 1 ELSE 0
      /\ \A i \in 1..n - (b + 1) + 1 : v[i] = u[b + 1 + i - 1]
  BY <1>1, <1>2, SubSeqProperties
<1> HIDE DEF v
<1>4. Len(v) = n - b
  BY <1>1, <1>3
<1>5. \A i \in 1..n - b : v[i] = u[b + i]
  <2>1. \A i \in 1..n - b : i \in 1..n - (b + 1) + 1 /\ b + 1 + i - 1 = b + i
    BY <1>1
  <2> QED
    BY <2>1, <1>3
<1> QED
  BY <1>3, <1>4, <1>5 DEF v

LEMMA TailIs ==
    ASSUME NEW C, NEW u \in Seq(C), NEW b \in Nat, NEW n \in b..Len(u), NEW m \in Nat,
           NEW tail, tail = KeepTail(SubSeq(u, b + 1, n), m)
    PROVE  /\ tail \in Seq(C)
           /\ Len(tail) = IF n - b <= m THEN n - b ELSE m
           /\ \A i \in 1..Len(tail) : tail[i] = u[n - Len(tail) + i]
<1> DEFINE s == SubSeq(u, b + 1, n)
           l == Len(KeepTail(s, m))
<1>1. s \in Seq(C) /\ Len(s) = n - b /\ \A i \in 1..n - b : s[i] = u[b + i]
  BY ReadIs
<1>2. n \in Nat /\ b <= n
  OBVIOUS
<1> HIDE DEF s
<1>3. /\ KeepTail(s, m) \in Seq(C)
      /\ l = IF Len(s) <= m THEN Len(s) ELSE m
      /\ \A i \in 1..l : KeepTail(s, m)[i] = s[Len(s) - l + i]
  BY <1>1, KeepTailTypes
<1>4. l \in Nat /\ l <= n - b /\ l = IF n - b <= m THEN n - b ELSE m
  BY <1>1, <1>2, <1>3
<1> HIDE DEF l
<1>5. ASSUME NEW i \in 1..l PROVE KeepTail(s, m)[i] = u[n - l + i]
  <2>1. KeepTail(s, m)[i] = s[n - b - l + i]
    BY <1>1, <1>3
  <2>2. n - b - l + i \in 1..n - b /\ b + (n - b - l + i) = n - l + i
    BY <1>2, <1>4
  <2>3. s[n - b - l + i] = u[b + (n - b - l + i)]
    BY <2>2, <1>1
  <2> QED
    BY <2>1, <2>2, <2>3
<1>6. tail = KeepTail(s, m) /\ Len(tail) = l
  BY DEF s, l
<1> QED
  BY <1>3, <1>4, <1>5, <1>6

LEMMA CopiesAre ==
    ASSUME NEW p \in Nat
    PROVE  /\ p * Copies(p) \in Nat /\ p * (Copies(p) - 1) = p * Copies(p) - p
           /\ p * Copies(p) >= 2 * p
           /\ p * Copies(p) = 2 * p \/ (p * Copies(p) = 3 * p /\ ~(p >= LongExactPeriod))
<1>1. CASE p >= LongExactPeriod
  <2>1. Copies(p) = 2
    BY <1>1 DEF Copies
  <2> QED
    BY <2>1
<1>2. CASE ~(p >= LongExactPeriod)
  <2>1. Copies(p) = 3
    BY <1>2 DEF Copies
  <2> QED
    BY <2>1, <1>2
<1> QED
  BY <1>1, <1>2

(* The array of the reversed tail tells whether the tail ends in copies.   *)
LEMMA RepeatsIs ==
    ASSUME NEW C, NEW s \in Seq(C), NEW p \in Nat \ {0}
    PROVE  Repeats(ZArray(Reverse(s)), Len(s), p) <=>
               /\ p * Copies(p) <= Len(s)
               /\ \A i \in (Len(s) - p * Copies(p) + 1)..(Len(s) - p) : s[i] = s[i + p]
<1> DEFINE n == Len(s)
           r == Reverse(s)
           a == ZArray(r)[p + 1]
           c == p * Copies(p)
           w == p * (Copies(p) - 1)
<1>1. n \in Nat /\ c \in Nat /\ w = c - p /\ c >= 2 * p
  <2>1. p \in Nat
    OBVIOUS
  <2>2. c \in Nat /\ w = c - p /\ c >= 2 * p
    BY <2>1, CopiesAre
  <2> QED
    BY <2>2
<1>2. SUFFICES ASSUME c <= n
               PROVE  a >= w <=> \A i \in (n - c + 1)..(n - p) : s[i] = s[i + p]
  BY DEF Repeats
<1>3. r = [i \in 1..n |-> s[(n - i) + 1]]
  BY DEF Reverse
<1>4. r \in Seq(C) /\ Len(r) = n /\ \A i \in 1..n : r[i] = s[n - i + 1]
  <2>1. \A i \in 1..n : n - i + 1 \in 1..n
    BY <1>1
  <2>2. r \in [1..n -> C]
    BY <2>1, <1>3
  <2>3. r \in Seq(C) /\ Len(r) = n
    BY <2>2, <1>1
  <2> QED
    BY <1>3, <2>3
<1>5. Agrees(r, p, a)
  <2>1. p \in 1..n - 1 /\ n > 0
    BY <1>1, <1>2
  <2>2. r # <<>>
    BY <2>1, <1>4
  <2> HIDE DEF r
  <2> QED
    BY <1>4, <2>1, <2>2, ZArrayAgrees
<1> HIDE DEF a, r, n, c, w
<1>6. /\ a \in 0..n - p
      /\ \A k \in 1..a : r[k] = r[p + k]
      /\ p + a = n \/ r[a + 1] # r[p + a + 1]
  BY <1>4, <1>5 DEF Agrees
<1>7. ASSUME a >= w, NEW i \in (n - c + 1)..(n - p) PROVE s[i] = s[i + p]
  <2> DEFINE k == n - p - i + 1
  <2>1. /\ k \in 1..a /\ k \in 1..n /\ p + k \in 1..n
        /\ n - k + 1 = i + p /\ n - (p + k) + 1 = i
    BY <1>1, <1>2, <1>6, <1>7
  <2> HIDE DEF k
  <2>2. r[k] = s[i + p] /\ r[p + k] = s[i]
    BY <2>1, <1>4
  <2> QED
    BY <2>1, <2>2, <1>6
<1>8. ASSUME \A i \in (n - c + 1)..(n - p) : s[i] = s[i + p], ~(a >= w) PROVE FALSE
  <2> DEFINE i == n - p - a
  <2>1. /\ i \in (n - c + 1)..(n - p) /\ a + 1 \in 1..n /\ p + a + 1 \in 1..n
        /\ n - (a + 1) + 1 = i + p /\ n - (p + a + 1) + 1 = i /\ p + a # n
    BY <1>1, <1>2, <1>6, <1>8
  <2> HIDE DEF i
  <2>2. r[a + 1] = s[i + p] /\ r[p + a + 1] = s[i]
    BY <2>1, <1>4
  <2> QED
    BY <2>1, <2>2, <1>6, <1>8
<1> QED
  BY <1>7, <1>8

(* The tail is long enough for all the copies that count.                  *)
LEMMA RepeatsIsCopied ==
    ASSUME text \in Seq(Char), NEW b \in Nat, NEW n \in b..Len(text),
           NEW s, s = KeepTail(SubSeq(text, b + 1, n), 2 * ExactMaxPeriod),
           NEW p \in ExactMinPeriod..ExactMaxPeriod
    PROVE  2 * p <= Len(s) /\ Repeats(ZArray(Reverse(s)), Len(s), p) <=> Copied(b, n, p)
<1> DEFINE l == Len(s)
           m == 2 * ExactMaxPeriod
           c == p * Copies(p)
<1>1. /\ ExactMaxPeriod \in Nat /\ LongExactPeriod \in Nat /\ m \in Nat
      /\ p \in Nat /\ p \in Nat \ {0} /\ p <= ExactMaxPeriod
      /\ 3 * (LongExactPeriod - 1) <= m
  <2>1. ExactMaxPeriod \in Nat /\ LongExactPeriod \in Nat
    BY NumberAssumption
  <2>2. ExactMinPeriod \in 1..ExactMaxPeriod /\ 3 * (LongExactPeriod - 1) <= m
    BY PeriodAssumption
  <2> QED
    BY <2>1, <2>2
<1>2. c \in Nat /\ c >= 2 * p /\ (c = 2 * p \/ (c = 3 * p /\ ~(p >= LongExactPeriod)))
  BY <1>1, CopiesAre
<1> HIDE DEF c
<1>3. c <= m
  BY <1>1, <1>2
<1>4. /\ s \in Seq(Char) /\ l = IF n - b <= m THEN n - b ELSE m
      /\ \A i \in 1..l : s[i] = text[n - l + i]
  <2>1. s = KeepTail(SubSeq(text, b + 1, n), m)
    OBVIOUS
  <2>2. m \in Nat
    BY <1>1
  <2> HIDE DEF m, l
  <2>3. /\ s \in Seq(Char) /\ Len(s) = IF n - b <= m THEN n - b ELSE m
        /\ \A i \in 1..Len(s) : s[i] = text[n - Len(s) + i]
    BY ONLY text \in Seq(Char), b \in Nat, n \in b..Len(text), <2>1, <2>2, TailIs
  <2> QED
    BY <2>3 DEF l
<1>5. n \in Nat /\ b <= n /\ l \in Nat /\ l <= n
  BY <1>1, <1>4
<1>6. Repeats(ZArray(Reverse(s)), l, p) <=>
          c <= l /\ \A i \in (l - c + 1)..(l - p) : s[i] = s[i + p]
  BY <1>1, <1>4, RepeatsIs DEF c
<1> HIDE DEF l, m
<1>7. c <= l <=> n - c >= b
  BY <1>2, <1>3, <1>4, <1>5, <1>1
<1>8. ASSUME c <= l
      PROVE  (\A i \in (l - c + 1)..(l - p) : s[i] = s[i + p])
                 <=> \A i \in (n - c + 1)..(n - p) : text[i] = text[i + p]
  <2>1. ASSUME \A i \in (l - c + 1)..(l - p) : s[i] = s[i + p], NEW i \in (n - c + 1)..(n - p)
        PROVE  text[i] = text[i + p]
    <3> DEFINE k == i - n + l
    <3>1. /\ k \in (l - c + 1)..(l - p) /\ k \in 1..l /\ k + p \in 1..l
          /\ n - l + k = i /\ n - l + (k + p) = i + p
      BY <1>1, <1>2, <1>5, <1>8
    <3> HIDE DEF k
    <3>2. s[k] = text[i] /\ s[k + p] = text[i + p]
      BY <3>1, <1>4
    <3> QED
      BY <3>1, <3>2, <2>1
  <2>2. ASSUME \A i \in (n - c + 1)..(n - p) : text[i] = text[i + p], NEW k \in (l - c + 1)..(l - p)
        PROVE  s[k] = s[k + p]
    <3> DEFINE i == k - l + n
    <3>1. /\ i \in (n - c + 1)..(n - p) /\ k \in 1..l /\ k + p \in 1..l
          /\ n - l + k = i /\ n - l + (k + p) = i + p
      BY <1>1, <1>2, <1>5, <1>8
    <3> HIDE DEF i
    <3>2. s[k] = text[i] /\ s[k + p] = text[i + p]
      BY <3>1, <1>4
    <3> QED
      BY <3>1, <3>2, <2>2
  <2> QED
    BY <2>1, <2>2
<1>9. Copied(b, n, p) <=> n - c >= b /\ \A i \in (n - c + 1)..(n - p) : text[i] = text[i + p]
  BY DEF Copied, c
<1>10. c <= l => 2 * p <= l
  BY <1>1, <1>2, <1>5
<1>11. 2 * p <= l /\ Repeats(ZArray(Reverse(s)), l, p) <=> Copied(b, n, p)
  BY <1>6, <1>7, <1>8, <1>9, <1>10
<1> QED
  BY <1>11 DEF l

Exact(b, n) == {p \in ExactMinPeriod..ExactMaxPeriod : Copied(b, n, p)}

(* So the first check finds the shortest block, if there is one.           *)
LEMMA ExactIs ==
    ASSUME text \in Seq(Char), NEW d \in Detector, Reads(d),
           d.segmentStart <= d.absolute, d.absolute <= Len(text),
           NEW P, P = Exact(d.segmentStart, d.absolute)
    PROVE  /\ P = {} => DetectExact(d) = None
           /\ P # {} => \E p \in P : /\ \A q \in P : p <= q
                                     /\ DetectExact(d) =
                                           [kind |-> "exact", count |-> d.absolute, period |-> p,
                                            clean |-> d.absolute - p * Copies(p)]
<1> DEFINE b == d.segmentStart
           n == d.absolute
           s == d.exactTail
           z == ZArray(Reverse(s))
           Fitting == {p \in ExactMinPeriod..ExactMaxPeriod : 2 * p <= Len(s) /\ Repeats(z, Len(s), p)}
           Least(p) == \A q \in P : p <= q
           found == CHOOSE p \in P : Least(p)
<1>1. /\ b \in Nat /\ n \in Nat /\ n \in b..Len(text)
      /\ s = KeepTail(SubSeq(text, b + 1, n), 2 * ExactMaxPeriod)
      /\ d.analyzed = n - b
  BY DEF Detector, Reads
<1>2. Fitting = P
  <2> HIDE DEF b, n, s
  <2>1. \A p \in ExactMinPeriod..ExactMaxPeriod :
            2 * p <= Len(s) /\ Repeats(z, Len(s), p) <=> Copied(b, n, p)
    BY <1>1, RepeatsIsCopied
  <2> QED
    BY <2>1 DEF Exact, b, n
<1>3. DetectExact(d) = IF P = {} THEN None ELSE Found(d, "exact", found * Copies(found), found)
  <2> DEFINE first == CHOOSE p \in Fitting : \A q \in Fitting : p <= q
  <2>1. DetectExact(d) = IF Fitting = {} THEN None
                         ELSE Found(d, "exact", first * Copies(first), first)
    BY DEF DetectExact
  <2> HIDE DEF Fitting
  <2>2. first = found
    BY <1>2
  <2> QED
    BY <2>1, <2>2, <1>2
<1>4. CASE P # {}
  <2>1. P \subseteq Nat
    <3>1. \A p \in ExactMinPeriod..ExactMaxPeriod : p \in Nat
      BY NumberAssumption, PeriodAssumption
    <3> QED
      BY <3>1 DEF Exact
  <2>2. \E p \in P : Least(p)
    BY <2>1, <1>4, LeastExists
  <2>3. PICK p : p = found
    OBVIOUS
  <2>4. p \in P /\ Least(p)
    <3> HIDE DEF Least
    <3> QED
      BY <2>2, <2>3
  <2>5. p \in Nat /\ n - p * Copies(p) >= b
    BY <2>1, <2>4 DEF Exact, Copied
  <2>6. p * Copies(p) \in Nat
    BY <2>5, CopiesAre
  <2>7. DetectExact(d) = Found(d, "exact", p * Copies(p), p)
    BY <1>3, <1>4, <2>3
  <2> DEFINE c == p * Copies(p)
  <2> HIDE DEF c
  <2>8. (IF c < d.analyzed THEN b + d.analyzed - c ELSE b) = n - c
    <3>1. c \in Nat /\ n - c >= b
      BY <2>5, <2>6 DEF c
    <3>2. b \in Nat /\ n \in Nat /\ d.analyzed = n - b
      BY <1>1
    <3> HIDE DEF b, n
    <3> QED
      BY <3>1, <3>2
  <2>9. Found(d, "exact", c, p) =
            [kind |-> "exact", count |-> n, period |-> p, clean |-> n - c]
    BY <2>8 DEF Found
  <2> QED
    BY <2>4, <2>7, <2>9 DEF c
<1> QED
  BY <1>3, <1>4

(* The windows that are compared are the last two of what has been read.   *)
LEMMA TailPart ==
    ASSUME NEW C, NEW u \in Seq(C), NEW s \in Seq(C), NEW n \in 0..Len(u), Len(s) <= n,
           \A i \in 1..Len(s) : s[i] = u[n - Len(s) + i],
           NEW x \in Nat, NEW y \in x..Len(s)
    PROVE  SubSeq(s, x + 1, y) = SubSeq(u, n - Len(s) + x + 1, n - Len(s) + y)
<1> DEFINE l == Len(s)
           k == n - l
           v == SubSeq(s, x + 1, y)
           w == SubSeq(u, k + x + 1, k + y)
<1>1. /\ l \in Nat /\ Len(u) \in Nat /\ n \in Nat /\ k \in Nat /\ y \in Nat /\ x <= y /\ y <= l
      /\ k + x \in Nat /\ k + y \in (k + x)..Len(u) /\ k + y - (k + x) = y - x
  OBVIOUS
<1>2. v \in Seq(C) /\ Len(v) = y - x /\ \A i \in 1..y - x : v[i] = s[x + i]
  BY <1>1, ReadIs
<1>3. w \in Seq(C) /\ Len(w) = y - x /\ \A i \in 1..y - x : w[i] = u[k + x + i]
  <2> HIDE DEF k
  <2>1. /\ w \in Seq(C) /\ Len(w) = k + y - (k + x)
        /\ \A i \in 1..k + y - (k + x) : w[i] = u[k + x + i]
    BY <1>1, ReadIs
  <2> QED
    BY <1>1, <2>1
<1>4. \A i \in 1..l : s[i] = u[k + i]
  OBVIOUS
<1> HIDE DEF l, k, v, w
<1>5. ASSUME NEW i \in 1..y - x PROVE v[i] = w[i]
  <2>1. x + i \in 1..l /\ k + (x + i) = k + x + i
    BY <1>1
  <2>2. s[x + i] = u[k + (x + i)]
    BY <2>1, <1>4
  <2> QED
    BY <2>1, <2>2, <1>2, <1>3
<1>6. Len(v) = Len(w) /\ \A i \in 1..Len(v) : v[i] = w[i]
  BY <1>2, <1>3, <1>5
<1>7. v = w
  BY <1>2, <1>3, <1>6, SeqEqual
<1> QED
  BY <1>7 DEF v, w, k, l

LEMMA WindowNumbers ==
    /\ NearWindow \in Nat /\ NearWindow > 0 /\ NearMin \in Nat
    /\ NoveltyRecent \in Nat /\ NoveltyRecent > 0 /\ NoveltyPrevious \in Nat
    /\ 2 * NearWindow <= NoveltyPrevious + NoveltyRecent
    /\ CheckInterval \in Nat /\ CheckInterval > 0
<1>1. CheckInterval \in Nat \ {0}
  BY NumberAssumption
<1>2. NearWindow \in Nat /\ NearMin \in Nat
  BY NumberAssumption
<1>3. NoveltyRecent \in Nat /\ NoveltyPrevious \in Nat
  BY NumberAssumption
<1> QED
  BY <1>1, <1>2, <1>3, WindowAssumption

PreviousIn(s) == SubSeq(s, Len(s) - 2 * NearWindow + 1, Len(s) - NearWindow)
PreviousAt(n) == SubSeq(text, n - 2 * NearWindow + 1, n - NearWindow)

LEMMA WindowsAre ==
    ASSUME text \in Seq(Char), NEW b \in Nat, NEW n \in b..Len(text),
           NEW s, s = KeepTail(SubSeq(text, b + 1, n), NoveltyPrevious + NoveltyRecent)
    PROVE  /\ Len(s) < 2 * NearWindow <=> n - b < 2 * NearWindow
           /\ n - b >= 2 * NearWindow =>
                 /\ PreviousIn(s) = PreviousAt(n)
                 /\ KeepTail(s, NearWindow) = SubSeq(text, n - NearWindow + 1, n)
<1> DEFINE l == Len(s)
           m == NoveltyPrevious + NoveltyRecent
           w == NearWindow
<1>1. m \in Nat /\ w \in Nat /\ w > 0 /\ 2 * w <= m
  BY WindowNumbers
<1>2. /\ s \in Seq(Char) /\ l = IF n - b <= m THEN n - b ELSE m
      /\ \A i \in 1..l : s[i] = text[n - l + i]
  <2>1. s = KeepTail(SubSeq(text, b + 1, n), m)
    OBVIOUS
  <2> HIDE DEF m
  <2> QED
    BY <1>1, <2>1, TailIs
<1>3. n \in Nat /\ b <= n /\ Len(text) \in Nat /\ n <= Len(text)
  OBVIOUS
<1> HIDE DEF l, m, w
<1>4. l \in Nat /\ l <= n /\ (l < 2 * w <=> n - b < 2 * w)
  BY <1>1, <1>2, <1>3
<1>5. \A x \in Nat, y \in Nat : x <= y /\ y <= l =>
          SubSeq(s, x + 1, y) = SubSeq(text, n - l + x + 1, n - l + y)
  <2>1. ASSUME NEW x \in Nat, NEW y \in Nat, x <= y, y <= l
        PROVE  SubSeq(s, x + 1, y) = SubSeq(text, n - l + x + 1, n - l + y)
    <3>1. y \in x..l /\ n \in 0..Len(text)
      BY <2>1, <1>3, <1>4
    <3>2. y \in x..Len(s) /\ Len(s) <= n /\ \A i \in 1..Len(s) : s[i] = text[n - Len(s) + i]
      BY <3>1, <1>2, <1>4 DEF l
    <3>3. SubSeq(s, x + 1, y) = SubSeq(text, n - Len(s) + x + 1, n - Len(s) + y)
      BY <2>1, <3>1, <3>2, <1>2, TailPart
    <3> QED
      BY <3>3 DEF l
  <2> QED
    BY <2>1
<1>6. ASSUME n - b >= 2 * w
      PROVE  /\ SubSeq(s, l - 2 * w + 1, l - w) = SubSeq(text, n - 2 * w + 1, n - w)
             /\ KeepTail(s, w) = SubSeq(text, n - w + 1, n)
  <2>1. l >= 2 * w
    BY <1>6, <1>3, <1>1, <1>4
  <2>2. /\ l - 2 * w \in Nat /\ l - w \in Nat /\ l - 2 * w <= l - w /\ l - w <= l /\ l \in Nat /\ l <= l
        /\ n - l + (l - 2 * w) + 1 = n - 2 * w + 1 /\ n - l + (l - w) = n - w
        /\ n - l + (l - w) + 1 = n - w + 1 /\ n - l + l = n
    BY <2>1, <1>1, <1>3, <1>4
  <2>3. SubSeq(s, l - 2 * w + 1, l - w) = SubSeq(text, n - 2 * w + 1, n - w)
    <3>1. SubSeq(s, l - 2 * w + 1, l - w)
              = SubSeq(text, n - l + (l - 2 * w) + 1, n - l + (l - w))
      BY <2>2, <1>5
    <3> QED
      BY <3>1, <2>2
  <2>4. SubSeq(s, l - w + 1, l) = SubSeq(text, n - w + 1, n)
    <3>1. SubSeq(s, l - w + 1, l) = SubSeq(text, n - l + (l - w) + 1, n - l + l)
      BY <2>2, <1>5, Zenon
    <3> QED
      BY <3>1, <2>2
  <2>5. KeepTail(s, w) = SubSeq(s, l - w + 1, l)
    <3>1. ~(l <= w)
      BY <2>1, <1>1, <1>4
    <3> QED
      BY <3>1 DEF KeepTail, l
  <2> QED
    BY <2>3, <2>4, <2>5
<1> QED
  BY <1>4, <1>6 DEF l, w, PreviousIn, PreviousAt

(* Checks are apart by the interval.                                       *)
LEMMA MultiplesApart ==
    ASSUME NEW c \in Nat, c > 0, NEW q \in Nat, NEW r \in Nat,
           c * q - c < c * r, c * r <= c * q
    PROVE  r = q
<1>1. CASE r > q
  <2>1. PICK e \in Nat : r = q + 1 + e
    <3>1. r - q - 1 \in Nat /\ r = q + 1 + (r - q - 1)
      BY <1>1
    <3> QED
      BY <3>1
  <2>2. c * r = c * q + c + c * e /\ c * e \in Nat /\ c * q \in Nat
    BY <2>1
  <2> QED
    BY <2>2
<1>2. CASE r < q
  <2>1. PICK e \in Nat : q = r + 1 + e
    <3>1. q - r - 1 \in Nat /\ q = r + 1 + (q - r - 1)
      BY <1>2
    <3> QED
      BY <3>1
  <2>2. c * q = c * r + c + c * e /\ c * e \in Nat /\ c * r \in Nat
    BY <2>1
  <2> QED
    BY <2>2
<1> QED
  BY <1>1, <1>2

LEMMA ChecksApart ==
    ASSUME NEW b \in Nat, NEW n \in Nat, NEW k \in Nat, CheckAt(b, n), CheckAt(b, k),
           n - CheckInterval < k, k <= n
    PROVE  k = n
<1>1. PICK q \in Nat \ {0} : n = b + CheckInterval * q
  BY DEF CheckAt
<1>2. PICK r \in Nat \ {0} : k = b + CheckInterval * r
  BY DEF CheckAt
<1>3. CheckInterval \in Nat /\ CheckInterval > 0
  BY WindowNumbers
<1>4. CheckInterval * q \in Nat /\ CheckInterval * r \in Nat /\ q \in Nat /\ r \in Nat
  BY <1>3
<1>5. CheckInterval * q - CheckInterval < CheckInterval * r
      /\ CheckInterval * r <= CheckInterval * q
  BY <1>1, <1>2, <1>3, <1>4
<1>6. r = q
  BY <1>3, <1>4, <1>5, MultiplesApart
<1> QED
  BY <1>1, <1>2, <1>6

(* A series of comparisons goes on, begins anew or ends with a check.      *)
NearFound(b, n, start) ==
    [kind |-> "near-duplicate", count |-> n, period |-> 0, clean |-> b + start + NearWindow]

SameText(d, e) ==
    /\ e.contentKind = d.contentKind /\ e.absolute = d.absolute /\ e.analyzed = d.analyzed
    /\ e.exactTail = d.exactTail /\ e.fenceCarry = d.fenceCarry
    /\ e.insideFence = d.insideFence /\ e.lowNoveltyText = d.lowNoveltyText
    /\ e.nextCheckAt = d.nextCheckAt /\ e.segmentStart = d.segmentStart

LEMMA SeriesBegins ==
    ASSUME NEW b \in Nat, NEW n \in Nat, n - 2 * NearWindow >= b, CheckAt(b, n), AlikeFrom(b, n),
           ~AlikeFrom(b, n - CheckInterval)
    PROVE  Series(b, n - b - 2 * NearWindow, n)
<1> DEFINE start == n - b - 2 * NearWindow
           first == b + start + 2 * NearWindow
<1>1. NearWindow \in Nat
  BY WindowNumbers
<1>2. first = n /\ start >= 0 /\ n <= n /\ n..n = {n}
  BY <1>1
<1> QED
  BY <1>2 DEF Series

LEMMA SeriesGoesOn ==
    ASSUME NEW b \in Nat, NEW n \in Nat, NEW start \in Int, CheckAt(b, n), AlikeFrom(b, n),
           Series(b, start, n - CheckInterval)
    PROVE  Series(b, start, n)
<1> DEFINE first == b + start + 2 * NearWindow
<1>1. NearWindow \in Nat /\ CheckInterval \in Nat /\ CheckInterval > 0
  BY WindowNumbers
<1>2. /\ start >= 0 /\ first <= n - CheckInterval /\ CheckAt(b, first)
      /\ ~AlikeFrom(b, first - CheckInterval)
      /\ \A j \in first..n - CheckInterval : CheckAt(b, j) => AlikeFrom(b, j)
  BY DEF Series
<1>3. first \in Nat /\ first <= n
  BY <1>1, <1>2
<1> HIDE DEF first
<1>4. ASSUME NEW j \in first..n, CheckAt(b, j) PROVE AlikeFrom(b, j)
  <2>1. CASE j <= n - CheckInterval
    <3>1. j \in first..n - CheckInterval
      BY <2>1, <1>1, <1>3
    <3> QED
      BY <3>1, <1>2, <1>4
  <2>2. CASE ~(j <= n - CheckInterval)
    <3>1. j \in Nat /\ n - CheckInterval < j /\ j <= n
      BY <2>2, <1>1, <1>3
    <3>2. j = n
      BY <3>1, <1>4, ChecksApart
    <3> QED
      BY <3>2
  <2> QED
    BY <2>1, <2>2
<1> QED
  BY <1>2, <1>3, <1>4 DEF Series, first

LEMMA NearIs ==
    ASSUME text \in Seq(Char), NEW d \in Detector, Reads(d),
           NEW b, b = d.segmentStart, NEW n, n = d.absolute, b < n, n <= Len(text),
           CheckAt(b, n), SeriesIs(b, d, n - CheckInterval),
           NEW r, r = DetectNearDuplicate(d)
    PROVE  /\ SameText(d, r.detector) /\ SeriesIs(b, r.detector, n)
           /\ r.detection # None =>
                 /\ r.detector.comparisons # 0
                 /\ r.detection = NearFound(b, n, r.detector.nearStart)
                 /\ n - r.detection.clean >= NearMin
<1> DEFINE s == d.lowNoveltyText
           pair == 2 * NearWindow
           previous == SubSeq(s, Len(s) - pair + 1, Len(s) - NearWindow)
           recent == KeepTail(s, NearWindow)
           start == IF d.comparisons = 0 THEN d.analyzed - pair ELSE d.nearStart
           next == [d EXCEPT !.comparisons = @ + 1, !.nearStart = start]
           reset == [d EXCEPT !.comparisons = 0, !.nearStart = 0]
           repeated == d.analyzed - (start + NearWindow)
<1>1. r = IF Len(s) < pair THEN Result(d, None)
          ELSE IF ~Similar(previous, recent) THEN Result(reset, None)
          ELSE IF next.comparisons < 3 \/ repeated < NearMin THEN Result(next, None)
          ELSE Result(next, Found(next, "near-duplicate", repeated, 0))
  BY DEF DetectNearDuplicate
<1>2. /\ b \in Nat /\ n \in Nat /\ n \in b..Len(text) /\ d.analyzed = n - b
      /\ s = KeepTail(SubSeq(text, b + 1, n), NoveltyPrevious + NoveltyRecent)
      /\ d.comparisons \in Nat /\ d.nearStart \in Int
  BY DEF Detector, Reads
<1>3. NearWindow \in Nat /\ NearWindow > 0 /\ CheckInterval \in Nat /\ CheckInterval > 0
  BY WindowNumbers
<1>4. /\ Len(s) < pair <=> n - b < pair
      /\ n - b >= pair =>
            /\ previous = SubSeq(text, n - pair + 1, n - NearWindow)
            /\ recent = SubSeq(text, n - NearWindow + 1, n)
  <2> HIDE DEF s
  <2>1. /\ Len(s) < 2 * NearWindow <=> n - b < 2 * NearWindow
        /\ n - b >= 2 * NearWindow =>
              /\ SubSeq(s, Len(s) - 2 * NearWindow + 1, Len(s) - NearWindow)
                    = SubSeq(text, n - 2 * NearWindow + 1, n - NearWindow)
              /\ KeepTail(s, NearWindow) = SubSeq(text, n - NearWindow + 1, n)
    <3> HIDE DEF previous, recent, pair, start, next, reset, repeated
    <3>1. /\ b \in Nat /\ n \in b..Len(text)
          /\ s = KeepTail(SubSeq(text, b + 1, n), NoveltyPrevious + NoveltyRecent)
      BY <1>2
    <3>2. Len(s) < 2 * NearWindow <=> n - b < 2 * NearWindow
      BY <3>1, WindowsAre
    <3>3. n - b >= 2 * NearWindow => PreviousIn(s) = PreviousAt(n)
      BY <3>1, WindowsAre
    <3>4. n - b >= 2 * NearWindow =>
              KeepTail(s, NearWindow) = SubSeq(text, n - NearWindow + 1, n)
      BY <3>1, WindowsAre
    <3> QED
      BY <3>2, <3>3, <3>4 DEF PreviousIn, PreviousAt
  <2> QED
    BY <2>1
<1>5. AlikeFrom(b, n) <=> ~(n - b < pair) /\ Similar(previous, recent)
  <2>1. n - pair >= b <=> ~(n - b < pair)
    BY <1>2, <1>3
  <2>2. ~(n - b < pair) <=> n - b >= pair
    BY <1>2, <1>3
  <2> HIDE DEF previous, recent
  <2> QED
    BY <1>4, <2>1, <2>2 DEF AlikeFrom
<1> HIDE DEF s, previous, recent
<1>6. CASE n - b < pair
  <2>1. r = Result(d, None)
    BY <1>1, <1>4, <1>6
  <2>2. d.comparisons = 0
    <3>1. SUFFICES ASSUME d.comparisons # 0 PROVE FALSE
      OBVIOUS
    <3>2. Series(b, d.nearStart, n - CheckInterval)
      BY <3>1 DEF SeriesIs
    <3>3. d.nearStart >= 0 /\ b + d.nearStart + 2 * NearWindow <= n - CheckInterval
      BY <3>2 DEF Series
    <3> QED
      BY <3>3, <1>2, <1>3, <1>6
  <2>3. ~AlikeFrom(b, n)
    BY <1>5, <1>6
  <2>4. r.detector = d /\ r.detection = None
    BY <2>1 DEF Result
  <2> QED
    BY <2>2, <2>3, <2>4 DEF SeriesIs, SameText
<1>7. CASE ~(n - b < pair) /\ ~Similar(previous, recent)
  <2>1. r = Result(reset, None)
    BY <1>1, <1>4, <1>7
  <2>2. r.detector = reset /\ r.detection = None
    BY <2>1 DEF Result
  <2>3. ~AlikeFrom(b, n)
    BY <1>5, <1>7
  <2>4. reset.comparisons = 0 /\ SameText(d, reset)
    BY DEF Detector, SameText
  <2> HIDE DEF reset
  <2> QED
    BY <2>2, <2>3, <2>4 DEF SeriesIs
<1>8. CASE ~(n - b < pair) /\ Similar(previous, recent)
  <2>1. AlikeFrom(b, n)
    BY <1>5, <1>8
  <2>2. start \in Int /\ Series(b, start, n)
    <3>1. CASE d.comparisons = 0
      <4>1. ~AlikeFrom(b, n - CheckInterval)
        BY <3>1 DEF SeriesIs
      <4>2. start = n - b - 2 * NearWindow /\ n - 2 * NearWindow >= b /\ start \in Int
        BY <3>1, <1>2, <1>3, <1>8
      <4> HIDE DEF start
      <4>3. Series(b, n - b - 2 * NearWindow, n)
        BY <4>1, <4>2, <2>1, <1>2, SeriesBegins
      <4> QED
        BY <4>2, <4>3
    <3>2. CASE d.comparisons # 0
      <4>1. Series(b, d.nearStart, n - CheckInterval) /\ start = d.nearStart
        BY <3>2 DEF SeriesIs
      <4>2. Series(b, d.nearStart, n)
        BY <4>1, <2>1, <1>2, SeriesGoesOn
      <4> QED
        BY <4>1, <4>2, <1>2
    <3> QED
      BY <3>1, <3>2
  <2> HIDE DEF start
  <2>3. /\ next.comparisons = d.comparisons + 1 /\ next.nearStart = start /\ SameText(d, next)
        /\ next.absolute = n /\ next.analyzed = n - b /\ next.segmentStart = b
    BY <1>2 DEF Detector, SameText
  <2> HIDE DEF next
  <2>4. next.comparisons # 0
    BY <2>3, <1>2
  <2>5. SeriesIs(b, next, n)
    BY <2>2, <2>3, <2>4 DEF SeriesIs
  <2>6. start >= 0 /\ b + start + 2 * NearWindow <= n
    BY <2>2 DEF Series
  <2>7. Found(next, "near-duplicate", repeated, 0) = NearFound(b, n, start)
    <3>1. (IF repeated < n - b THEN b + (n - b) - repeated ELSE b) = b + start + NearWindow
      <4>1. repeated = n - b - (start + NearWindow) /\ n - b \in Nat
        BY <1>2
      <4> HIDE DEF repeated
      <4> QED
        BY <4>1, <2>2, <2>6, <1>2, <1>3
    <3> HIDE DEF repeated
    <3> QED
      BY <3>1, <2>3 DEF Found, NearFound
  <2>8. NearFound(b, n, start).clean = b + start + NearWindow
    BY DEF NearFound
  <2>9. n - (b + start + NearWindow) = repeated
    BY <2>2, <1>2, <1>3
  <2>10. repeated \in Int /\ NearMin \in Nat
    BY <2>2, <1>2, <1>3, WindowNumbers
  <2>11. CASE next.comparisons < 3 \/ repeated < NearMin
    <3>1. r = Result(next, None)
      BY <1>1, <1>4, <1>8, <2>11
    <3>2. r.detector = next /\ r.detection = None
      BY <3>1 DEF Result
    <3> QED
      BY <3>2, <2>3, <2>5
  <2>12. CASE ~(next.comparisons < 3 \/ repeated < NearMin)
    <3>1. r = Result(next, NearFound(b, n, start))
      BY <1>1, <1>4, <1>8, <2>12, <2>7
    <3>2. r.detector = next /\ r.detection = NearFound(b, n, start)
      BY <3>1 DEF Result
    <3>3. repeated >= NearMin
      BY <2>10, <2>12
    <3> QED
      BY <3>2, <3>3, <2>3, <2>4, <2>5, <2>8, <2>9
  <2> QED
    BY <2>11, <2>12
<1> QED
  BY <1>6, <1>7, <1>8

(* What a detection says of the text of a segment that begins at b.        *)
Cut(b, n, found) ==
    /\ b < n /\ CheckAt(b, n) /\ found.count = n /\ found.clean \in b..n - 1
    /\ Quiet(b, n - 1) /\ (found.kind # "exact" => Quiet(b, n))
    /\ found.kind = "exact" =>
          /\ found.period \in Exact(b, n) /\ \A p \in Exact(b, n) : found.period <= p
          /\ found.clean = n - found.period * Copies(found.period)
    /\ found.kind = "near-duplicate" =>
          /\ CheckAt(b, found.clean + NearWindow) /\ found.clean + NearWindow <= n
          /\ \A k \in (b + 1)..n : CheckAt(b, k) /\ k >= found.clean + NearWindow => AlikeFrom(b, k)
          /\ ~AlikeFrom(b, (found.clean + NearWindow) - CheckInterval)
          /\ n - found.clean >= NearMin

LooksForNovelty(near, r) ==
    /\ near.detection = None
    /\ \E at \in Nat : LET e == [near.detector EXCEPT !.nextLowNoveltyCheckAt = at]
                       IN  r = Result(e, DetectLowNovelty(e))

LEMMA CheckParts ==
    ASSUME NEW d \in Detector, NEW near, near = DetectNearDuplicate(d), NEW r, r = Check(d)
    PROVE  /\ DetectExact(d) # None => r = Result(d, DetectExact(d))
           /\ DetectExact(d) = None => r = near \/ LooksForNovelty(near, r)
<1> DEFINE at == d.analyzed + NoveltyInterval
           e == [near.detector EXCEPT !.nextLowNoveltyCheckAt = at]
           frequent == IF DetectExact(d) # None THEN Result(d, DetectExact(d)) ELSE near
<1>1. at \in Nat
  <2>1. NoveltyInterval \in Nat
    BY NumberAssumption
  <2> QED
    BY <2>1 DEF Detector
<1>2. r = IF frequent.detection # None \/ d.analyzed < d.nextLowNoveltyCheckAt THEN frequent
          ELSE Result([frequent.detector EXCEPT !.nextLowNoveltyCheckAt = at],
                      DetectLowNovelty([frequent.detector EXCEPT !.nextLowNoveltyCheckAt = at]))
  BY DEF Check
<1>3. CASE DetectExact(d) # None
  <2>1. frequent = Result(d, DetectExact(d)) /\ frequent.detection # None
    BY <1>3, ResultParts
  <2> HIDE DEF frequent
  <2> QED
    BY <1>2, <1>3, <2>1
<1>4. CASE DetectExact(d) = None
  <2>1. frequent = near
    BY <1>4
  <2>2. r = near \/ (near.detection = None /\ r = Result(e, DetectLowNovelty(e)))
    <3> HIDE DEF frequent, at
    <3> QED
      BY <1>2, <2>1
  <2> QED
    BY <1>1, <1>4, <2>2 DEF LooksForNovelty
<1> QED
  BY <1>3, <1>4

LEMMA LowNoveltyIs ==
    ASSUME NEW d, NEW b \in Nat, NEW n \in Nat, b < n,
           d.absolute = n, d.analyzed = n - b, d.segmentStart = b
    PROVE  DetectLowNovelty(d) # None =>
               /\ DetectLowNovelty(d).kind = "low-novelty" /\ DetectLowNovelty(d).count = n
               /\ DetectLowNovelty(d).clean \in b..n - 1
<1> DEFINE found == Found(d, "low-novelty", NoveltyRecent, 0)
<1>1. DetectLowNovelty(d) = None \/ DetectLowNovelty(d) = found
  BY DEF DetectLowNovelty
<1>2. NoveltyRecent \in Nat /\ NoveltyRecent > 0
  BY WindowNumbers
<1>3. /\ found.kind = "low-novelty" /\ found.count = n
      /\ found.clean = IF NoveltyRecent < n - b THEN b + (n - b) - NoveltyRecent ELSE b
  BY DEF Found
<1> HIDE DEF found
<1>4. found.clean \in b..n - 1
  BY <1>2, <1>3
<1> QED
  BY <1>1, <1>3, <1>4

LEMMA QuietGoesOn ==
    ASSUME NEW b \in Nat, NEW n \in Nat, b < n, Quiet(b, n - 1), CheckAt(b, n) => Exact(b, n) = {}
    PROVE  Quiet(b, n)
<1>1. ASSUME NEW k \in (b + 1)..n, CheckAt(b, k), NEW p \in ExactMinPeriod..ExactMaxPeriod
      PROVE  ~Copied(b, k, p)
  <2>1. CASE k = n
    BY <2>1, <1>1 DEF Exact
  <2>2. CASE k # n
    <3>1. k \in (b + 1)..(n - 1)
      BY <2>2
    <3> QED
      BY <3>1, <1>1 DEF Quiet
  <2> QED
    BY <2>1, <2>2
<1> QED
  BY <1>1 DEF Quiet

LEMMA CheckTells ==
    ASSUME text \in Seq(Char), NEW d \in Detector, Reads(d),
           NEW b, b = d.segmentStart, NEW n, n = d.absolute, b < n, n <= Len(text),
           CheckAt(b, n), SeriesIs(b, d, n - CheckInterval), Quiet(b, n - 1),
           NEW r, r = Check(d)
    PROVE  /\ SameText(d, r.detector)
           /\ r.detection = None => Quiet(b, n) /\ SeriesIs(b, r.detector, n)
           /\ r.detection # None => Cut(b, n, r.detection)
<1>1. b \in Nat /\ n \in Nat /\ d.analyzed = n - b
  BY DEF Detector, Reads
<1>2. PICK near : near = DetectNearDuplicate(d)
  OBVIOUS
<1>3. /\ DetectExact(d) # None => r = Result(d, DetectExact(d))
      /\ DetectExact(d) = None => r = near \/ LooksForNovelty(near, r)
  BY <1>2, CheckParts
<1>4. PICK P : P = Exact(b, n)
  OBVIOUS
<1>5. /\ P = {} => DetectExact(d) = None
      /\ P # {} => \E p \in P : /\ \A q \in P : p <= q
                                /\ DetectExact(d) =
                                      [kind |-> "exact", count |-> n, period |-> p,
                                       clean |-> n - p * Copies(p)]
  <2>1. d.segmentStart <= d.absolute /\ P = Exact(d.segmentStart, d.absolute)
    BY <1>1, <1>4
  <2> QED
    BY <2>1, ExactIs
<1>6. CASE P # {}
  <2>1. PICK p \in P : /\ \A q \in P : p <= q
                       /\ DetectExact(d) = [kind |-> "exact", count |-> n, period |-> p,
                                            clean |-> n - p * Copies(p)]
    BY <1>5, <1>6
  <2>2. PICK found : found = DetectExact(d)
    OBVIOUS
  <2>3. /\ found.kind = "exact" /\ found.count = n /\ found.period = p
        /\ found.clean = n - p * Copies(p)
    BY <2>1, <2>2
  <2>4. found # None
    <3>1. None.kind = "none"
      BY DEF None
    <3> QED
      BY <2>3, <3>1
  <2>5. r = Result(d, found)
    BY <1>3, <2>2, <2>4
  <2>6. r.detector = d /\ r.detection = found
    BY <2>5, ResultParts
  <2>7. p \in Nat /\ p > 0 /\ n - p * Copies(p) >= b
    <3>1. p \in ExactMinPeriod..ExactMaxPeriod /\ Copied(b, n, p)
      BY <1>4 DEF Exact
    <3>2. ExactMinPeriod \in 1..ExactMaxPeriod /\ ExactMaxPeriod \in Nat
      BY NumberAssumption, PeriodAssumption
    <3>3. n - p * Copies(p) >= b
      BY <3>1 DEF Copied
    <3> QED
      BY <3>1, <3>2, <3>3
  <2>8. p * Copies(p) \in Nat /\ p * Copies(p) >= 2 * p
    BY <2>7, CopiesAre
  <2>9. n - p * Copies(p) \in b..n - 1
    <3> DEFINE c == p * Copies(p)
    <3>1. c \in Nat /\ c >= 2 * p /\ n - c >= b
      BY <2>7, <2>8
    <3> HIDE DEF c
    <3>2. n - c \in b..n - 1
      BY <3>1, <2>7, <1>1
    <3> QED
      BY <3>2 DEF c
  <2>10. Cut(b, n, found)
    BY <2>1, <2>3, <2>9, <1>4 DEF Cut
  <2> QED
    BY <2>4, <2>6, <2>10 DEF SameText
<1>7. CASE P = {}
  <2>1. DetectExact(d) = None
    BY <1>5, <1>7
  <2>2. /\ SameText(d, near.detector) /\ SeriesIs(b, near.detector, n)
        /\ near.detection # None =>
              /\ near.detector.comparisons # 0
              /\ near.detection = NearFound(b, n, near.detector.nearStart)
              /\ n - near.detection.clean >= NearMin
    BY <1>2, NearIs
  <2>3. Quiet(b, n)
    BY <1>1, <1>4, <1>7, QuietGoesOn
  <2>4. CASE r = near /\ near.detection = None
    BY <2>2, <2>3, <2>4
  <2>5. CASE r = near /\ near.detection # None
    <3> DEFINE start == near.detector.nearStart
               found == near.detection
    <3>1. Series(b, start, n)
      BY <2>2, <2>5 DEF SeriesIs
    <3>2. /\ found.kind = "near-duplicate" /\ found.count = n
          /\ found.clean = b + start + NearWindow /\ n - found.clean >= NearMin
      <4>1. found = NearFound(b, n, start) /\ n - found.clean >= NearMin
        BY <2>2, <2>5
      <4> QED
        BY <4>1 DEF NearFound
    <3>3. NearWindow \in Nat /\ NearWindow > 0
      BY WindowNumbers
    <3>4. start \in Int
      <4>1. near.detector \in Detector
        BY <1>2, NearTypes
      <4> QED
        BY <4>1 DEF Detector
    <3> HIDE DEF found, start
    <3>5. /\ start >= 0 /\ b + start + 2 * NearWindow <= n
          /\ CheckAt(b, b + start + 2 * NearWindow)
          /\ ~AlikeFrom(b, (b + start + 2 * NearWindow) - CheckInterval)
          /\ \A j \in b + start + 2 * NearWindow..n : CheckAt(b, j) => AlikeFrom(b, j)
      BY <3>1, Zenon DEF Series
    <3>6. found.clean \in b..n - 1 /\ found.clean + NearWindow = b + start + 2 * NearWindow
      BY <3>2, <3>3, <3>4, <3>5, <1>1
    <3>7. ~AlikeFrom(b, (found.clean + NearWindow) - CheckInterval)
      <4>1. CheckInterval \in Nat /\ found.clean \in Int
        BY <3>6, <1>1, WindowNumbers
      <4>2. (found.clean + NearWindow) - CheckInterval = (b + start + 2 * NearWindow) - CheckInterval
        BY <3>3, <3>4, <3>6, <4>1
      <4> QED
        BY <3>5, <4>2
    <3>8. ASSUME NEW k \in (b + 1)..n, CheckAt(b, k), k >= found.clean + NearWindow
          PROVE  AlikeFrom(b, k)
      <4>1. k \in b + start + 2 * NearWindow..n
        BY <3>6, <3>8, <3>3, <3>4, <1>1
      <4> QED
        BY <4>1, <3>5, <3>8
    <3>9. CheckAt(b, found.clean + NearWindow) /\ found.clean + NearWindow <= n
      BY <3>5, <3>6
    <3>10. Cut(b, n, found)
      BY <3>2, <3>6, <3>7, <3>8, <3>9, <2>3 DEF Cut
    <3> QED
      BY <3>10, <2>2, <2>5 DEF found
  <2>6. CASE LooksForNovelty(near, r)
    <3>1. PICK at \in Nat : LET e == [near.detector EXCEPT !.nextLowNoveltyCheckAt = at]
                            IN  r = Result(e, DetectLowNovelty(e))
      BY <2>6 DEF LooksForNovelty
    <3>2. PICK e : e = [near.detector EXCEPT !.nextLowNoveltyCheckAt = at]
      OBVIOUS
    <3>3. r = Result(e, DetectLowNovelty(e))
      BY <3>1, <3>2
    <3>4. near.detector \in Detector
      BY <1>2, NearTypes
    <3>5. /\ SameText(near.detector, e) /\ e.comparisons = near.detector.comparisons
          /\ e.nearStart = near.detector.nearStart
      BY <3>2, <3>4 DEF Detector, SameText
    <3>6. SameText(d, e) /\ SeriesIs(b, e, n)
      BY <2>2, <3>5 DEF SameText, SeriesIs
    <3>7. e.absolute = n /\ e.analyzed = n - b /\ e.segmentStart = b
      BY <1>1, <3>6 DEF SameText
    <3>8. r.detector = e /\ r.detection = DetectLowNovelty(e)
      BY <3>3, ResultParts
    <3>9. r.detection # None => /\ r.detection.kind = "low-novelty" /\ r.detection.count = n
                                /\ r.detection.clean \in b..n - 1
      BY <3>7, <3>8, <1>1, LowNoveltyIs
    <3>10. r.detection # None => Cut(b, n, r.detection)
      BY <3>9, <2>3 DEF Cut
    <3> QED
      BY <3>6, <3>8, <3>10, <2>3
  <2> QED
    BY <1>3, <2>1, <2>4, <2>5, <2>6
<1> QED
  BY <1>6, <1>7

--------------------------------------------------------------------------------
(* The segments of the text.                                               *)

LEMMA FenceInText ==
    ASSUME text \in Seq(Char), NEW i \in 0..Len(text) - 3
    PROVE  SubSeq(text, i + 1, i + 3) = Fence
               <=> text[i + 1] = Tick /\ text[i + 2] = Tick /\ text[i + 3] = Tick
<1>1. i \in FencesIn(text) <=> SubSeq(text, i + 1, i + 3) = Fence
  BY DEF FencesIn
<1>2. i \in FencesIn(text) <=> text[i + 1] = Tick /\ text[i + 2] = Tick /\ text[i + 3] = Tick
  BY FencesAre
<1> QED
  BY <1>1, <1>2

LEMMA NextSegmentIs ==
    ASSUME text \in Seq(Char), NEW n \in 0..Len(text), NEW g \in SegmentSet
    PROVE  /\ NoFence(g.start, n) => NextSegment(n, g) = g
           /\ \A i \in g.start..(n - 3) : FenceAt(i) /\ NoFence(g.start, i + 2) =>
                  NextSegment(n, g) = [start |-> i + 3, code |-> ~g.code]
           /\ ~NoFence(g.start, n) =>
                  \E i \in g.start..(n - 3) : FenceAt(i) /\ NoFence(g.start, i + 2)
<1> DEFINE b == g.start
           Fences == {i \in b..(n - 3) : SubSeq(text, i + 1, i + 3) = Fence}
           First(i) == \A j \in Fences : i <= j
           thinking == detector.contentKind = "thinking"
<1>1. b \in Nat /\ n \in Nat /\ Len(text) \in Nat /\ n <= Len(text)
  BY DEF SegmentSet
<1>2. NextSegment(n, g) = IF thinking \/ Fences = {} THEN g
                          ELSE [start |-> 3 + CHOOSE i \in Fences : First(i), code |-> ~g.code]
  BY DEF NextSegment
<1>3. \A i \in b..(n - 3) : FenceAt(i) <=> ~thinking /\ i \in Fences
  <2>1. ASSUME NEW i \in b..(n - 3)
        PROVE  SubSeq(text, i + 1, i + 3) = Fence
                   <=> text[i + 1] = Tick /\ text[i + 2] = Tick /\ text[i + 3] = Tick
    <3>1. i \in 0..Len(text) - 3
      BY <1>1
    <3> QED
      BY <3>1, FenceInText
  <2> QED
    BY <2>1 DEF FenceAt
<1>4. Fences \subseteq b..(n - 3)
  OBVIOUS
<1> HIDE DEF Fences, thinking, b
<1>5. NoFence(b, n) <=> thinking \/ Fences = {}
  BY <1>3, <1>4 DEF NoFence
<1>6. ASSUME NEW i \in b..(n - 3), FenceAt(i), NoFence(b, i + 2)
      PROVE  NextSegment(n, g) = [start |-> i + 3, code |-> ~g.code]
  <2>1. ~thinking /\ i \in Fences
    BY <1>3, <1>6
  <2>2. ASSUME NEW j \in Fences PROVE i <= j
    <3>1. j \in b..(n - 3) /\ i \in Int
      BY <1>4
    <3>2. FenceAt(j)
      BY <3>1, <2>1, <1>3
    <3>3. ~(j \in b..(i + 2) - 3)
      BY <3>2, <1>6 DEF NoFence
    <3> QED
      BY <3>1, <3>3, <1>1
  <2>3. First(i)
    BY <2>2
  <2>4. PICK f : f = CHOOSE j \in Fences : First(j)
    OBVIOUS
  <2>5. f \in Fences /\ First(f)
    <3> HIDE DEF First
    <3> QED
      BY <2>1, <2>3, <2>4
  <2>6. f = i
    <3>1. f <= i /\ i <= f
      BY <2>1, <2>3, <2>5
    <3>2. f \in Int /\ i \in Int
      BY <2>5, <1>4
    <3> QED
      BY <3>1, <3>2
  <2>7. Fences # {}
    BY <2>1
  <2>8. NextSegment(n, g) = [start |-> 3 + f, code |-> ~g.code]
    BY <1>2, <2>1, <2>4, <2>7
  <2>9. 3 + f = i + 3
    BY <2>6
  <2> QED
    BY <2>8, <2>9
<1>7. ASSUME ~NoFence(b, n)
      PROVE  \E i \in b..(n - 3) : FenceAt(i) /\ NoFence(b, i + 2)
  <2>1. ~thinking /\ Fences # {}
    BY <1>5, <1>7
  <2>2. Fences \subseteq Nat
    BY <1>1, <1>4
  <2>3. PICK i \in Fences : \A j \in Fences : i <= j
    BY <2>1, <2>2, LeastExists
  <2>4. i \in b..(n - 3) /\ FenceAt(i)
    BY <2>1, <2>3, <1>3, <1>4
  <2>5. ASSUME NEW j \in b..(i + 2) - 3 PROVE ~FenceAt(j)
    <3>1. j \in b..(n - 3) /\ ~(i <= j)
      BY <2>4, <1>1
    <3> QED
      BY <3>1, <2>3, <1>3
  <2> QED
    BY <2>4, <2>5 DEF NoFence
<1>8. NoFence(b, n) => NextSegment(n, g) = g
  BY <1>2, <1>5
<1> QED
  BY <1>6, <1>7, <1>8 DEF b

StepOf(n) == [g \in SegmentSet |-> NextSegment(n, g)]
LeftOf(n) == [g \in SegmentSet |-> IF g.start <= n THEN n - g.start ELSE 0]
LastOf(n) == {g \in SegmentSet : NoFence(g.start, n)}
Ends(n, g, y) == EndsIn(g, y, StepOf(n), LeftOf(n), SegmentSet)

LEMMA SegmentCloser ==
    ASSUME text \in Seq(Char), NEW n \in 0..Len(text)
    PROVE  Closer(StepOf(n), LeftOf(n), LastOf(n), SegmentSet)
<1>1. n \in Nat
  OBVIOUS
<1>2. ASSUME NEW g \in SegmentSet, g \notin LastOf(n)
      PROVE  /\ NextSegment(n, g) \in SegmentSet
             /\ LeftOf(n)[NextSegment(n, g)] < LeftOf(n)[g]
  <2>1. ~NoFence(g.start, n)
    BY <1>2 DEF LastOf
  <2>2. PICK i \in g.start..(n - 3) : FenceAt(i) /\ NoFence(g.start, i + 2)
    BY <2>1, NextSegmentIs
  <2>3. NextSegment(n, g) = [start |-> i + 3, code |-> ~g.code]
    BY <2>2, NextSegmentIs
  <2>4. g.start \in Nat /\ g.code \in BOOLEAN
    BY DEF SegmentSet
  <2>5. i + 3 \in Nat /\ g.start < i + 3 /\ i + 3 <= n
    BY <2>4, <1>1
  <2>6. PICK h : h = [start |-> i + 3, code |-> ~g.code]
    OBVIOUS
  <2>7. h \in SegmentSet /\ h.start = i + 3
    BY <2>4, <2>5, <2>6 DEF SegmentSet
  <2>8. LeftOf(n)[h] = n - (i + 3) /\ LeftOf(n)[g] = n - g.start
    BY <2>4, <2>5, <2>7, <1>1 DEF LeftOf
  <2>9. n - (i + 3) < n - g.start
    BY <2>4, <2>5, <1>1
  <2> QED
    BY <2>3, <2>6, <2>7, <2>8, <2>9
<1>3. ASSUME NEW g \in SegmentSet, g \in LastOf(n) PROVE NextSegment(n, g) = g
  <2>1. NoFence(g.start, n)
    BY <1>3 DEF LastOf
  <2> QED
    BY <2>1, NextSegmentIs
<1>4. StepOf(n) \in [SegmentSet -> SegmentSet]
  <2>1. \A g \in SegmentSet : NextSegment(n, g) \in SegmentSet
    BY <1>2, <1>3
  <2> QED
    BY <2>1 DEF StepOf
<1>5. LeftOf(n) \in [SegmentSet -> Nat]
  <2>1. \A g \in SegmentSet : g.start \in Nat
    BY DEF SegmentSet
  <2> QED
    BY <2>1, <1>1 DEF LeftOf
<1>6. \A g \in SegmentSet : StepOf(n)[g] = NextSegment(n, g)
  BY DEF StepOf
<1> QED
  BY <1>2, <1>3, <1>4, <1>5, <1>6 DEF Closer

Beginning == [start |-> 0, code |-> FALSE]

LEMMA SegmentRounds ==
    ASSUME text \in Seq(Char), NEW n \in 0..Len(text)
    PROVE  \E g : Rounds(g, n, StepOf(n), Beginning, SegmentSet) /\ Segment(n) = g[n]
<1> DEFINE x == Beginning
           X == SegmentSet
           Is(g) == g = [k \in 0..n |-> IF k = 0 THEN x ELSE NextSegment(n, g[k - 1])]
<1>1. n \in Nat /\ x \in X
  BY DEF SegmentSet, Beginning
<1>2. StepOf(n) \in [X -> X]
  BY SegmentCloser DEF Closer
<1>3. \A g \in X : StepOf(n)[g] = NextSegment(n, g)
  BY DEF StepOf
<1>4. PICK f : Rounds(f, n, StepOf(n), x, X)
  BY <1>1, <1>2, RoundsExist
<1>5. f \in [0..n -> X] /\ f[0] = x /\ \A k \in 1..n : f[k] = StepOf(n)[f[k - 1]]
  BY <1>4 DEF Rounds
<1>6. Is(f)
  <2>1. ASSUME NEW k \in 0..n PROVE f[k] = IF k = 0 THEN x ELSE NextSegment(n, f[k - 1])
    <3>1. CASE k = 0
      BY <3>1, <1>5
    <3>2. CASE k # 0
      <4>1. k \in 1..n /\ k - 1 \in 0..n
        BY <3>2
      <4>2. f[k - 1] \in X /\ f[k] = StepOf(n)[f[k - 1]]
        BY <4>1, <1>5
      <4> QED
        BY <4>2, <3>2, <1>3
    <3> QED
      BY <3>1, <3>2
  <2> QED
    BY <2>1, <1>5
<1>7. PICK h : h = CHOOSE g : Is(g)
  OBVIOUS
<1>8. Segment(n) = h[n]
  BY <1>7 DEF Segment, Loop, Beginning
<1>9. Is(h)
  <2> HIDE DEF Is
  <2> QED
    BY <1>6, <1>7
<1>10. h[0] = x /\ \A k \in 1..n : h[k] = NextSegment(n, h[k - 1])
  <2>1. \A k \in 0..n : h[k] = IF k = 0 THEN x ELSE NextSegment(n, h[k - 1])
    BY <1>9
  <2>2. 0 \in 0..n /\ \A k \in 1..n : k \in 0..n /\ k # 0
    OBVIOUS
  <2> QED
    BY <2>1, <2>2
<1>11. \A k \in 1..n : h[k - 1] \in X => h[k] = StepOf(n)[h[k - 1]]
  BY <1>10, <1>3
<1> HIDE DEF Is
<1>12. h[n] = f[n]
  <2>1. PICK F : F = StepOf(n)
    OBVIOUS
  <2>2. /\ F \in [X -> X] /\ Rounds(f, n, F, x, X)
        /\ \A k \in 1..n : h[k - 1] \in X => h[k] = F[h[k - 1]]
    BY <2>1, <1>2, <1>4, <1>11
  <2> HIDE DEF x, X
  <2> QED
    BY <1>1, <1>10, <2>2, RoundsAgree
<1> QED
  BY <1>4, <1>8, <1>12

(* A segment that the text comes through.                                  *)
Passed(g) ==
    \A n \in g.start..Len(text) : \A y : Ends(n, g, y) => Ends(n, Beginning, y)

LEMMA PassedFirst == Passed(Beginning)
  BY DEF Passed

LEMMA PassedNext ==
    ASSUME text \in Seq(Char), NEW g \in SegmentSet, Passed(g),
           NEW i \in g.start..Len(text) - 3, FenceAt(i), NoFence(g.start, i + 2),
           NEW h, h = [start |-> i + 3, code |-> ~g.code]
    PROVE  h \in SegmentSet /\ Passed(h)
<1>1. g.start \in Nat /\ g.code \in BOOLEAN /\ Len(text) \in Nat /\ i \in Nat
  BY DEF SegmentSet
<1>2. h \in SegmentSet /\ h.start = i + 3
  BY <1>1 DEF SegmentSet
<1>3. ASSUME NEW n \in h.start..Len(text), NEW y, Ends(n, h, y) PROVE Ends(n, Beginning, y)
  <2>1. n \in 0..Len(text) /\ i \in g.start..(n - 3) /\ n \in g.start..Len(text)
    BY <1>1, <1>2
  <2>2. NextSegment(n, g) = h
    BY <2>1, NextSegmentIs
  <2>3. ~NoFence(g.start, n)
    BY <2>1 DEF NoFence
  <2>4. g \notin LastOf(n) /\ StepOf(n)[g] = h
    BY <2>2, <2>3 DEF LastOf, StepOf
  <2>5. Ends(n, g, y)
    <3>1. EndsIn(StepOf(n)[g], y, StepOf(n), LeftOf(n), SegmentSet)
      BY <2>4, <1>3 DEF Ends
    <3>2. Closer(StepOf(n), LeftOf(n), LastOf(n), SegmentSet)
      BY <2>1, SegmentCloser
    <3>3. EndsIn(g, y, StepOf(n), LeftOf(n), SegmentSet)
      BY <3>1, <3>2, <2>4, EndsLikeNext
    <3> QED
      BY <3>3 DEF Ends
  <2> QED
    BY <2>1, <2>5 DEF Passed
<1> QED
  BY <1>2, <1>3 DEF Passed

LEMMA SegmentIs ==
    ASSUME text \in Seq(Char), NEW g \in SegmentSet, Passed(g),
           NEW n \in g.start..Len(text), NoFence(g.start, n)
    PROVE  Segment(n) = g
<1>1. n \in 0..Len(text) /\ n \in Nat
  BY DEF SegmentSet
<1>2. Closer(StepOf(n), LeftOf(n), LastOf(n), SegmentSet)
  BY <1>1, SegmentCloser
<1>3. g \in LastOf(n)
  BY DEF LastOf
<1>4. Ends(n, g, g)
  <2>1. \A m \in Nat : \A f : Rounds(f, m, StepOf(n), g, SegmentSet) => f[m] = g
    BY <1>2, <1>3, RoundsStay
  <2> QED
    BY <2>1 DEF Ends, EndsIn
<1>5. Ends(n, Beginning, g)
  BY <1>4 DEF Passed
<1>6. PICK f : Rounds(f, n, StepOf(n), Beginning, SegmentSet) /\ Segment(n) = f[n]
  BY <1>1, SegmentRounds
<1>7. LeftOf(n)[Beginning] <= n
  <2>1. Beginning \in SegmentSet /\ Beginning.start = 0
    BY DEF Beginning, SegmentSet
  <2> QED
    BY <2>1, <1>1 DEF LeftOf
<1>8. f[n] = g
  BY <1>1, <1>5, <1>6, <1>7 DEF Ends, EndsIn
<1> QED
  BY <1>6, <1>8

--------------------------------------------------------------------------------
(* What a detector outside code knows after one more character.            *)

LEMMA ReadOn ==
    ASSUME NEW C, NEW u \in Seq(C), NEW b \in Nat, NEW m \in b..Len(u), m < Len(u)
    PROVE  SubSeq(u, b + 1, m) \o <<u[m + 1]>> = SubSeq(u, b + 1, m + 1)
<1> DEFINE v == SubSeq(u, b + 1, m)
           w == SubSeq(u, b + 1, m + 1)
           c == <<u[m + 1]>>
<1>1. m \in Nat /\ b <= m /\ m + 1 \in b..Len(u) /\ Len(u) \in Nat /\ m + 1 \in 1..Len(u)
  OBVIOUS
<1>2. u[m + 1] \in C
  BY <1>1, ElementOfSeq
<1>3. c \in Seq(C) /\ Len(c) = 1 /\ c[1] = u[m + 1]
  BY <1>2
<1>4. v \in Seq(C) /\ Len(v) = m - b /\ \A i \in 1..m - b : v[i] = u[b + i]
  BY ReadIs
<1>5. w \in Seq(C) /\ Len(w) = (m + 1) - b /\ \A i \in 1..(m + 1) - b : w[i] = u[b + i]
  BY <1>1, ReadIs
<1> HIDE DEF v, w, c
<1>6. /\ v \o c \in Seq(C) /\ Len(v \o c) = Len(v) + Len(c)
      /\ \A i \in 1..Len(v) : (v \o c)[i] = v[i]
      /\ \A i \in 1..Len(c) : (v \o c)[Len(v) + i] = c[i]
  <2>1. v \in Seq(C) /\ c \in Seq(C)
    BY <1>3, <1>4
  <2> QED
    BY <2>1, JoinText
<1>7. ASSUME NEW i \in 1..(m + 1) - b PROVE (v \o c)[i] = w[i]
  <2>1. CASE i <= m - b
    <3>1. i \in 1..m - b
      BY <2>1, <1>1
    <3> QED
      BY <3>1, <1>4, <1>5, <1>6
  <2>2. CASE ~(i <= m - b)
    <3>1. i = (m - b) + 1 /\ b + i = m + 1 /\ 1 \in 1..1
      BY <2>2, <1>1
    <3>2. (v \o c)[(m - b) + 1] = c[1]
      BY <3>1, <1>3, <1>4, <1>6
    <3> QED
      BY <3>1, <3>2, <1>3, <1>5
  <2> QED
    BY <2>1, <2>2
<1>8. Len(v \o c) = Len(w)
  BY <1>1, <1>3, <1>4, <1>5, <1>6
<1>9. v \o c = w
  BY <1>5, <1>6, <1>7, <1>8, SeqEqual
<1> QED
  BY <1>9 DEF v, w, c

LEMMA AnalyzedOne ==
    ASSUME NEW d \in Detector, NEW s \in Seq(Char), Len(s) = 1
    PROVE  AppendAnalyzed(d, s) = CheckIfDue(AppendUnchecked(d, s))
<1>1. s # <<>>
  OBVIOUS
<1>2. PartOf(d, s) = 1
  <2>1. PartOf(d, s) \in 1..Len(s)
    BY <1>1, PartTypes
  <2> QED
    BY <2>1
<1>3. SubSeq(s, 1, 1) = s /\ SubSeq(s, 2, 1) = <<>>
  <2>1. 1 \in 0..Len(s)
    OBVIOUS
  <2>2. /\ SubSeq(s, 1, 1) \in Seq(Char) /\ Len(SubSeq(s, 1, 1)) = 1
        /\ \A i \in 1..1 : SubSeq(s, 1, 1)[i] = s[i]
        /\ SubSeq(s, 1 + 1, Len(s)) \in Seq(Char)
        /\ Len(SubSeq(s, 1 + 1, Len(s))) = Len(s) - 1
    BY <2>1, CutText
  <2>3. SubSeq(s, 1, 1) = s
    BY <2>2, SeqEqual
  <2>4. SubSeq(s, 1 + 1, Len(s)) = <<>> /\ SubSeq(s, 1 + 1, Len(s)) = SubSeq(s, 2, 1)
    BY <2>2, EmptySeq
  <2> QED
    BY <2>3, <2>4
<1> DEFINE x == AnalyzePart(Begin(d, s))
           r == CheckIfDue(AppendUnchecked(d, s))
<1>4. x = [fed |-> r, rest |-> <<>>]
  <2>1. x = [fed |-> CheckIfDue(AppendUnchecked(d, SubSeq(s, 1, PartOf(d, s)))),
             rest |-> SubSeq(s, PartOf(d, s) + 1, Len(s))]
    BY <1>1, AnalyzePartOf
  <2>2. PartOf(d, s) + 1 = 2
    BY <1>2
  <2> QED
    BY <2>1, <2>2, <1>2, <1>3
<1>5. x.fed = r /\ x.rest = <<>>
  BY <1>4
<1>6. r \in Fed
  BY UncheckedTypes, DueTypes
<1>7. AppendAnalyzed(d, s) = IF x.fed.detection # None THEN x.fed
                             ELSE AppendAnalyzed(x.fed.detector, x.rest)
  BY <1>1, AnalyzedUnfolds
<1> HIDE DEF x, r
<1> SUFFICES AppendAnalyzed(d, s) = r
  BY DEF r
<1>8. CASE r.detection # None
  BY <1>5, <1>7, <1>8
<1>9. CASE r.detection = None
  <2>1. r.detector \in Detector /\ r = Result(r.detector, None)
    BY <1>6, <1>9, FedIsResult
  <2>2. AppendAnalyzed(r.detector, <<>>) = Result(r.detector, None)
    <3>1. <<>> \in Seq(Char)
      OBVIOUS
    <3> QED
      BY <2>1, <3>1, AnalyzedUnfolds
  <2> QED
    BY <1>5, <1>7, <1>9, <2>1, <2>2
<1> QED
  BY <1>8, <1>9

LEMMA UncheckedReads ==
    ASSUME text \in Seq(Char), NEW d \in Detector, Reads(d), NEW b, b = d.segmentStart,
           NEW m, m = d.absolute, b <= m, m < Len(text),
           NEW e, e = AppendUnchecked(d, <<text[m + 1]>>)
    PROVE  /\ e \in Detector /\ Reads(e) /\ e.absolute = m + 1 /\ e.analyzed = (m + 1) - b
           /\ e.segmentStart = b /\ e.insideFence = d.insideFence
           /\ e.nextCheckAt = d.nextCheckAt /\ e.comparisons = d.comparisons
           /\ e.nearStart = d.nearStart
<1> DEFINE s == <<text[m + 1]>>
           read == SubSeq(text, b + 1, m)
           short == 2 * ExactMaxPeriod
           long == NoveltyPrevious + NoveltyRecent
<1>1. /\ b \in Nat /\ m \in Nat /\ m \in b..Len(text) /\ Len(text) \in Nat
      /\ m + 1 \in 1..Len(text)
      /\ d.analyzed = m - b
      /\ d.exactTail = KeepTail(read, short) /\ d.lowNoveltyText = KeepTail(read, long)
  <2>1. b \in Nat /\ m \in Nat
    BY DEF Detector
  <2>2. m \in b..Len(text) /\ Len(text) \in Nat /\ m + 1 \in 1..Len(text)
    BY <2>1
  <2>3. /\ d.analyzed = m - b
        /\ d.exactTail = KeepTail(read, short) /\ d.lowNoveltyText = KeepTail(read, long)
    BY DEF Reads
  <2> QED
    BY <2>1, <2>2, <2>3
<1>2. text[m + 1] \in Char
  BY <1>1, ElementOfSeq
<1>3. s \in Seq(Char) /\ Len(s) = 1
  BY <1>2
<1>4. read \in Seq(Char) /\ read \o s = SubSeq(text, b + 1, m + 1)
  <2>1. read \in Seq(Char)
    BY <1>1, ReadIs
  <2>2. read \o s = SubSeq(text, b + 1, m + 1)
    BY <1>1, ReadOn
  <2> QED
    BY <2>1, <2>2
<1>5. short \in Nat /\ long \in Nat
  <2>1. ExactMaxPeriod \in Nat
    BY NumberAssumption
  <2> QED
    BY <2>1, WindowNumbers
<1> HIDE DEF s, read, short, long
<1>6. /\ KeepTail(KeepTail(read, short) \o s, short) = KeepTail(read \o s, short)
      /\ KeepTail(KeepTail(read, long) \o s, long) = KeepTail(read \o s, long)
  BY <1>3, <1>4, <1>5, KeepTailOfTail
<1>7. e = [d EXCEPT !.absolute = @ + 1, !.analyzed = @ + 1,
                    !.exactTail = KeepTail(@ \o s, short),
                    !.lowNoveltyText = KeepTail(@ \o s, long)]
  BY <1>3 DEF AppendUnchecked, s, short, long
<1>8. e \in Detector
  BY <1>3, UncheckedTypes DEF s
<1>9. /\ e.absolute = m + 1 /\ e.analyzed = (m - b) + 1 /\ e.segmentStart = b
      /\ e.insideFence = d.insideFence
      /\ e.nextCheckAt = d.nextCheckAt /\ e.comparisons = d.comparisons
      /\ e.nearStart = d.nearStart
      /\ e.exactTail = KeepTail(KeepTail(read, short) \o s, short)
      /\ e.lowNoveltyText = KeepTail(KeepTail(read, long) \o s, long)
  <2>1. /\ e.absolute = d.absolute + 1 /\ e.analyzed = d.analyzed + 1
        /\ e.segmentStart = d.segmentStart /\ e.insideFence = d.insideFence
        /\ e.nextCheckAt = d.nextCheckAt /\ e.comparisons = d.comparisons
        /\ e.nearStart = d.nearStart
        /\ e.exactTail = KeepTail(d.exactTail \o s, short)
        /\ e.lowNoveltyText = KeepTail(d.lowNoveltyText \o s, long)
    BY <1>7 DEF Detector
  <2> QED
    BY <2>1, <1>1
<1>10. (m - b) + 1 = (m + 1) - b
  BY <1>1
<1>11. /\ e.exactTail = KeepTail(SubSeq(text, b + 1, m + 1), short)
       /\ e.lowNoveltyText = KeepTail(SubSeq(text, b + 1, m + 1), long)
  BY <1>4, <1>6, <1>9
<1>12. Reads(e)
  BY <1>9, <1>10, <1>11 DEF Reads, short, long
<1> QED
  BY <1>8, <1>9, <1>10, <1>12

LEMMA NoCheckBetween ==
    ASSUME NEW b \in Nat, NEW n \in Nat, NEW next \in Nat, NEW q \in Nat \ {0},
           next = CheckInterval * q, b + next - CheckInterval < n, n < b + next
    PROVE  ~CheckAt(b, n)
<1>1. SUFFICES ASSUME CheckAt(b, n) PROVE FALSE
  OBVIOUS
<1>2. PICK r \in Nat \ {0} : n = b + CheckInterval * r
  BY <1>1 DEF CheckAt
<1>3. CheckInterval \in Nat /\ CheckInterval > 0
  BY WindowNumbers
<1>4. CheckInterval * q \in Nat /\ CheckInterval * r \in Nat /\ q \in Nat /\ r \in Nat
  BY <1>3
<1>5. CheckInterval * q - CheckInterval < CheckInterval * r
      /\ CheckInterval * r <= CheckInterval * q
  BY <1>2, <1>3, <1>4
<1>6. r = q
  BY <1>3, <1>4, <1>5, MultiplesApart
<1> QED
  BY <1>2, <1>4, <1>6

(* What the detector tells when its segment goes on to text[to].           *)
Got(d, to, r) ==
    /\ r \in Fed /\ SameFences(d, r.detector) /\ r.detector.segmentStart = d.segmentStart
    /\ r.detection = None => r.detector.absolute = to /\ Knows(r.detector)
    /\ r.detection # None => /\ ~d.insideFence /\ r.detector.absolute <= to
                             /\ Cut(d.segmentStart, r.detector.absolute, r.detection)

LEMMA Unchecked ==
    ASSUME text \in Seq(Char), NEW d \in Detector, Knows(d), ~d.insideFence,
           NEW b, b = d.segmentStart, NEW m, m = d.absolute, m < Len(text),
           NoFence(b, m + 1), NEW e, e = AppendUnchecked(d, <<text[m + 1]>>),
           e.analyzed < e.nextCheckAt
    PROVE  Knows(e)
<1>1. b \in Nat /\ m \in Nat /\ b <= m
  BY DEF Detector, Knows
<1>2. /\ Reads(d) /\ Timed(d) /\ Quiet(b, m)
      /\ SeriesIs(b, d, b + d.nextCheckAt - CheckInterval)
  BY DEF Knows, Compared
<1>3. /\ e \in Detector /\ Reads(e) /\ e.absolute = m + 1 /\ e.analyzed = (m + 1) - b
      /\ e.segmentStart = b /\ e.insideFence = d.insideFence
      /\ e.nextCheckAt = d.nextCheckAt /\ e.comparisons = d.comparisons
      /\ e.nearStart = d.nearStart
  BY <1>1, <1>2, UncheckedReads
<1>4. CheckInterval \in Nat /\ CheckInterval > 0
  BY WindowNumbers
<1> DEFINE next == d.nextCheckAt
<1>5. next \in Nat /\ d.analyzed = m - b /\ next <= (m - b) + CheckInterval
  BY <1>2 DEF Detector, Reads, Timed
<1>6. PICK q \in Nat \ {0} : next = CheckInterval * q
  BY <1>2 DEF Timed
<1>7. (m + 1) - b < next
  BY <1>3
<1> HIDE DEF next
<1>8. b + next - CheckInterval < m + 1 /\ m + 1 < b + next /\ m + 1 \in Nat
  BY <1>1, <1>4, <1>5, <1>7
<1>9. ~CheckAt(b, m + 1)
  BY <1>1, <1>5, <1>6, <1>8, NoCheckBetween
<1>10. Quiet(b, m + 1)
  <2>1. (m + 1) - 1 = m /\ b < m + 1 /\ m + 1 \in Nat
    BY <1>1
  <2>2. Quiet(b, (m + 1) - 1)
    BY <2>1, <1>2
  <2> QED
    BY <2>1, <2>2, <1>1, <1>9, QuietGoesOn
<1>11. Timed(e)
  <2>1. next <= e.analyzed + CheckInterval
    BY <1>1, <1>3, <1>4, <1>5
  <2>2. e.nextCheckAt = next
    BY <1>3 DEF next
  <2> QED
    BY <2>1, <2>2, <1>6 DEF Timed
<1>12. Compared(e)
  <2>1. SeriesIs(b, e, b + d.nextCheckAt - CheckInterval)
    BY <1>2, <1>3 DEF SeriesIs
  <2> QED
    BY <2>1, <1>3 DEF Compared
<1>13. e.segmentStart <= e.absolute /\ e.absolute <= Len(text)
       /\ NoFence(e.segmentStart, e.absolute)
  <2>1. b <= m + 1 /\ m + 1 <= Len(text)
    BY <1>1
  <2> QED
    BY <2>1, <1>3
<1> QED
  BY <1>3, <1>10, <1>11, <1>12, <1>13 DEF Knows

LEMMA Checked ==
    ASSUME text \in Seq(Char), NEW d \in Detector, Knows(d), ~d.insideFence,
           NEW b, b = d.segmentStart, NEW m, m = d.absolute, m < Len(text),
           NoFence(b, m + 1), NEW e, e = AppendUnchecked(d, <<text[m + 1]>>),
           ~(e.analyzed < e.nextCheckAt),
           NEW f, f = [e EXCEPT !.nextCheckAt = @ + CheckInterval],
           NEW r, r = Check(f)
    PROVE  /\ r.detector.absolute = m + 1 /\ r.detector.segmentStart = b
           /\ r.detection = None => Knows(r.detector)
           /\ r.detection # None => Cut(b, m + 1, r.detection)
<1>1. b \in Nat /\ m \in Nat /\ b <= m
  BY DEF Detector, Knows
<1>2. /\ Reads(d) /\ Timed(d) /\ Quiet(b, m)
      /\ SeriesIs(b, d, b + d.nextCheckAt - CheckInterval)
  BY DEF Knows, Compared
<1>3. /\ e \in Detector /\ Reads(e) /\ e.absolute = m + 1 /\ e.analyzed = (m + 1) - b
      /\ e.segmentStart = b /\ e.insideFence = d.insideFence
      /\ e.nextCheckAt = d.nextCheckAt /\ e.comparisons = d.comparisons
      /\ e.nearStart = d.nearStart
  BY <1>1, <1>2, UncheckedReads
<1>4. CheckInterval \in Nat /\ CheckInterval > 0
  BY WindowNumbers
<1> DEFINE next == d.nextCheckAt
           later == next + CheckInterval
           n == m + 1
<1>5. next \in Nat /\ d.analyzed = m - b /\ m - b < next
  BY <1>2 DEF Detector, Reads, Timed
<1>6. PICK q \in Nat \ {0} : next = CheckInterval * q
  BY <1>2 DEF Timed
<1>7. ~(n - b < next) /\ e.nextCheckAt = next
  BY <1>3
<1>8. SeriesIs(b, d, b + next - CheckInterval)
  BY <1>2
<1>9. f = [e EXCEPT !.nextCheckAt = later]
  BY <1>7
<1> HIDE DEF next
<1>10. n \in Nat /\ n = b + next /\ b < n /\ n <= Len(text) /\ n - 1 = m /\ later \in Nat
  <2>1. n \in Nat /\ b < n /\ n - 1 = m /\ later \in Nat
    BY <1>1, <1>4, <1>5
  <2>2. n = b + next
    <3>1. n \in Nat /\ b \in Nat /\ next \in Nat /\ m \in Nat /\ n = m + 1
      BY <1>1, <1>5
    <3>2. m - b < next /\ ~(n - b < next)
      BY <1>5, <1>7
    <3> HIDE DEF n
    <3> QED
      BY <3>1, <3>2
  <2>3. n <= Len(text)
    <3>1. Len(text) \in Nat
      OBVIOUS
    <3> QED
      BY <3>1, <1>1
  <2> QED
    BY <2>1, <2>2, <2>3
<1>11. CheckAt(b, n)
  BY <1>6, <1>10 DEF CheckAt
<1> HIDE DEF later, n
<1>12. /\ f \in Detector /\ f.absolute = n /\ f.analyzed = n - b /\ f.segmentStart = b
       /\ f.insideFence = d.insideFence /\ f.nextCheckAt = later
       /\ f.comparisons = d.comparisons /\ f.nearStart = d.nearStart
       /\ f.exactTail = e.exactTail /\ f.lowNoveltyText = e.lowNoveltyText
  <2>1. f \in Detector
    BY <1>3, <1>9, <1>10 DEF Detector
  <2>2. /\ f.absolute = e.absolute /\ f.analyzed = e.analyzed /\ f.segmentStart = e.segmentStart
        /\ f.insideFence = e.insideFence /\ f.nextCheckAt = later
        /\ f.comparisons = e.comparisons /\ f.nearStart = e.nearStart
        /\ f.exactTail = e.exactTail /\ f.lowNoveltyText = e.lowNoveltyText
    BY <1>3, <1>9 DEF Detector
  <2>3. e.absolute = n /\ e.analyzed = n - b
    BY <1>3 DEF n
  <2> QED
    BY <2>1, <2>2, <2>3, <1>3
<1>13. Reads(f)
  BY <1>3, <1>12 DEF Reads, n
<1>14. SeriesIs(b, f, n - CheckInterval)
  <2>1. SeriesIs(b, d, n - CheckInterval)
    <3>1. b + next - CheckInterval = n - CheckInterval
      BY <1>1, <1>4, <1>5, <1>10
    <3> QED
      BY <3>1, <1>8
  <2> QED
    BY <2>1, <1>12 DEF SeriesIs
<1>15. Quiet(b, n - 1)
  BY <1>2, <1>10
<1>16. /\ SameText(f, r.detector)
       /\ r.detection = None => Quiet(b, n) /\ SeriesIs(b, r.detector, n)
       /\ r.detection # None => Cut(b, n, r.detection)
  BY <1>10, <1>11, <1>12, <1>13, <1>14, <1>15, CheckTells
<1> DEFINE g == r.detector
<1>17. /\ g.absolute = n /\ g.analyzed = n - b /\ g.segmentStart = b
       /\ g.insideFence = d.insideFence /\ g.nextCheckAt = later
       /\ g.exactTail = f.exactTail /\ g.lowNoveltyText = f.lowNoveltyText
  BY <1>12, <1>16 DEF SameText
<1>18. ASSUME r.detection = None PROVE Knows(g)
  <2>1. Quiet(b, n) /\ SeriesIs(b, g, n)
    BY <1>16, <1>18
  <2> HIDE DEF g
  <2>2. Reads(g)
    BY <1>12, <1>13, <1>17 DEF Reads
  <2>3. Timed(g)
    <3>1. n - b < later /\ later <= (n - b) + CheckInterval
      <4>1. b \in Nat /\ next \in Nat /\ CheckInterval \in Nat \ {0}
        BY <1>1, <1>4, <1>5
      <4>2. n - b = next
        BY <4>1, <1>10
      <4>3. later = next + CheckInterval
        BY DEF later
      <4> QED
        BY <4>1, <4>2, <4>3
    <3>2. later = CheckInterval * (q + 1) /\ q + 1 \in Nat \ {0}
      BY <1>4, <1>6 DEF later
    <3> QED
      BY <3>1, <3>2, <1>17 DEF Timed
  <2>4. Compared(g)
    <3>1. b + later - CheckInterval = n
      BY <1>1, <1>4, <1>5, <1>10 DEF later
    <3>2. SeriesIs(b, g, b + later - CheckInterval)
      BY <3>1, <2>1
    <3> QED
      BY <3>2, <1>17 DEF Compared
  <2>5. NoFence(b, n)
    BY DEF n
  <2>6. b <= n
    BY <1>1, <1>10
  <2> QED
    BY <2>1, <2>2, <2>3, <2>4, <2>5, <2>6, <1>10, <1>17 DEF Knows
<1> QED
  BY <1>16, <1>17, <1>18 DEF n

LEMMA OneMore ==
    ASSUME text \in Seq(Char), NEW d \in Detector, Knows(d), ~d.insideFence,
           NEW m, m = d.absolute, m < Len(text), NoFence(d.segmentStart, m + 1)
    PROVE  Got(d, m + 1, AppendAnalyzed(d, <<text[m + 1]>>))
<1> DEFINE s == <<text[m + 1]>>
           e == AppendUnchecked(d, s)
           f == [e EXCEPT !.nextCheckAt = @ + CheckInterval]
           r == AppendAnalyzed(d, s)
<1>1. m \in Nat /\ d.segmentStart \in Nat /\ d.segmentStart <= m
  BY DEF Detector, Knows
<1>2. s \in Seq(Char) /\ Len(s) = 1
  <2>1. m + 1 \in 1..Len(text)
    BY <1>1
  <2>2. text[m + 1] \in Char
    BY <2>1, ElementOfSeq
  <2> QED
    BY <2>2
<1>3. r \in Fed /\ SameFences(d, r.detector)
  BY <1>2, AnalyzedTypes
<1>4. r = CheckIfDue(e)
  BY <1>2, AnalyzedOne
<1>5. e.absolute = m + 1 /\ e.segmentStart = d.segmentStart
  <2>1. Reads(d)
    BY DEF Knows
  <2> QED
    BY <2>1, <1>1, UncheckedReads
<1>6. m + 1 <= m + 1
  BY <1>1
<1>7. CASE e.analyzed < e.nextCheckAt
  <2>1. Knows(e)
    BY <1>7, Unchecked
  <2>2. r.detector = e /\ r.detection = None
    BY <1>4, <1>7, ResultParts DEF CheckIfDue
  <2>3. SUFFICES Got(d, m + 1, r)
    OBVIOUS
  <2> HIDE DEF r, e, s
  <2> QED
    BY <2>1, <2>2, <1>3, <1>5 DEF Got
<1>8. CASE ~(e.analyzed < e.nextCheckAt)
  <2>1. r = Check(f)
    BY <1>4, <1>8 DEF CheckIfDue
  <2>2. /\ Check(f).detector.absolute = m + 1 /\ Check(f).detector.segmentStart = d.segmentStart
        /\ Check(f).detection = None => Knows(Check(f).detector)
        /\ Check(f).detection # None => Cut(d.segmentStart, m + 1, Check(f).detection)
    BY <1>8, Checked
  <2>3. SUFFICES Got(d, m + 1, r)
    OBVIOUS
  <2> HIDE DEF r, e, s, f
  <2> QED
    BY <2>1, <2>2, <1>3, <1>6 DEF Got
<1> QED
  BY <1>7, <1>8

(* What a detector knows after one more piece of its segment.              *)

LEMMA GotOn ==
    ASSUME NEW d \in Detector, NEW n, NEW r, Got(d, n, r), r.detection = None,
           NEW to, NEW q, Got(r.detector, to, q)
    PROVE  Got(d, to, q)
<1> DEFINE e == r.detector
<1>1. SameFences(d, e) /\ e.segmentStart = d.segmentStart
  BY DEF Got
<1>2. Got(e, to, q)
  OBVIOUS
<1> HIDE DEF e
<1> QED
  BY <1>1, <1>2 DEF Got, SameFences

LEMMA GotLater ==
    ASSUME NEW d \in Detector, NEW n \in Nat, NEW to \in Nat, n <= to, NEW r, Got(d, n, r),
           r.detection # None
    PROVE  Got(d, to, r)
<1>1. r.detector.absolute \in Nat /\ r.detector.absolute <= n
  <2>1. r.detector \in Detector
    BY FedIsResult DEF Got
  <2>2. r.detector.absolute \in Nat
    BY <2>1 DEF Detector
  <2> QED
    BY <2>2 DEF Got
<1>2. r.detector.absolute <= to
  BY <1>1
<1> QED
  BY <1>2 DEF Got

LEMMA GotNothing ==
    ASSUME NEW d \in Detector, Knows(d)
    PROVE  Got(d, d.absolute, Result(d, None))
<1>1. Result(d, None) \in Fed
  BY FedIsResult
<1>2. SameFences(d, d)
  BY DEF SameFences
<1> QED
  BY <1>1, <1>2, ResultParts DEF Got

LEMMA NoneRead ==
    ASSUME NEW m \in Nat, text \in Seq(Char), m <= Len(text)
    PROVE  SubSeq(text, m + 1, m) = <<>>
<1>1. m \in m..Len(text)
  OBVIOUS
<1>2. SubSeq(text, m + 1, m) \in Seq(Char) /\ Len(SubSeq(text, m + 1, m)) = m - m
  BY <1>1, ReadIs
<1>3. m - m = 0
  OBVIOUS
<1> QED
  BY <1>2, <1>3, EmptySeq

LEMMA AnalyzedKnows ==
    ASSUME text \in Seq(Char), NEW d \in Detector, Knows(d), ~d.insideFence,
           NEW m, m = d.absolute, NEW to \in m..Len(text), NoFence(d.segmentStart, to)
    PROVE  Got(d, to, AppendAnalyzed(d, SubSeq(text, m + 1, to)))
<1> DEFINE b == d.segmentStart
           N == to - m
           u(k) == SubSeq(text, m + 1, m + k)
           Good(k) == Got(d, m + k, AppendAnalyzed(d, u(k)))
           T == {k \in 0..N : Good(k)}
<1>1. /\ m \in Nat /\ b \in Nat /\ b <= m /\ Len(text) \in Nat /\ m <= Len(text)
      /\ to \in Nat /\ N \in Nat
  BY DEF Detector, Knows
<1>2. 0 \in T
  <2>1. u(0) = <<>>
    <3>1. m + 0 = m
      BY <1>1
    <3> QED
      BY <3>1, <1>1, NoneRead
  <2>2. AppendAnalyzed(d, <<>>) = Result(d, None)
    <3>1. <<>> \in Seq(Char)
      OBVIOUS
    <3> QED
      BY <3>1, AnalyzedUnfolds
  <2>3. Got(d, m, Result(d, None)) /\ m + 0 = m
    BY <1>1, GotNothing
  <2>4. Good(0)
    <3> HIDE DEF u
    <3> QED
      BY <2>1, <2>2, <2>3
  <2> HIDE DEF Good
  <2> QED
    BY <2>4, <1>1
<1>3. ASSUME NEW k \in 1..N, k - 1 \in T PROVE k \in T
  <2> DEFINE n == m + (k - 1)
             v == SubSeq(text, m + 1, n)
             c == <<text[n + 1]>>
             r == AppendAnalyzed(d, v)
  <2>1. n \in m..Len(text) /\ n < Len(text) /\ n \in Nat /\ n + 1 = m + k /\ n + 1 <= to
    BY <1>1
  <2>2. Got(d, n, r)
    BY <1>3
  <2>3. v \o c = u(k)
    <3>1. v \o c = SubSeq(text, m + 1, n + 1)
      <4> HIDE DEF n
      <4> QED
        BY <1>1, <2>1, ReadOn
    <3> QED
      BY <3>1, <2>1
  <2>4. v \in Seq(Char) /\ c \in Seq(Char)
    <3>1. n + 1 \in 1..Len(text)
      BY <2>1, <1>1
    <3>2. text[n + 1] \in Char
      BY <3>1, ElementOfSeq
    <3>3. v \in Seq(Char)
      <4> HIDE DEF n
      <4> QED
        BY <1>1, <2>1, ReadIs
    <3> QED
      BY <3>2, <3>3
  <2> HIDE DEF n, v
  <2>5. AppendAnalyzed(d, u(k)) = AnalyzeOn(r, c)
    <3>1. AppendAnalyzed(d, v \o c) = AnalyzeOn(r, c)
      BY <2>4, AnalyzedJoin
    <3> HIDE DEF r, u
    <3> QED
      BY <2>3, <3>1
  <2> HIDE DEF r
  <2>6. NoFence(b, n + 1)
    <3>1. ASSUME NEW i \in b..(n + 1) - 3 PROVE ~FenceAt(i)
      <4>1. i \in b..to - 3
        BY <2>1, <1>1
      <4> QED
        BY <4>1 DEF NoFence
    <3> QED
      BY <3>1 DEF NoFence
  <2>7. Got(d, m + k, AnalyzeOn(r, c))
    <3>1. CASE r.detection # None
      <4>1. AnalyzeOn(r, c) = r
        BY <3>1 DEF AnalyzeOn
      <4>2. n <= m + k /\ m + k \in Nat
        BY <2>1, <1>1
      <4>3. Got(d, m + k, r)
        BY <3>1, <2>1, <2>2, <4>2, GotLater
      <4> QED
        BY <4>1, <4>3
    <3>2. CASE r.detection = None
      <4> DEFINE g == r.detector
      <4>1. AnalyzeOn(r, c) = AppendAnalyzed(g, c)
        BY <3>2 DEF AnalyzeOn
      <4>2. /\ g \in Detector /\ Knows(g) /\ ~g.insideFence /\ n = g.absolute
            /\ g.segmentStart = b
        BY <3>2, <2>2, FedIsResult DEF Got, SameFences
      <4>3. NoFence(g.segmentStart, n + 1)
        BY <2>6, <4>2
      <4>4. Got(g, n + 1, AppendAnalyzed(g, c))
        <5> HIDE DEF g
        <5> QED
          BY <2>1, <4>2, <4>3, OneMore
      <4>5. Got(d, n + 1, AppendAnalyzed(g, c))
        BY <3>2, <2>2, <4>4, GotOn
      <4> QED
        BY <4>1, <4>5, <2>1
    <3> QED
      BY <3>1, <3>2
  <2>8. Good(k)
    <3> HIDE DEF u, c
    <3> QED
      BY <2>5, <2>7
  <2> HIDE DEF Good
  <2>9. k \in 0..N
    BY <1>1
  <2> QED
    BY <2>8, <2>9
<1> HIDE DEF T
<1>4. \A k \in 0..N : k \in T
  BY <1>1, <1>2, <1>3, InductionUpTo
<1>5. N \in 0..N /\ m + N = to
  BY <1>1
<1>6. Good(N)
  <2> HIDE DEF Good, N
  <2> QED
    BY <1>4, <1>5 DEF T
<1> QED
  BY <1>5, <1>6

LEMMA SegmentKnows ==
    ASSUME text \in Seq(Char), NEW d \in Detector, Knows(d),
           NEW m, m = d.absolute, NEW to \in m..Len(text), NoFence(d.segmentStart, to)
    PROVE  Got(d, to, AppendVisibleSegment(d, SubSeq(text, m + 1, to)))
<1> DEFINE s == SubSeq(text, m + 1, to)
<1>1. m \in Nat /\ d.segmentStart \in Nat /\ d.segmentStart <= m /\ Len(text) \in Nat
  BY DEF Detector, Knows
<1>2. s \in Seq(Char) /\ Len(s) = to - m
  BY <1>1, ReadIs
<1>3. CASE ~d.insideFence
  <2>1. AppendVisibleSegment(d, s) = AppendAnalyzed(d, s)
    BY <1>3 DEF AppendVisibleSegment
  <2> QED
    BY <2>1, <1>3, AnalyzedKnows
<1>4. CASE d.insideFence
  <2> DEFINE e == [d EXCEPT !.absolute = to]
             r == AppendVisibleSegment(d, s)
  <2>1. r = Result(e, None)
    <3>1. d.absolute + Len(s) = to
      BY <1>1, <1>2
    <3> HIDE DEF s
    <3> QED
      BY <3>1, <1>4 DEF AppendVisibleSegment
  <2>2. r \in Fed /\ SameFences(d, r.detector)
    BY <1>2, SegmentTypes
  <2>3. r.detector = e /\ r.detection = None
    BY <2>1, ResultParts
  <2>4. e.absolute = to /\ e.segmentStart = d.segmentStart /\ e.insideFence
    BY <1>4 DEF Detector
  <2>5. d.segmentStart <= to /\ to <= Len(text)
    BY <1>1
  <2>6. Knows(e)
    <3> HIDE DEF e
    <3> QED
      BY <2>4, <2>5 DEF Knows
  <2>7. SUFFICES Got(d, to, r)
    OBVIOUS
  <2> HIDE DEF r, e
  <2> QED
    BY <2>2, <2>3, <2>4, <2>6 DEF Got
<1> QED
  BY <1>3, <1>4

(* What a detector outside code and what one in it know at a fence.        *)

LEMMA PartRead ==
    ASSUME NEW C, NEW u \in Seq(C), NEW m \in 0..Len(u), NEW s, s = SubSeq(u, m + 1, Len(u)),
           NEW n \in 0..Len(s)
    PROVE  /\ s \in Seq(C) /\ Len(s) = Len(u) - m /\ \A i \in 1..Len(s) : s[i] = u[m + i]
           /\ m + n \in m..Len(u)
           /\ SubSeq(s, 1, n) = SubSeq(u, m + 1, m + n)
           /\ SubSeq(s, n + 1, Len(s)) = SubSeq(u, (m + n) + 1, Len(u))
<1>1. Len(u) \in Nat /\ m \in Nat /\ Len(u) \in m..Len(u)
  OBVIOUS
<1>2. s \in Seq(C) /\ Len(s) = Len(u) - m /\ \A i \in 1..Len(u) - m : s[i] = u[m + i]
  BY <1>1, ReadIs
<1>3. n \in Nat /\ m + n \in Nat /\ m + n \in m..Len(u) /\ Len(u) \in (m + n)..Len(u)
  BY <1>1, <1>2
<1> DEFINE a == SubSeq(s, 1, n)
           z == SubSeq(s, n + 1, Len(s))
           v == SubSeq(u, m + 1, m + n)
           w == SubSeq(u, (m + n) + 1, Len(u))
<1>4. /\ a \in Seq(C) /\ Len(a) = n /\ \A i \in 1..n : a[i] = s[i]
      /\ z \in Seq(C) /\ Len(z) = Len(s) - n /\ \A i \in 1..Len(s) - n : z[i] = s[n + i]
  BY <1>2, CutText
<1>5. v \in Seq(C) /\ Len(v) = (m + n) - m /\ \A i \in 1..(m + n) - m : v[i] = u[m + i]
  BY <1>1, <1>3, ReadIs
<1>6. /\ w \in Seq(C) /\ Len(w) = Len(u) - (m + n)
      /\ \A i \in 1..Len(u) - (m + n) : w[i] = u[(m + n) + i]
  BY <1>1, <1>3, ReadIs
<1> HIDE DEF a, z, v, w
<1>7. a = v
  <2>1. (m + n) - m = n
    BY <1>1, <1>3
  <2>2. \A i \in 1..n : a[i] = v[i]
    <3>1. \A i \in 1..n : i \in 1..Len(u) - m
      BY <1>1, <1>2, <1>3
    <3> QED
      BY <3>1, <2>1, <1>2, <1>4, <1>5
  <2> QED
    BY <2>1, <2>2, <1>4, <1>5, SeqEqual
<1>8. z = w
  <2>1. Len(u) - (m + n) = Len(s) - n
    BY <1>1, <1>2, <1>3
  <2>2. ASSUME NEW i \in 1..Len(s) - n PROVE z[i] = w[i]
    <3>1. n + i \in 1..Len(u) - m /\ m + (n + i) = (m + n) + i
      BY <1>1, <1>2, <1>3
    <3>2. z[i] = s[n + i]
      BY <1>4
    <3>3. w[i] = u[(m + n) + i]
      BY <1>6, <2>1
    <3> QED
      BY <3>1, <3>2, <3>3, <1>2
  <2> QED
    BY <2>1, <2>2, <1>4, <1>6, SeqEqual
<1> QED
  BY <1>2, <1>3, <1>7, <1>8 DEF a, z, v, w

(* No fence begins before the position and ends after it.                  *)
LEMMA NoFenceOver ==
    ASSUME text \in Seq(Char), NEW d \in Detector, Knows(d), AtEdge(d),
           NEW m, m = d.absolute, NEW to \in Int, \A i \in m..to - 3 : ~FenceAt(i)
    PROVE  NoFence(d.segmentStart, to)
<1> DEFINE b == d.segmentStart
<1>1. b \in Nat /\ m \in Nat /\ b <= m /\ NoFence(b, m)
  BY DEF Detector, Knows
<1>2. ASSUME NEW i \in b..to - 3, FenceAt(i) PROVE FALSE
  <2>1. ~(i \in m..to - 3)
    BY <1>2
  <2>2. ~(i \in b..m - 3)
    BY <1>1, <1>2 DEF NoFence
  <2>3. m = i + 1 \/ m = i + 2
    BY <2>1, <2>2, <1>1
  <2>4. m # b
    BY <2>3, <1>1
  <2>5. /\ detector.contentKind # "thinking"
        /\ text[i + 1] = Tick /\ text[i + 2] = Tick
    BY <1>2 DEF FenceAt
  <2>6. text[m] = Tick
    BY <2>3, <2>5
  <2> QED
    BY <2>4, <2>5, <2>6 DEF AtEdge
<1> QED
  BY <1>2 DEF NoFence

LEMMA FencesOfRest ==
    ASSUME text \in Seq(Char), detector.contentKind # "thinking", NEW m \in 0..Len(text),
           NEW s, s = SubSeq(text, m + 1, Len(text)), NEW i \in m..Len(text) - 3
    PROVE  FenceAt(i) <=> i - m \in FencesIn(s)
<1>1. m \in Nat /\ Len(text) \in Nat /\ i \in Nat /\ m <= i
  OBVIOUS
<1>2. s \in Seq(Char) /\ Len(s) = Len(text) - m /\ \A j \in 1..Len(text) - m : s[j] = text[m + j]
  <2>1. Len(text) \in m..Len(text)
    BY <1>1
  <2> QED
    BY <2>1, <1>1, ReadIs
<1> DEFINE f == i - m
<1>3. /\ f \in 0..Len(s) - 3
      /\ f + 1 \in 1..Len(text) - m /\ f + 2 \in 1..Len(text) - m /\ f + 3 \in 1..Len(text) - m
      /\ m + (f + 1) = i + 1 /\ m + (f + 2) = i + 2 /\ m + (f + 3) = i + 3
  BY <1>1, <1>2
<1>4. f \in FencesIn(s) <=> s[f + 1] = Tick /\ s[f + 2] = Tick /\ s[f + 3] = Tick
  BY <1>2, <1>3, FencesAre
<1> HIDE DEF f
<1>5. s[f + 1] = text[i + 1] /\ s[f + 2] = text[i + 2] /\ s[f + 3] = text[i + 3]
  BY <1>2, <1>3
<1>6. FenceAt(i) <=> f \in FencesIn(s)
  BY <1>4, <1>5 DEF FenceAt
<1> QED
  BY <1>6 DEF f

(* What a detector at the beginning of a segment knows.                    *)
Fresh(d) ==
    /\ d.absolute = d.segmentStart /\ d.analyzed = 0 /\ d.exactTail = <<>>
    /\ d.lowNoveltyText = <<>> /\ d.comparisons = 0 /\ d.nextCheckAt = CheckInterval

LEMMA FreshKnows ==
    ASSUME text \in Seq(Char), NEW d \in Detector, Fresh(d), d.absolute <= Len(text)
    PROVE  Knows(d) /\ AtEdge(d)
<1> DEFINE b == d.segmentStart
<1>1. /\ b \in Nat /\ d.absolute = b /\ d.analyzed = 0 /\ d.exactTail = <<>>
      /\ d.lowNoveltyText = <<>> /\ d.comparisons = 0 /\ d.nextCheckAt = CheckInterval
  BY DEF Detector, Fresh
<1>2. CheckInterval \in Nat /\ CheckInterval > 0 /\ NearWindow \in Nat /\ NearWindow > 0
  BY WindowNumbers
<1>3. Reads(d)
  <2>1. SubSeq(text, b + 1, b) = <<>>
    BY <1>1, NoneRead
  <2>2. 2 * ExactMaxPeriod \in Nat /\ NoveltyPrevious + NoveltyRecent \in Nat
    <3>1. ExactMaxPeriod \in Nat
      BY NumberAssumption
    <3>2. 2 * ExactMaxPeriod \in Nat
      BY <3>1
    <3> QED
      BY <3>2, WindowNumbers
  <2>3. \A n \in Nat : KeepTail(<<>>, n) = <<>>
    <3>1. \A n \in Nat : Len(<<>>) <= n
      OBVIOUS
    <3> QED
      BY <3>1 DEF KeepTail
  <2>4. b - b = 0
    BY <1>1
  <2> QED
    BY <2>1, <2>2, <2>3, <2>4, <1>1 DEF Reads
<1>4. Timed(d)
  <2>1. 0 < CheckInterval /\ CheckInterval <= 0 + CheckInterval
    BY <1>2
  <2>2. CheckInterval = CheckInterval * 1 /\ 1 \in Nat \ {0}
    BY <1>2
  <2> QED
    BY <2>1, <2>2, <1>1 DEF Timed
<1>5. Quiet(b, b)
  <2>1. \A k \in (b + 1)..b : FALSE
    BY <1>1
  <2> QED
    BY <2>1 DEF Quiet
<1>6. Compared(d)
  <2>1. b + CheckInterval - CheckInterval = b
    BY <1>1, <1>2
  <2>2. ~(b - 2 * NearWindow >= b)
    BY <1>1, <1>2
  <2>3. ~AlikeFrom(b, b)
    BY <2>2 DEF AlikeFrom
  <2> QED
    BY <2>1, <2>3, <1>1 DEF Compared, SeriesIs
<1>7. NoFence(b, b)
  <2>1. \A i \in b..b - 3 : FALSE
    BY <1>1
  <2> QED
    BY <2>1 DEF NoFence
<1>8. b <= b
  BY <1>1
<1> QED
  BY <1>1, <1>3, <1>4, <1>5, <1>6, <1>7, <1>8 DEF Knows, AtEdge

LEMMA PassFenceIs ==
    ASSUME NEW d \in Detector, NEW p, p = PassFence(d)
    PROVE  /\ p \in Detector /\ Fresh(p) /\ p.absolute = d.absolute + 3
           /\ p.insideFence = ~d.insideFence /\ p.fenceCarry = d.fenceCarry
<1>1. p \in Detector /\ p.fenceCarry = d.fenceCarry
  BY PassFenceTypes
<1>2. p = [contentKind |-> d.contentKind, absolute |-> d.absolute + 3, analyzed |-> 0,
           exactTail |-> <<>>, fenceCarry |-> d.fenceCarry, insideFence |-> ~d.insideFence,
           lowNoveltyText |-> <<>>, nextLowNoveltyCheckAt |-> NoveltyMin,
           comparisons |-> 0, nearStart |-> 0, nextCheckAt |-> CheckInterval,
           segmentStart |-> d.absolute + 3]
  BY PassFenceValue
<1>3. /\ p.absolute = d.absolute + 3 /\ p.segmentStart = d.absolute + 3 /\ p.analyzed = 0
      /\ p.exactTail = <<>> /\ p.lowNoveltyText = <<>> /\ p.comparisons = 0
      /\ p.nextCheckAt = CheckInterval /\ p.insideFence = ~d.insideFence
  BY <1>2
<1> QED
  BY <1>1, <1>3 DEF Fresh

(* What a detector tells when it has been given the whole text.            *)
Told(r) ==
    LET d == r.detector
    IN  /\ d.segmentStart <= d.absolute /\ d.absolute <= Len(text)
        /\ Passed(Here(d)) /\ NoFence(d.segmentStart, d.absolute)
        /\ r.detection = None => Knows(d) /\ d.absolute + Len(d.fenceCarry) = Len(text)
        /\ r.detection # None => /\ ~d.insideFence
                                 /\ Cut(d.segmentStart, d.absolute, r.detection)

LEMMA FoundTold ==
    ASSUME text \in Seq(Char), NEW d \in Detector, Knows(d), Passed(Here(d)),
           NEW to \in d.absolute..Len(text), NoFence(d.segmentStart, to),
           NEW r, Got(d, to, r), r.detection # None
    PROVE  Told(r)
<1> DEFINE e == r.detector
           b == d.segmentStart
<1>1. /\ e \in Detector /\ SameFences(d, e) /\ e.segmentStart = b
      /\ ~d.insideFence /\ e.absolute <= to /\ Cut(b, e.absolute, r.detection)
  BY FedIsResult DEF Got
<1>2. b \in Nat /\ d.absolute \in Nat /\ to \in Nat /\ to <= Len(text) /\ Len(text) \in Nat
  BY DEF Detector
<1> HIDE DEF e, b
<1>3. e.absolute \in Nat /\ ~e.insideFence /\ Here(e) = Here(d)
  BY <1>1 DEF Detector, SameFences, Here, b
<1>4. b < e.absolute
  BY <1>1 DEF Cut
<1>5. b <= e.absolute /\ e.absolute <= Len(text)
  BY <1>1, <1>2, <1>3, <1>4
<1>6. NoFence(b, e.absolute)
  <2>1. \A i \in b..e.absolute - 3 : i \in b..to - 3
    BY <1>1, <1>2, <1>3
  <2> QED
    BY <2>1 DEF NoFence, b
<1>7. /\ r.detector.segmentStart <= r.detector.absolute
      /\ r.detector.absolute <= Len(text) /\ Passed(Here(r.detector))
      /\ NoFence(r.detector.segmentStart, r.detector.absolute)
      /\ ~r.detector.insideFence
      /\ Cut(r.detector.segmentStart, r.detector.absolute, r.detection)
  BY <1>1, <1>3, <1>5, <1>6 DEF e
<1> QED
  BY <1>7 DEF Told

(* What holding back backticks changes.                                    *)
LEMMA HoldingTold ==
    ASSUME NEW d \in Detector, Knows(d), Passed(Here(d)),
           NEW c \in Seq(Char), d.absolute + Len(c) = Len(text)
    PROVE  Told(Result(Holding(d, c), None))
<1> DEFINE e == Holding(d, c)
<1>1. /\ e.segmentStart = d.segmentStart /\ e.absolute = d.absolute /\ e.fenceCarry = c
      /\ e.insideFence = d.insideFence /\ e.analyzed = d.analyzed /\ e.exactTail = d.exactTail
      /\ e.lowNoveltyText = d.lowNoveltyText /\ e.nextCheckAt = d.nextCheckAt
      /\ e.comparisons = d.comparisons /\ e.nearStart = d.nearStart
  BY DEF Holding, Detector
<1> HIDE DEF e
<1>2. Here(e) = Here(d)
  BY <1>1 DEF Here
<1>3. Reads(d) = Reads(e) /\ Timed(d) = Timed(e) /\ Compared(d) = Compared(e)
  BY <1>1 DEF Reads, Timed, Compared, SeriesIs
<1>4. Knows(e)
  BY <1>1, <1>3 DEF Knows
<1>5. /\ e.segmentStart <= e.absolute /\ e.absolute <= Len(text)
      /\ Passed(Here(e)) /\ NoFence(e.segmentStart, e.absolute)
  BY <1>2, <1>4 DEF Knows
<1>6. e.absolute + Len(e.fenceCarry) = Len(text)
  BY <1>1
<1> DEFINE r == Result(e, None)
<1>7. r.detector = e /\ r.detection = None
  BY ResultParts
<1> HIDE DEF r
<1>8. Told(r)
  BY <1>4, <1>5, <1>6, <1>7 DEF Told
<1> QED
  BY <1>8 DEF r, e

LEMMA HoldingCut ==
    ASSUME NEW d \in Detector, NEW f, f # None, NEW c \in Seq(Char), Told(Result(d, f))
    PROVE  Told(Result(Holding(d, c), f))
<1> DEFINE e == Holding(d, c)
<1>1. /\ e.segmentStart = d.segmentStart /\ e.absolute = d.absolute
      /\ e.insideFence = d.insideFence
  BY DEF Holding, Detector
<1> HIDE DEF e
<1>2. Here(e) = Here(d)
  BY <1>1 DEF Here
<1>3. PICK r : r = Result(d, f)
  OBVIOUS
<1>4. r.detector = d /\ r.detection = f /\ Told(r)
  BY <1>3, ResultParts
<1>5. /\ d.segmentStart <= d.absolute /\ d.absolute <= Len(text)
      /\ Passed(Here(d)) /\ NoFence(d.segmentStart, d.absolute)
      /\ ~d.insideFence /\ Cut(d.segmentStart, d.absolute, f)
  BY <1>4 DEF Told
<1>6. PICK q : q = Result(e, f)
  OBVIOUS
<1>7. q.detector = e /\ q.detection = f
  BY <1>6, ResultParts
<1>8. Told(q)
  BY <1>1, <1>2, <1>5, <1>7 DEF Told
<1> QED
  BY <1>6, <1>8 DEF e

(* What appendVisible tells of the rest of the text.                       *)

Ready(d) == Knows(d) /\ AtEdge(d) /\ Passed(Here(d)) /\ d.fenceCarry = <<>>
Rest(d) == SubSeq(text, d.absolute + 1, Len(text))

LEMMA ToldToEnd ==
    ASSUME text \in Seq(Char), detector.contentKind # "thinking",
           NEW d \in Detector, Ready(d), NEW s, s = Rest(d), s # <<>>, FencesIn(s) = {}
    PROVE  Told(Visible(d, s))
<1>0. PICK m, b, n, to, c, r :
          /\ m = d.absolute /\ b = d.segmentStart /\ n = Len(s) - Trailing(s) /\ to = m + n
          /\ c = SubSeq(s, n + 1, Len(s)) /\ r = AppendVisibleSegment(d, SubSeq(s, 1, n))
  OBVIOUS
<1>1. /\ m \in Nat /\ b \in Nat /\ m <= Len(text) /\ Len(text) \in Nat
      /\ Knows(d) /\ AtEdge(d) /\ Passed(Here(d)) /\ m \in 0..Len(text)
  BY <1>0 DEF Detector, Ready, Knows
<1>2. s = SubSeq(text, m + 1, Len(text)) /\ s \in Seq(Char)
  <2>1. Len(text) \in m..Len(text)
    BY <1>1
  <2>2. SubSeq(text, m + 1, Len(text)) \in Seq(Char)
    BY <2>1, <1>1, ReadIs
  <2> QED
    BY <2>2, <1>0 DEF Rest
<1>3. n \in 0..Len(s) /\ Len(s) \in Nat
  <2>1. Trailing(s) \in 0..2 /\ Trailing(s) <= Len(s)
    BY <1>2, TrailingIs DEF IsTrailing
  <2>2. Len(s) \in Nat
    BY <1>2
  <2> QED
    BY <2>1, <2>2, <1>0
<1>4. Visible(d, s) = Result(Holding(r.detector, c), r.detection)
  <2>1. n = Len(s) - Trailing(s) /\ r = AppendVisibleSegment(d, SubSeq(s, 1, n))
    BY <1>0
  <2>2. s \in Seq(Char) /\ s # <<>> /\ FencesIn(s) = {}
    BY <1>2
  <2>3. Visible(d, s) = Result(Holding(r.detector, SubSeq(s, n + 1, Len(s))), r.detection)
    BY ONLY d \in Detector, <2>1, <2>2, VisibleToEnd
  <2>4. c = SubSeq(s, n + 1, Len(s))
    BY <1>0
  <2> QED
    BY <2>3, <2>4
<1>5. /\ Len(s) = Len(text) - m /\ to \in m..Len(text)
      /\ SubSeq(s, 1, n) = SubSeq(text, m + 1, to)
  <2>1. Len(s) = Len(text) - m
    BY <1>1, <1>2, <1>3, PartRead
  <2>2. m + n \in m..Len(text)
    BY <1>1, <1>2, <1>3, PartRead
  <2>3. SubSeq(s, 1, n) = SubSeq(text, m + 1, m + n)
    BY <1>1, <1>2, <1>3, PartRead
  <2> QED
    BY <2>1, <2>2, <2>3, <1>0
<1>6. c \in Seq(Char) /\ Len(c) = Len(s) - n
  <2>1. SubSeq(s, n + 1, Len(s)) \in Seq(Char) /\ Len(SubSeq(s, n + 1, Len(s))) = Len(s) - n
    BY <1>2, <1>3, CutText
  <2> QED
    BY <2>1, <1>0
<1>7. ASSUME NEW i \in m..to - 3 PROVE ~FenceAt(i)
  <2>1. i \in m..Len(text) - 3
    BY <1>1, <1>5
  <2>2. i - m \notin FencesIn(s)
    OBVIOUS
  <2> QED
    BY <2>1, <2>2, <1>1, <1>2, FencesOfRest
<1>8. to \in Int /\ to + Len(c) = Len(text)
  <2>1. to = m + n
    BY <1>0
  <2>2. /\ m \in Nat /\ n \in Nat /\ Len(s) \in Nat /\ Len(text) \in Nat
        /\ Len(s) = Len(text) - m /\ Len(c) = Len(s) - n
    BY <1>1, <1>3, <1>5, <1>6
  <2> QED
    BY <2>1, <2>2
<1>9. NoFence(b, to)
  BY <1>0, <1>1, <1>7, <1>8, NoFenceOver
<1>10. Got(d, to, r)
  <2>1. Got(d, to, AppendVisibleSegment(d, SubSeq(text, m + 1, to)))
    BY <1>0, <1>1, <1>5, <1>9, SegmentKnows
  <2> QED
    BY <2>1, <1>0, <1>5
<1>11. r.detector \in Detector /\ r = Result(r.detector, r.detection)
  BY <1>10, FedIsResult DEF Got
<1>12. CASE r.detection # None
  <2>1. Told(r)
    BY <1>0, <1>1, <1>5, <1>9, <1>10, <1>12, FoundTold
  <2>2. Told(Result(Holding(r.detector, c), r.detection))
    BY <2>1, <1>6, <1>11, <1>12, HoldingCut
  <2> QED
    BY <2>2, <1>4
<1>13. CASE r.detection = None
  <2> DEFINE e == r.detector
  <2>1. e \in Detector /\ Knows(e) /\ e.absolute = to /\ Here(e) = Here(d)
    BY <1>10, <1>11, <1>13 DEF Got, SameFences, Here
  <2> HIDE DEF e
  <2>2. Passed(Here(e)) /\ e.absolute + Len(c) = Len(text)
    BY <2>1, <1>1, <1>8
  <2>3. Told(Result(Holding(e, c), None))
    BY <2>1, <2>2, <1>6, HoldingTold
  <2> QED
    BY <2>3, <1>4, <1>13 DEF e
<1> QED
  BY <1>12, <1>13

LEMMA ToldOverFence ==
    ASSUME text \in Seq(Char), detector.contentKind # "thinking",
           NEW d \in Detector, Ready(d), NEW s, s = Rest(d), FencesIn(s) # {},
           \A e \in Detector : Ready(e) /\ d.absolute < e.absolute => Told(Visible(e, Rest(e)))
    PROVE  Told(Visible(d, s))
<1>0. PICK m, b, f, i, r :
          /\ m = d.absolute /\ b = d.segmentStart /\ f = FirstFence(s) /\ i = m + f
          /\ r = AppendVisibleSegment(d, SubSeq(s, 1, f))
  OBVIOUS
<1>1. /\ m \in Nat /\ b \in Nat /\ b <= m /\ m <= Len(text) /\ Len(text) \in Nat
      /\ Knows(d) /\ AtEdge(d) /\ Passed(Here(d)) /\ m \in 0..Len(text)
      /\ d.fenceCarry = <<>>
  BY <1>0 DEF Detector, Ready, Knows
<1>2. s = SubSeq(text, m + 1, Len(text)) /\ s \in Seq(Char) /\ Len(s) = Len(text) - m
  <2>1. Len(text) \in m..Len(text)
    BY <1>1
  <2>2. SubSeq(text, m + 1, Len(text)) \in Seq(Char)
        /\ Len(SubSeq(text, m + 1, Len(text))) = Len(text) - m
    BY <2>1, <1>1, ReadIs
  <2> QED
    BY <2>2, <1>0 DEF Rest
<1>3. /\ f \in FencesIn(s) /\ f \in 0..Len(s) - 3 /\ f + 3 \in 0..Len(s) /\ f \in 0..Len(s)
  BY <1>0, <1>2, FirstFenceIs
<1>4. \A j \in FencesIn(s) : f <= j
  <2> DEFINE least == CHOOSE x \in FencesIn(s) : \A j \in FencesIn(s) : x <= j
  <2>1. FencesIn(s) \subseteq Nat
    BY DEF FencesIn
  <2>2. \E x \in FencesIn(s) : \A j \in FencesIn(s) : x <= j
    BY <2>1, LeastExists
  <2>3. \A j \in FencesIn(s) : least <= j
    BY <2>2
  <2> QED
    BY <2>3, <1>0 DEF FirstFence
<1>5. Visible(d, s) = IF r.detection # None THEN r
                      ELSE Visible(PassFence(r.detector), SubSeq(s, f + 4, Len(s)))
  <2>1. f = FirstFence(s) /\ r = AppendVisibleSegment(d, SubSeq(s, 1, f))
    BY <1>0
  <2>2. s \in Seq(Char) /\ FencesIn(s) # {}
    BY <1>2
  <2> QED
    BY ONLY d \in Detector, <2>1, <2>2, VisibleOverFence
<1>6. i \in m..Len(text) /\ SubSeq(s, 1, f) = SubSeq(text, m + 1, i)
  <2>1. m + f \in m..Len(text)
    BY <1>1, <1>2, <1>3, PartRead
  <2>2. SubSeq(s, 1, f) = SubSeq(text, m + 1, m + f)
    BY <1>1, <1>2, <1>3, PartRead
  <2> QED
    BY <2>1, <2>2, <1>0
<1>7. SubSeq(s, f + 4, Len(s)) = SubSeq(text, (i + 3) + 1, Len(text))
  <2>1. SubSeq(s, (f + 3) + 1, Len(s)) = SubSeq(text, (m + (f + 3)) + 1, Len(text))
    BY <1>1, <1>2, <1>3, PartRead
  <2>2. (f + 3) + 1 = f + 4 /\ m + (f + 3) = i + 3
    BY <1>0, <1>1, <1>3
  <2> QED
    BY <2>1, <2>2
<1>8. i \in m..Len(text) - 3 /\ i - m = f /\ i \in Nat
  <2>1. i = m + f
    BY <1>0
  <2>2. /\ m \in Nat /\ f \in Nat /\ Len(s) \in Nat /\ Len(text) \in Nat
        /\ Len(s) = Len(text) - m /\ f <= Len(s) - 3
    BY <1>1, <1>2, <1>3
  <2> QED
    BY <2>1, <2>2
<1>9. FenceAt(i)
  BY <1>1, <1>2, <1>3, <1>8, FencesOfRest
<1>10. NoFence(b, i + 2)
  <2>1. ASSUME NEW j \in m..(i + 2) - 3 PROVE ~FenceAt(j)
    <3>1. j \in m..Len(text) - 3 /\ ~(f <= j - m)
      BY <1>1, <1>8
    <3>2. j - m \notin FencesIn(s)
      BY <3>1, <1>4
    <3> QED
      BY <3>1, <3>2, <1>1, <1>2, FencesOfRest
  <2>2. i + 2 \in Int
    BY <1>8
  <2> QED
    BY <2>1, <2>2, <1>0, <1>1, NoFenceOver
<1>11. NoFence(b, i)
  <2>1. \A j \in b..i - 3 : j \in b..(i + 2) - 3
    BY <1>1, <1>8
  <2> QED
    BY <2>1, <1>10 DEF NoFence
<1>12. Got(d, i, r)
  <2>1. Got(d, i, AppendVisibleSegment(d, SubSeq(text, m + 1, i)))
    BY <1>0, <1>1, <1>6, <1>11, SegmentKnows
  <2> QED
    BY <2>1, <1>0, <1>6
<1>13. r.detector \in Detector
  BY <1>12, FedIsResult DEF Got
<1>14. CASE r.detection # None
  <2>1. Told(r)
    BY <1>0, <1>1, <1>6, <1>11, <1>12, <1>14, FoundTold
  <2> QED
    BY <2>1, <1>5, <1>14
<1>15. CASE r.detection = None
  <2> DEFINE e == r.detector
             p == PassFence(e)
  <2>1. e \in Detector /\ e.absolute = i /\ Here(e) = Here(d) /\ e.fenceCarry = <<>>
        /\ e.insideFence = d.insideFence
    BY <1>1, <1>12, <1>13, <1>15 DEF Got, SameFences, Here
  <2> HIDE DEF e
  <2>2. /\ p \in Detector /\ Fresh(p) /\ p.absolute = i + 3 /\ p.fenceCarry = <<>>
        /\ p.insideFence = ~d.insideFence
    BY <2>1, PassFenceIs
  <2> HIDE DEF p
  <2>3. i + 3 <= Len(text) /\ m < i + 3
    BY <1>1, <1>8
  <2>4. Knows(p) /\ AtEdge(p)
    BY <2>2, <2>3, FreshKnows
  <2>5. Passed(Here(p))
    <3> DEFINE g == Here(d)
               h == Here(p)
    <3>1. g \in SegmentSet /\ g.start = b /\ g.code = d.insideFence
      BY <1>0 DEF Detector, SegmentSet, Here
    <3>2. h = [start |-> i + 3, code |-> ~g.code]
      BY <2>2, <3>1 DEF Here, Fresh
    <3>3. i \in g.start..Len(text) - 3 /\ NoFence(g.start, i + 2) /\ Passed(g)
      BY <3>1, <1>1, <1>8, <1>10
    <3> HIDE DEF g, h
    <3>4. Passed(h)
      BY <3>1, <3>2, <3>3, <1>9, PassedNext
    <3> QED
      BY <3>4 DEF h
  <2>6. Told(Visible(p, Rest(p)))
    <3>1. Ready(p)
      BY <2>2, <2>4, <2>5 DEF Ready
    <3> QED
      BY <3>1, <2>2, <2>3, <1>0
  <2>7. Rest(p) = SubSeq(s, f + 4, Len(s))
    BY <2>2, <1>7 DEF Rest
  <2>8. Visible(d, s) = Visible(p, Rest(p))
    BY <2>7, <1>5, <1>15 DEF p, e
  <2> QED
    BY <2>6, <2>8
<1> QED
  BY <1>14, <1>15

LEMMA VisibleKnows ==
    ASSUME text \in Seq(Char), detector.contentKind # "thinking", NEW d \in Detector, Ready(d)
    PROVE  Told(Visible(d, Rest(d)))
<1> DEFINE Good(e) == Told(Visible(e, Rest(e)))
           N == Len(text)
           T == {k \in Nat : \A e \in Detector : Ready(e) /\ N - e.absolute < k => Good(e)}
<1>1. N \in Nat /\ \A e \in Detector : e.absolute \in Nat
  BY DEF Detector
<1>2. \A e \in Detector : Ready(e) => e.absolute <= N
  BY DEF Ready, Knows
<1>3. 0 \in T
  BY <1>1, <1>2
<1>4. ASSUME NEW k \in Nat, k \in T PROVE k + 1 \in T
  <2>1. ASSUME NEW e \in Detector, Ready(e), N - e.absolute < k + 1 PROVE Good(e)
    <3>1. ASSUME NEW g \in Detector, Ready(g), e.absolute < g.absolute PROVE Told(Visible(g, Rest(g)))
      <4>1. N - g.absolute < k
        BY <1>1, <2>1, <3>1
      <4>2. Good(g)
        <5> HIDE DEF Good
        <5> QED
          BY <4>1, <3>1, <1>4
      <4> QED
        BY <4>2
    <3> DEFINE s == Rest(e)
    <3>2. CASE s = <<>>
      <4>1. Visible(e, s) = Result(e, None)
        <5>1. s \in Seq(Char)
          BY <3>2
        <5> HIDE DEF s
        <5> QED
          BY <5>1, <3>2, VisibleUnfolds
      <4>2. e.absolute + Len(<<>>) = N
        <5>1. N \in e.absolute..N
          BY <1>1, <1>2, <2>1
        <5>2. Len(s) = N - e.absolute
          BY <5>1, <1>1, ReadIs DEF Rest
        <5>3. Len(s) = 0
          BY <3>2
        <5> QED
          BY <5>2, <5>3, <1>1
      <4>3. <<>> \in Seq(Char) /\ e.fenceCarry = <<>> /\ Knows(e) /\ Passed(Here(e))
        BY <2>1, EmptySeq DEF Ready
      <4>4. Holding(e, <<>>) = e
        BY <4>3, HoldingTypes
      <4>5. Told(Result(Holding(e, <<>>), None))
        BY <4>2, <4>3, HoldingTold
      <4> QED
        BY <4>1, <4>4, <4>5
    <3>3. CASE s # <<>> /\ FencesIn(s) = {}
      BY <2>1, <3>3, ToldToEnd
    <3>4. CASE FencesIn(s) # {}
      BY <2>1, <3>1, <3>4, ToldOverFence
    <3> QED
      BY <3>2, <3>3, <3>4
  <2> HIDE DEF Good
  <2> QED
    BY <2>1
<1> HIDE DEF T
<1>5. Nat \subseteq T
  BY <1>3, <1>4, Induction
<1>6. N - d.absolute < (N - d.absolute) + 1 /\ (N - d.absolute) + 1 \in Nat
  BY <1>1, <1>2
<1>7. Good(d)
  <2> HIDE DEF Good
  <2> QED
    BY <1>5, <1>6 DEF T
<1> QED
  BY <1>7

(* What the detector has found is what repeats.                            *)

LEMMA NewKnows ==
    ASSUME text \in Seq(Char), NEW kind \in {"text", "thinking"}, NEW d, d = New(kind)
    PROVE  /\ d \in Detector /\ d.contentKind = kind /\ d.absolute = 0 /\ d.segmentStart = 0
           /\ d.insideFence = FALSE /\ Ready(d) /\ Rest(d) = text
<1>1. d \in Detector /\ d.contentKind = kind /\ d.fenceCarry = <<>>
  BY NewTypes
<1>2. Fresh(d) /\ d.absolute = 0 /\ d.segmentStart = 0 /\ d.insideFence = FALSE
  BY DEF New, Fresh
<1>3. Knows(d) /\ AtEdge(d)
  <2>1. 0 <= Len(text)
    OBVIOUS
  <2> QED
    BY <2>1, <1>1, <1>2, FreshKnows
<1>4. Passed(Here(d))
  BY <1>2, PassedFirst DEF Here, Beginning
<1>5. Rest(d) = text
  <2>1. SubSeq(text, 1, Len(text)) = text
    BY SubSeqFull
  <2> QED
    BY <2>1, <1>2 DEF Rest
<1> QED
  BY <1>1, <1>2, <1>3, <1>4, <1>5 DEF Ready

LEMMA FedTold == FedText => Told(Result(detector, detection))
<1> SUFFICES ASSUME FedText PROVE Told(Result(detector, detection))
  OBVIOUS
<1>1. PICK d : d = New(detector.contentKind)
  OBVIOUS
<1>2. text \in Seq(Char) /\ Result(detector, detection) = Feed(d, text)
  BY <1>1 DEF FedText
<1>3. /\ d \in Detector /\ d.contentKind = detector.contentKind /\ d.absolute = 0
      /\ d.segmentStart = 0 /\ d.insideFence = FALSE /\ Ready(d) /\ Rest(d) = text
  <2>1. detector.contentKind \in {"text", "thinking"}
    BY DEF FedText, Detector
  <2> QED
    BY <2>1, <1>1, <1>2, NewKnows
<1>4. CASE detector.contentKind = "thinking"
  <2> DEFINE to == Len(text)
             r == AppendAnalyzed(d, text)
  <2>1. Feed(d, text) = r
    BY <1>3, <1>4 DEF Feed
  <2>2. NoFence(d.segmentStart, to)
    BY <1>4 DEF NoFence, FenceAt
  <2>3. Knows(d) /\ Passed(Here(d)) /\ d.fenceCarry = <<>>
    BY <1>3 DEF Ready
  <2>4. to \in d.absolute..Len(text) /\ to \in 0..Len(text) /\ to \in Nat
    BY <1>2, <1>3
  <2>5. Got(d, to, r)
    <3>1. Got(d, to, AppendAnalyzed(d, SubSeq(text, d.absolute + 1, to)))
      BY <1>2, <1>3, <2>2, <2>3, <2>4, AnalyzedKnows
    <3>2. SubSeq(text, d.absolute + 1, to) = text
      BY <1>3 DEF Rest
    <3> QED
      BY <3>1, <3>2
  <2> HIDE DEF r
  <2>6. CASE r.detection # None
    <3>1. Told(r)
      BY <1>2, <1>3, <2>2, <2>3, <2>4, <2>5, <2>6, FoundTold
    <3> QED
      BY <3>1, <1>2, <2>1
  <2>7. CASE r.detection = None
    <3> DEFINE e == r.detector
    <3>1. /\ e \in Detector /\ Knows(e) /\ e.absolute = to /\ Here(e) = Here(d)
          /\ e.fenceCarry = <<>> /\ r = Result(e, None)
      BY <2>3, <2>5, <2>7, FedIsResult DEF Got, SameFences, Here
    <3> HIDE DEF e
    <3>2. Passed(Here(e)) /\ e.absolute + Len(<<>>) = Len(text) /\ <<>> \in Seq(Char)
      <4>1. e.absolute + Len(<<>>) = Len(text)
        BY <3>1, <2>4
      <4> QED
        BY <4>1, <3>1, <2>3, EmptySeq
    <3>3. Told(Result(Holding(e, <<>>), None))
      BY <3>1, <3>2, HoldingTold
    <3>4. Holding(e, <<>>) = e
      BY <3>1, <3>2, HoldingTypes
    <3> QED
      BY <3>1, <3>3, <3>4, <1>2, <2>1
  <2> QED
    BY <2>6, <2>7
<1>5. CASE detector.contentKind # "thinking"
  <2>1. Feed(d, text) = Visible(Holding(d, <<>>), <<>> \o text)
    BY <1>3, <1>5 DEF Feed, Holding, Ready
  <2>2. Holding(d, <<>>) = d
    <3>1. <<>> \in Seq(Char) /\ d.fenceCarry = <<>>
      BY <1>3, EmptySeq DEF Ready
    <3> QED
      BY <3>1, <1>3, HoldingTypes
  <2>3. <<>> \o text = text
    BY <1>2, ConcatEmptySeq
  <2>4. Told(Visible(d, Rest(d)))
    BY <1>2, <1>3, <1>5, VisibleKnows
  <2> QED
    BY <1>2, <1>3, <2>1, <2>2, <2>3, <2>4
<1> QED
  BY <1>4, <1>5

(* The segment of the text as the invariant tells it and as it is known.   *)
LEMMA SegmentHere ==
    ASSUME text \in Seq(Char), NEW d \in Detector, Passed(Here(d)),
           NEW b, b = d.segmentStart, NEW n, n = d.absolute,
           b <= n, n <= Len(text), NoFence(b, n),
           NEW k \in b..n
    PROVE  /\ Segment(k) = Here(d) /\ Segment(k).start = b /\ Segment(k).code = d.insideFence
           /\ Periods(k) = Exact(b, k) /\ Alike(k) = AlikeFrom(b, k)
           /\ \A j : j \in Checks(k) <=> j \in (b + 1)..k /\ CheckAt(b, j)
<1>1. b \in Nat /\ n \in Nat /\ k \in Nat /\ b <= k /\ k <= n /\ Len(text) \in Nat
  BY DEF Detector
<1>2. Segment(k) = Here(d)
  <2> DEFINE g == Here(d)
  <2>1. g \in SegmentSet /\ g.start = b
    BY DEF Detector, SegmentSet, Here
  <2>2. k \in g.start..Len(text)
    BY <2>1, <1>1
  <2>3. NoFence(g.start, k)
    <3>1. \A i \in b..k - 3 : i \in b..n - 3
      BY <1>1
    <3> QED
      BY <3>1, <2>1 DEF NoFence
  <2>4. Passed(g)
    OBVIOUS
  <2> HIDE DEF g
  <2>5. Segment(k) = g
    BY <2>1, <2>2, <2>3, <2>4, SegmentIs
  <2> QED
    BY <2>5 DEF g
<1>3. Segment(k).start = b /\ Segment(k).code = d.insideFence
  BY <1>2 DEF Here
<1>4. Periods(k) = Exact(b, k)
  BY <1>3 DEF Periods, EndsInCopies, Exact, Copied
<1>5. Alike(k) = AlikeFrom(b, k)
  BY <1>3 DEF Alike, AlikeFrom
<1>6. ASSUME NEW j \in (b + 1)..k
      PROVE  (\E rounds \in 1..k : j = b + CheckInterval * rounds) <=> CheckAt(b, j)
  <2>1. ASSUME NEW q \in Nat \ {0}, j = b + CheckInterval * q PROVE q \in 1..k
    <3>1. CheckInterval \in Nat /\ CheckInterval > 0
      BY WindowNumbers
    <3>2. PICK c \in Nat : CheckInterval = 1 + c
      <4>1. CheckInterval - 1 \in Nat /\ CheckInterval = 1 + (CheckInterval - 1)
        BY <3>1
      <4> QED
        BY <4>1
    <3>3. CheckInterval * q = q + c * q /\ c * q \in Nat
      BY <3>2
    <3> QED
      BY <2>1, <3>3, <1>1
  <2>2. ASSUME NEW q \in 1..k PROVE q \in Nat \ {0}
    BY <1>1
  <2> QED
    BY <2>1, <2>2 DEF CheckAt
<1>7. \A j : j \in Checks(k) <=> j \in (b + 1)..k /\ CheckAt(b, j)
  BY <1>3, <1>6 DEF Checks
<1> QED
  BY <1>2, <1>3, <1>4, <1>5, <1>7

LEMMA ToldCut == FedText => CutIsTheRepetition
<1> SUFFICES ASSUME FedText PROVE CutIsTheRepetition
  OBVIOUS
<1>1. PICK b, n, seg, first :
          /\ b = detector.segmentStart /\ n = detector.absolute /\ seg = Segment(n)
          /\ first = detection.clean + NearWindow
  OBVIOUS
<1>2. detector \in Detector /\ text \in Seq(Char)
  BY DEF FedText
<1>3. /\ b <= n /\ n <= Len(text) /\ Passed(Here(detector)) /\ NoFence(b, n)
      /\ detection = None => Knows(detector) /\ n + Len(detector.fenceCarry) = Len(text)
      /\ detection # None => ~detector.insideFence /\ Cut(b, n, detection)
  <2>1. PICK r : r = Result(detector, detection)
    OBVIOUS
  <2>2. r.detector = detector /\ r.detection = detection /\ Told(r)
    BY <2>1, ResultParts, FedTold
  <2> QED
    BY <2>2, <1>1 DEF Told
<1>4. b \in Nat /\ n \in Nat /\ n \in b..n
  <2>1. b \in Nat /\ n \in Nat
    BY <1>1, <1>2 DEF Detector
  <2> QED
    BY <2>1, <1>3
<1>5. ASSUME NEW k \in b..n
      PROVE  /\ Segment(k).start = b /\ Segment(k).code = detector.insideFence
             /\ Periods(k) = Exact(b, k) /\ Alike(k) = AlikeFrom(b, k)
             /\ \A j : j \in Checks(k) <=> j \in (b + 1)..k /\ CheckAt(b, j)
  BY <1>1, <1>2, <1>3, SegmentHere
<1>6. /\ seg.start = b /\ seg.code = detector.insideFence
      /\ \A j : j \in Checks(n) <=> j \in (b + 1)..n /\ CheckAt(b, j)
  BY <1>1, <1>4, <1>5
<1>7. ASSUME ~seg.code, NEW k \in Checks(n), k < n \/ detection.kind # "exact"
      PROVE  Periods(k) = {}
  <2>1. k \in (b + 1)..n /\ CheckAt(b, k) /\ k \in b..n
    BY <1>4, <1>6, <1>7
  <2>2. Quiet(b, k)
    <3>1. CASE detection = None
      <4>1. Quiet(b, n)
        BY <3>1, <1>1, <1>3, <1>6, <1>7 DEF Knows
      <4>2. \A j \in (b + 1)..k : j \in (b + 1)..n
        BY <2>1, <1>4
      <4> QED
        BY <4>1, <4>2 DEF Quiet
    <3>2. CASE detection # None /\ detection.kind # "exact"
      <4>1. Quiet(b, n)
        BY <3>2, <1>3 DEF Cut
      <4>2. \A j \in (b + 1)..k : j \in (b + 1)..n
        BY <2>1, <1>4
      <4> QED
        BY <4>1, <4>2 DEF Quiet
    <3>3. CASE detection # None /\ k < n
      <4>1. Quiet(b, n - 1)
        BY <3>3, <1>3 DEF Cut
      <4>2. \A j \in (b + 1)..k : j \in (b + 1)..n - 1
        BY <2>1, <3>3, <1>4
      <4> QED
        BY <4>1, <4>2 DEF Quiet
    <3> QED
      BY <3>1, <3>2, <3>3, <1>7
  <2>3. Exact(b, k) = {}
    <3>1. k \in (b + 1)..k
      BY <2>1, <1>4
    <3> QED
      BY <3>1, <2>1, <2>2 DEF Quiet, Exact
  <2> QED
    BY <2>1, <2>3, <1>5
<1>8. ASSUME detection # None
      PROVE  /\ ~seg.code /\ detection.count = n /\ n \in Checks(n)
             /\ detection.clean \in seg.start..(n - 1)
  <2>1. /\ ~detector.insideFence /\ b < n /\ CheckAt(b, n)
        /\ detection.count = n /\ detection.clean \in b..n - 1
    BY <1>3, <1>8 DEF Cut
  <2>2. n \in (b + 1)..n
    BY <2>1, <1>4
  <2> QED
    BY <2>1, <2>2, <1>6
<1>9. None.kind = "none"
  BY DEF None
<1>10. ASSUME detection.kind = "exact"
       PROVE  /\ detection.period \in Periods(n)
              /\ \A p \in Periods(n) : detection.period <= p
              /\ detection.clean = n - detection.period * Copies(detection.period)
  <2>1. detection # None
    BY <1>9, <1>10
  <2>2. /\ detection.period \in Exact(b, n) /\ \A p \in Exact(b, n) : detection.period <= p
        /\ detection.clean = n - detection.period * Copies(detection.period)
    BY <2>1, <1>3, <1>10 DEF Cut
  <2>3. Periods(n) = Exact(b, n)
    BY <1>4, <1>5
  <2> QED
    BY <2>2, <2>3
<1>11. ASSUME detection.kind = "near-duplicate"
       PROVE  /\ \A k \in Checks(n) : k >= first => Alike(k)
              /\ ~Alike(first - CheckInterval)
              /\ n - detection.clean >= NearMin
  <2>1. detection # None
    BY <1>9, <1>11
  <2>2. /\ CheckAt(b, first) /\ first <= n
        /\ \A k \in (b + 1)..n : CheckAt(b, k) /\ k >= first => AlikeFrom(b, k)
        /\ ~AlikeFrom(b, first - CheckInterval)
        /\ n - detection.clean >= NearMin
    BY <2>1, <1>1, <1>3, <1>11 DEF Cut
  <2>3. first - CheckInterval \in b..n
    <3>1. CheckInterval \in Nat /\ CheckInterval > 0
      BY WindowNumbers
    <3>2. PICK q \in Nat \ {0} : first = b + CheckInterval * q
      BY <2>2 DEF CheckAt
    <3>3. PICK e \in Nat : q = 1 + e
      <4>1. q - 1 \in Nat /\ q = 1 + (q - 1)
        BY <3>2
      <4> QED
        BY <4>1
    <3>4. CheckInterval * q = CheckInterval + CheckInterval * e /\ CheckInterval * e \in Nat
      BY <3>1, <3>3
    <3>5. first - CheckInterval = b + CheckInterval * e
      BY <3>1, <3>2, <3>4, <1>4
    <3> QED
      BY <3>1, <3>2, <3>4, <3>5, <2>2, <1>4
  <2>4. ~Alike(first - CheckInterval)
    BY <2>2, <2>3, <1>5
  <2>5. ASSUME NEW k \in Checks(n), k >= first PROVE Alike(k)
    <3>1. k \in (b + 1)..n /\ CheckAt(b, k)
      BY <1>6
    <3>2. k \in b..n
      BY <3>1, <1>4
    <3>3. AlikeFrom(b, k)
      BY <3>1, <2>2, <2>5
    <3> QED
      BY <3>2, <3>3, <1>5
  <2> QED
    BY <2>2, <2>4, <2>5
<1>12. CutIsTheRepetition =
          LET looked == {k \in Checks(n) : k < n \/ detection.kind # "exact"}
          IN  /\ detection = None => n + Len(detector.fenceCarry) = Len(text)
              /\ ~seg.code => \A k \in looked : Periods(k) = {}
              /\ detection # None =>
                    /\ ~seg.code /\ detection.count = n /\ n \in Checks(n)
                    /\ detection.clean \in seg.start..(n - 1)
              /\ detection.kind = "exact" =>
                    /\ detection.period \in Periods(n)
                    /\ \A p \in Periods(n) : detection.period <= p
                    /\ detection.clean = n - detection.period * Copies(detection.period)
              /\ detection.kind = "near-duplicate" =>
                    /\ \A k \in Checks(n) : k >= first => Alike(k)
                    /\ ~Alike(first - CheckInterval)
                    /\ n - detection.clean >= NearMin
  BY <1>1 DEF CutIsTheRepetition
<1> QED
  BY <1>3, <1>7, <1>8, <1>10, <1>11, <1>12

(* What the detector cuts away is what repeats, wherever the fences fall   *)
(* and however the deltas were cut, and no earlier check had it to find:   *)
(* detect and cleanPrefixLength in repetition-detector.ts.                 *)
THEOREM CutCorrect == Spec => []CutIsTheRepetition
<1>1. Init => FedText
  BY FedTextInit
<1>2. FedText /\ [Next]_vars => FedText'
  BY FedTextNext
<1>3. FedText => CutIsTheRepetition
  BY ToldCut
<1> QED
  BY <1>1, <1>2, <1>3, PTL DEF Spec
================================================================================
