------------------------- MODULE StreamAdapter_proofs -------------------------
(***************************************************************************)
(* Proofs of the safety of StreamAdapter, for every set of screenshots,    *)
(* every cutoff, every size and every bound.                               *)
(*                                                                         *)
(* The first part makes the loops of the code available to proofs: a set   *)
(* with 0 that is closed under successors holds every number (Induction),  *)
(* so a function that is given step by step exists (Recursion), and what a *)
(* loop computes follows by induction over its steps: ScannedFacts says    *)
(* which screenshots the scan keeps, SizeCounts what a context measures,   *)
(* SanitizedOrigin where in the history a message that is sent comes from. *)
(* The second part is the inductive invariant and its steps: the latch is  *)
(* the last rejection's (LatchStands), what was left out is remembered     *)
(* (OmittedRemembered), and the usage of an answer that counts says what   *)
(* the history before it measured, within what may be left out of it or    *)
(* come back (UsageTrue), so the estimate is right (EstimateBounds).       *)
(***************************************************************************)
EXTENDS StreamAdapter, FiniteSetTheorems, SequenceTheorems, WellFoundedInduction, TLAPS

--------------------------------------------------------------------------------
(* Recursion over the natural numbers.                                     *)

(* A set with 0 that is closed under successors holds every number.        *)
LEMMA Induction ==
    ASSUME NEW T, 0 \in T, \A n \in Nat : n \in T => n + 1 \in T
    PROVE  Nat \subseteq T
<1> DEFINE R == {p \in Nat \X Nat : p[1] < p[2]}
           B == Nat \ T
<1>1. SUFFICES ASSUME B # {} PROVE FALSE
  OBVIOUS
<1>2. IsWellFoundedOn(R, Nat)
  BY NatLessThanWellFounded DEF OpToRel
<1> HIDE DEF B, R
<1>3. B \subseteq Nat
  BY DEF B
<1>4. PICK x \in B : \A y \in B : ~ (<<y, x>> \in R)
  BY <1>1, <1>2, <1>3, WFMin
<1>5. \A y \in B : ~(y < x)
  BY <1>4, <1>3 DEF R
<1>6. x # 0 /\ x \in Nat
  BY <1>4 DEF B
<1>7. x - 1 \in Nat /\ x - 1 < x /\ x - 1 + 1 = x
  BY <1>6
<1>8. x - 1 \in T
  BY <1>5, <1>7 DEF B
<1> QED
  BY <1>7, <1>8, <1>4 DEF B

(* The same up to a bound.                                                 *)
LEMMA InductionUpTo ==
    ASSUME NEW N \in Nat, NEW T, 0 \in T, \A n \in 1..N : n - 1 \in T => n \in T
    PROVE  \A n \in 0..N : n \in T
<1> DEFINE U == {n \in Nat : n <= N => n \in T}
<1>1. 0 \in U
  OBVIOUS
<1>2. ASSUME NEW n \in Nat, n \in U PROVE n + 1 \in U
  <2>1. n + 1 - 1 = n
    OBVIOUS
  <2> QED
    BY <1>2, <2>1
<1> HIDE DEF U
<1>3. Nat \subseteq U
  BY <1>1, <1>2, Induction
<1> QED
  BY <1>3 DEF U

(* A function can be given by its first value and its steps.               *)
Steps(G, N, S) == G \in [1..N -> [S -> S]]
Follows(f, base, G, N, S) ==
    /\ f \in [0..N -> S]
    /\ f[0] = base /\ \A n \in 1..N : f[n] = G[n][f[n - 1]]

LEMMA Recursion ==
    ASSUME NEW N \in Nat, NEW S, NEW base \in S, NEW G, Steps(G, N, S)
    PROVE  \E f : Follows(f, base, G, N, S)
<1> DEFINE Good(m, f) == f[0] = base /\ \A n \in 1..m : f[n] = G[n][f[n - 1]]
           T == {m \in 0..N : \E f \in [0..m -> S] : Good(m, f)}
<1>0. G \in [1..N -> [S -> S]]
  BY DEF Steps
<1>1. 0 \in T
  <2> DEFINE f == [k \in 0..0 |-> base]
  <2>1. f \in [0..0 -> S] /\ f[0] = base
    OBVIOUS
  <2>2. Good(0, f)
    BY <2>1
  <2> HIDE DEF f
  <2>3. 0 \in 0..N
    OBVIOUS
  <2> HIDE DEF Good
  <2> QED
    BY <2>1, <2>2, <2>3
<1>2. ASSUME NEW m \in 1..N, m - 1 \in T PROVE m \in T
  <2>1. PICK g \in [0..(m - 1) -> S] : Good(m - 1, g)
    BY <1>2
  <2> DEFINE f == [k \in 0..m |-> IF k = m THEN G[m][g[m - 1]] ELSE g[k]]
  <2>2. g[m - 1] \in S /\ G[m] \in [S -> S]
    BY <1>0
  <2>3. f \in [0..m -> S]
    BY <2>2
  <2>4. f[0] = base
    BY <2>1
  <2>5. ASSUME NEW n \in 1..m PROVE f[n] = G[n][f[n - 1]]
    <3>1. f[n - 1] = g[n - 1]
      OBVIOUS
    <3>2. CASE n = m
      BY <3>1, <3>2
    <3>3. CASE n # m
      <4>1. n \in 1..(m - 1)
        BY <3>3
      <4> QED
        BY <4>1, <3>1, <2>1
    <3> QED
      BY <3>2, <3>3
  <2> HIDE DEF f
  <2>6. Good(m, f)
    BY <2>4, <2>5
  <2> QED
    BY <2>3, <2>6
<1> HIDE DEF T
<1>3. \A m \in 0..N : m \in T
  BY <1>1, <1>2, InductionUpTo
<1>4. N \in T
  BY <1>3
<1> QED
  BY <1>4 DEF T, Follows
--------------------------------------------------------------------------------
(* The functions behind Sanitized, Size and Scanned.                       *)
Dropped(m) == m.role = "assistant" /\ m.failed

Sent(ms) ==
    LET sent[n \in 0..Len(ms)] ==
            IF n = 0 THEN <<>>
            ELSE IF ms[n].role = "assistant" /\ ms[n].failed THEN sent[n - 1]
            ELSE Append(sent[n - 1], ms[n])
    IN  sent

Total(ms) ==
    LET sum[n \in 0..Len(ms)] == IF n = 0 THEN 0 ELSE sum[n - 1] + ms[n].size
    IN  sum

ScanOf(ms) ==
    LET scan[n \in 0..Len(ms)] ==
            LET i == Len(ms) + 1 - n
            IN  IF n = 0 THEN Scan
                ELSE IF i \in Images(ms) THEN ScanImage(scan[n - 1], i, ms[i].image)
                ELSE scan[n - 1]
    IN  scan

(* What is sent of the first n messages.                                   *)
LEMMA SentSteps ==
    ASSUME NEW S, NEW ms \in Seq(S)
    PROVE  /\ Sent(ms) \in [0..Len(ms) -> Seq(S)]
           /\ Sent(ms)[0] = <<>>
           /\ \A n \in 1..Len(ms) :
                 Sent(ms)[n] = IF Dropped(ms[n]) THEN Sent(ms)[n - 1]
                               ELSE Append(Sent(ms)[n - 1], ms[n])
<1> DEFINE N == Len(ms)
           Is(f) == f = [n \in 0..N |-> IF n = 0 THEN <<>>
                                        ELSE IF ms[n].role = "assistant" /\ ms[n].failed
                                             THEN f[n - 1] ELSE Append(f[n - 1], ms[n])]
           G == [n \in 1..N |-> [x \in Seq(S) |-> IF Dropped(ms[n]) THEN x ELSE Append(x, ms[n])]]
<1>1. N \in Nat /\ \A n \in 1..N : ms[n] \in S
  OBVIOUS
<1>2. G \in [1..N -> [Seq(S) -> Seq(S)]]
  <2>1. \A n \in 1..N, x \in Seq(S) :
           (IF Dropped(ms[n]) THEN x ELSE Append(x, ms[n])) \in Seq(S)
    BY <1>1
  <2> QED
    BY <2>1
<1>3. <<>> \in Seq(S)
  OBVIOUS
<1>4. PICK f \in [0..N -> Seq(S)] : f[0] = <<>> /\ \A n \in 1..N : f[n] = G[n][f[n - 1]]
  <2> HIDE DEF G, N
  <2>1. Steps(G, N, Seq(S))
    BY <1>2 DEF Steps
  <2>2. \E f : Follows(f, <<>>, G, N, Seq(S))
    BY <2>1, <1>1, <1>3, Recursion
  <2> QED
    BY <2>2 DEF Follows
<1>5. Is(f)
  <2>1. ASSUME NEW n \in 1..N
        PROVE  f[n] = IF Dropped(ms[n]) THEN f[n - 1] ELSE Append(f[n - 1], ms[n])
    <3>1. n - 1 \in 0..N
      BY <1>1
    <3>2. f[n - 1] \in Seq(S)
      BY <3>1
    <3> QED
      BY <1>4, <3>2
  <2>2. ASSUME NEW n \in 0..N
        PROVE  f[n] = IF n = 0 THEN <<>>
                      ELSE IF ms[n].role = "assistant" /\ ms[n].failed
                           THEN f[n - 1] ELSE Append(f[n - 1], ms[n])
    <3>1. CASE n = 0
      <4> HIDE DEF G
      <4>1. f[0] = <<>>
        BY <1>4
      <4> QED
        BY <3>1, <4>1
    <3>2. CASE n # 0
      <4>1. n \in 1..N
        BY <3>2, <1>1
      <4> QED
        BY <3>2, <4>1, <2>1 DEF Dropped
    <3> QED
      BY <3>1, <3>2
  <2> HIDE DEF N
  <2> QED
    BY <2>2
<1>6. Sent(ms) = CHOOSE g : Is(g)
  BY DEF Sent
<1>7. Is(Sent(ms))
  <2> HIDE DEF Is
  <2> QED
    BY <1>5, <1>6
<1>8. PICK h : h = Sent(ms)
  OBVIOUS
<1>9. Is(h)
  BY <1>7, <1>8
<1>10. /\ h[0] = <<>>
       /\ \A n \in 1..N : h[n] = IF Dropped(ms[n]) THEN h[n - 1] ELSE Append(h[n - 1], ms[n])
  <2> HIDE DEF N
  <2>1. 0 \in 0..N /\ \A n \in 1..N : n \in 0..N /\ n # 0
    BY <1>1
  <2> QED
    BY <2>1, <1>9 DEF Dropped
<1>11. \A n \in 0..N : h[n] \in Seq(S)
  <2> DEFINE T == {n \in 0..N : h[n] \in Seq(S)}
  <2> HIDE DEF N
  <2>1. 0 \in T
    <3>1. h[0] = <<>>
      BY <1>10
    <3>2. 0 \in 0..N
      BY <1>1
    <3> QED
      BY <3>1, <3>2, <1>3
  <2>2. ASSUME NEW n \in 1..N, n - 1 \in T PROVE n \in T
    <3>1. h[n] = IF Dropped(ms[n]) THEN h[n - 1] ELSE Append(h[n - 1], ms[n])
      BY <1>10
    <3>2. h[n - 1] \in Seq(S)
      BY <2>2
    <3>3. n \in 0..N /\ ms[n] \in S
      BY <1>1
    <3>4. Append(h[n - 1], ms[n]) \in Seq(S)
      BY <3>2, <3>3
    <3>5. h[n] \in Seq(S)
      BY <3>1, <3>2, <3>4
    <3> QED
      BY <3>3, <3>5
  <2> HIDE DEF T
  <2>3. \A n \in 0..N : n \in T
    BY <2>1, <2>2, <1>1, InductionUpTo
  <2> QED
    BY <2>3 DEF T
<1> QED
  BY <1>8, <1>9, <1>10, <1>11

LEMMA SanitizedIs == \A ms : Sanitized(ms) = Sent(ms)[Len(ms)]
BY DEF Sanitized, Sent

LEMMA SizeIs == \A ms : Size(ms) = Total(ms)[Len(ms)]
BY DEF Size, Total

LEMMA ScannedIs == \A ms : Scanned(ms) = ScanOf(ms)[Len(ms)]
BY DEF Scanned, ScanOf

(* What pi has: what a message measures, and that only inputs have images. *)
MessageFields ==
    [role : {"summary", "input", "assistant"}, at : Nat, image : Image \union {0},
     size : Nat, usage : Nat, failed : BOOLEAN]
Message ==
    {m \in MessageFields :
        /\ m.size = 1 + (IF m.image = 0 THEN 0 ELSE ImageSize)
        /\ m.role # "input" => m.image = 0}

LEMMA TotalSteps ==
    ASSUME NEW ms \in Seq(Message)
    PROVE  /\ Total(ms) \in [0..Len(ms) -> Nat]
           /\ Total(ms)[0] = 0
           /\ \A n \in 1..Len(ms) : Total(ms)[n] = Total(ms)[n - 1] + ms[n].size
<1> DEFINE N == Len(ms)
           Is(f) == f = [n \in 0..N |-> IF n = 0 THEN 0 ELSE f[n - 1] + ms[n].size]
           G == [n \in 1..N |-> [x \in Nat |-> x + ms[n].size]]
<1>1. N \in Nat /\ \A n \in 1..N : ms[n].size \in Nat
  BY DEF Message, MessageFields
<1>2. PICK f : Follows(f, 0, G, N, Nat)
  <2>1. Steps(G, N, Nat)
    BY <1>1 DEF Steps
  <2> HIDE DEF G, N
  <2> QED
    BY <2>1, <1>1, Recursion
<1>3. Is(f)
  <2>1. f[0] = 0
    <3> HIDE DEF G, N
    <3> QED
      BY <1>2 DEF Follows
  <2>2. ASSUME NEW n \in 1..N PROVE f[n] = f[n - 1] + ms[n].size
    <3>1. f[n - 1] \in Nat
      BY <1>2, <1>1 DEF Follows
    <3> QED
      BY <1>2, <3>1 DEF Follows
  <2>3. f = [n \in 0..N |-> f[n]]
    <3> HIDE DEF G, N
    <3> QED
      BY <1>2 DEF Follows
  <2>4. \A n \in 0..N : f[n] = IF n = 0 THEN 0 ELSE f[n - 1] + ms[n].size
    BY <2>1, <2>2
  <2> HIDE DEF N
  <2> QED
    BY <2>3, <2>4
<1>4. Total(ms) = CHOOSE g : Is(g)
  BY DEF Total
<1>5. PICK h : h = Total(ms)
  OBVIOUS
<1>6. Is(h)
  <2> HIDE DEF Is
  <2> QED
    BY <1>3, <1>4, <1>5
<1>7. h[0] = 0 /\ \A n \in 1..N : h[n] = h[n - 1] + ms[n].size
  <2> HIDE DEF N
  <2>1. 0 \in 0..N /\ \A n \in 1..N : n \in 0..N /\ n # 0
    BY <1>1
  <2> QED
    BY <2>1, <1>6
<1>8. \A n \in 0..N : h[n] \in Nat
  <2> DEFINE T == {n \in 0..N : h[n] \in Nat}
  <2> HIDE DEF N
  <2>1. 0 \in T
    BY <1>7, <1>1
  <2>2. ASSUME NEW n \in 1..N, n - 1 \in T PROVE n \in T
    BY <2>2, <1>7, <1>1
  <2> HIDE DEF T
  <2>3. \A n \in 0..N : n \in T
    BY <2>1, <2>2, <1>1, InductionUpTo
  <2> QED
    BY <2>3 DEF T
<1> QED
  BY <1>5, <1>6, <1>7, <1>8

LEMMA ImagesFinite ==
    ASSUME NEW ms \in Seq(Message), NEW A \in SUBSET Images(ms)
    PROVE  /\ Images(ms) \subseteq 1..Len(ms)
           /\ IsFiniteSet(A) /\ Cardinality(A) \in Nat
<1>1. Images(ms) \subseteq 1..Len(ms)
  BY DEF Images
<1>2. IsFiniteSet(1..Len(ms))
  BY FS_Interval
<1> QED
  BY <1>1, <1>2, FS_Subset, FS_CardinalityType

(* Every message counts one, and every screenshot its size.                *)
LEMMA SizeCounts ==
    ASSUME NEW ms \in Seq(Message)
    PROVE  Size(ms) = Len(ms) + ImageSize * Cardinality(Images(ms))
<1> DEFINE N == Len(ms)
           h == Total(ms)
           Up(n) == {i \in Images(ms) : i <= n}
           T == {n \in 0..N : h[n] = n + ImageSize * Cardinality(Up(n))}
<1>1. h \in [0..N -> Nat] /\ h[0] = 0 /\ \A n \in 1..N : h[n] = h[n - 1] + ms[n].size
  BY TotalSteps
<1>2. N \in Nat /\ \A n \in 1..N : ms[n] \in Message
  OBVIOUS
<1>3. Images(ms) \subseteq 1..N /\ \A n : IsFiniteSet(Up(n)) /\ Cardinality(Up(n)) \in Nat
  BY ImagesFinite
<1>4. ImageSize \in Nat
  BY ImageSizeAssumption
<1>5. 0 \in T
  <2>1. Up(0) = {}
    BY <1>3
  <2>2. Cardinality(Up(0)) = 0
    BY <2>1, FS_EmptySet
  <2> HIDE DEF h, N, Up
  <2> QED
    BY <2>2, <1>1, <1>2, <1>4
<1>6. ASSUME NEW n \in 1..N, n - 1 \in T PROVE n \in T
  <2> DEFINE k == Cardinality(Up(n - 1))
  <2>0. k \in Nat /\ ImageSize * k \in Nat /\ IsFiniteSet(Up(n - 1))
    <3>1. k \in Nat /\ IsFiniteSet(Up(n - 1))
      <4> HIDE DEF Up
      <4> QED
        BY <1>3
    <3> HIDE DEF k
    <3>2. ImageSize * k \in Nat
      BY <3>1, <1>4
    <3> QED
      BY <3>1, <3>2
  <2>1. h[n] = n - 1 + ImageSize * k + ms[n].size
    <3> HIDE DEF h, N, Up, k
    <3> QED
      BY <1>6, <1>1 DEF k
  <2>2. CASE n \in Images(ms)
    <3>1. Up(n) = Up(n - 1) \union {n} /\ n \notin Up(n - 1)
      BY <2>2, <1>3
    <3>2. Cardinality(Up(n)) = k + 1
      <4> HIDE DEF Up
      <4> QED
        BY <3>1, <2>0, FS_AddElement DEF k
    <3>3. ms[n].size = 1 + ImageSize
      BY <2>2, <1>2 DEF Images, Message, MessageFields
    <3>4. ImageSize * (k + 1) = ImageSize * k + ImageSize
      <4> HIDE DEF k
      <4> QED
        BY <2>0, <1>4
    <3>5. h[n] = n + ImageSize * (k + 1)
      <4> HIDE DEF k, h, N, Up
      <4> QED
        BY <2>0, <2>1, <3>3, <3>4, <1>4, <1>2
    <3> QED
      BY <3>2, <3>5, <1>2
  <2>3. CASE n \notin Images(ms)
    <3>1. Up(n) = Up(n - 1)
      BY <2>3, <1>3
    <3>2. ms[n].size = 1
      BY <2>3, <1>2 DEF Images, Message, MessageFields
    <3>3. h[n] = n + ImageSize * k
      <4> HIDE DEF k, h, N, Up
      <4> QED
        BY <2>0, <2>1, <3>2, <1>4, <1>2
    <3>4. n \in 0..N
      BY <1>2
    <3> HIDE DEF Up, h, N
    <3> QED
      BY <3>1, <3>3, <3>4
  <2> QED
    BY <2>2, <2>3
<1> HIDE DEF T
<1>7. \A n \in 0..N : n \in T
  <2> HIDE DEF N
  <2> QED
    BY <1>5, <1>6, <1>2, InductionUpTo
<1>8. h[N] = N + ImageSize * Cardinality(Up(N))
  <2>1. N \in T
    BY <1>7, <1>2
  <2> QED
    BY <2>1 DEF T
<1>9. Up(N) = Images(ms)
  BY <1>3
<1> QED
  BY <1>8, <1>9, SizeIs
--------------------------------------------------------------------------------
(* Beginnings of sequences.                                                *)
LEMMA Beginning ==
    ASSUME NEW S, NEW s \in Seq(S), NEW n \in 0..Len(s)
    PROVE  /\ SubSeq(s, 1, n) \in Seq(S)
           /\ Len(SubSeq(s, 1, n)) = n
           /\ \A i \in 1..n : SubSeq(s, 1, n)[i] = s[i]
<1>1. \A i \in 1..n : s[i] \in S
  OBVIOUS
<1>2. n \in Int /\ 1 \in Int /\ n - 1 + 1 = n /\ \A i \in 1..n : 1 + i - 1 = i
  OBVIOUS
<1> QED
  BY <1>1, <1>2, SubSeqProperties

LEMMA SameBeginning ==
    ASSUME NEW S, NEW s \in Seq(S), NEW t \in Seq(S),
           NEW n \in 0..Len(s), n <= Len(t), \A i \in 1..n : s[i] = t[i]
    PROVE  SubSeq(s, 1, n) = SubSeq(t, 1, n)
<1> DEFINE a == SubSeq(s, 1, n)
           b == SubSeq(t, 1, n)
<1>1. n \in 0..Len(t)
  OBVIOUS
<1>2. a \in Seq(S) /\ Len(a) = n /\ \A i \in 1..n : a[i] = s[i]
  BY Beginning
<1>3. b \in Seq(S) /\ Len(b) = n /\ \A i \in 1..n : b[i] = t[i]
  BY <1>1, Beginning
<1> HIDE DEF a, b
<1>4. a = b
  BY <1>2, <1>3, SeqEqual
<1> QED
  BY <1>4 DEF a, b

LEMMA BeginningOfBeginning ==
    ASSUME NEW S, NEW s \in Seq(S), NEW n \in 0..Len(s), NEW k \in 0..n
    PROVE  SubSeq(SubSeq(s, 1, n), 1, k) = SubSeq(s, 1, k)
<1> DEFINE a == SubSeq(s, 1, n)
<1>1. a \in Seq(S) /\ Len(a) = n /\ \A i \in 1..n : a[i] = s[i]
  BY Beginning
<1> HIDE DEF a
<1>2. k \in 0..Len(a) /\ k <= Len(s) /\ \A i \in 1..k : a[i] = s[i]
  BY <1>1
<1>3. SubSeq(a, 1, k) = SubSeq(s, 1, k)
  BY <1>1, <1>2, SameBeginning
<1> QED
  BY <1>3 DEF a

LEMMA BeginningOfAppend ==
    ASSUME NEW S, NEW s \in Seq(S), NEW m \in S, NEW k \in 0..Len(s)
    PROVE  SubSeq(Append(s, m), 1, k) = SubSeq(s, 1, k)
<1> DEFINE a == Append(s, m)
<1>1. a \in Seq(S) /\ Len(a) = Len(s) + 1 /\ \A i \in 1..Len(s) : a[i] = s[i]
  OBVIOUS
<1> HIDE DEF a
<1>2. k <= Len(a) /\ \A i \in 1..k : s[i] = a[i]
  BY <1>1
<1>3. SubSeq(s, 1, k) = SubSeq(a, 1, k)
  BY <1>1, <1>2, SameBeginning
<1> QED
  BY <1>3 DEF a

LEMMA WholeBeginning ==
    ASSUME NEW S, NEW s \in Seq(S)
    PROVE  SubSeq(s, 1, Len(s)) = s
BY SubSeqFull

--------------------------------------------------------------------------------
(* What Sanitized keeps, and where it comes from.                          *)
LEMMA SentOfBeginning ==
    ASSUME NEW ms \in Seq(Message), NEW n \in 0..Len(ms)
    PROVE  Sanitized(SubSeq(ms, 1, n)) = Sent(ms)[n]
<1> DEFINE p == SubSeq(ms, 1, n)
           T == {k \in 0..n : Sent(p)[k] = Sent(ms)[k]}
<1>1. p \in Seq(Message) /\ Len(p) = n /\ \A i \in 1..n : p[i] = ms[i]
  BY Beginning
<1> HIDE DEF p
<1>2. /\ Sent(p)[0] = <<>>
      /\ \A k \in 1..n : Sent(p)[k] = IF Dropped(p[k]) THEN Sent(p)[k - 1]
                                      ELSE Append(Sent(p)[k - 1], p[k])
  BY <1>1, SentSteps
<1>3. /\ Sent(ms)[0] = <<>>
      /\ \A k \in 1..Len(ms) : Sent(ms)[k] = IF Dropped(ms[k]) THEN Sent(ms)[k - 1]
                                             ELSE Append(Sent(ms)[k - 1], ms[k])
  BY SentSteps
<1>4. n \in Nat /\ \A k \in 1..n : k \in 1..Len(ms)
  OBVIOUS
<1>5. 0 \in T
  BY <1>2, <1>3, <1>4
<1>6. ASSUME NEW k \in 1..n, k - 1 \in T PROVE k \in T
  <2>1. Sent(p)[k - 1] = Sent(ms)[k - 1]
    BY <1>6
  <2>2. Sent(p)[k] = Sent(ms)[k]
    BY <2>1, <1>1, <1>2, <1>3, <1>4
  <2> QED
    BY <2>2, <1>4
<1> HIDE DEF T
<1>7. \A k \in 0..n : k \in T
  BY <1>4, <1>5, <1>6, InductionUpTo
<1>8. n \in T
  BY <1>7, <1>4
<1>9. Sent(p)[n] = Sent(ms)[n]
  BY <1>8 DEF T
<1> QED
  BY <1>9, <1>1, SanitizedIs DEF p

(* Message u of what is sent is some message i of the history, and what is *)
(* sent before it is what would be sent of the history before that.        *)
ComesFrom(u, s, i, ms) ==
    /\ s[u] = ms[i] /\ ~Dropped(ms[i])
    /\ SubSeq(s, 1, u - 1) = Sent(ms)[i - 1]

LEMMA SentOrigin ==
    ASSUME NEW ms \in Seq(Message), NEW n \in 0..Len(ms), NEW u \in 1..Len(Sent(ms)[n])
    PROVE  \E i \in 1..n : ComesFrom(u, Sent(ms)[n], i, ms)
<1> DEFINE h == Sent(ms)
           N == Len(ms)
           T == {k \in 0..N : \A v \in 1..Len(h[k]) : \E i \in 1..k : ComesFrom(v, h[k], i, ms)}
<1>1. /\ h \in [0..N -> Seq(Message)] /\ h[0] = <<>>
      /\ \A k \in 1..N : h[k] = IF Dropped(ms[k]) THEN h[k - 1] ELSE Append(h[k - 1], ms[k])
  BY SentSteps
<1>2. N \in Nat /\ \A k \in 1..N : ms[k] \in Message /\ k - 1 \in 0..N /\ k \in 0..N
  OBVIOUS
<1> HIDE DEF h, N
<1>3. 0 \in T
  BY <1>1, <1>2
<1>4. ASSUME NEW k \in 1..N, k - 1 \in T PROVE k \in T
  <2> DEFINE q == h[k - 1]
  <2>1. q \in Seq(Message) /\ h[k] = IF Dropped(ms[k]) THEN q ELSE Append(q, ms[k])
    BY <1>1, <1>2
  <2>2. \A v \in 1..Len(q) : \E i \in 1..k - 1 : ComesFrom(v, q, i, ms)
    BY <1>4
  <2>3. ASSUME NEW v \in 1..Len(h[k]) PROVE \E i \in 1..k : ComesFrom(v, h[k], i, ms)
    <3>1. CASE Dropped(ms[k])
      BY <3>1, <2>1, <2>2
    <3>2. CASE ~Dropped(ms[k]) /\ v <= Len(q)
      <4>1. PICK i \in 1..k - 1 : ComesFrom(v, q, i, ms)
        BY <3>2, <2>2
      <4>2. SubSeq(h[k], 1, v - 1) = SubSeq(q, 1, v - 1) /\ h[k][v] = q[v]
        <5>1. v - 1 \in 0..Len(q)
          BY <3>2, <2>1
        <5>2. SubSeq(Append(q, ms[k]), 1, v - 1) = SubSeq(q, 1, v - 1)
          BY <5>1, <2>1, <1>2, BeginningOfAppend
        <5> QED
          BY <5>2, <3>2, <2>1, <1>2
      <4>3. ComesFrom(v, h[k], i, ms) /\ i \in 1..k
        BY <4>1, <4>2 DEF ComesFrom
      <4> QED
        BY <4>3
    <3>3. CASE ~Dropped(ms[k]) /\ v > Len(q)
      <4>1. v = Len(q) + 1 /\ h[k][v] = ms[k] /\ v - 1 = Len(q) /\ Len(q) \in 0..Len(q)
        BY <3>3, <2>1, <1>2
      <4>2. SubSeq(Append(q, ms[k]), 1, Len(q)) = SubSeq(q, 1, Len(q))
        BY <4>1, <2>1, <1>2, BeginningOfAppend
      <4>3. SubSeq(q, 1, Len(q)) = q
        BY <2>1, WholeBeginning
      <4>4. ComesFrom(v, h[k], k, ms)
        BY <4>1, <4>2, <4>3, <3>3, <2>1 DEF ComesFrom, h
      <4> QED
        BY <4>4, <1>2
    <3> QED
      BY <3>1, <3>2, <3>3, <2>1
  <2> QED
    BY <2>3, <1>2
<1> HIDE DEF T
<1>5. \A k \in 0..N : k \in T
  BY <1>2, <1>3, <1>4, InductionUpTo
<1>6. n \in T
  BY <1>5 DEF N
<1> QED
  BY <1>6 DEF T, h
--------------------------------------------------------------------------------
(* The loop over the screenshots.                                          *)
ScanState == [kept : Nat, dropping : BOOLEAN, drop : SUBSET Nat, omitted : SUBSET Image]

Sticky(scan, bytes) == bytes \in scan.omitted /\ scan.kept > 0
Keeps(scan, bytes) ==
    ~scan.dropping /\ ~Sticky(scan, bytes)
    /\ (scan.kept = 0 \/ scan.kept + bytes <= MaxImageBytes)

LEMMA ScanImageKeeps ==
    ASSUME NEW scan \in ScanState, NEW i \in Nat, NEW bytes \in Image, Keeps(scan, bytes)
    PROVE  LET r == ScanImage(scan, i, bytes)
           IN  /\ r \in ScanState
               /\ r.kept = scan.kept + bytes /\ r.dropping = scan.dropping
               /\ r.drop = scan.drop /\ r.omitted = scan.omitted
<1>1. ScanImage(scan, i, bytes) = [scan EXCEPT !.kept = @ + bytes]
  BY DEF ScanImage, Keeps, Sticky
<1>2. bytes \in Nat /\ scan.kept \in Nat
  BY ImageAssumption DEF ScanState
<1> QED
  BY <1>1, <1>2 DEF ScanState

LEMMA ScanImageDrops ==
    ASSUME NEW scan \in ScanState, NEW i \in Nat, NEW bytes \in Image, ~Keeps(scan, bytes)
    PROVE  LET r == ScanImage(scan, i, bytes)
           IN  /\ r \in ScanState
               /\ r.kept = scan.kept /\ r.dropping \in BOOLEAN
               /\ r.drop = scan.drop \union {i} /\ r.omitted = scan.omitted \union {bytes}
<1> DEFINE d == scan.dropping \/ ~(bytes \in scan.omitted /\ scan.kept > 0)
<1>1. ScanImage(scan, i, bytes) =
         [scan EXCEPT !.dropping = d, !.drop = @ \union {i}, !.omitted = @ \union {bytes}]
  BY DEF ScanImage, Keeps, Sticky, ScanState
<1>2. d \in BOOLEAN
  BY DEF ScanState
<1> HIDE DEF d
<1> QED
  BY <1>1, <1>2 DEF ScanState

LEMMA ScanSteps ==
    ASSUME NEW ms \in Seq(Message), omittedKeys \subseteq Image
    PROVE  /\ ScanOf(ms) \in [0..Len(ms) -> ScanState]
           /\ ScanOf(ms)[0] = Scan
           /\ \A n \in 1..Len(ms) :
                 ScanOf(ms)[n] =
                    IF Len(ms) + 1 - n \in Images(ms)
                    THEN ScanImage(ScanOf(ms)[n - 1], Len(ms) + 1 - n, ms[Len(ms) + 1 - n].image)
                    ELSE ScanOf(ms)[n - 1]
<1> DEFINE N == Len(ms)
           After(x, n) == IF N + 1 - n \in Images(ms)
                          THEN ScanImage(x, N + 1 - n, ms[N + 1 - n].image) ELSE x
           Is(f) == f = [n \in 0..N |-> IF n = 0 THEN Scan ELSE After(f[n - 1], n)]
           G == [n \in 1..N |-> [x \in ScanState |-> After(x, n)]]
<1>1. N \in Nat
  OBVIOUS
<1>2. ASSUME NEW x \in ScanState, NEW n \in 1..N PROVE After(x, n) \in ScanState
  <2>1. CASE N + 1 - n \in Images(ms)
    <3> DEFINE i == N + 1 - n
    <3>1. i \in 1..N
      OBVIOUS
    <3>2. ms[i] \in Message /\ ms[i].image # 0
      BY <3>1, <2>1 DEF Images
    <3>3. ms[i].image \in Image /\ i \in Nat
      BY <3>1, <3>2 DEF Message, MessageFields
    <3> HIDE DEF i
    <3>4. ScanImage(x, i, ms[i].image) \in ScanState
      BY <3>3, ScanImageKeeps, ScanImageDrops
    <3> QED
      BY <3>4, <2>1 DEF i
  <2>2. CASE N + 1 - n \notin Images(ms)
    BY <2>2
  <2> QED
    BY <2>1, <2>2
<1>3. Scan \in ScanState
  BY DEF Scan, ScanState
<1>4. Is(ScanOf(ms)) <=> ScanOf(ms) = [n \in 0..N |-> IF n = 0 THEN Scan
                                          ELSE After(ScanOf(ms)[n - 1], n)]
  OBVIOUS
<1>5. ScanOf(ms) = CHOOSE g : Is(g)
  BY DEF ScanOf
<1> HIDE DEF After, N
<1>6. PICK f : Follows(f, Scan, G, N, ScanState)
  <2>1. Steps(G, N, ScanState)
    BY <1>2 DEF Steps
  <2> HIDE DEF G
  <2> QED
    BY <2>1, <1>1, <1>3, Recursion
<1>7. Is(f)
  <2>1. f[0] = Scan /\ f = [n \in 0..N |-> f[n]]
    <3> HIDE DEF G
    <3> QED
      BY <1>6 DEF Follows
  <2>2. ASSUME NEW n \in 1..N PROVE f[n] = After(f[n - 1], n)
    <3>1. f[n - 1] \in ScanState
      BY <1>6, <1>1 DEF Follows
    <3> QED
      BY <1>6, <3>1 DEF Follows
  <2>3. \A n \in 0..N : f[n] = IF n = 0 THEN Scan ELSE After(f[n - 1], n)
    BY <2>1, <2>2, <1>1
  <2> QED
    BY <2>1, <2>3
<1>8. PICK h : h = ScanOf(ms)
  OBVIOUS
<1>9. Is(h)
  <2> HIDE DEF Is
  <2> QED
    BY <1>5, <1>7, <1>8
<1>10. h[0] = Scan /\ \A n \in 1..N : h[n] = After(h[n - 1], n)
  <2>1. 0 \in 0..N /\ \A n \in 1..N : n \in 0..N /\ n # 0
    BY <1>1
  <2> QED
    BY <2>1, <1>9
<1>11. \A n \in 0..N : h[n] \in ScanState
  <2> DEFINE T == {n \in 0..N : h[n] \in ScanState}
  <2>1. 0 \in T
    BY <1>10, <1>3, <1>1
  <2>2. ASSUME NEW n \in 1..N, n - 1 \in T PROVE n \in T
    <3>1. h[n] \in ScanState
      BY <2>2, <1>10, <1>2
    <3> QED
      BY <3>1, <1>1
  <2> HIDE DEF T
  <2>3. \A n \in 0..N : n \in T
    BY <2>1, <2>2, <1>1, InductionUpTo
  <2> QED
    BY <2>3 DEF T
<1>12. h \in [0..N -> ScanState]
  BY <1>9, <1>11
<1> QED
  BY <1>8, <1>10, <1>12 DEF N, After

(* What the loop has done when it has seen the screenshots after lo.       *)
Newest(k, ms) == \A j \in Images(ms) : j <= k
Seen(ms, lo) == {k \in Images(ms) : k > lo}
ScanInv(x, ms, lo) ==
    /\ x \in ScanState
    /\ x.drop \subseteq Seen(ms, lo)
    /\ omittedKeys \subseteq x.omitted
    /\ x.kept = 0 => Seen(ms, lo) = {} /\ ~x.dropping
    /\ x.kept > 0 => Seen(ms, lo) # {}
    /\ \A k \in x.drop : ms[k].image \in x.omitted /\ ~Newest(k, ms)
    /\ \A k \in Seen(ms, lo) \ x.drop : ms[k].image \in omittedKeys => Newest(k, ms)

LEMMA ScanStart ==
    ASSUME NEW ms \in Seq(Message), omittedKeys \subseteq Image
    PROVE  ScanInv(Scan, ms, Len(ms))
<1>1. Seen(ms, Len(ms)) = {}
  BY DEF Seen, Images
<1> QED
  BY <1>1 DEF ScanInv, Scan, ScanState

LEMMA ScanStep ==
    ASSUME NEW ms \in Seq(Message), omittedKeys \subseteq Image,
           NEW i \in Images(ms), NEW x, ScanInv(x, ms, i)
    PROVE  ScanInv(ScanImage(x, i, ms[i].image), ms, i - 1)
<1> DEFINE b == ms[i].image
           r == ScanImage(x, i, b)
<1>1. i \in 1..Len(ms) /\ i \in Nat /\ ms[i] \in Message
  BY DEF Images
<1>2. b \in Image /\ b \in Nat /\ b > 0
  <2>1. b # 0
    BY DEF Images
  <2>2. b \in Image
    BY <1>1, <2>1 DEF Message, MessageFields
  <2> HIDE DEF b
  <2> QED
    BY <2>2, ImageAssumption
<1>3. Seen(ms, i - 1) = Seen(ms, i) \union {i} /\ i \notin Seen(ms, i)
  BY <1>1 DEF Seen, Images
<1>4. x \in ScanState
  BY DEF ScanInv
<1>5. CASE Keeps(x, b)
  <2> HIDE DEF b
  <2>1. /\ r \in ScanState
        /\ r.kept = x.kept + b /\ r.dropping = x.dropping
        /\ r.drop = x.drop /\ r.omitted = x.omitted
    BY <1>1, <1>2, <1>4, <1>5, ScanImageKeeps
  <2> HIDE DEF r
  <2>2. x.kept \in Nat
    BY <1>4 DEF ScanState
  <2>3. ASSUME b \in omittedKeys PROVE Newest(i, ms)
    <3>1. x.kept = 0
      BY <1>5, <2>2, <2>3 DEF Keeps, Sticky, ScanInv
    <3>2. Seen(ms, i) = {}
      BY <3>1 DEF ScanInv
    <3> QED
      BY <3>2, <1>1 DEF Newest, Seen, Images
  <2>4. r.kept > 0
    BY <2>1, <2>2, <1>2
  <2>5. \A k \in Seen(ms, i - 1) \ r.drop : ms[k].image \in omittedKeys => Newest(k, ms)
    BY <1>3, <2>1, <2>3 DEF ScanInv, b
  <2>6. /\ r.drop \subseteq Seen(ms, i - 1) /\ omittedKeys \subseteq r.omitted
        /\ \A k \in r.drop : ms[k].image \in r.omitted /\ ~Newest(k, ms)
    BY <1>3, <2>1 DEF ScanInv
  <2>7. ScanInv(r, ms, i - 1)
    BY <1>3, <2>1, <2>2, <2>4, <2>5, <2>6 DEF ScanInv
  <2> QED
    BY <2>7 DEF r, b
<1>6. CASE ~Keeps(x, b)
  <2> HIDE DEF b
  <2>1. /\ r \in ScanState
        /\ r.kept = x.kept /\ r.dropping \in BOOLEAN
        /\ r.drop = x.drop \union {i} /\ r.omitted = x.omitted \union {b}
    BY <1>1, <1>2, <1>4, <1>6, ScanImageDrops
  <2> HIDE DEF r
  <2>2. x.kept \in Nat
    BY <1>4 DEF ScanState
  <2>3. x.kept > 0
    BY <1>6, <2>2 DEF Keeps, Sticky, ScanInv
  <2>4. ~Newest(i, ms)
    <3>1. PICK j \in Seen(ms, i) : TRUE
      BY <2>3 DEF ScanInv
    <3> QED
      BY <3>1, <1>1 DEF Newest, Seen, Images
  <2>5. \A k \in r.drop : ms[k].image \in r.omitted /\ ~Newest(k, ms)
    BY <2>1, <2>4 DEF ScanInv, b
  <2>6. /\ r.drop \subseteq Seen(ms, i - 1) /\ omittedKeys \subseteq r.omitted
        /\ \A k \in Seen(ms, i - 1) \ r.drop : ms[k].image \in omittedKeys => Newest(k, ms)
    BY <1>3, <2>1 DEF ScanInv
  <2>7. ScanInv(r, ms, i - 1)
    BY <1>3, <2>1, <2>2, <2>3, <2>5, <2>6 DEF ScanInv
  <2> QED
    BY <2>7 DEF r, b
<1> QED
  BY <1>5, <1>6

LEMMA ScannedFacts ==
    ASSUME NEW ms \in Seq(Message), omittedKeys \subseteq Image
    PROVE  ScanInv(Scanned(ms), ms, 0)
<1> DEFINE N == Len(ms)
           h == ScanOf(ms)
           T == {n \in 0..N : ScanInv(h[n], ms, N - n)}
<1>1. N \in Nat
  OBVIOUS
<1>2. /\ h[0] = Scan
      /\ \A n \in 1..N : h[n] = IF N + 1 - n \in Images(ms)
                                THEN ScanImage(h[n - 1], N + 1 - n, ms[N + 1 - n].image)
                                ELSE h[n - 1]
  BY ScanSteps
<1> HIDE DEF h
<1>3. 0 \in T
  <2>1. N - 0 = Len(ms)
    OBVIOUS
  <2>2. ScanInv(h[0], ms, N - 0)
    BY <1>2, <2>1, ScanStart
  <2> HIDE DEF N
  <2> QED
    BY <2>2, <1>1
<1> HIDE DEF N
<1>4. ASSUME NEW n \in 1..N, n - 1 \in T PROVE n \in T
  <2> DEFINE i == N + 1 - n
  <2>1. i - 1 = N - n /\ N - (n - 1) = i /\ i \in Nat
    BY <1>1
  <2>2. ScanInv(h[n - 1], ms, i)
    BY <1>4, <2>1
  <2>3. h[n] = IF i \in Images(ms) THEN ScanImage(h[n - 1], i, ms[i].image) ELSE h[n - 1]
    BY <1>2
  <2> HIDE DEF i
  <2>4. ScanInv(h[n], ms, i - 1)
    <3>1. CASE i \in Images(ms)
      BY <3>1, <2>2, <2>3, ScanStep
    <3>2. CASE i \notin Images(ms)
      <4>1. Seen(ms, i - 1) = Seen(ms, i)
        BY <3>2, <2>1 DEF Seen, Images
      <4> QED
        BY <3>2, <4>1, <2>2, <2>3 DEF ScanInv
    <3> QED
      BY <3>1, <3>2
  <2> QED
    BY <2>1, <2>4, <1>1
<1> HIDE DEF T
<1>5. \A n \in 0..N : n \in T
  BY <1>1, <1>3, <1>4, InductionUpTo
<1>6. N \in T /\ N - N = 0
  BY <1>5, <1>1
<1>7. ScanInv(h[N], ms, 0)
  BY <1>6 DEF T
<1> QED
  BY <1>7, ScannedIs DEF h, N

LEMMA WithoutImage ==
    ASSUME NEW m \in Message, NEW d, d = [m EXCEPT !.image = 0, !.size = 1]
    PROVE  /\ d \in Message /\ d.image = 0
           /\ d.role = m.role /\ d.at = m.at
           /\ d.usage = m.usage /\ d.failed = m.failed
<1>1. m \in MessageFields
  BY DEF Message, MessageFields
<1>2. d = [role |-> m.role, at |-> m.at, image |-> 0, size |-> 1,
           usage |-> m.usage, failed |-> m.failed]
  BY <1>1 DEF MessageFields
<1>3. d \in MessageFields
  BY <1>1, <1>2 DEF MessageFields
<1> QED
  BY <1>2, <1>3 DEF Message, MessageFields

(* What Limited makes of it: messages as many and as they were, except for *)
(* the screenshots that are left out.                                      *)
LEMMA LimitedFacts ==
    ASSUME NEW ms \in Seq(Message), omittedKeys \subseteq Image
    PROVE  LET c == Limited(ms)
           IN  /\ c \in Seq(Message) /\ Len(c) = Len(ms)
               /\ \A i \in 1..Len(ms) :
                     /\ c[i].role = ms[i].role /\ c[i].at = ms[i].at
                     /\ c[i].usage = ms[i].usage /\ c[i].failed = ms[i].failed
               /\ Images(c) = Images(ms) \ Scanned(ms).drop
               /\ \A i \in Images(c) : c[i].image = ms[i].image
<1> DEFINE c == Limited(ms)
           drop == Scanned(ms).drop
           N == Len(ms)
<1>1. ScanInv(Scanned(ms), ms, 0)
  BY ScannedFacts
<1>2. drop \subseteq Images(ms)
  BY <1>1 DEF ScanInv, Seen
<1>3. c = [i \in DOMAIN ms |-> IF i \in drop
                               THEN [ms[i] EXCEPT !.image = 0, !.size = @ - ImageSize] ELSE ms[i]]
  BY DEF Limited
<1>4. DOMAIN ms = 1..N /\ N \in Nat
  OBVIOUS
<1> HIDE DEF c, drop
<1>5. ASSUME NEW i \in 1..N
      PROVE  /\ c[i] \in Message
             /\ c[i].role = ms[i].role /\ c[i].at = ms[i].at
             /\ c[i].usage = ms[i].usage /\ c[i].failed = ms[i].failed
             /\ i \in drop => c[i].image = 0
             /\ i \notin drop => c[i].image = ms[i].image
  <2> DEFINE m == ms[i]
  <2>1. m \in Message
    OBVIOUS
  <2>2. CASE i \in drop
    <3>1. c[i] = [m EXCEPT !.image = 0, !.size = @ - ImageSize]
      BY <1>3, <1>4, <2>2
    <3>2. m.image # 0
      BY <1>2, <2>2 DEF Images
    <3> HIDE DEF m
    <3>3. m.size = 1 + ImageSize
      BY <2>1, <3>2 DEF Message, MessageFields
    <3>4. m.size - ImageSize = 1
      BY <3>3, ImageSizeAssumption
    <3>5. c[i] = [m EXCEPT !.image = 0, !.size = 1]
      BY <3>1, <3>4, <2>1 DEF Message, MessageFields
    <3>6. /\ c[i] \in Message /\ c[i].image = 0
          /\ c[i].role = m.role /\ c[i].at = m.at
          /\ c[i].usage = m.usage /\ c[i].failed = m.failed
      BY <3>5, <2>1, WithoutImage
    <3> QED
      BY <3>6, <2>2 DEF m
  <2>3. CASE i \notin drop
    <3>1. c[i] = m
      BY <1>3, <1>4, <2>3
    <3> QED
      BY <3>1, <2>1, <2>3
  <2> QED
    BY <2>2, <2>3
<1>6. c \in Seq(Message) /\ Len(c) = N
  <2>1. c \in [1..N -> Message]
    BY <1>3, <1>4, <1>5
  <2> QED
    BY <2>1, <1>4
<1>7. Images(c) = Images(ms) \ drop
  <2> HIDE DEF N
  <2>1. DOMAIN c = 1..N
    BY <1>3, <1>4
  <2> QED
    BY <1>5, <2>1, <1>2, <1>4 DEF Images
<1>8. \A i \in Images(c) : c[i].image = ms[i].image
  BY <1>5, <1>7 DEF Images
<1> QED
  BY <1>5, <1>6, <1>7, <1>8 DEF c, drop
--------------------------------------------------------------------------------
(* The inductive invariant.                                                *)
Request == [at : Nat, context : Seq(Message), store : BOOLEAN, omitted : SUBSET Image,
            rejected : BOOLEAN]

Types ==
    /\ TypeOK
    /\ history \in Seq(Message)
    /\ request \in Request
    /\ stage # "requesting" => request = NoRequest

(* A run has been sent on if it is marked so, and then after two answers.  *)
NudgeCounted ==
    /\ nudges = IF alreadyNudged THEN 1 ELSE 0
    /\ alreadyNudged => priorAssistants >= 2
    /\ stalled => alreadyNudged

(* Only the first message is a summary, and nothing is from the future.    *)
HistoryInOrder ==
    /\ \A i \in 1..Len(history) :
          history[i].at <= now /\ (history[i].role = "summary" => i = 1)
    /\ request.at <= now

(* The latch is the last rejection's until a later compaction.             *)
LatchStands ==
    /\ rejection.at <= now /\ (rejection.state = "none" => rejection.at = 0)
    /\ rejection.state # "none" =>
          /\ storeRejectedAt = rejection.at /\ ~request.store
          /\ \A i \in 1..Len(history) :
                history[i].role = "summary" => history[i].at <= rejection.at
    /\ rejection.state = "none" /\ storeRejectedAt # Never =>
          /\ history # <<>> /\ history[1].role = "summary"
          /\ history[1].at > storeRejectedAt

(* What was ever left out is remembered.                                   *)
OmittedRemembered ==
    /\ everOmitted \subseteq omittedKeys /\ request.omitted \subseteq omittedKeys
    /\ OmittedStaysOut

(* The screenshots of a context that are sent whatever else is, when those *)
(* in keys have been left out before.                                      *)
Staying(ms, keys) == {i \in Images(ms) : ms[i].image \in keys => Newest(i, ms)}

(* What an answer reported of the request for the history ms before it:    *)
(* not more than the history, and not less than what stays of it.          *)
Forgotten == IF resumed THEN Image ELSE omittedKeys
Reports(usage, ms, keys) ==
    /\ usage <= Overhead + Size(ms) + 1
    /\ usage >= Overhead + Len(ms) + ImageSize * Cardinality(Staying(ms, keys)) + 1

(* The answer's usage counts: it is there, and newer than the summary.     *)
Counts(m, ms) ==
    /\ m.role = "assistant" /\ m.usage > 0
    /\ ms[1].role = "summary" => m.at > ms[1].at

AnswersReport ==
    \A i \in 1..Len(history) :
       Counts(history[i], history) =>
          Reports(history[i].usage, Sanitized(SubSeq(history, 1, i - 1)), Forgotten)

(* The request under way is made of the history.                           *)
SentStays(context, sent) ==
    /\ Len(context) = Len(sent)
    /\ Images(context) \subseteq Images(sent)
    /\ Staying(sent, Forgotten) \subseteq Images(context)

UsageTrue ==
    /\ AnswersReport
    /\ stage = "requesting" => SentStays(request.context, Sanitized(history))
--------------------------------------------------------------------------------
(* Type correctness.                                                       *)
LEMMA SanitizedType ==
    ASSUME NEW ms \in Seq(Message)
    PROVE  Sanitized(ms) \in Seq(Message)
<1>1. Len(ms) \in 0..Len(ms)
  OBVIOUS
<1> QED
  BY <1>1, SentSteps, SanitizedIs

LEMMA InputType ==
    ASSUME NEW image \in Image \union {0}
    PROVE  /\ Input(image) \in Message
           /\ Input(image).role = "input" /\ Input(image).at = 0 /\ Input(image).usage = 0
           /\ Input(image).image = image /\ Input(image).failed = FALSE
           /\ image = 0 => Input(image).size = 1
<1>1. 1 + (IF image = 0 THEN 0 ELSE ImageSize) \in Nat
  BY ImageSizeAssumption
<1> QED
  BY <1>1 DEF Input, Message, MessageFields

LEMMA SummaryType ==
    ASSUME now \in Nat
    PROVE  /\ Summary \in Message
           /\ Summary.role = "summary" /\ Summary.at = now
<1> DEFINE m == Input(0)
<1>1. m \in Message /\ m.image = 0 /\ m.usage = 0 /\ m.failed = FALSE /\ m.size = 1
  BY InputType
<1>2. Summary = [m EXCEPT !.role = "summary", !.at = now]
  BY DEF Summary
<1> HIDE DEF m
<1>3. m \in MessageFields
  BY <1>1 DEF Message
<1>4. Summary = [role |-> "summary", at |-> now, image |-> m.image, size |-> m.size,
                 usage |-> m.usage, failed |-> m.failed]
  BY <1>2, <1>3 DEF MessageFields
<1> QED
  BY <1>1, <1>4 DEF Message, MessageFields

LEMMA AnswerType ==
    ASSUME NEW end, NEW usage \in Nat, request.at \in Nat
    PROVE  /\ Answer(end, usage) \in Message
           /\ Answer(end, usage).role = "assistant" /\ Answer(end, usage).at = request.at
           /\ Answer(end, usage).usage = usage
<1> DEFINE m == Input(0)
<1>1. m \in Message /\ m.image = 0 /\ m.size = 1
  BY InputType
<1>2. Answer(end, usage) = [m EXCEPT !.role = "assistant", !.at = request.at,
                                     !.usage = usage, !.failed = (end = "failed")]
  BY DEF Answer
<1> HIDE DEF m
<1>3. m \in MessageFields
  BY <1>1 DEF Message
<1>4. Answer(end, usage) =
         [role |-> "assistant", at |-> request.at, image |-> m.image, size |-> m.size,
          usage |-> usage, failed |-> (end = "failed")]
  BY <1>2, <1>3 DEF MessageFields
<1> QED
  BY <1>1, <1>4 DEF Message, MessageFields

LEMMA MeasureType ==
    ASSUME NEW ms \in Seq(Message)
    PROVE  /\ Size(ms) \in Nat /\ Measure(ms) \in Nat
           /\ Measure(ms) = Overhead + Size(ms)
<1>1. Size(ms) \in Nat
  <2>1. Len(ms) \in 0..Len(ms)
    OBVIOUS
  <2> QED
    BY <2>1, TotalSteps, SizeIs
<1> QED
  BY <1>1, OverheadAssumption DEF Measure

(* The history when it grows.                                              *)
Grows(ms) ==
    /\ history' \in Seq(Message) /\ Len(history') = Len(history) + Len(ms)
    /\ \A i \in 1..Len(history) : history'[i] = history[i]
    /\ \A i \in 1..Len(ms) : history'[Len(history) + i] = ms[i]
    /\ made' \in Nat

LEMMA ExtendGrows ==
    ASSUME Types, NEW ms \in Seq(Message), Extend(ms)
    PROVE  Grows(ms)
<1>1. history' = history \o ms /\ history \in Seq(Message)
  BY DEF Extend, Types
<1>2. /\ history \o ms \in Seq(Message)
      /\ Len(history \o ms) = Len(history) + Len(ms)
      /\ \A i \in 1..Len(history) + Len(ms) :
            (history \o ms)[i] = IF i <= Len(history) THEN history[i]
                                 ELSE ms[i - Len(history)]
  BY <1>1, ConcatProperties
<1>3. Len(history) \in Nat /\ Len(ms) \in Nat /\ made \in Nat
  BY <1>1 DEF Types, TypeOK
<1>4. \A i \in 1..Len(history) : history'[i] = history[i]
  BY <1>1, <1>2, <1>3
<1>5. ASSUME NEW i \in 1..Len(ms) PROVE history'[Len(history) + i] = ms[i]
  <2> DEFINE k == Len(history) + i
  <2>1. k \in 1..Len(history) + Len(ms) /\ ~(k <= Len(history)) /\ k - Len(history) = i
    BY <1>3
  <2> HIDE DEF k
  <2>2. history'[k] = ms[i]
    BY <1>1, <1>2, <2>1
  <2> QED
    BY <2>2 DEF k
<1> QED
  BY <1>1, <1>2, <1>3, <1>4, <1>5 DEF Extend, Grows

(* A turn ends with an answer, perhaps followed by an input.               *)
GrowsByTurn(answer) ==
    /\ history' \in Seq(Message) /\ Len(history') > Len(history)
    /\ \A i \in 1..Len(history) : history'[i] = history[i]
    /\ history'[Len(history) + 1] = answer
    /\ \A i \in 1..Len(history') :
          i > Len(history) + 1 => history'[i].role = "input" /\ history'[i].at = 0
    /\ made' \in Nat

LEMMA TurnGrows ==
    ASSUME Types, NEW end, NEW usage \in Nat, NEW active, NEW toolImage \in Image \union {0},
           TurnEnd(end, usage, active, toolImage)
    PROVE  GrowsByTurn(Answer(end, usage))
<1> DEFINE a == Answer(end, usage)
<1>1. a \in Message
  BY AnswerType DEF Types, Request
<1>2. Len(history) \in Nat
  BY DEF Types
<1> HIDE DEF a
<1>3. CASE Extend(<<a>>)
  <2>1. <<a>> \in Seq(Message) /\ Len(<<a>>) = 1 /\ <<a>>[1] = a /\ 1 \in 1..1
    BY <1>1
  <2>2. Grows(<<a>>)
    BY <1>3, <2>1, ExtendGrows
  <2>3. GrowsByTurn(a)
    BY <2>1, <2>2, <1>2 DEF Grows, GrowsByTurn
  <2> QED
    BY <2>3 DEF a
<1>4. ASSUME NEW b \in Message, b.role = "input", b.at = 0, Extend(<<a, b>>)
      PROVE  GrowsByTurn(a)
  <2>1. /\ <<a, b>> \in Seq(Message) /\ Len(<<a, b>>) = 2
        /\ <<a, b>>[1] = a /\ <<a, b>>[2] = b /\ 1 \in 1..2 /\ 2 \in 1..2
    BY <1>1
  <2>2. Grows(<<a, b>>)
    BY <1>4, <2>1, ExtendGrows
  <2>3. history'[Len(history) + 1] = a /\ history'[Len(history) + 2] = b
    BY <2>1, <2>2 DEF Grows
  <2>4. \A i \in 1..Len(history') : i > Len(history) + 1 => i = Len(history) + 2
    BY <2>1, <2>2, <1>2 DEF Grows
  <2> QED
    BY <2>1, <2>2, <2>3, <2>4, <1>2, <1>4 DEF Grows, GrowsByTurn
<1>5. /\ Input(toolImage) \in Message /\ Input(toolImage).role = "input"
      /\ Input(toolImage).at = 0
  BY InputType
<1>6. Input(0) \in Message /\ Input(0).role = "input" /\ Input(0).at = 0
  BY InputType
<1>7. Extend(<<a, Input(toolImage)>>) \/ Extend(<<a, Input(0)>>) \/ Extend(<<a>>)
  BY DEF TurnEnd, a
<1> QED
  BY <1>3, <1>4, <1>5, <1>6, <1>7 DEF a

(* The steps.                                                              *)
Ends == {"toolUse", "stop", "thinking", "failed"}
Turn(end, usage, active, toolImage) ==
    /\ TurnEnd(end, usage, active, toolImage)
    /\ \/ UNCHANGED <<storeRejectedAt, safetyActive, rejection>>
       \/ usage = 0 /\ MarkTooLarge(now) /\ NoteRejection
Usages == {0, Measure(request.context) + 1}

LEMMA NextCases ==
    ASSUME Types, [Next]_vars
    PROVE  \/ UNCHANGED vars
           \/ Tick \/ Stream \/ TooLargeEarly \/ ClearSession
           \/ \E image \in Image \union {0} : Prompt(image)
           \/ \E end \in Ends, usage \in Usages, active \in BOOLEAN,
                 toolImage \in Image \union {0} : Turn(end, usage, active, toolImage)
           \/ \E n \in 1..Len(history) : Compact(n) \/ GoBack(n)
<1>1. safetyActive \in BOOLEAN /\ DOMAIN history = 1..Len(history)
  BY DEF Types, TypeOK
<1>2. ASSUME NEW end \in Ends, NEW reported \in BOOLEAN, NEW image \in Image \union {0},
             Completes(end, reported, image)
      PROVE  \E usage \in Usages, active \in BOOLEAN : Turn(end, usage, active, image)
  <2> DEFINE u == IF reported THEN Measure(request.context) + 1 ELSE 0
  <2>1. u \in Usages
    BY DEF Usages
  <2>2. Turn(end, u, safetyActive, image)
    BY <1>2 DEF Completes, Turn
  <2> QED
    BY <1>1, <2>1, <2>2
<1>3. ASSUME NEW end \in Ends, NEW image \in Image \union {0}, TooLargeLate(end, image)
      PROVE  \E usage \in Usages, active \in BOOLEAN : Turn(end, usage, active, image)
  <2>1. Turn(end, 0, TRUE, image)
    BY <1>3 DEF TooLargeLate, Turn
  <2> QED
    BY <2>1 DEF Usages
<1>4. CASE UNCHANGED vars
  BY <1>4
<1>5. CASE Next
  <2>1. CASE Tick \/ Stream \/ TooLargeEarly \/ ClearSession
    BY <2>1
  <2>2. ASSUME NEW image \in Image \union {0},
               \/ Prompt(image)
               \/ \E reported \in BOOLEAN : Completes("toolUse", reported, image)
               \/ TooLargeLate("toolUse", image)
        PROVE  \/ \E im \in Image \union {0} : Prompt(im)
               \/ \E end \in Ends, usage \in Usages, active \in BOOLEAN,
                     im \in Image \union {0} : Turn(end, usage, active, im)
    <3>1. "toolUse" \in Ends
      BY DEF Ends
    <3> QED
      BY <2>2, <3>1, <1>2, <1>3
  <2>3. ASSUME NEW end \in {"stop", "thinking", "failed"},
               \/ \E reported \in BOOLEAN : Completes(end, reported, 0)
               \/ end # "failed" /\ TooLargeLate(end, 0)
        PROVE  \E e \in Ends, usage \in Usages, active \in BOOLEAN, im \in Image \union {0} :
                  Turn(e, usage, active, im)
    <3>1. end \in Ends /\ 0 \in Image \union {0}
      BY DEF Ends
    <3> QED
      BY <2>3, <3>1, <1>2, <1>3
  <2> QED
    BY <1>1, <1>5, <2>1, <2>2, <2>3 DEF Next
<1> QED
  BY <1>4, <1>5

LEMMA UsagesType == ASSUME Types PROVE Usages \subseteq Nat
<1>1. request.context \in Seq(Message)
  BY DEF Types, Request
<1> QED
  BY <1>1, MeasureType DEF Usages

LEMMA StreamEffect ==
    ASSUME Types, Stream
    PROVE  LET s == Sanitized(history)
               c == Limited(s)
           IN  /\ s \in Seq(Message) /\ c \in Seq(Message)
               /\ ScanInv(Scanned(s), s, 0) /\ omittedKeys' = Scanned(s).omitted
               /\ request'.at = now /\ request'.context = c
               /\ request'.store = Storable(c)
               /\ request'.omitted = {s[i].image : i \in Images(s) \ Images(c)}
               /\ request'.rejected = (rejection.state # "none")
               /\ storeRejectedAt' = LatchAfter(c) /\ request' \in Request
<1> DEFINE s == Sanitized(history)
           c == Limited(s)
           om == {s[i].image : i \in Images(s) \ Images(c)}
<1>1. history \in Seq(Message) /\ omittedKeys \subseteq Image /\ now \in Nat
  BY MaxTimeAssumption DEF Types, TypeOK
<1>2. s \in Seq(Message)
  BY <1>1, SanitizedType
<1>3. c \in Seq(Message)
  <2> HIDE DEF s
  <2> QED
    BY <1>1, <1>2, LimitedFacts
<1>4. ScanInv(Scanned(s), s, 0)
  <2> HIDE DEF s
  <2> QED
    BY <1>1, <1>2, ScannedFacts
<1>5. request' = [at |-> now, context |-> c, store |-> Storable(c),
                  rejected |-> rejection.state # "none", omitted |-> om]
  BY DEF Stream
<1>6. omittedKeys' = Scanned(s).omitted /\ storeRejectedAt' = LatchAfter(c)
  BY DEF Stream, OmittedAfter
<1>7. om \subseteq Image
  <2> HIDE DEF s, c
  <2>1. ASSUME NEW i \in Images(s) PROVE s[i].image \in Image
    <3>1. s[i] \in Message /\ s[i].image # 0
      BY <1>2 DEF Images
    <3> QED
      BY <3>1 DEF Message, MessageFields
  <2> QED
    BY <2>1
<1>8. Storable(c) \in BOOLEAN
  BY DEF Storable, Rejected
<1> HIDE DEF s, c, om
<1>9. request' \in Request
  BY <1>1, <1>3, <1>5, <1>7, <1>8 DEF Request
<1> QED
  BY <1>2, <1>3, <1>4, <1>5, <1>6, <1>9 DEF s, c, om

(* What a rejection and clearing the session make of a request.            *)
LEMMA Rejecting ==
    ASSUME NEW q \in Request, NEW r, r = [q EXCEPT !.store = FALSE, !.rejected = TRUE]
    PROVE  /\ r \in Request /\ r.at = q.at /\ r.context = q.context /\ r.omitted = q.omitted
           /\ r.store = FALSE /\ r.rejected = TRUE
BY DEF Request

LEMMA Clearing ==
    ASSUME NEW q, NEW r, r = [q EXCEPT !.omitted = {}]
    PROVE  /\ q = NoRequest => r = NoRequest
           /\ q \in Request => /\ r \in Request /\ r.at = q.at /\ r.context = q.context
                               /\ r.store = q.store /\ r.rejected = q.rejected
                               /\ r.omitted = {}
<1>1. ASSUME q = NoRequest PROVE r = NoRequest
  BY <1>1 DEF NoRequest
<1>2. ASSUME q \in Request
      PROVE  /\ r \in Request /\ r.at = q.at /\ r.context = q.context
             /\ r.store = q.store /\ r.rejected = q.rejected /\ r.omitted = {}
  BY <1>2 DEF Request
<1> QED
  BY <1>1, <1>2

LEMMA InitTypes == Init => Types
<1> SUFFICES ASSUME Init PROVE Types
  OBVIOUS
<1>1. history = <<>> /\ <<>> \in Seq(Message)
  BY DEF Init
<1>2. request = [at |-> 0, context |-> <<>>, store |-> FALSE, omitted |-> {}, rejected |-> FALSE]
  BY DEF Init, NoRequest
<1>3. request \in Request
  BY <1>2 DEF Request
<1>4. 1 \in 1..MaxTime
  BY MaxTimeAssumption
<1>5. rejection \in Rejection
  BY DEF Init, NoRejection, Rejection
<1>6. /\ storeRejectedAt = Never /\ safetyActive = FALSE /\ warned = FALSE
      /\ alreadyNudged = FALSE /\ priorAssistants = 0 /\ omittedKeys = {}
  BY DEF Init, StoredInit, NudgeInit
<1>7. request.store \in BOOLEAN /\ DOMAIN history = {}
  BY <1>1, <1>2
<1>8. /\ now = 1 /\ made = 0 /\ stage = "idle" /\ nudges = 0 /\ stalled = FALSE
      /\ resumed = FALSE
  BY DEF Init
<1>9. TypeOK
  BY <1>4, <1>5, <1>6, <1>7, <1>8 DEF TypeOK
<1> QED
  BY <1>1, <1>3, <1>8, <1>9 DEF Types, Init

LEMMA TypesNext ==
    ASSUME Types, [Next]_vars
    PROVE  Types'
<1>1. /\ storeRejectedAt \in Nat \union {Never}
      /\ safetyActive \in BOOLEAN /\ warned \in BOOLEAN
      /\ omittedKeys \subseteq Image
      /\ alreadyNudged \in BOOLEAN /\ priorAssistants \in Nat
      /\ now \in 1..MaxTime /\ now \in Nat /\ made \in Nat
      /\ stage \in {"idle", "ready", "requesting"}
      /\ rejection \in Rejection /\ resumed \in BOOLEAN
      /\ nudges \in Nat /\ stalled \in BOOLEAN
  BY MaxTimeAssumption DEF Types, TypeOK
<1>2. history \in Seq(Message) /\ (stage # "requesting" => request = NoRequest)
  BY DEF Types
<1>3. request \in Request
  BY DEF Types
<1> DEFINE
      Control ==
        /\ now' \in 1..MaxTime /\ stage' \in {"idle", "ready", "requesting"}
        /\ (stage' # "requesting" => request' = NoRequest)
      Stored ==
        /\ storeRejectedAt' \in Nat \union {Never}
        /\ safetyActive' \in BOOLEAN /\ warned' \in BOOLEAN /\ omittedKeys' \subseteq Image
      Run ==
        /\ alreadyNudged' \in BOOLEAN /\ priorAssistants' \in Nat
        /\ nudges' \in Nat /\ stalled' \in BOOLEAN
      Ghosts == rejection' \in Rejection /\ resumed' \in BOOLEAN
      Messages == history' \in Seq(Message) /\ made' \in Nat
      RequestType == request' \in Request
<1>4. SUFFICES Control /\ Stored /\ Run /\ Ghosts /\ Messages /\ RequestType
  <2>1. ASSUME Messages PROVE \A i \in DOMAIN history' : history'[i].image \in Image \union {0}
    <3>1. ASSUME NEW i \in DOMAIN history' PROVE history'[i].image \in Image \union {0}
      <4>1. history'[i] \in Message
        BY <2>1
      <4> QED
        BY <4>1 DEF Message, MessageFields
    <3> QED
      BY <3>1
  <2>2. ASSUME RequestType PROVE request'.store \in BOOLEAN
    BY <2>2 DEF Request
  <2> QED
    BY <2>1, <2>2 DEF Types, TypeOK
<1>5. NoRequest \in Request
  BY DEF NoRequest, Request
<1>6. NoRejection \in Rejection /\ [state |-> "standing", at |-> now] \in Rejection
  BY <1>1 DEF NoRejection, Rejection
<1>7. CASE UNCHANGED vars
  BY <1>1, <1>2, <1>3, <1>7 DEF vars, storedVars, nudgeVars, hostVars, ghostVars, runVars
<1>8. CASE Tick
  <2>1. now' \in 1..MaxTime
    BY <1>1, <1>8, MaxTimeAssumption DEF Tick
  <2> QED
    BY <1>1, <1>2, <1>3, <1>8, <2>1 DEF Tick, storedVars, nudgeVars, ghostVars, runVars
<1>9. CASE Stream
  <2> DEFINE s == Sanitized(history)
             c == Limited(s)
  <2>1. RequestType /\ omittedKeys' = Scanned(s).omitted /\ ScanInv(Scanned(s), s, 0)
        /\ storeRejectedAt' = LatchAfter(c)
    BY <1>9, StreamEffect
  <2>2. Scanned(s) \in ScanState
    BY <2>1 DEF ScanInv
  <2>3. omittedKeys' \subseteq Image
    BY <2>1, <2>2 DEF ScanState
  <2>4. storeRejectedAt' \in Nat \union {Never}
    BY <2>1, <1>1 DEF LatchAfter
  <2>5. SetSafetyActive(~Storable(c))
    BY <1>9 DEF Stream
  <2>6. safetyActive' \in BOOLEAN /\ warned' \in BOOLEAN
    BY <2>5, <1>1 DEF SetSafetyActive
  <2>7. /\ stage' = "requesting"
        /\ UNCHANGED <<nudgeVars, now, made, history, ghostVars>>
    BY <1>9 DEF Stream
  <2> HIDE DEF s, c
  <2>8. Control /\ Run /\ Ghosts /\ Messages
    BY <1>1, <1>2, <2>7 DEF nudgeVars, ghostVars, runVars
  <2> QED
    BY <2>1, <2>3, <2>4, <2>6, <2>8
<1>10. CASE TooLargeEarly
  <2>1. request' = [request EXCEPT !.store = FALSE, !.rejected = TRUE] /\ stage' = "requesting"
    BY <1>10 DEF TooLargeEarly, hostVars
  <2>2. RequestType
    BY <2>1, <1>3, Rejecting
  <2>3. Ghosts
    BY <1>10, <1>1, <1>6 DEF TooLargeEarly, NoteRejection
  <2>4. Stored
    BY <1>10, <1>1 DEF TooLargeEarly, MarkTooLarge
  <2>5. Control /\ Run /\ Messages
    BY <1>10, <1>1, <1>2, <2>1 DEF TooLargeEarly, hostVars, nudgeVars, runVars
  <2> QED
    BY <2>2, <2>3, <2>4, <2>5
<1>11. CASE ClearSession
  <2>1. Stored
    BY <1>11 DEF ClearSession, ClearStored, ClearOmitted
  <2>2. Run
    BY <1>11 DEF ClearSession, ResetNudge
  <2>3. Ghosts
    BY <1>11, <1>6 DEF ClearSession
  <2>4. request' = [request EXCEPT !.omitted = {}]
        /\ UNCHANGED <<now, made, history, stage>>
    BY <1>11 DEF ClearSession, hostVars
  <2>5. RequestType
    BY <2>4, <1>3, Clearing
  <2>6. Control
    BY <2>4, <1>1, <1>2, Clearing
  <2>7. Messages
    BY <2>4, <1>1, <1>2
  <2> QED
    BY <2>1, <2>2, <2>3, <2>5, <2>6, <2>7
<1>12. ASSUME NEW image \in Image \union {0}, Prompt(image)
       PROVE  Control /\ Stored /\ Run /\ Ghosts /\ Messages /\ RequestType
  <2>1. Input(image) \in Message
    BY InputType
  <2>2. <<Input(image)>> \in Seq(Message) /\ Extend(<<Input(image)>>)
    BY <1>12, <2>1 DEF Prompt
  <2>3. Messages
    BY <2>2, ExtendGrows DEF Grows
  <2>4. Run
    BY <1>12 DEF Prompt, ResetNudge
  <2>5. Control /\ Stored /\ Ghosts /\ RequestType
    BY <1>12, <1>1, <1>2, <1>3 DEF Prompt, storedVars
  <2> QED
    BY <2>3, <2>4, <2>5
<1>13. ASSUME NEW end \in Ends, NEW usage \in Usages, NEW active \in BOOLEAN,
              NEW toolImage \in Image \union {0}, Turn(end, usage, active, toolImage)
       PROVE  Control /\ Stored /\ Run /\ Ghosts /\ Messages /\ RequestType
  <2>1. usage \in Nat /\ TurnEnd(end, usage, active, toolImage)
    BY <1>13, UsagesType DEF Turn
  <2>2. Messages
    BY <2>1, TurnGrows DEF GrowsByTurn
  <2>3. stage' \in {"idle", "ready"} /\ request' = NoRequest /\ now' = now
        /\ omittedKeys' = omittedKeys /\ resumed' = resumed
    BY <2>1 DEF TurnEnd
  <2>4. warned' \in BOOLEAN
    BY <2>1 DEF TurnEnd, WarnIfActive
  <2>5. alreadyNudged' \in BOOLEAN /\ priorAssistants' \in Nat
    BY <2>1, <1>1 DEF TurnEnd, CountTurn
  <2>6. nudges' \in {nudges, nudges + 1}
        /\ (stalled' = stalled \/ stalled' = (end = "thinking" /\ priorAssistants >= 1))
    BY <2>1 DEF TurnEnd, runVars
  <2>7. nudges' \in Nat /\ stalled' \in BOOLEAN
    <3>1. nudges' \in Nat
      BY <2>6, <1>1
    <3>2. (end = "thinking" /\ priorAssistants >= 1) \in BOOLEAN
      OBVIOUS
    <3>3. stalled' \in BOOLEAN
      BY <2>6, <3>2, <1>1
    <3> QED
      BY <3>1, <3>3
  <2>8. /\ storeRejectedAt' \in Nat \union {Never} /\ safetyActive' \in BOOLEAN
        /\ rejection' \in Rejection
    BY <1>13, <1>1, <1>6 DEF Turn, MarkTooLarge, NoteRejection
  <2> QED
    BY <1>1, <1>5, <2>2, <2>3, <2>4, <2>5, <2>7, <2>8
<1>14. ASSUME NEW n \in 1..Len(history), Compact(n)
       PROVE  Control /\ Stored /\ Run /\ Ghosts /\ Messages /\ RequestType
  <2>1. Messages
    <3>1. Summary \in Message
      BY <1>1, SummaryType
    <3>2. SubSeq(history, n + 1, Len(history)) \in Seq(Message)
      BY <1>2
    <3>3. <<Summary>> \o SubSeq(history, n + 1, Len(history)) \in Seq(Message)
      BY <3>1, <3>2
    <3>4. history' = <<Summary>> \o SubSeq(history, n + 1, Len(history)) /\ made' = made + 1
      BY <1>14 DEF Compact
    <3> QED
      BY <3>3, <3>4, <1>1
  <2>2. rejection' \in Rejection
    <3>1. [rejection EXCEPT !.state = "same time"] \in Rejection
      BY <1>1 DEF Rejection
    <3> QED
      BY <3>1, <1>6, <1>14 DEF Compact
  <2>3. Control /\ Stored /\ Run /\ RequestType /\ resumed' \in BOOLEAN
    BY <1>14, <1>1, <1>2, <1>3 DEF Compact, storedVars, nudgeVars, runVars
  <2> QED
    BY <2>1, <2>2, <2>3
<1>15. ASSUME NEW n \in 1..Len(history), GoBack(n)
       PROVE  Control /\ Stored /\ Run /\ Ghosts /\ Messages /\ RequestType
  <2>1. Messages
    <3>1. n \in 0..Len(history)
      BY <1>2
    <3>2. SubSeq(history, 1, n) \in Seq(Message)
      BY <3>1, <1>2, Beginning
    <3> QED
      BY <3>2, <1>15, <1>1 DEF GoBack
  <2>2. Control /\ Stored /\ Run /\ Ghosts /\ RequestType
    BY <1>15, <1>1, <1>2, <1>3 DEF GoBack, storedVars, nudgeVars, ghostVars, runVars
  <2> QED
    BY <2>1, <2>2
<1> HIDE DEF Control, Stored, Run, Ghosts, Messages, RequestType
<1> QED
  BY <1>7, <1>8, <1>9, <1>10, <1>11, <1>12, <1>13, <1>14, <1>15, NextCases

(* The program's values are what they are meant to be: in particular what  *)
(* is remembered as omitted are screenshots, whatever loop put them there. *)
THEOREM TypeCorrect == Spec => []TypeOK
<1>1. Init => Types
  BY InitTypes
<1>2. Types /\ [Next]_vars => Types'
  BY TypesNext
<1>3. Types => TypeOK
  BY DEF Types
<1> QED
  BY <1>1, <1>2, <1>3, PTL DEF Spec
--------------------------------------------------------------------------------
(* The nudge.                                                              *)
LEMMA NudgeNext ==
    ASSUME Types, NudgeCounted, [Next]_vars
    PROVE  NudgeCounted'
<1>1. /\ alreadyNudged \in BOOLEAN /\ stalled \in BOOLEAN
      /\ priorAssistants \in Nat /\ nudges \in Nat
  BY DEF Types, TypeOK
<1>2. /\ nudges = IF alreadyNudged THEN 1 ELSE 0
      /\ alreadyNudged => priorAssistants >= 2
      /\ stalled => alreadyNudged
  BY DEF NudgeCounted
<1>3. ASSUME UNCHANGED <<nudgeVars, runVars>> PROVE NudgeCounted'
  BY <1>2, <1>3 DEF NudgeCounted, nudgeVars, runVars
<1>4. ASSUME ResetNudge, nudges' = 0, stalled' = FALSE PROVE NudgeCounted'
  BY <1>4 DEF NudgeCounted, ResetNudge
<1>5. ASSUME NEW end \in Ends, NEW usage \in Usages, NEW active \in BOOLEAN,
             NEW toolImage \in Image \union {0}, Turn(end, usage, active, toolImage)
      PROVE  NudgeCounted'
  <2>1. /\ priorAssistants' = priorAssistants + 1
        /\ alreadyNudged' = (alreadyNudged \/ ShouldNudge(end))
    BY <1>5 DEF Turn, TurnEnd, CountTurn
  <2>2. priorAssistants' \in Nat /\ (priorAssistants >= 1 => priorAssistants' >= 2)
    BY <2>1, <1>1
  <2>3. CASE ShouldNudge(end)
    <3>1. ~alreadyNudged /\ priorAssistants >= 1 /\ end = "thinking"
      BY <2>3 DEF ShouldNudge
    <3>2. alreadyNudged' = TRUE
      BY <2>1, <2>3
    <3>3. nudges' = nudges + 1
      BY <1>5, <2>3, <3>1 DEF Turn, TurnEnd
    <3>4. nudges' = 1
      BY <3>1, <3>3, <1>2
    <3> QED
      BY <2>2, <3>1, <3>2, <3>4 DEF NudgeCounted
  <2>4. CASE ~ShouldNudge(end)
    <3>1. alreadyNudged' = alreadyNudged
      BY <2>1, <2>4, <1>1
    <3>2. nudges' = nudges
      BY <1>5, <2>4 DEF Turn, TurnEnd, runVars
    <3>3. stalled' = stalled \/ stalled' = (end = "thinking" /\ priorAssistants >= 1)
      BY <1>5, <2>4 DEF Turn, TurnEnd, runVars
    <3>4. ASSUME stalled' PROVE alreadyNudged
      <4>1. CASE stalled' = stalled
        BY <3>4, <4>1, <1>2
      <4>2. CASE end = "thinking" /\ priorAssistants >= 1
        BY <4>2, <2>4 DEF ShouldNudge
      <4> QED
        BY <3>3, <3>4, <4>1, <4>2
    <3>5. alreadyNudged' => priorAssistants' >= 2
      BY <3>1, <1>1, <1>2, <2>1
    <3> QED
      BY <3>1, <3>2, <3>4, <3>5, <1>2 DEF NudgeCounted
  <2> QED
    BY <2>3, <2>4
<1>6. CASE UNCHANGED vars
  BY <1>3, <1>6 DEF vars, ghostVars
<1>7. CASE Tick
  BY <1>3, <1>7 DEF Tick, ghostVars
<1>8. CASE Stream
  BY <1>3, <1>8 DEF Stream, ghostVars
<1>9. CASE TooLargeEarly
  BY <1>3, <1>9 DEF TooLargeEarly
<1>10. CASE ClearSession
  BY <1>4, <1>10 DEF ClearSession
<1>11. ASSUME NEW image, Prompt(image) PROVE NudgeCounted'
  BY <1>4, <1>11 DEF Prompt
<1>12. ASSUME NEW n, Compact(n) PROVE NudgeCounted'
  BY <1>3, <1>12 DEF Compact
<1>13. ASSUME NEW n, GoBack(n) PROVE NudgeCounted'
  BY <1>3, <1>13 DEF GoBack, ghostVars
<1> QED
  BY <1>5, <1>6, <1>7, <1>8, <1>9, <1>10, <1>11, <1>12, <1>13, NextCases

(* A run that stops with nothing but thinking is sent on once, and only    *)
(* once; no run is sent on for its first answer.                           *)
THEOREM NudgeCorrect == Spec => []OneNudgePerRun
<1>1. Init => Types /\ NudgeCounted
  <2>1. Init => NudgeCounted
    BY DEF Init, NudgeInit, NudgeCounted
  <2> QED
    BY <2>1, InitTypes
<1>2. Types /\ NudgeCounted /\ [Next]_vars => Types' /\ NudgeCounted'
  BY TypesNext, NudgeNext
<1>3. Types /\ NudgeCounted => OneNudgePerRun
  BY DEF NudgeCounted, OneNudgePerRun
<1> QED
  BY <1>1, <1>2, <1>3, PTL DEF Spec
--------------------------------------------------------------------------------
(* Summaries and the latch.                                                *)
Summarised == history # <<>> /\ history[1].role = "summary"

LEMMA FirstStays ==
    ASSUME NEW ms \in Seq(Message), Len(ms) >= 1, ms[1].role = "summary"
    PROVE  Len(Sanitized(ms)) >= 1 /\ Sanitized(ms)[1] = ms[1]
<1> DEFINE N == Len(ms)
           h == Sent(ms)
           T == {n \in 0..N : n = 0 \/ (Len(h[n]) >= 1 /\ h[n][1] = ms[1])}
<1>1. /\ h \in [0..N -> Seq(Message)] /\ h[0] = <<>>
      /\ \A k \in 1..N : h[k] = IF Dropped(ms[k]) THEN h[k - 1] ELSE Append(h[k - 1], ms[k])
  BY SentSteps
<1>2. N \in Nat /\ N >= 1 /\ \A k \in 1..N : ms[k] \in Message /\ k - 1 \in 0..N /\ k \in 0..N
  OBVIOUS
<1>3. ~Dropped(ms[1])
  BY DEF Dropped
<1> HIDE DEF h, N
<1>4. 0 \in T
  BY <1>2
<1>5. ASSUME NEW k \in 1..N, k - 1 \in T PROVE k \in T
  <2>1. h[k - 1] \in Seq(Message) /\ ms[k] \in Message
    BY <1>1, <1>2
  <2>2. CASE k = 1
    <3>0. 1 \in 1..N /\ 1 - 1 = 0
      BY <1>2
    <3>1. h[1] = Append(<<>>, ms[1])
      BY <1>1, <1>3, <3>0
    <3>2. Len(h[1]) = 1 /\ h[1][1] = ms[1]
      BY <3>1, <2>1, <2>2
    <3> QED
      BY <3>2, <2>2, <1>2
  <2>3. CASE k # 1
    <3>1. k - 1 # 0
      BY <2>3
    <3>2. Len(h[k - 1]) >= 1 /\ h[k - 1][1] = ms[1]
      BY <1>5, <3>1
    <3>3. Len(h[k]) >= 1 /\ h[k][1] = ms[1]
      <4>1. CASE Dropped(ms[k])
        BY <4>1, <1>1, <3>2
      <4>2. CASE ~Dropped(ms[k])
        <5>1. h[k] = Append(h[k - 1], ms[k])
          BY <4>2, <1>1
        <5> QED
          BY <5>1, <2>1, <3>2
      <4> QED
        BY <4>1, <4>2
    <3> QED
      BY <3>3, <1>2
  <2> QED
    BY <2>2, <2>3
<1> HIDE DEF T
<1>6. \A n \in 0..N : n \in T
  BY <1>2, <1>4, <1>5, InductionUpTo
<1>7. N \in T
  BY <1>6, <1>2
<1>8. Len(h[N]) >= 1 /\ h[N][1] = ms[1]
  BY <1>7, <1>2 DEF T
<1> QED
  BY <1>8, SanitizedIs DEF h, N

LEMMA SanitizedOrigin ==
    ASSUME NEW ms \in Seq(Message), NEW u \in 1..Len(Sanitized(ms))
    PROVE  \E i \in 1..Len(ms) : ComesFrom(u, Sanitized(ms), i, ms)
<1>1. Len(ms) \in 0..Len(ms)
  OBVIOUS
<1> QED
  BY <1>1, SentOrigin, SanitizedIs

(* The latest compaction of what is sent is the summary the history begins *)
(* with.                                                                   *)
LEMMA ContextCompaction ==
    ASSUME Types, HistoryInOrder,
           NEW s, s = Sanitized(history), NEW c, c = Limited(s)
    PROVE  /\ Summarised => /\ LatestCompaction(c) = 1 /\ CompactionTime(c) = history[1].at
                            /\ Len(c) >= 1
           /\ ~Summarised => LatestCompaction(c) = 0 /\ CompactionTime(c) = 0
<1>1. history \in Seq(Message) /\ omittedKeys \subseteq Image
  BY DEF Types, TypeOK
<1>2. s \in Seq(Message)
  BY <1>1, SanitizedType
<1>3. /\ c \in Seq(Message) /\ Len(c) = Len(s)
      /\ \A i \in 1..Len(s) : c[i].role = s[i].role /\ c[i].at = s[i].at
  BY <1>1, <1>2, LimitedFacts
<1>4. ASSUME NEW u \in 1..Len(s), s[u].role = "summary" PROVE u = 1 /\ Summarised
  <2>1. PICK i \in 1..Len(history) : ComesFrom(u, s, i, history)
    BY <1>1, SanitizedOrigin
  <2>2. history[i].role = "summary"
    BY <2>1, <1>4 DEF ComesFrom
  <2>3. i = 1
    BY <2>2 DEF HistoryInOrder
  <2>4. SubSeq(s, 1, u - 1) = Sent(history)[0]
    BY <2>1, <2>3 DEF ComesFrom
  <2>5. Sent(history)[0] = <<>>
    BY <1>1, SentSteps
  <2>6. u - 1 \in 0..Len(s)
    BY <1>2
  <2>7. Len(SubSeq(s, 1, u - 1)) = u - 1
    BY <2>6, <1>2, Beginning
  <2>8. u = 1
    <3>1. Len(<<>>) = 0
      OBVIOUS
    <3> QED
      BY <3>1, <2>4, <2>5, <2>7
  <2>9. history # <<>>
    BY <1>1
  <2> QED
    BY <2>2, <2>3, <2>8, <2>9 DEF Summarised
<1> DEFINE C == {i \in DOMAIN c : c[i].role = "summary"}
<1>5. LatestCompaction(c) = LatestOf(C)
  BY DEF LatestCompaction
<1>6. ASSUME Summarised
      PROVE  C = {1} /\ c[1].at = history[1].at /\ Len(c) >= 1
  <2>1. Len(history) >= 1 /\ history[1].role = "summary"
    BY <1>1, <1>6 DEF Summarised
  <2>2. Len(s) >= 1 /\ s[1] = history[1]
    BY <2>1, <1>1, FirstStays
  <2>3. c[1].role = "summary" /\ c[1].at = history[1].at /\ 1 \in DOMAIN c
    BY <2>1, <2>2, <1>3
  <2>4. ASSUME NEW i \in C PROVE i = 1
    BY <1>3, <1>4
  <2> QED
    BY <2>2, <2>3, <2>4, <1>3
<1>7. ASSUME ~Summarised PROVE C = {}
  <2>1. ASSUME NEW i \in C PROVE FALSE
    BY <1>3, <1>4, <1>7
  <2> QED
    BY <2>1
<1> HIDE DEF C
<1>8. LatestOf({}) = 0
  BY DEF LatestOf
<1>9. LatestOf({1}) = 1
  BY DEF LatestOf
<1>10. ASSUME Summarised
       PROVE  LatestCompaction(c) = 1 /\ CompactionTime(c) = history[1].at /\ Len(c) >= 1
  <2>1. LatestCompaction(c) = 1
    BY <1>5, <1>6, <1>9, <1>10
  <2> QED
    BY <2>1, <1>6, <1>10 DEF CompactionTime
<1>11. ASSUME ~Summarised
       PROVE  LatestCompaction(c) = 0 /\ CompactionTime(c) = 0
  <2>1. LatestCompaction(c) = 0
    BY <1>5, <1>7, <1>8, <1>11
  <2> QED
    BY <2>1 DEF CompactionTime
<1> QED
  BY <1>10, <1>11

(* The latch at a request: it stands after a rejection, and is released    *)
(* otherwise.                                                              *)
LEMMA LatchAtStream ==
    ASSUME Types, HistoryInOrder, LatchStands,
           NEW s, s = Sanitized(history), NEW c, c = Limited(s)
    PROVE  /\ rejection.state # "none" => Rejected(c) /\ LatchAfter(c) = rejection.at
           /\ rejection.state = "none" => ~Rejected(c) /\ LatchAfter(c) = Never
<1>1. /\ Summarised => CompactionTime(c) = history[1].at
      /\ ~Summarised => CompactionTime(c) = 0
  BY ContextCompaction
<1>2. history \in Seq(Message) /\ rejection \in Rejection
      /\ storeRejectedAt \in Nat \union {Never}
  BY DEF Types, TypeOK
<1>3. rejection.at \in Nat
  BY <1>2 DEF Rejection
<1>4. ASSUME Summarised PROVE 1 \in 1..Len(history) /\ history[1].at \in Nat
  <2>1. 1 \in 1..Len(history)
    BY <1>2, <1>4 DEF Summarised
  <2>2. history[1] \in Message
    BY <2>1, <1>2
  <2> QED
    BY <2>1, <2>2 DEF Message, MessageFields
<1>5. CASE rejection.state # "none"
  <2>1. storeRejectedAt = rejection.at
    BY <1>5 DEF LatchStands
  <2>2. storeRejectedAt # Never
    BY <2>1, <1>3 DEF Never
  <2>3. CompactionTime(c) <= storeRejectedAt
    <3>1. CASE Summarised
      <4>1. history[1].at <= rejection.at
        BY <1>5, <1>4, <3>1 DEF LatchStands, Summarised
      <4> QED
        BY <4>1, <2>1, <1>1, <3>1
    <3>2. CASE ~Summarised
      BY <3>2, <1>1, <1>3, <2>1
    <3> QED
      BY <3>1, <3>2
  <2> QED
    BY <1>5, <2>1, <2>2, <2>3 DEF Rejected, LatchAfter
<1>6. CASE rejection.state = "none"
  <2>1. ASSUME storeRejectedAt # Never PROVE ~(CompactionTime(c) <= storeRejectedAt)
    <3>1. Summarised /\ history[1].at > storeRejectedAt
      BY <1>6, <2>1 DEF LatchStands, Summarised
    <3>2. storeRejectedAt \in Nat
      BY <2>1, <1>2
    <3> QED
      BY <3>1, <3>2, <1>1, <1>4
  <2> QED
    BY <1>6, <2>1 DEF Rejected, LatchAfter
<1> QED
  BY <1>5, <1>6

LEMMA CompactHistory ==
    ASSUME Types, NEW n \in 1..Len(history), Compact(n)
    PROVE  /\ history' \in Seq(Message) /\ Len(history') >= 1
           /\ history'[1] = Summary /\ Summary.role = "summary" /\ Summary.at = now
           /\ \A i \in 1..Len(history') :
                 i # 1 => \E k \in 2..Len(history) : history'[i] = history[k]
<1> DEFINE t == SubSeq(history, n + 1, Len(history))
<1>1. history \in Seq(Message) /\ now \in Nat
  BY MaxTimeAssumption DEF Types, TypeOK
<1>2. Len(history) \in Nat /\ n \in Nat /\ n >= 1 /\ n <= Len(history)
  BY <1>1
<1>3. /\ t \in Seq(Message) /\ Len(t) = Len(history) - n
      /\ \A j \in 1..Len(t) : t[j] = history[n + j]
  <2>1. \A j \in n + 1 .. Len(history) : history[j] \in Message
    BY <1>1, <1>2
  <2>2. n + 1 \in Int /\ Len(history) \in Int
    BY <1>2
  <2>3. /\ t \in Seq(Message)
        /\ Len(t) = IF n + 1 <= Len(history) THEN Len(history) - (n + 1) + 1 ELSE 0
        /\ \A j \in 1 .. Len(history) - (n + 1) + 1 : t[j] = history[n + 1 + j - 1]
    BY <2>1, <2>2, SubSeqProperties
  <2> HIDE DEF t
  <2>4. Len(t) = Len(history) - n /\ Len(history) - (n + 1) + 1 = Len(history) - n
    BY <2>3, <1>2
  <2>5. ASSUME NEW j \in 1..Len(t) PROVE t[j] = history[n + j]
    <3>1. n + 1 + j - 1 = n + j
      BY <1>2
    <3> QED
      BY <3>1, <2>3, <2>4
  <2> QED
    BY <2>3, <2>4, <2>5
<1>4. Summary \in Message /\ Summary.role = "summary" /\ Summary.at = now
  BY <1>1, SummaryType
<1>5. history' = <<Summary>> \o t
  BY DEF Compact
<1> HIDE DEF t
<1>6. <<Summary>> \in Seq(Message) /\ Len(<<Summary>>) = 1 /\ <<Summary>>[1] = Summary
  BY <1>4
<1>7. /\ history' \in Seq(Message) /\ Len(history') = 1 + Len(t)
      /\ \A i \in 1..1 + Len(t) : history'[i] = IF i <= 1 THEN <<Summary>>[i] ELSE t[i - 1]
  BY <1>3, <1>5, <1>6, ConcatProperties
<1>8. Len(t) \in Nat
  BY <1>3
<1>9. history'[1] = Summary
  BY <1>6, <1>7, <1>8
<1>10. ASSUME NEW i \in 1..Len(history'), i # 1
       PROVE  \E k \in 2..Len(history) : history'[i] = history[k]
  <2>1. history'[i] = t[i - 1] /\ i - 1 \in 1..Len(t)
    BY <1>7, <1>8, <1>10
  <2>2. t[i - 1] = history[n + (i - 1)]
    BY <2>1, <1>3
  <2>3. n + (i - 1) \in 2..Len(history)
    BY <2>1, <1>2, <1>3
  <2> QED
    BY <2>1, <2>2, <2>3
<1> QED
  BY <1>4, <1>7, <1>8, <1>9, <1>10

LEMMA GoBackHistory ==
    ASSUME Types, NEW n \in 1..Len(history), GoBack(n)
    PROVE  /\ history' \in Seq(Message) /\ Len(history') = n
           /\ \A i \in 1..n : history'[i] = history[i]
<1>1. history \in Seq(Message) /\ n \in 0..Len(history)
  BY DEF Types
<1> QED
  BY <1>1, Beginning DEF GoBack

LEMMA PromptGrows ==
    ASSUME Types, NEW image \in Image \union {0}, Prompt(image)
    PROVE  /\ history' \in Seq(Message) /\ Len(history') = Len(history) + 1
           /\ \A i \in 1..Len(history) : history'[i] = history[i]
           /\ history'[Len(history) + 1].role = "input"
           /\ history'[Len(history) + 1].at = 0
<1>1. /\ Input(image) \in Message /\ Input(image).role = "input" /\ Input(image).at = 0
  BY InputType
<1> DEFINE a == Input(image)
<1>2. Extend(<<a>>)
  BY DEF Prompt
<1> HIDE DEF a
<1>3. <<a>> \in Seq(Message) /\ Len(<<a>>) = 1 /\ <<a>>[1] = a /\ 1 \in 1..1
  BY <1>1 DEF a
<1>4. Grows(<<a>>)
  BY <1>2, <1>3, ExtendGrows
<1>5. history'[Len(history) + 1] = a
  BY <1>3, <1>4 DEF Grows
<1> QED
  BY <1>1, <1>3, <1>4, <1>5 DEF Grows, a

LEMMA OrderNext ==
    ASSUME Types, Types', HistoryInOrder, [Next]_vars
    PROVE  HistoryInOrder'
<1>1. history \in Seq(Message) /\ now \in Nat /\ request.at \in Nat /\ now' \in Nat
      /\ Len(history) \in Nat
  BY MaxTimeAssumption DEF Types, TypeOK, Request
<1>2. /\ \A i \in 1..Len(history) :
            history[i].at <= now /\ (history[i].role = "summary" => i = 1)
      /\ request.at <= now
  BY DEF HistoryInOrder
<1>3. \A i \in 1..Len(history) : history[i].at \in Nat
  BY <1>1 DEF Message, MessageFields
<1>4. CASE UNCHANGED vars
  BY <1>2, <1>4 DEF vars, hostVars, HistoryInOrder
<1>5. CASE Tick
  <2>1. now' = now + 1 /\ history' = history /\ request' = request
    BY <1>5 DEF Tick
  <2> QED
    BY <2>1, <1>1, <1>2, <1>3 DEF HistoryInOrder
<1>6. CASE Stream
  <2>1. history' = history /\ now' = now
    BY <1>6 DEF Stream
  <2>2. request'.at = now
    BY <1>6, StreamEffect
  <2> QED
    BY <2>1, <2>2, <1>1, <1>2 DEF HistoryInOrder
<1>7. CASE TooLargeEarly
  <2>1. history' = history /\ now' = now
        /\ request' = [request EXCEPT !.store = FALSE, !.rejected = TRUE]
    BY <1>7 DEF TooLargeEarly, hostVars
  <2>2. request'.at = request.at
    BY <2>1, Rejecting DEF Types
  <2> QED
    BY <2>1, <2>2, <1>2 DEF HistoryInOrder
<1>8. CASE ClearSession
  <2>1. history' = history /\ now' = now /\ request' = [request EXCEPT !.omitted = {}]
    BY <1>8 DEF ClearSession, hostVars
  <2>2. request'.at = request.at
    BY <2>1, Clearing DEF Types
  <2> QED
    BY <2>1, <2>2, <1>2 DEF HistoryInOrder
<1>9. ASSUME NEW image \in Image \union {0}, Prompt(image) PROVE HistoryInOrder'
  <2>1. /\ Len(history') = Len(history) + 1
        /\ \A i \in 1..Len(history) : history'[i] = history[i]
        /\ history'[Len(history) + 1].role = "input"
        /\ history'[Len(history) + 1].at = 0
    BY <1>9, PromptGrows
  <2>2. now' = now /\ request' = request
    BY <1>9 DEF Prompt
  <2>3. ASSUME NEW i \in 1..Len(history')
        PROVE  history'[i].at <= now /\ (history'[i].role = "summary" => i = 1)
    <3>1. CASE i \in 1..Len(history)
      BY <3>1, <2>1, <1>2
    <3>2. CASE i = Len(history) + 1
      BY <3>2, <2>1, <1>1
    <3> QED
      BY <3>1, <3>2, <2>1, <1>1
  <2> QED
    BY <2>2, <2>3, <1>2 DEF HistoryInOrder
<1>10. ASSUME NEW end \in Ends, NEW usage \in Usages, NEW active \in BOOLEAN,
              NEW toolImage \in Image \union {0}, Turn(end, usage, active, toolImage)
       PROVE  HistoryInOrder'
  <2>1. usage \in Nat /\ TurnEnd(end, usage, active, toolImage)
    BY <1>10, UsagesType DEF Turn
  <2>2. GrowsByTurn(Answer(end, usage))
    BY <2>1, TurnGrows
  <2>3. /\ Answer(end, usage).role = "assistant" /\ Answer(end, usage).at = request.at
    BY <2>1, <1>1, AnswerType
  <2>4. now' = now /\ request'.at = 0
    BY <2>1 DEF TurnEnd, NoRequest
  <2>5. ASSUME NEW i \in 1..Len(history')
        PROVE  history'[i].at <= now /\ (history'[i].role = "summary" => i = 1)
    <3>1. CASE i \in 1..Len(history)
      BY <3>1, <2>2, <1>2 DEF GrowsByTurn
    <3>2. CASE i = Len(history) + 1
      BY <3>2, <2>2, <2>3, <1>2 DEF GrowsByTurn
    <3>3. CASE i > Len(history) + 1
      <4>1. history'[i].role = "input" /\ history'[i].at = 0
        BY <3>3, <2>2 DEF GrowsByTurn
      <4> QED
        BY <4>1, <1>1
    <3> QED
      BY <3>1, <3>2, <3>3, <1>1
  <2> QED
    BY <2>4, <2>5, <1>1 DEF HistoryInOrder
<1>11. ASSUME NEW n \in 1..Len(history), Compact(n) PROVE HistoryInOrder'
  <2>1. /\ history'[1] = Summary /\ Summary.at = now
        /\ \A i \in 1..Len(history') :
              i # 1 => \E k \in 2..Len(history) : history'[i] = history[k]
    BY <1>11, CompactHistory
  <2>2. now' = now /\ request' = request
    BY <1>11 DEF Compact
  <2>3. ASSUME NEW i \in 1..Len(history')
        PROVE  history'[i].at <= now /\ (history'[i].role = "summary" => i = 1)
    <3>1. CASE i = 1
      BY <3>1, <2>1, <1>1
    <3>2. CASE i # 1
      <4>1. PICK k \in 2..Len(history) : history'[i] = history[k]
        BY <2>1, <3>2
      <4>2. k \in 1..Len(history) /\ k # 1
        BY <1>1
      <4> QED
        BY <4>1, <4>2, <1>2
    <3> QED
      BY <3>1, <3>2
  <2> QED
    BY <2>2, <2>3, <1>2 DEF HistoryInOrder
<1>12. ASSUME NEW n \in 1..Len(history), GoBack(n) PROVE HistoryInOrder'
  <2>1. Len(history') = n /\ \A i \in 1..n : history'[i] = history[i]
    BY <1>12, GoBackHistory
  <2>2. now' = now /\ request' = request
    BY <1>12 DEF GoBack
  <2>3. \A i \in 1..n : i \in 1..Len(history)
    BY <1>1
  <2> QED
    BY <2>1, <2>2, <2>3, <1>2 DEF HistoryInOrder
<1> QED
  BY <1>4, <1>5, <1>6, <1>7, <1>8, <1>9, <1>10, <1>11, <1>12, NextCases

LEMMA LatchNext ==
    ASSUME Types, Types', HistoryInOrder, HistoryInOrder', LatchStands, [Next]_vars
    PROVE  LatchStands'
<1>1. /\ history \in Seq(Message) /\ now \in Nat /\ Len(history) \in Nat
      /\ rejection \in Rejection /\ storeRejectedAt \in Nat \union {Never}
  BY MaxTimeAssumption DEF Types, TypeOK
<1>2. rejection.at \in Nat /\ rejection.state \in {"none", "standing", "same time"}
  BY <1>1 DEF Rejection
<1>3. /\ rejection.state # "none" =>
            /\ storeRejectedAt = rejection.at /\ ~request.store
            /\ \A i \in 1..Len(history) :
                  history[i].role = "summary" => history[i].at <= rejection.at
      /\ rejection.state = "none" /\ storeRejectedAt # Never =>
            /\ history # <<>> /\ history[1].role = "summary"
            /\ history[1].at > storeRejectedAt
  BY DEF LatchStands
<1>0. rejection.at <= now /\ (rejection.state = "none" => rejection.at = 0)
  BY DEF LatchStands
<1>20. PICK r : r = rejection.at
  OBVIOUS
<1>21. r \in Nat /\ now \in Nat /\ r <= now
  BY <1>0, <1>1, <1>2, <1>20
<1>4. \A i \in 1..Len(history) : history[i].at <= now /\ history[i].at \in Nat
  BY <1>1 DEF HistoryInOrder, Message, MessageFields
<1>5. CASE UNCHANGED vars
  BY <1>0, <1>3, <1>5 DEF vars, storedVars, hostVars, ghostVars, LatchStands
<1>6. CASE Tick
  <2>1. /\ now' = now + 1 /\ history' = history /\ request' = request
        /\ rejection' = rejection /\ storeRejectedAt' = storeRejectedAt
    BY <1>6 DEF Tick, storedVars, ghostVars
  <2>2. rejection.at <= now + 1
    <3>1. r <= now + 1
      BY <1>21
    <3> QED
      BY <3>1, <1>20
  <2> QED
    BY <2>1, <2>2, <1>0, <1>3 DEF LatchStands
<1>7. CASE Stream
  <2>1. PICK s, c : s = Sanitized(history) /\ c = Limited(s)
    OBVIOUS
  <2>2. /\ request'.store = Storable(c) /\ storeRejectedAt' = LatchAfter(c)
    BY <1>7, <2>1, StreamEffect
  <2>3. /\ rejection.state # "none" => Rejected(c) /\ LatchAfter(c) = rejection.at
        /\ rejection.state = "none" => ~Rejected(c) /\ LatchAfter(c) = Never
    BY <2>1, LatchAtStream
  <2>4. now' = now /\ history' = history /\ rejection' = rejection
    BY <1>7 DEF Stream, ghostVars
  <2>5. rejection.state # "none" => ~request'.store
    BY <2>2, <2>3 DEF Storable
  <2> QED
    BY <2>2, <2>3, <2>4, <2>5, <1>0, <1>3 DEF LatchStands
<1>8. CASE TooLargeEarly
  <2>1. request' = [request EXCEPT !.store = FALSE, !.rejected = TRUE]
    BY <1>8 DEF TooLargeEarly
  <2>2. request'.store = FALSE
    BY <2>1, Rejecting DEF Types
  <2>3. /\ now' = now /\ history' = history /\ storeRejectedAt' = now
        /\ rejection' = [state |-> "standing", at |-> now]
    BY <1>8 DEF TooLargeEarly, hostVars, MarkTooLarge, NoteRejection
  <2>4. rejection'.state = "standing" /\ rejection'.at = now /\ now <= now
    BY <2>3, <1>1
  <2> QED
    BY <2>2, <2>3, <2>4, <1>4 DEF LatchStands
<1>9. CASE ClearSession
  <2>1. /\ now' = now /\ storeRejectedAt' = Never
        /\ rejection' = [state |-> "none", at |-> 0]
    BY <1>9 DEF ClearSession, hostVars, ClearStored, NoRejection
  <2>2. rejection'.state = "none" /\ rejection'.at = 0 /\ 0 <= now
    BY <2>1, <1>1
  <2> QED
    BY <2>1, <2>2 DEF LatchStands
<1>10. ASSUME NEW image \in Image \union {0}, Prompt(image) PROVE LatchStands'
  <2>1. /\ history' \in Seq(Message) /\ Len(history') = Len(history) + 1
        /\ \A i \in 1..Len(history) : history'[i] = history[i]
        /\ history'[Len(history) + 1].role = "input"
    BY <1>10, PromptGrows
  <2>2. /\ now' = now /\ request' = request /\ rejection' = rejection
        /\ storeRejectedAt' = storeRejectedAt
    BY <1>10 DEF Prompt, storedVars
  <2>3. ASSUME rejection.state # "none", NEW i \in 1..Len(history'),
               history'[i].role = "summary"
        PROVE  history'[i].at <= rejection.at
    <3>1. i \in 1..Len(history)
      BY <2>1, <2>3, <1>1
    <3> QED
      BY <3>1, <2>1, <2>3, <1>3
  <2>4. ASSUME rejection.state = "none", storeRejectedAt # Never
        PROVE  /\ history' # <<>> /\ history'[1].role = "summary"
               /\ history'[1].at > storeRejectedAt
    <3>1. 1 \in 1..Len(history)
      BY <2>4, <1>1, <1>3
    <3>2. history'[1] = history[1] /\ history' # <<>>
      BY <2>1, <3>1, <1>1
    <3> QED
      BY <3>2, <2>4, <1>3
  <2> QED
    BY <2>2, <2>3, <2>4, <1>0, <1>3 DEF LatchStands
<1>11. ASSUME NEW end \in Ends, NEW usage \in Usages, NEW active \in BOOLEAN,
              NEW toolImage \in Image \union {0}, Turn(end, usage, active, toolImage)
       PROVE  LatchStands'
  <2>1. usage \in Nat /\ TurnEnd(end, usage, active, toolImage)
    BY <1>11, UsagesType DEF Turn
  <2>2. GrowsByTurn(Answer(end, usage))
    BY <2>1, TurnGrows
  <2>3. Answer(end, usage).role = "assistant"
    BY <2>1, AnswerType DEF Types, Request
  <2>4. now' = now /\ request'.store = FALSE
    BY <2>1 DEF TurnEnd, NoRequest
  <2>5. ASSUME NEW i \in 1..Len(history'), history'[i].role = "summary"
        PROVE  i \in 1..Len(history) /\ history'[i] = history[i]
    <3>1. i # Len(history) + 1
      BY <2>2, <2>3, <2>5 DEF GrowsByTurn
    <3>2. ~(i > Len(history) + 1)
      BY <2>2, <2>5 DEF GrowsByTurn
    <3>3. i \in 1..Len(history)
      BY <3>1, <3>2, <1>1
    <3> QED
      BY <3>3, <2>2 DEF GrowsByTurn
  <2>6. CASE UNCHANGED <<storeRejectedAt, rejection>>
    <3>1. ASSUME rejection.state = "none", storeRejectedAt # Never
          PROVE  /\ history' # <<>> /\ history'[1].role = "summary"
                 /\ history'[1].at > storeRejectedAt
      <4>1. 1 \in 1..Len(history)
        BY <3>1, <1>1, <1>3
      <4>2. history'[1] = history[1] /\ history' # <<>>
        BY <2>2, <4>1, <1>1 DEF GrowsByTurn
      <4> QED
        BY <4>2, <3>1, <1>3
    <3> QED
      BY <2>4, <2>5, <2>6, <3>1, <1>0, <1>3 DEF LatchStands
  <2>7. CASE MarkTooLarge(now) /\ NoteRejection
    <3>1. storeRejectedAt' = now /\ rejection' = [state |-> "standing", at |-> now]
      BY <2>7 DEF MarkTooLarge, NoteRejection
    <3>2. rejection'.state = "standing" /\ rejection'.at = now /\ now <= now
      BY <3>1, <1>1
    <3> QED
      BY <2>4, <2>5, <3>1, <3>2, <1>4 DEF LatchStands
  <2> QED
    BY <1>11, <2>6, <2>7 DEF Turn
<1>12. ASSUME NEW n \in 1..Len(history), Compact(n) PROVE LatchStands'
  <2>1. /\ history' \in Seq(Message) /\ Len(history') >= 1 /\ history'[1] = Summary
        /\ Summary.role = "summary" /\ Summary.at = now
    BY <1>12, CompactHistory
  <2>2. /\ now' = now /\ request' = request /\ storeRejectedAt' = storeRejectedAt
        /\ rejection' = IF now > rejection.at THEN NoRejection
                        ELSE [rejection EXCEPT !.state = "same time"]
    BY <1>12 DEF Compact, storedVars
  <2>3. history' # <<>> /\ \A i \in 1..Len(history') : history'[i].role = "summary" => i = 1
    <3>1. history' # <<>>
      BY <2>1
    <3> QED
      BY <3>1 DEF HistoryInOrder
  <2>4. CASE now > rejection.at
    <3>1. rejection' = [state |-> "none", at |-> 0]
      BY <2>2, <2>4 DEF NoRejection
    <3>2. rejection'.state = "none" /\ rejection'.at = 0 /\ 0 <= now
      BY <3>1, <1>1
    <3>3. ASSUME storeRejectedAt # Never PROVE now > storeRejectedAt
      <4>1. CASE rejection.state # "none"
        BY <4>1, <2>4, <1>3
      <4>2. CASE rejection.state = "none"
        <5>1. history[1].at > storeRejectedAt /\ 1 \in 1..Len(history)
          BY <4>2, <3>3, <1>1, <1>3
        <5>2. history[1].at <= now /\ history[1].at \in Nat /\ storeRejectedAt \in Nat
          BY <5>1, <1>4, <1>1, <3>3
        <5> QED
          BY <5>1, <5>2, <1>1
      <4> QED
        BY <4>1, <4>2
    <3> QED
      BY <2>1, <2>2, <2>3, <3>2, <3>3 DEF LatchStands
  <2>5. CASE ~(now > rejection.at)
    <3>1. rejection' = [rejection EXCEPT !.state = "same time"]
      BY <2>2, <2>5
    <3>2. rejection'.state = "same time" /\ rejection'.at = rejection.at
      BY <3>1, <1>1 DEF Rejection
    <3>3. rejection.at = now
      <4>1. ~(now > r)
        BY <2>5, <1>20
      <4>2. r = now
        BY <4>1, <1>21
      <4> QED
        BY <4>2, <1>20
    <3>4. stage = "idle" /\ request = NoRequest
      BY <1>12 DEF Compact, Types
    <3>5. ~request.store
      BY <3>4 DEF NoRequest
    <3>6. storeRejectedAt = now
      <4>1. CASE rejection.state # "none"
        BY <4>1, <1>3, <3>3
      <4>2. CASE rejection.state = "none"
        <5>1. now > 0
          BY DEF Types, TypeOK
        <5> QED
          BY <5>1, <4>2, <2>5, <1>0, <1>1
      <4> QED
        BY <4>1, <4>2
    <3> QED
      BY <2>1, <2>2, <2>3, <3>2, <3>3, <3>5, <3>6, <1>1 DEF LatchStands
  <2> QED
    BY <2>4, <2>5
<1>13. ASSUME NEW n \in 1..Len(history), GoBack(n) PROVE LatchStands'
  <2>1. history' \in Seq(Message) /\ Len(history') = n /\ \A i \in 1..n : history'[i] = history[i]
    BY <1>13, GoBackHistory
  <2>2. /\ now' = now /\ request' = request /\ rejection' = rejection
        /\ storeRejectedAt' = storeRejectedAt
    BY <1>13 DEF GoBack, storedVars, ghostVars
  <2>3. (\A i \in 1..n : i \in 1..Len(history)) /\ 1 \in 1..n
    BY <1>1
  <2>4. history' # <<>>
    BY <2>1, <2>3
  <2> QED
    BY <2>1, <2>2, <2>3, <2>4, <1>0, <1>3 DEF LatchStands
<1> QED
  BY <1>5, <1>6, <1>7, <1>8, <1>9, <1>10, <1>11, <1>12, <1>13, NextCases
--------------------------------------------------------------------------------
(* The screenshots.                                                        *)
LEMMA NothingSent ==
    /\ Images(NoRequest.context) = {} /\ NoRequest.omitted = {}
    /\ NoRequest.store = FALSE /\ NoRequest.context = <<>>
<1>1. NoRequest.context = <<>> /\ DOMAIN <<>> = {}
  BY DEF NoRequest
<1> QED
  BY <1>1 DEF Images, NoRequest

LEMMA OmittedNext ==
    ASSUME Types, OmittedRemembered, [Next]_vars
    PROVE  OmittedRemembered'
<1>1. /\ everOmitted \subseteq omittedKeys /\ request.omitted \subseteq omittedKeys
      /\ \A i \in Images(request.context) :
            request.context[i].image \in everOmitted
               => \A j \in Images(request.context) : j <= i
  BY DEF OmittedRemembered, OmittedStaysOut
<1>2. ASSUME request' = request, omittedKeys' = omittedKeys, everOmitted' = everOmitted
      PROVE  OmittedRemembered'
  BY <1>1, <1>2 DEF OmittedRemembered, OmittedStaysOut, Images
<1>3. ASSUME request' = NoRequest, everOmitted' \subseteq omittedKeys'
      PROVE  OmittedRemembered'
  <2>1. Images(request'.context) = {} /\ request'.omitted = {}
    BY <1>3, NothingSent
  <2> QED
    BY <1>3, <2>1 DEF OmittedRemembered, OmittedStaysOut, Images
<1>4. CASE UNCHANGED vars
  BY <1>2, <1>4 DEF vars, ghostVars
<1>5. CASE Tick
  BY <1>2, <1>5 DEF Tick, ghostVars
<1>6. CASE Stream
  <2>1. PICK s, c : s = Sanitized(history) /\ c = Limited(s)
    OBVIOUS
  <2>2. /\ s \in Seq(Message) /\ ScanInv(Scanned(s), s, 0)
        /\ omittedKeys' = Scanned(s).omitted
        /\ request'.context = c
        /\ request'.omitted = {s[i].image : i \in Images(s) \ Images(c)}
    BY <1>6, <2>1, StreamEffect
  <2>3. /\ Images(c) = Images(s) \ Scanned(s).drop
        /\ \A i \in Images(c) : c[i].image = s[i].image
    <3>1. omittedKeys \subseteq Image
      BY DEF Types, TypeOK
    <3> QED
      BY <2>1, <2>2, <3>1, LimitedFacts
  <2>4. everOmitted' = everOmitted
    BY <1>6 DEF Stream, ghostVars
  <2>5. omittedKeys \subseteq omittedKeys'
    BY <2>2 DEF ScanInv
  <2>6. request'.omitted \subseteq omittedKeys'
    BY <2>2, <2>3 DEF ScanInv
  <2>7. ASSUME NEW i \in Images(c), c[i].image \in everOmitted, NEW j \in Images(c)
        PROVE  j <= i
    <3>1. s[i].image \in omittedKeys /\ i \in Images(s) \ Scanned(s).drop
      BY <2>3, <2>7, <1>1
    <3>2. i \in Seen(s, 0)
      BY <3>1, <2>2 DEF Seen, Images
    <3>3. Newest(i, s)
      BY <3>1, <3>2, <2>2 DEF ScanInv
    <3> QED
      BY <3>3, <2>3, <2>7 DEF Newest
  <2>8. OmittedStaysOut'
    BY <2>2, <2>4, <2>7 DEF OmittedStaysOut, Images
  <2> QED
    BY <1>1, <2>4, <2>5, <2>6, <2>8 DEF OmittedRemembered
<1>7. CASE TooLargeEarly
  <2>1. /\ request' = [request EXCEPT !.store = FALSE, !.rejected = TRUE]
        /\ omittedKeys' = omittedKeys /\ everOmitted' = everOmitted
    BY <1>7 DEF TooLargeEarly
  <2>2. request'.context = request.context /\ request'.omitted = request.omitted
    BY <2>1, Rejecting DEF Types
  <2> QED
    BY <2>1, <2>2, <1>1 DEF OmittedRemembered, OmittedStaysOut, Images
<1>8. CASE ClearSession
  <2>1. request' = [request EXCEPT !.omitted = {}] /\ everOmitted' = {}
    BY <1>8 DEF ClearSession
  <2>2. request'.omitted = {}
    BY <2>1, Clearing DEF Types
  <2>3. OmittedStaysOut'
    BY <2>1 DEF OmittedStaysOut
  <2> QED
    BY <2>1, <2>2, <2>3 DEF OmittedRemembered
<1>9. ASSUME NEW image, Prompt(image) PROVE OmittedRemembered'
  BY <1>2, <1>9 DEF Prompt
<1>10. ASSUME NEW end, NEW usage, NEW active, NEW toolImage,
              Turn(end, usage, active, toolImage)
       PROVE  OmittedRemembered'
  <2>1. /\ request' = NoRequest /\ everOmitted' = everOmitted \union request.omitted
        /\ omittedKeys' = omittedKeys
    BY <1>10 DEF Turn, TurnEnd
  <2> QED
    BY <2>1, <1>1, <1>3
<1>11. ASSUME NEW n, Compact(n) PROVE OmittedRemembered'
  BY <1>2, <1>11 DEF Compact
<1>12. ASSUME NEW n, GoBack(n) PROVE OmittedRemembered'
  BY <1>2, <1>12 DEF GoBack, ghostVars
<1> QED
  BY <1>4, <1>5, <1>6, <1>7, <1>8, <1>9, <1>10, <1>11, <1>12, NextCases

--------------------------------------------------------------------------------
Latched == Types /\ HistoryInOrder /\ LatchStands

LEMMA InitInvariant == Init => Latched /\ OmittedRemembered
<1> SUFFICES ASSUME Init PROVE Latched /\ OmittedRemembered
  OBVIOUS
<1>1. Types
  BY InitTypes
<1>2. history = <<>> /\ now = 1 /\ request = NoRequest /\ rejection = NoRejection
      /\ everOmitted = {} /\ storeRejectedAt = Never
  BY DEF Init, StoredInit
<1>3. request.at = 0 /\ Len(history) = 0
  BY <1>2 DEF NoRequest
<1>4. HistoryInOrder
  BY <1>2, <1>3 DEF HistoryInOrder
<1>5. rejection.state = "none" /\ rejection.at = 0
  BY <1>2 DEF NoRejection
<1>6. LatchStands
  BY <1>2, <1>5 DEF LatchStands
<1>7. OmittedRemembered
  BY <1>2, NothingSent DEF OmittedRemembered, OmittedStaysOut
<1> QED
  BY <1>1, <1>4, <1>6, <1>7 DEF Latched

(* Once xAI rejected to store, nothing of the session is stored until it   *)
(* is compacted later than that.                                           *)
THEOREM LatchCorrect == Spec => []StoreOffUntilCompaction
<1>1. Init => Latched
  BY InitInvariant
<1>2. Latched /\ [Next]_vars => Latched'
  <2> SUFFICES ASSUME Latched, [Next]_vars PROVE Latched'
    OBVIOUS
  <2>1. Types /\ HistoryInOrder /\ LatchStands
    BY DEF Latched
  <2>2. Types'
    BY <2>1, TypesNext
  <2>3. HistoryInOrder'
    BY <2>1, <2>2, OrderNext
  <2>4. LatchStands'
    BY <2>1, <2>2, <2>3, LatchNext
  <2> QED
    BY <2>2, <2>3, <2>4 DEF Latched
<1>3. Latched => StoreOffUntilCompaction
  BY DEF Latched, LatchStands, StoreOffUntilCompaction
<1> QED
  BY <1>1, <1>2, <1>3, PTL DEF Spec

(* A screenshot once left out does not come back, unless it is the newest. *)
THEOREM OmissionCorrect == Spec => []OmittedStaysOut
<1>1. Init => Types /\ OmittedRemembered
  BY InitTypes, InitInvariant
<1>2. Types /\ OmittedRemembered /\ [Next]_vars => Types' /\ OmittedRemembered'
  BY TypesNext, OmittedNext
<1>3. OmittedRemembered => OmittedStaysOut
  BY DEF OmittedRemembered
<1> QED
  BY <1>1, <1>2, <1>3, PTL DEF Spec
--------------------------------------------------------------------------------
(* Sizes.                                                                  *)
LEMMA LatestOfIn ==
    ASSUME NEW N \in Nat, NEW A \in SUBSET (1..N), A # {}
    PROVE  LatestOf(A) \in A /\ \A j \in A : j <= LatestOf(A)
<1> DEFINE Has(B) == \E i \in B : \A j \in B : j <= i
           T == {n \in 0..N : \A B \in SUBSET (1..n) : B # {} => Has(B)}
<1>1. 0 \in T
  <2>1. 1..0 = {} /\ 0 \in 0..N
    OBVIOUS
  <2>2. \A B \in SUBSET (1..0) : B = {}
    BY <2>1
  <2> QED
    BY <2>1, <2>2
<1>2. ASSUME NEW n \in 1..N, n - 1 \in T PROVE n \in T
  <2>1. ASSUME NEW B \in SUBSET (1..n), B # {} PROVE Has(B)
    <3>1. CASE n \in B
      BY <3>1
    <3>2. CASE n \notin B
      <4>1. B \in SUBSET (1..(n - 1))
        BY <3>2
      <4> QED
        BY <4>1, <1>2, <2>1
    <3> QED
      BY <3>1, <3>2
  <2> QED
    BY <2>1
<1> HIDE DEF T
<1>3. \A n \in 0..N : n \in T
  BY <1>1, <1>2, InductionUpTo
<1>4. N \in T
  BY <1>3
<1>5. Has(A)
  BY <1>4 DEF T
<1> QED
  BY <1>5 DEF LatestOf

(* What a number of screenshots measures.                                  *)
Weight(A) == ImageSize * Cardinality(A)

LEMMA WeightGrows ==
    ASSUME NEW B, IsFiniteSet(B), NEW A \in SUBSET B
    PROVE  Weight(A) \in Nat /\ Weight(B) \in Nat /\ Weight(A) <= Weight(B)
<1>1. IsFiniteSet(A) /\ Cardinality(A) \in Nat /\ Cardinality(B) \in Nat
      /\ Cardinality(A) <= Cardinality(B)
  BY FS_Subset, FS_CardinalityType
<1>2. PICK a, b \in Nat : a = Cardinality(A) /\ b = Cardinality(B) /\ a <= b
  BY <1>1
<1>3. PICK d \in Nat : b = a + d
  <2>1. b - a \in Nat /\ b = a + (b - a)
    BY <1>2
  <2> QED
    BY <2>1
<1>4. ImageSize * b = ImageSize * a + ImageSize * d /\ ImageSize * a \in Nat
      /\ ImageSize * d \in Nat
  BY <1>3, ImageSizeAssumption
<1>5. ImageSize * a <= ImageSize * b /\ ImageSize * b \in Nat
  BY <1>4
<1> QED
  BY <1>2, <1>4, <1>5 DEF Weight

LEMMA WeightOfUnion ==
    ASSUME NEW A, NEW B, IsFiniteSet(A), IsFiniteSet(B)
    PROVE  Weight(A \union B) <= Weight(A) + Weight(B)
<1>1. /\ Cardinality(A) \in Nat /\ Cardinality(B) \in Nat
      /\ Cardinality(A \union B) \in Nat
      /\ Cardinality(A \union B) <= Cardinality(A) + Cardinality(B)
  <2>1. /\ IsFiniteSet(A \union B) /\ IsFiniteSet(A \cap B)
        /\ Cardinality(A \union B) = Cardinality(A) + Cardinality(B) - Cardinality(A \cap B)
    BY FS_Union, FS_Intersection
  <2>2. /\ Cardinality(A) \in Nat /\ Cardinality(B) \in Nat
        /\ Cardinality(A \cap B) \in Nat /\ Cardinality(A \union B) \in Nat
    BY <2>1, FS_CardinalityType
  <2> QED
    BY <2>1, <2>2
<1>2. PICK a, b, u \in Nat : /\ a = Cardinality(A) /\ b = Cardinality(B)
                             /\ u = Cardinality(A \union B) /\ u <= a + b
  BY <1>1
<1>3. PICK d \in Nat : a + b = u + d
  <2>1. a + b - u \in Nat /\ a + b = u + (a + b - u)
    BY <1>2
  <2> QED
    BY <2>1
<1>4. ImageSize * (a + b) = ImageSize * a + ImageSize * b
  BY ImageSizeAssumption
<1>5. ImageSize * (u + d) = ImageSize * u + ImageSize * d /\ ImageSize * d \in Nat
  BY ImageSizeAssumption
<1>6. ImageSize * u \in Nat /\ ImageSize * a \in Nat /\ ImageSize * b \in Nat
  BY ImageSizeAssumption
<1>7. ImageSize * u <= ImageSize * a + ImageSize * b
  BY <1>3, <1>4, <1>5, <1>6
<1> QED
  BY <1>2, <1>7 DEF Weight

LEMMA ImagesWeigh ==
    ASSUME NEW ms \in Seq(Message)
    PROVE  /\ IsFiniteSet(Images(ms)) /\ Weight(Images(ms)) \in Nat
           /\ Size(ms) = Len(ms) + Weight(Images(ms))
<1>1. IsFiniteSet(Images(ms))
  BY ImagesFinite
<1>2. Weight(Images(ms)) \in Nat
  BY <1>1, WeightGrows
<1> QED
  BY <1>1, <1>2, SizeCounts DEF Weight

LEMMA SmallerSize ==
    ASSUME NEW a \in Seq(Message), NEW b \in Seq(Message),
           Len(a) = Len(b), Images(a) \subseteq Images(b)
    PROVE  Size(a) <= Size(b)
<1>1. Size(a) = Len(a) + Weight(Images(a)) /\ Weight(Images(a)) \in Nat
  BY ImagesWeigh
<1>2. Size(b) = Len(b) + Weight(Images(b)) /\ Weight(Images(b)) \in Nat
      /\ IsFiniteSet(Images(b))
  BY ImagesWeigh
<1>3. Weight(Images(a)) <= Weight(Images(b))
  BY <1>2, WeightGrows
<1>4. Len(a) \in Nat
  OBVIOUS
<1> QED
  BY <1>1, <1>2, <1>3, <1>4

LEMMA TotalOfBeginning ==
    ASSUME NEW ms \in Seq(Message), NEW n \in 0..Len(ms)
    PROVE  Size(SubSeq(ms, 1, n)) = Total(ms)[n]
<1> DEFINE p == SubSeq(ms, 1, n)
           T == {k \in 0..n : Total(p)[k] = Total(ms)[k]}
<1>1. p \in Seq(Message) /\ Len(p) = n /\ \A i \in 1..n : p[i] = ms[i]
  BY Beginning
<1> HIDE DEF p
<1>2. /\ Total(p)[0] = 0
      /\ \A k \in 1..n : Total(p)[k] = Total(p)[k - 1] + p[k].size
  BY <1>1, TotalSteps
<1>3. /\ Total(ms)[0] = 0
      /\ \A k \in 1..Len(ms) : Total(ms)[k] = Total(ms)[k - 1] + ms[k].size
  BY TotalSteps
<1>4. n \in Nat /\ \A k \in 1..n : k \in 1..Len(ms)
  OBVIOUS
<1>5. 0 \in T
  BY <1>2, <1>3, <1>4
<1>6. ASSUME NEW k \in 1..n, k - 1 \in T PROVE k \in T
  <2>1. Total(p)[k - 1] = Total(ms)[k - 1]
    BY <1>6
  <2>2. Total(p)[k] = Total(ms)[k]
    BY <2>1, <1>1, <1>2, <1>3, <1>4
  <2> QED
    BY <2>2, <1>4
<1> HIDE DEF T
<1>7. \A k \in 0..n : k \in T
  BY <1>4, <1>5, <1>6, InductionUpTo
<1>8. n \in T
  BY <1>7, <1>4
<1>9. Total(p)[n] = Total(ms)[n]
  BY <1>8 DEF T
<1> QED
  BY <1>9, <1>1, SizeIs DEF p

LEMMA Ending ==
    ASSUME NEW S, NEW s \in Seq(S), NEW u \in 0..Len(s)
    PROVE  /\ SubSeq(s, u + 1, Len(s)) \in Seq(S)
           /\ Len(SubSeq(s, u + 1, Len(s))) = Len(s) - u
           /\ \A j \in 1..Len(s) - u : SubSeq(s, u + 1, Len(s))[j] = s[u + j]
<1> DEFINE t == SubSeq(s, u + 1, Len(s))
           N == Len(s)
<1>1. N \in Nat /\ u \in Nat /\ u <= N
  OBVIOUS
<1>2. \A j \in u + 1 .. N : s[j] \in S
  OBVIOUS
<1>3. u + 1 \in Int /\ N \in Int
  BY <1>1
<1>4. /\ t \in Seq(S) /\ Len(t) = IF u + 1 <= N THEN N - (u + 1) + 1 ELSE 0
      /\ \A j \in 1 .. N - (u + 1) + 1 : t[j] = s[u + 1 + j - 1]
  BY <1>2, <1>3, SubSeqProperties
<1> HIDE DEF t, N
<1>5. N - (u + 1) + 1 = N - u
  BY <1>1
<1>6. Len(t) = N - u
  BY <1>1, <1>4, <1>5
<1>7. ASSUME NEW j \in 1..N - u PROVE t[j] = s[u + j]
  <2>1. u + 1 + j - 1 = u + j
    BY <1>1
  <2> QED
    BY <2>1, <1>4, <1>5
<1> QED
  BY <1>4, <1>6, <1>7 DEF t, N

LEMMA TotalOfEnding ==
    ASSUME NEW ms \in Seq(Message), NEW u \in 0..Len(ms)
    PROVE  Total(ms)[u] + Size(SubSeq(ms, u + 1, Len(ms))) = Size(ms)
<1> DEFINE t == SubSeq(ms, u + 1, Len(ms))
           N == Len(ms)
           h == Total(ms)
           g == Total(t)
           T == {k \in 0..N - u : h[u] + g[k] = h[u + k]}
<1>1. N \in Nat /\ u \in Nat /\ N - u \in Nat
  OBVIOUS
<1>2. t \in Seq(Message) /\ Len(t) = N - u /\ \A j \in 1..N - u : t[j] = ms[u + j]
  BY Ending
<1>3. /\ h \in [0..N -> Nat]
      /\ \A k \in 1..N : h[k] = h[k - 1] + ms[k].size
  BY TotalSteps
<1> HIDE DEF t
<1>4. /\ g \in [0..N - u -> Nat] /\ g[0] = 0
      /\ \A k \in 1..N - u : g[k] = g[k - 1] + t[k].size
  BY <1>2, TotalSteps
<1>5. \A k \in 1..N : ms[k].size \in Nat
  BY DEF Message, MessageFields
<1> HIDE DEF h, g, N
<1>6. 0 \in T
  <2>1. h[u] \in Nat /\ u + 0 = u
    BY <1>1, <1>3
  <2> QED
    BY <2>1, <1>1, <1>4
<1>7. ASSUME NEW k \in 1..N - u, k - 1 \in T PROVE k \in T
  <2>1. h[u] + g[k - 1] = h[u + (k - 1)]
    BY <1>7
  <2>2. g[k] = g[k - 1] + t[k].size /\ t[k] = ms[u + k]
    BY <1>2, <1>4
  <2>3. u + k \in 1..N /\ u + k - 1 = u + (k - 1)
    BY <1>1
  <2>4. h[u + k] = h[u + (k - 1)] + ms[u + k].size /\ ms[u + k].size \in Nat
    BY <2>3, <1>3, <1>5
  <2>5. h[u] \in Nat /\ g[k - 1] \in Nat /\ k \in 0..N - u
    BY <1>1, <1>3, <1>4
  <2>6. h[u] + g[k] = h[u + k]
    BY <2>1, <2>2, <2>4, <2>5
  <2> QED
    BY <2>5, <2>6
<1> HIDE DEF T
<1>8. \A k \in 0..N - u : k \in T
  BY <1>1, <1>6, <1>7, InductionUpTo
<1>9. N - u \in T /\ u + (N - u) = N
  BY <1>8, <1>1
<1>10. h[u] + g[N - u] = h[N]
  BY <1>9 DEF T
<1> QED
  BY <1>2, <1>10, SizeIs DEF h, g, t, N

(* A sequence of messages measures what is before one of them, that one,   *)
(* and what is after it measure.                                           *)
LEMMA SizeAround ==
    ASSUME NEW ms \in Seq(Message), NEW u \in 1..Len(ms)
    PROVE  Size(ms) = Size(SubSeq(ms, 1, u - 1)) + ms[u].size
                         + Size(SubSeq(ms, u + 1, Len(ms)))
<1>1. u - 1 \in 0..Len(ms) /\ u \in 0..Len(ms)
  OBVIOUS
<1>2. Size(SubSeq(ms, 1, u - 1)) = Total(ms)[u - 1]
  BY <1>1, TotalOfBeginning
<1>3. Total(ms)[u] = Total(ms)[u - 1] + ms[u].size
  BY TotalSteps
<1>4. Total(ms)[u] + Size(SubSeq(ms, u + 1, Len(ms))) = Size(ms)
  BY <1>1, TotalOfEnding
<1> QED
  BY <1>2, <1>3, <1>4
--------------------------------------------------------------------------------
(* What the usage of an answer says remains true.                          *)
LEMMA StayingSmaller ==
    ASSUME NEW ms \in Seq(Message), NEW keys, NEW more, keys \subseteq more
    PROVE  /\ Staying(ms, more) \subseteq Staying(ms, keys)
           /\ Staying(ms, keys) \subseteq Images(ms)
           /\ IsFiniteSet(Staying(ms, keys))
           /\ Weight(Staying(ms, more)) \in Nat /\ Weight(Staying(ms, keys)) \in Nat
           /\ Weight(Staying(ms, more)) <= Weight(Staying(ms, keys))
<1>1. Staying(ms, more) \subseteq Staying(ms, keys) /\ Staying(ms, keys) \subseteq Images(ms)
  BY DEF Staying
<1>2. IsFiniteSet(Staying(ms, keys))
  BY <1>1, ImagesFinite
<1> QED
  BY <1>1, <1>2, WeightGrows

LEMMA ReportsStill ==
    ASSUME NEW ms \in Seq(Message), NEW usage \in Nat, NEW keys, NEW more,
           keys \subseteq more, Reports(usage, ms, keys)
    PROVE  Reports(usage, ms, more)
<1>1. PICK a, b : a = Weight(Staying(ms, more)) /\ b = Weight(Staying(ms, keys))
  OBVIOUS
<1>2. a \in Nat /\ b \in Nat /\ a <= b
  BY <1>1, StayingSmaller
<1>3. usage >= Overhead + Len(ms) + b + 1 /\ usage <= Overhead + Size(ms) + 1
  BY <1>1 DEF Reports, Weight
<1>4. Len(ms) \in Nat /\ Overhead \in Nat
  BY OverheadAssumption
<1>5. usage >= Overhead + Len(ms) + a + 1
  BY <1>2, <1>3, <1>4
<1> QED
  BY <1>1, <1>3, <1>5 DEF Reports, Weight

LEMMA AnswerStillReports ==
    ASSUME Types, Types', AnswersReport, Forgotten \subseteq Forgotten',
           NEW i \in 1..Len(history), i <= Len(history'),
           \A j \in 1..i : history'[j] = history[j],
           Counts(history'[i], history')
    PROVE  Reports(history'[i].usage, Sanitized(SubSeq(history', 1, i - 1)), Forgotten')
<1>1. history \in Seq(Message) /\ history' \in Seq(Message)
  BY DEF Types
<1>2. 1 \in 1..i /\ i \in 1..i /\ i - 1 \in 0..Len(history) /\ i - 1 <= Len(history')
      /\ \A j \in 1..i - 1 : j \in 1..i
  BY <1>1
<1>3. history'[1] = history[1] /\ history'[i] = history[i]
  BY <1>2
<1>4. SubSeq(history, 1, i - 1) = SubSeq(history', 1, i - 1)
  <2>1. \A j \in 1..i - 1 : history[j] = history'[j]
    BY <1>2
  <2> QED
    BY <1>1, <1>2, <2>1, SameBeginning
<1>5. Counts(history[i], history)
  BY <1>3 DEF Counts
<1>6. Reports(history[i].usage, Sanitized(SubSeq(history, 1, i - 1)), Forgotten)
  BY <1>5 DEF AnswersReport
<1>7. Sanitized(SubSeq(history, 1, i - 1)) \in Seq(Message)
  BY <1>1, <1>2, Beginning, SanitizedType
<1>8. history[i].usage \in Nat
  <2>1. history[i] \in Message
    BY <1>1
  <2> QED
    BY <2>1 DEF Message, MessageFields
<1>9. Reports(history[i].usage, Sanitized(SubSeq(history, 1, i - 1)), Forgotten')
  BY <1>6, <1>7, <1>8, ReportsStill
<1> QED
  BY <1>3, <1>4, <1>9

(* A request that keeps what must stay: its answer reports.                *)
LEMMA RequestReports ==
    ASSUME NEW c \in Seq(Message), NEW s \in Seq(Message), NEW keys,
           Len(c) = Len(s), Images(c) \subseteq Images(s), Staying(s, keys) \subseteq Images(c)
    PROVE  Reports(Measure(c) + 1, s, keys)
<1>1. /\ IsFiniteSet(Images(c)) /\ Weight(Images(c)) \in Nat
      /\ Size(c) = Len(c) + Weight(Images(c))
  BY ImagesWeigh
<1>2. PICK w : w = Weight(Staying(s, keys))
  OBVIOUS
<1>3. w \in Nat /\ w <= Weight(Images(c))
  BY <1>1, <1>2, WeightGrows
<1>4. Size(c) <= Size(s) /\ Size(c) \in Nat /\ Size(s) \in Nat
  BY SmallerSize, MeasureType
<1>5. Len(s) \in Nat /\ Overhead \in Nat /\ Measure(c) = Overhead + Size(c)
  BY OverheadAssumption, MeasureType
<1>6. Measure(c) + 1 <= Overhead + Size(s) + 1
  BY <1>4, <1>5
<1>7. Measure(c) + 1 >= Overhead + Len(s) + w + 1
  BY <1>1, <1>3, <1>5
<1> QED
  BY <1>2, <1>6, <1>7 DEF Reports, Weight
LEMMA StreamSends ==
    ASSUME Types, Stream
    PROVE  /\ Len(request'.context) = Len(Sanitized(history))
           /\ Images(request'.context) \subseteq Images(Sanitized(history))
           /\ Staying(Sanitized(history), Forgotten') \subseteq Images(request'.context)
           /\ Forgotten \subseteq Forgotten'
<1>1. PICK s, c : s = Sanitized(history) /\ c = Limited(s)
  OBVIOUS
<1>2. /\ s \in Seq(Message) /\ c \in Seq(Message) /\ ScanInv(Scanned(s), s, 0)
      /\ omittedKeys' = Scanned(s).omitted /\ request'.context = c
  BY <1>1, StreamEffect
<1>3. omittedKeys \subseteq Image
  BY DEF Types, TypeOK
<1>4. Len(c) = Len(s) /\ Images(c) = Images(s) \ Scanned(s).drop
  BY <1>1, <1>2, <1>3, LimitedFacts
<1>5. history' = history /\ resumed' = resumed
  BY DEF Stream, ghostVars
<1>6. omittedKeys \subseteq omittedKeys'
  BY <1>2 DEF ScanInv
<1>7. Scanned(s).omitted \subseteq Image
  BY <1>2 DEF ScanInv, ScanState
<1>8. omittedKeys' \subseteq Image
  BY <1>2, <1>7
<1>9. \A k \in Scanned(s).drop : s[k].image \in omittedKeys' /\ ~Newest(k, s)
  BY <1>2 DEF ScanInv
<1>10. omittedKeys' \subseteq Forgotten'
  BY <1>8 DEF Forgotten
<1>11. ASSUME NEW k \in Staying(s, Forgotten') PROVE k \in Images(c)
  <2>1. k \in Images(s) /\ (s[k].image \in Forgotten' => Newest(k, s))
    BY DEF Staying
  <2>2. k \notin Scanned(s).drop
    BY <2>1, <1>9, <1>10
  <2> QED
    BY <2>1, <2>2, <1>4
<1>12. /\ Len(c) = Len(s) /\ Images(c) \subseteq Images(s)
       /\ Staying(s, Forgotten') \subseteq Images(c)
  BY <1>4, <1>11
<1>13. Forgotten \subseteq Forgotten'
  BY <1>5, <1>6 DEF Forgotten
<1> QED
  BY <1>1, <1>2, <1>12, <1>13

LEMMA TurnReports ==
    ASSUME Types, Types', UsageTrue, NEW end \in Ends, NEW usage \in Usages, NEW active,
           NEW toolImage \in Image \union {0}, Turn(end, usage, active, toolImage)
    PROVE  AnswersReport'
<1>1. /\ stage = "requesting" /\ omittedKeys' = omittedKeys /\ resumed' = resumed
  BY DEF Turn, TurnEnd
<1>2. usage \in Nat
  BY UsagesType
<1>3. TurnEnd(end, usage, active, toolImage)
  BY DEF Turn
<1>4. GrowsByTurn(Answer(end, usage))
  BY <1>2, <1>3, TurnGrows
<1>5. Answer(end, usage).usage = usage
  BY <1>2, AnswerType DEF Types, Request
<1>6. /\ history \in Seq(Message) /\ history' \in Seq(Message) /\ Len(history) \in Nat
      /\ Len(history') \in Nat /\ request.context \in Seq(Message)
  BY DEF Types, Request
<1>7. Forgotten' = Forgotten
  BY <1>1 DEF Forgotten
<1>8. /\ AnswersReport
      /\ Len(request.context) = Len(Sanitized(history))
      /\ Images(request.context) \subseteq Images(Sanitized(history))
      /\ Staying(Sanitized(history), Forgotten) \subseteq Images(request.context)
  BY <1>1 DEF UsageTrue, SentStays
<1>9. ASSUME NEW i \in 1..Len(history'), Counts(history'[i], history')
      PROVE  Reports(history'[i].usage, Sanitized(SubSeq(history', 1, i - 1)), Forgotten')
  <2>1. CASE i <= Len(history)
    <3>1. i \in 1..Len(history) /\ \A j \in 1..i : j \in 1..Len(history)
      BY <2>1, <1>6
    <3>2. \A j \in 1..i : history'[j] = history[j]
      BY <3>1, <1>4 DEF GrowsByTurn
    <3> QED
      BY <3>1, <3>2, <1>7, <1>8, <1>9, <1>6, AnswerStillReports
  <2>2. CASE i = Len(history) + 1
    <3>1. history'[i] = Answer(end, usage)
      BY <2>2, <1>4 DEF GrowsByTurn
    <3>2. usage = Measure(request.context) + 1
      BY <3>1, <1>5, <1>9 DEF Counts, Usages
    <3>3. SubSeq(history', 1, Len(history)) = SubSeq(history, 1, Len(history))
      <4>1. Len(history) \in 0..Len(history) /\ Len(history) <= Len(history')
        BY <1>6, <1>4 DEF GrowsByTurn
      <4>2. \A j \in 1..Len(history) : history[j] = history'[j]
        BY <1>4 DEF GrowsByTurn
      <4> QED
        BY <4>1, <4>2, <1>6, SameBeginning
    <3>4. SubSeq(history', 1, i - 1) = history
      <4>1. i - 1 = Len(history)
        BY <2>2, <1>6
      <4> QED
        BY <4>1, <3>3, <1>6, WholeBeginning
    <3>5. Sanitized(history) \in Seq(Message)
      BY <1>6, SanitizedType
    <3>6. Reports(Measure(request.context) + 1, Sanitized(history), Forgotten)
      BY <3>5, <1>6, <1>8, RequestReports
    <3> QED
      BY <3>1, <3>2, <3>4, <3>6, <1>5, <1>7
  <2>3. CASE i > Len(history) + 1
    <3>1. history'[i].role = "input"
      BY <2>3, <1>4 DEF GrowsByTurn
    <3> QED
      BY <3>1, <1>9 DEF Counts
  <2> QED
    BY <2>1, <2>2, <2>3, <1>6
<1> QED
  BY <1>9 DEF AnswersReport

LEMMA NothingSanitized == Len(Sanitized(<<>>)) = 0 /\ Images(Sanitized(<<>>)) = {}
<1>1. <<>> \in Seq(Message) /\ Len(<<>>) = 0
  OBVIOUS
<1>2. Sanitized(<<>>) = <<>>
  BY <1>1, SanitizedIs, SentSteps
<1> QED
  BY <1>2 DEF Images

LEMMA UsageNext ==
    ASSUME Types, Types', HistoryInOrder, UsageTrue, [Next]_vars
    PROVE  UsageTrue'
<1>1. /\ AnswersReport
      /\ stage = "requesting" => SentStays(request.context, Sanitized(history))
  BY DEF UsageTrue
<1>2. /\ history \in Seq(Message) /\ history' \in Seq(Message)
      /\ Len(history) \in Nat /\ Len(history') \in Nat
      /\ omittedKeys \subseteq Image
  BY DEF Types, TypeOK
<1>3. ASSUME Forgotten \subseteq Forgotten', Len(history) <= Len(history'),
             \A i \in 1..Len(history) : history'[i] = history[i],
             \A i \in 1..Len(history') : i > Len(history) => history'[i].role = "input"
      PROVE  AnswersReport'
  <2>1. ASSUME NEW i \in 1..Len(history'), Counts(history'[i], history')
        PROVE  Reports(history'[i].usage, Sanitized(SubSeq(history', 1, i - 1)), Forgotten')
    <3>1. history'[i].role = "assistant"
      BY <2>1 DEF Counts
    <3>2. i <= Len(history)
      BY <3>1, <1>2, <1>3
    <3>3. i \in 1..Len(history) /\ i <= Len(history') /\ \A j \in 1..i : j \in 1..Len(history)
      BY <3>2, <1>2
    <3>4. \A j \in 1..i : history'[j] = history[j]
      BY <3>3, <1>3
    <3> QED
      BY <3>3, <3>4, <1>1, <1>3, <2>1, AnswerStillReports
  <2> QED
    BY <2>1 DEF AnswersReport
<1>4. ASSUME history' = history, omittedKeys' = omittedKeys, resumed' = resumed
      PROVE  AnswersReport'
  BY <1>1, <1>4 DEF AnswersReport, Forgotten
<1>5. CASE UNCHANGED vars
  <2>1. /\ history' = history /\ omittedKeys' = omittedKeys /\ resumed' = resumed
        /\ stage' = stage /\ request' = request
    BY <1>5 DEF vars, hostVars, ghostVars
  <2> QED
    BY <2>1, <1>1, <1>4 DEF UsageTrue, SentStays, Forgotten
<1>6. CASE Tick
  <2>1. /\ history' = history /\ omittedKeys' = omittedKeys /\ resumed' = resumed
        /\ stage' = stage /\ request' = request
    BY <1>6 DEF Tick, ghostVars
  <2> QED
    BY <2>1, <1>1, <1>4 DEF UsageTrue, SentStays, Forgotten
<1>7. CASE Stream
  <2>1. history' = history
    BY <1>7 DEF Stream
  <2>2. /\ Len(request'.context) = Len(Sanitized(history))
        /\ Images(request'.context) \subseteq Images(Sanitized(history))
        /\ Staying(Sanitized(history), Forgotten') \subseteq Images(request'.context)
        /\ Forgotten \subseteq Forgotten'
    BY <1>7, StreamSends
  <2>3. \A i \in 1..Len(history') : ~(i > Len(history))
    BY <2>1, <1>2
  <2>4. AnswersReport'
    <3>1. Len(history) <= Len(history')
      BY <2>1, <1>2
    <3> QED
      BY <3>1, <2>1, <2>2, <2>3, <1>3
  <2> QED
    BY <2>1, <2>2, <2>4 DEF UsageTrue, SentStays
<1>8. CASE TooLargeEarly
  <2>1. /\ request' = [request EXCEPT !.store = FALSE, !.rejected = TRUE]
        /\ omittedKeys' = omittedKeys /\ resumed' = resumed
        /\ history' = history /\ stage' = stage
    BY <1>8 DEF TooLargeEarly, hostVars
  <2>2. request'.context = request.context
    BY <2>1, Rejecting DEF Types
  <2> QED
    BY <2>1, <2>2, <1>1, <1>4 DEF UsageTrue, SentStays, Forgotten
<1>9. CASE ClearSession
  <2>1. /\ history' = history /\ stage' = stage /\ resumed' = (history # <<>>)
        /\ request' = [request EXCEPT !.omitted = {}]
    BY <1>9 DEF ClearSession, hostVars
  <2>2. request'.context = request.context
    BY <2>1, Clearing DEF Types
  <2>3. CASE history = <<>>
    <3>1. Len(history') = 0
      BY <2>1, <2>3
    <3>2. AnswersReport'
      BY <3>1 DEF AnswersReport
    <3>3. Images(Sanitized(history)) = {}
      BY <2>3, NothingSanitized
    <3>4. Staying(Sanitized(history), Forgotten') = {}
      BY <3>3 DEF Staying
    <3>5. stage = "requesting" => SentStays(request.context, Sanitized(history))'
      BY <1>1, <2>1, <2>2, <3>4 DEF SentStays
    <3> QED
      BY <3>2, <3>5, <2>1 DEF UsageTrue
  <2>4. CASE history # <<>>
    <3>1. Forgotten \subseteq Forgotten'
      BY <2>1, <2>4, <1>2 DEF Forgotten
    <3>2. \A i \in 1..Len(history') : ~(i > Len(history))
      BY <2>1, <1>2
    <3>3. AnswersReport'
      BY <3>1, <3>2, <2>1, <1>2, <1>3
    <3>4. Staying(Sanitized(history), Forgotten') \subseteq Staying(Sanitized(history), Forgotten)
      BY <3>1 DEF Staying
    <3>5. stage = "requesting" => SentStays(request.context, Sanitized(history))'
      BY <1>1, <2>1, <2>2, <3>4 DEF SentStays
    <3> QED
      BY <3>3, <3>5, <2>1 DEF UsageTrue
  <2> QED
    BY <2>3, <2>4
<1>10. ASSUME NEW image \in Image \union {0}, Prompt(image) PROVE UsageTrue'
  <2>1. /\ history' \in Seq(Message) /\ Len(history') = Len(history) + 1
        /\ \A i \in 1..Len(history) : history'[i] = history[i]
        /\ history'[Len(history) + 1].role = "input"
    BY <1>10, PromptGrows
  <2>2. stage' = "ready" /\ omittedKeys' = omittedKeys /\ resumed' = resumed
    BY <1>10 DEF Prompt
  <2>3. Len(history) <= Len(history') /\ Forgotten' = Forgotten
    BY <2>1, <2>2, <1>2 DEF Forgotten
  <2>4. \A i \in 1..Len(history') : i > Len(history) => i = Len(history) + 1
    BY <2>1, <1>2
  <2>5. AnswersReport'
    BY <2>1, <2>3, <2>4, <1>3
  <2> QED
    BY <2>2, <2>5 DEF UsageTrue
<1>11. ASSUME NEW end \in Ends, NEW usage \in Usages, NEW active \in BOOLEAN,
              NEW toolImage \in Image \union {0}, Turn(end, usage, active, toolImage)
       PROVE  UsageTrue'
  <2>1. AnswersReport'
    BY <1>11, TurnReports
  <2>2. stage' # "requesting"
    BY <1>11 DEF Turn, TurnEnd
  <2> QED
    BY <2>1, <2>2 DEF UsageTrue
<1>12. ASSUME NEW n \in 1..Len(history), Compact(n) PROVE UsageTrue'
  <2>1. stage' # "requesting"
    BY <1>12 DEF Compact
  <2>2. /\ history'[1].role = "summary" /\ history'[1].at = now
        /\ \A i \in 1..Len(history') :
              i # 1 => \E k \in 2..Len(history) : history'[i] = history[k]
    BY <1>12, CompactHistory
  <2>3. \A k \in 1..Len(history) : history[k].at <= now /\ history[k].at \in Nat
    <3>1. \A k \in 1..Len(history) : history[k] \in Message
      BY <1>2
    <3> QED
      BY <3>1 DEF HistoryInOrder, Message, MessageFields
  <2>4. now \in Nat
    BY MaxTimeAssumption DEF Types, TypeOK
  <2>5. ASSUME NEW i \in 1..Len(history') PROVE ~Counts(history'[i], history')
    <3>1. CASE i = 1
      BY <3>1, <2>2 DEF Counts
    <3>2. CASE i # 1
      <4>1. PICK k \in 2..Len(history) : history'[i] = history[k]
        BY <3>2, <2>2
      <4>2. k \in 1..Len(history)
        BY <1>2
      <4>3. history'[i].at <= now /\ history'[i].at \in Nat
        BY <4>1, <4>2, <2>3
      <4>4. ~(history'[i].at > now)
        BY <4>3, <2>4
      <4> QED
        BY <4>4, <2>2 DEF Counts
    <3> QED
      BY <3>1, <3>2
  <2>6. AnswersReport'
    BY <2>5 DEF AnswersReport
  <2> QED
    BY <2>1, <2>6 DEF UsageTrue
<1>13. ASSUME NEW n \in 1..Len(history), GoBack(n) PROVE UsageTrue'
  <2>1. /\ Len(history') = n /\ \A i \in 1..n : history'[i] = history[i]
    BY <1>13, GoBackHistory
  <2>2. stage' = "idle" /\ omittedKeys' = omittedKeys /\ resumed' = resumed
    BY <1>13 DEF GoBack, ghostVars
  <2>3. Forgotten' = Forgotten
    BY <2>2 DEF Forgotten
  <2>4. ASSUME NEW i \in 1..Len(history'), Counts(history'[i], history')
        PROVE  Reports(history'[i].usage, Sanitized(SubSeq(history', 1, i - 1)), Forgotten')
    <3>1. i \in 1..Len(history) /\ i <= Len(history') /\ \A j \in 1..i : j \in 1..n
      BY <2>1, <1>2
    <3>2. \A j \in 1..i : history'[j] = history[j]
      BY <3>1, <2>1
    <3> QED
      BY <3>1, <3>2, <1>1, <2>3, <2>4, AnswerStillReports
  <2>5. AnswersReport'
    BY <2>4 DEF AnswersReport
  <2> QED
    BY <2>2, <2>5 DEF UsageTrue
<1> QED
  BY <1>5, <1>6, <1>7, <1>8, <1>9, <1>10, <1>11, <1>12, <1>13, NextCases

--------------------------------------------------------------------------------
(* What the estimate of a context is worth.                                *)
LEMMA ImagesOfBeginning ==
    ASSUME NEW ms \in Seq(Message), NEW n \in 0..Len(ms)
    PROVE  Images(SubSeq(ms, 1, n)) = {k \in Images(ms) : k <= n}
<1>1. /\ SubSeq(ms, 1, n) \in Seq(Message) /\ Len(SubSeq(ms, 1, n)) = n
      /\ \A i \in 1..n : SubSeq(ms, 1, n)[i] = ms[i]
  BY Beginning
<1>2. DOMAIN ms = 1..Len(ms) /\ DOMAIN SubSeq(ms, 1, n) = 1..n /\ Len(ms) \in Nat
  BY <1>1
<1>3. \A k : k \in 1..n <=> k \in 1..Len(ms) /\ k <= n
  BY <1>2
<1>4. \A k : k \in Images(SubSeq(ms, 1, n)) <=> k \in 1..n /\ SubSeq(ms, 1, n)[k].image # 0
  BY <1>2 DEF Images
<1>5. \A k : k \in Images(ms) <=> k \in 1..Len(ms) /\ ms[k].image # 0
  BY <1>2 DEF Images
<1> QED
  BY <1>1, <1>3, <1>4, <1>5

LEMMA SmallerEnding ==
    ASSUME NEW a \in Seq(Message), NEW b \in Seq(Message), Len(a) = Len(b),
           Images(a) \subseteq Images(b), NEW u \in 0..Len(a)
    PROVE  /\ Size(SubSeq(a, u + 1, Len(a))) \in Nat /\ Size(SubSeq(b, u + 1, Len(b))) \in Nat
           /\ Size(SubSeq(a, u + 1, Len(a))) <= Size(SubSeq(b, u + 1, Len(b)))
<1>1. PICK x, y : x = SubSeq(a, u + 1, Len(a)) /\ y = SubSeq(b, u + 1, Len(b))
  OBVIOUS
<1>2. PICK N : N = Len(a) /\ N = Len(b) /\ N \in Nat
  OBVIOUS
<1>3. /\ x \in Seq(Message) /\ Len(x) = N - u /\ \A j \in 1..N - u : x[j] = a[u + j]
      /\ y \in Seq(Message) /\ Len(y) = N - u /\ \A j \in 1..N - u : y[j] = b[u + j]
  BY <1>1, <1>2, Ending
<1>4. u \in Nat /\ u <= N
  BY <1>2
<1>5. ASSUME NEW j \in Images(x) PROVE j \in Images(y)
  <2>1. j \in 1..N - u /\ x[j].image # 0
    BY <1>3 DEF Images
  <2>2. u + j \in 1..N /\ DOMAIN a = 1..N
    BY <2>1, <1>2, <1>4
  <2>3. u + j \in Images(a)
    BY <2>1, <2>2, <1>3 DEF Images
  <2>4. b[u + j].image # 0
    BY <2>3 DEF Images
  <2> QED
    BY <2>1, <2>4, <1>3 DEF Images
<1>6. Size(x) <= Size(y) /\ Size(x) \in Nat /\ Size(y) \in Nat
  BY <1>3, <1>5, SmallerSize, MeasureType
<1> QED
  BY <1>1, <1>6

(* The context is the history without failures and some screenshots.       *)
LEMMA ContextFacts ==
    ASSUME Types, NEW s, s = Sanitized(history), NEW c, c = Limited(s)
    PROVE  /\ s \in Seq(Message) /\ c \in Seq(Message) /\ Len(c) = Len(s)
           /\ \A i \in 1..Len(s) :
                 /\ c[i].role = s[i].role /\ c[i].at = s[i].at
                 /\ c[i].usage = s[i].usage
                 /\ c[i].role = "assistant" => ~c[i].failed
           /\ Images(c) \subseteq Images(s)
           /\ \A k \in Images(s) \ Images(c) : ~Newest(k, s)
           /\ \A k \in Images(c) : s[k].image \in omittedKeys => Newest(k, s)
<1>1. history \in Seq(Message) /\ omittedKeys \subseteq Image
  BY DEF Types, TypeOK
<1>2. s \in Seq(Message)
  BY <1>1, SanitizedType
<1>3. /\ c \in Seq(Message) /\ Len(c) = Len(s)
      /\ \A i \in 1..Len(s) :
            /\ c[i].role = s[i].role /\ c[i].at = s[i].at
            /\ c[i].usage = s[i].usage /\ c[i].failed = s[i].failed
      /\ Images(c) = Images(s) \ Scanned(s).drop
  BY <1>1, <1>2, LimitedFacts
<1>4. ASSUME NEW i \in 1..Len(s) PROVE ~Dropped(s[i])
  <2>1. i \in 1..Len(Sanitized(history))
    OBVIOUS
  <2>2. \E k \in 1..Len(history) : ComesFrom(i, Sanitized(history), k, history)
    BY <1>1, <2>1, SanitizedOrigin
  <2> QED
    BY <2>2 DEF ComesFrom
<1>5. ScanInv(Scanned(s), s, 0)
  BY <1>1, <1>2, ScannedFacts
<1>6. \A k \in Images(s) \ Images(c) : ~Newest(k, s)
  BY <1>3, <1>5 DEF ScanInv
<1>7. ASSUME NEW k \in Images(c), s[k].image \in omittedKeys PROVE Newest(k, s)
  <2>1. k \in Images(s) /\ k \notin Scanned(s).drop /\ k > 0
    <3>1. k \in Images(s) /\ k \notin Scanned(s).drop
      BY <1>3
    <3>2. k \in 1..Len(s)
      BY <3>1, <1>2, ImagesFinite
    <3> QED
      BY <3>1, <3>2
  <2>2. k \in Seen(s, 0) \ Scanned(s).drop
    BY <2>1 DEF Seen
  <2> QED
    BY <2>2, <1>5, <1>7 DEF ScanInv
<1>8. \A i \in 1..Len(s) : c[i].role = "assistant" => ~c[i].failed
  BY <1>3, <1>4 DEF Dropped
<1> QED
  BY <1>2, <1>3, <1>6, <1>7, <1>8
(* The assistant whose usage the estimate starts from, if there is one,    *)
(* is an answer of the history that counts.                                *)
Reporting(c) ==
    {i \in DOMAIN c : /\ i > LatestCompaction(c)
                      /\ c[i].role = "assistant" /\ ~c[i].failed
                      /\ IsAfterCompaction(c[i], c) /\ c[i].usage > 0}

LEMMA EstimateOfContext ==
    ASSUME Types, HistoryInOrder, NEW s, s = Sanitized(history), NEW c, c = Limited(s),
           NEW u, u = LatestUsage(c)
    PROVE  /\ u = 0 => EstimateStoredRequest(c, Measure(c)) = Measure(c)
           /\ u # 0 => /\ u \in Reporting(c)
                       /\ EstimateStoredRequest(c, Measure(c)) =
                             c[u].usage + Size(SubSeq(c, u + 1, Len(c)))
<1>1. /\ s \in Seq(Message) /\ c \in Seq(Message) /\ Len(c) = Len(s)
      /\ \A i \in 1..Len(s) : c[i].role = "assistant" => ~c[i].failed
  BY ContextFacts
<1>2. DOMAIN c = 1..Len(c) /\ Len(c) \in Nat
  BY <1>1
<1>3. u = LatestOf(Reporting(c))
  BY DEF LatestUsage, Reporting
<1>4. Reporting(c) = {k \in DOMAIN c : /\ k > LatestCompaction(c)
                                       /\ c[k].role = "assistant"
                                       /\ IsAfterCompaction(c[k], c) /\ c[k].usage > 0}
  BY <1>1, <1>2 DEF Reporting
<1>5. UsageFloor(c) = IF u = 0 THEN 0 ELSE c[u].usage
  BY <1>3, <1>4 DEF UsageFloor
<1>6. Reporting(c) # {} => u \in Reporting(c)
  <2>1. Reporting(c) \in SUBSET (1..Len(c))
    BY <1>2 DEF Reporting
  <2> QED
    BY <2>1, <1>2, <1>3, LatestOfIn
<1>7. u # 0 => u \in Reporting(c)
  BY <1>3, <1>6 DEF LatestOf
<1>8. CASE u = 0
  <2>1. LatestCompaction(c) = 0 \/ LatestCompaction(c) = 1
    BY ContextCompaction
  <2>2. (IF LatestCompaction(c) = 0 THEN 1 ELSE LatestCompaction(c)) = 1
    BY <2>1
  <2>3. SubSeq(c, 1, Len(c)) = c
    BY <1>1, WholeBeginning
  <2>4. Size(c) \in Nat /\ Measure(c) = Overhead + Size(c) /\ Overhead \in Nat
    BY <1>1, MeasureType, OverheadAssumption
  <2>5. EstimateContext(c) = IF Size(c) >= 0 THEN Size(c) ELSE 0
    BY <1>5, <1>8, <2>2, <2>3 DEF EstimateContext
  <2>6. EstimateContext(c) = Size(c)
    BY <2>4, <2>5
  <2>7. EstimateStoredRequest(c, Measure(c)) =
           IF EstimateContext(c) >= Measure(c) THEN EstimateContext(c) ELSE Measure(c)
    BY <1>8 DEF EstimateStoredRequest
  <2>8. EstimateStoredRequest(c, Measure(c)) =
           IF Size(c) >= Overhead + Size(c) THEN Size(c) ELSE Overhead + Size(c)
    BY <2>4, <2>6, <2>7
  <2>9. EstimateStoredRequest(c, Measure(c)) = Overhead + Size(c)
    BY <2>4, <2>8
  <2> QED
    BY <1>8, <2>4, <2>9
<1>9. CASE u # 0
  <2>1. u \in Reporting(c) /\ u \in 1..Len(c)
    BY <1>2, <1>7, <1>9 DEF Reporting
  <2>2. c[u] \in Message
    BY <2>1, <1>1
  <2>3. c[u].usage \in Nat
    BY <2>2 DEF Message, MessageFields
  <2>4. Size(SubSeq(c, u + 1, Len(c))) \in Nat
    <3>1. u \in 0..Len(c)
      BY <2>1
    <3>2. SubSeq(c, u + 1, Len(c)) \in Seq(Message)
      BY <1>1, <3>1, Ending
    <3> QED
      BY <3>2, MeasureType
  <2>5. EstimateContext(c) =
           IF c[u].usage + Size(SubSeq(c, u + 1, Len(c))) >= c[u].usage
           THEN c[u].usage + Size(SubSeq(c, u + 1, Len(c))) ELSE c[u].usage
    BY <1>5, <1>9 DEF EstimateContext
  <2>6. EstimateContext(c) = c[u].usage + Size(SubSeq(c, u + 1, Len(c)))
    BY <2>3, <2>4, <2>5
  <2>7. EstimateStoredRequest(c, Measure(c)) = EstimateContext(c)
    BY <1>9 DEF EstimateStoredRequest
  <2> QED
    BY <1>9, <2>1, <2>6, <2>7
<1> QED
  BY <1>8, <1>9

LEMMA UsageOrigin ==
    ASSUME Types, HistoryInOrder, AnswersReport,
           NEW s, s = Sanitized(history), NEW c, c = Limited(s), NEW u \in Reporting(c)
    PROVE  /\ u \in 1..Len(s) /\ s[u] \in Message /\ s[u].role = "assistant"
           /\ SubSeq(s, 1, u - 1) \in Seq(Message)
           /\ Len(SubSeq(s, 1, u - 1)) = u - 1
           /\ Reports(c[u].usage, SubSeq(s, 1, u - 1), Forgotten)
<1>1. /\ s \in Seq(Message) /\ c \in Seq(Message) /\ Len(c) = Len(s)
      /\ \A i \in 1..Len(s) :
            c[i].role = s[i].role /\ c[i].at = s[i].at /\ c[i].usage = s[i].usage
  BY ContextFacts
<1>2. u \in 1..Len(s) /\ u - 1 \in 0..Len(s)
  BY <1>1 DEF Reporting
<1>3. s[u].role = "assistant" /\ s[u].usage > 0 /\ c[u].usage = s[u].usage
      /\ IsAfterCompaction(c[u], c) /\ c[u].at = s[u].at
  BY <1>1, <1>2 DEF Reporting
<1>4. PICK i \in 1..Len(history) : ComesFrom(u, s, i, history)
  BY <1>2, SanitizedOrigin DEF Types
<1>5. s[u] = history[i] /\ SubSeq(s, 1, u - 1) = Sent(history)[i - 1]
  BY <1>4 DEF ComesFrom
<1>6. SubSeq(s, 1, u - 1) = Sanitized(SubSeq(history, 1, i - 1))
  <2>1. history \in Seq(Message) /\ i - 1 \in 0..Len(history)
    BY DEF Types
  <2> QED
    BY <2>1, <1>5, SentOfBeginning
<1>7. ASSUME history[1].role = "summary" PROVE history[i].at > history[1].at
  <2>1. Summarised
    <3>1. Len(history) # 0
      <4>1. Len(history) \in Nat
        BY DEF Types
      <4> QED
        BY <4>1
    <3> QED
      BY <3>1, <1>7 DEF Summarised
  <2>2. LatestCompaction(c) = 1 /\ CompactionTime(c) = history[1].at
    BY <2>1, ContextCompaction
  <2>3. c[u].at > CompactionTime(c)
    BY <2>2, <1>3 DEF IsAfterCompaction
  <2> QED
    BY <2>2, <2>3, <1>3, <1>5
<1>8. Counts(history[i], history)
  BY <1>3, <1>5, <1>7 DEF Counts
<1>9. Reports(history[i].usage, Sanitized(SubSeq(history, 1, i - 1)), Forgotten)
  BY <1>8 DEF AnswersReport
<1>10. s[u] \in Message
  BY <1>1, <1>2
<1>11. SubSeq(s, 1, u - 1) \in Seq(Message) /\ Len(SubSeq(s, 1, u - 1)) = u - 1
  BY <1>1, <1>2, Beginning
<1> QED
  BY <1>2, <1>3, <1>5, <1>6, <1>9, <1>10, <1>11

(* What is sent before an answer was sent for it, or has come back.        *)
LEMMA SentBefore ==
    ASSUME Types, NEW s, s = Sanitized(history), NEW c, c = Limited(s), NEW n \in 0..Len(s)
    PROVE  Images(SubSeq(c, 1, n)) \subseteq
              Staying(SubSeq(s, 1, n), Forgotten) \union (IF resumed THEN OlderImages(c) ELSE {})
<1>1. /\ s \in Seq(Message) /\ c \in Seq(Message) /\ Len(c) = Len(s)
      /\ Images(c) \subseteq Images(s)
      /\ \A k \in Images(s) \ Images(c) : ~Newest(k, s)
      /\ \A k \in Images(c) : s[k].image \in omittedKeys => Newest(k, s)
  BY ContextFacts
<1>2. Images(s) \subseteq 1..Len(s) /\ n \in Nat /\ Len(s) \in Nat
  <2>1. n \in Nat /\ Len(s) \in Nat
    BY <1>1
  <2> QED
    BY <2>1, <1>1, ImagesFinite
<1>3. /\ Images(SubSeq(c, 1, n)) = {k \in Images(c) : k <= n}
      /\ Images(SubSeq(s, 1, n)) = {k \in Images(s) : k <= n}
  BY <1>1, ImagesOfBeginning
<1>4. \A i \in 1..n : SubSeq(s, 1, n)[i] = s[i]
  BY <1>1, Beginning
<1>5. \A k \in Images(s) : Newest(k, s) => Newest(k, SubSeq(s, 1, n))
  BY <1>3 DEF Newest
<1>6. ASSUME NEW k \in Images(SubSeq(c, 1, n)),
             ~(resumed /\ k \in OlderImages(c))
      PROVE  k \in Staying(SubSeq(s, 1, n), Forgotten)
  <2>1. k \in Images(c) /\ k <= n /\ k \in Images(s) /\ k \in Images(SubSeq(s, 1, n))
    BY <1>1, <1>3
  <2>2. SubSeq(s, 1, n)[k] = s[k]
    <3>1. k \in 1..n
      BY <2>1, <1>2
    <3> QED
      BY <3>1, <1>4
  <2>3. CASE resumed
    <3>1. k \notin OlderImages(c)
      BY <1>6, <2>3
    <3>2. \A j \in Images(c) : ~(j > k)
      BY <2>1, <3>1 DEF OlderImages
    <3>3. Images(s) \in SUBSET (1..Len(s)) /\ Images(s) # {}
      BY <1>2, <2>1
    <3>4. PICK m : m = LatestOf(Images(s))
      OBVIOUS
    <3>5. m \in Images(s) /\ \A j \in Images(s) : j <= m
      BY <1>2, <3>3, <3>4, LatestOfIn
    <3>6. m \in Images(c)
      BY <3>5, <1>1 DEF Newest
    <3>7. ~(m > k) /\ k <= m /\ m \in Nat /\ k \in Nat
      BY <3>2, <3>5, <3>6, <2>1, <1>2
    <3>8. m = k
      BY <3>7
    <3>9. Newest(k, s)
      BY <3>5, <3>8 DEF Newest
    <3> QED
      BY <2>1, <3>9, <1>5 DEF Staying
  <2>4. CASE ~resumed
    <3>1. s[k].image \in omittedKeys => Newest(k, SubSeq(s, 1, n))
      BY <2>1, <1>1, <1>5
    <3> QED
      BY <2>1, <2>2, <2>4, <3>1 DEF Staying, Forgotten
  <2> QED
    BY <2>3, <2>4
<1> QED
  BY <1>6
LEMMA EstimateBounds ==
    ASSUME Types, HistoryInOrder, AnswersReport,
           NEW s, s = Sanitized(history), NEW c, c = Limited(s)
    PROVE  LET estimate == EstimateStoredRequest(c, Measure(c))
           IN  /\ estimate \in Nat /\ Measure(c) \in Nat /\ Measure(s) \in Nat
               /\ estimate <= Measure(s)
               /\ Measure(c) <= estimate + (IF resumed THEN Weight(OlderImages(c)) ELSE 0)
<1>1. /\ s \in Seq(Message) /\ c \in Seq(Message) /\ Len(c) = Len(s)
      /\ Images(c) \subseteq Images(s)
      /\ \A i \in 1..Len(s) : c[i].role = s[i].role /\ c[i].usage = s[i].usage
  BY ContextFacts
<1>2. /\ Size(s) \in Nat /\ Measure(s) = Overhead + Size(s) /\ Overhead \in Nat
      /\ Size(c) \in Nat /\ Measure(c) = Overhead + Size(c)
  BY <1>1, MeasureType, OverheadAssumption
<1>3. PICK ret : ret = IF resumed THEN Weight(OlderImages(c)) ELSE 0
  OBVIOUS
<1>4. IsFiniteSet(OlderImages(c)) /\ Weight(OlderImages(c)) \in Nat
  <2>1. OlderImages(c) \in SUBSET Images(c)
    BY DEF OlderImages
  <2>2. IsFiniteSet(OlderImages(c))
    BY <1>1, <2>1, ImagesFinite
  <2> QED
    BY <2>2, WeightGrows
<1>5. ret \in Nat
  BY <1>3, <1>4
<1>6. PICK u, e : u = LatestUsage(c) /\ e = EstimateStoredRequest(c, Measure(c))
  OBVIOUS
<1>7. CASE u = 0
  <2>1. e = Measure(c)
    BY <1>6, <1>7, EstimateOfContext
  <2>2. Size(c) <= Size(s)
    BY <1>1, SmallerSize
  <2>3. e \in Nat /\ e <= Measure(s) /\ Measure(c) <= e + ret
    BY <2>1, <2>2, <1>2, <1>5
  <2> QED
    BY <2>3, <1>2, <1>3, <1>6
<1>8. CASE u # 0
  <2>1. u \in Reporting(c) /\ e = c[u].usage + Size(SubSeq(c, u + 1, Len(c)))
    BY <1>6, <1>8, EstimateOfContext
  <2>2. PICK p, q, x, y : /\ p = SubSeq(s, 1, u - 1) /\ q = SubSeq(c, 1, u - 1)
                          /\ x = Size(SubSeq(s, u + 1, Len(s)))
                          /\ y = Size(SubSeq(c, u + 1, Len(c)))
    OBVIOUS
  <2>3. /\ u \in 1..Len(s) /\ s[u] \in Message /\ s[u].role = "assistant"
        /\ p \in Seq(Message) /\ Len(p) = u - 1
        /\ Reports(c[u].usage, p, Forgotten)
    BY <2>1, <2>2, UsageOrigin
  <2>4. u - 1 \in 0..Len(s) /\ u \in 0..Len(s) /\ u \in 1..Len(c) /\ u - 1 \in Nat
        /\ u - 1 \in 0..Len(c) /\ u \in 0..Len(c)
    BY <2>3, <1>1
  <2>5. /\ x \in Nat /\ y \in Nat /\ y <= x
    BY <2>2, <2>4, <1>1, SmallerEnding
  <2>6. s[u].size = 1
    BY <2>3 DEF Message
  <2>7. c[u] \in Message /\ c[u].role = "assistant"
    BY <1>1, <2>3, <2>4
  <2>8. c[u].size = 1 /\ c[u].usage \in Nat
    BY <2>7 DEF Message, MessageFields
  <2>9. q \in Seq(Message) /\ Len(q) = u - 1
    BY <1>1, <2>2, <2>4, Beginning
  <2>10. Size(s) = Size(p) + s[u].size + x /\ Size(c) = Size(q) + c[u].size + y
    <3>1. Size(s) = Size(p) + s[u].size + x
      BY <1>1, <2>2, <2>3, SizeAround
    <3>2. Size(c) = Size(q) + c[u].size + y
      BY <1>1, <2>2, <2>4, SizeAround
    <3> QED
      BY <3>1, <3>2
  <2>11. Size(p) \in Nat /\ Size(q) \in Nat
    BY <2>3, <2>9, MeasureType
  <2>12. PICK k, w : k = c[u].usage /\ w = Weight(Staying(p, Forgotten))
    OBVIOUS
  <2>13. k \in Nat /\ k <= Overhead + Size(p) + 1 /\ k >= Overhead + (u - 1) + w + 1
    BY <2>3, <2>8, <2>12 DEF Reports, Weight
  <2>14. IsFiniteSet(Staying(p, Forgotten)) /\ w \in Nat
    BY <2>3, <2>12, StayingSmaller
  <2>15. Weight(Images(q)) \in Nat /\ Weight(Images(q)) <= w + ret
    <3>1. PICK back : back = IF resumed THEN OlderImages(c) ELSE {}
      OBVIOUS
    <3>2. Images(q) \subseteq Staying(p, Forgotten) \union back
      BY <2>2, <2>4, <3>1, SentBefore
    <3>3. IsFiniteSet(back)
      BY <3>1, <1>4, FS_EmptySet
    <3>4. IsFiniteSet(Staying(p, Forgotten) \union back)
      BY <3>3, <2>14, FS_Union
    <3>5. /\ Weight(Images(q)) \in Nat /\ Weight(Staying(p, Forgotten) \union back) \in Nat
          /\ Weight(Images(q)) <= Weight(Staying(p, Forgotten) \union back)
      BY <3>2, <3>4, WeightGrows
    <3>6. Weight(Staying(p, Forgotten) \union back) <= w + Weight(back)
      BY <3>3, <2>12, <2>14, WeightOfUnion
    <3>7. Weight(back) = ret
      <4>1. CASE resumed
        BY <4>1, <3>1, <1>3
      <4>2. CASE ~resumed
        <5>1. back = {} /\ ret = 0
          BY <4>2, <3>1, <1>3
        <5>2. Cardinality({}) = 0
          BY FS_EmptySet
        <5>3. ImageSize * 0 = 0
          BY ImageSizeAssumption
        <5> QED
          BY <5>1, <5>2, <5>3 DEF Weight
      <4> QED
        BY <4>1, <4>2
    <3>8. PICK a, b : a = Weight(Images(q)) /\ b = Weight(Staying(p, Forgotten) \union back)
      OBVIOUS
    <3>9. a \in Nat /\ b \in Nat /\ a <= b /\ b <= w + ret
      BY <3>5, <3>6, <3>7, <3>8
    <3>10. a <= w + ret
      BY <3>9, <2>14, <1>5
    <3> QED
      BY <3>8, <3>9, <3>10
  <2>16. Size(q) = (u - 1) + Weight(Images(q))
    BY <2>9, ImagesWeigh
  <2>17. PICK a : a = Weight(Images(q))
    OBVIOUS
  <2>18. a \in Nat /\ a <= w + ret /\ Size(q) = (u - 1) + a
    BY <2>15, <2>16, <2>17
  <2>19. Size(c) = Size(q) + 1 + y /\ Size(s) = Size(p) + 1 + x /\ e = k + y
    BY <2>1, <2>2, <2>6, <2>8, <2>10, <2>12
  <2>20. e \in Nat /\ e <= Measure(s)
    BY <2>19, <2>13, <2>5, <2>11, <1>2
  <2>21. Size(q) + Overhead + 1 <= k + ret
    BY <2>18, <2>13, <2>14, <2>4, <1>2, <1>5
  <2>22. Measure(c) <= e + ret
    BY <2>21, <2>19, <2>13, <2>5, <2>11, <1>2, <1>5
  <2> QED
    BY <2>20, <2>22, <1>2, <1>3, <1>6
<1> QED
  BY <1>7, <1>8
LEMMA StreamStores ==
    ASSUME Types, HistoryInOrder, LatchStands, AnswersReport, Stream, Cutoff # 0
    PROVE  /\ request'.store => /\ Measure(request'.context) < Cutoff + Returned'
                                /\ ~warned' /\ ~safetyActive'
           /\ ~request'.store /\ ~request'.rejected =>
                 Measure(Sanitized(history')) >= Cutoff
<1>1. PICK s, c : s = Sanitized(history) /\ c = Limited(s)
  OBVIOUS
<1>2. /\ request'.context = c /\ request'.store = Storable(c)
      /\ request'.rejected = (rejection.state # "none")
  BY <1>1, StreamEffect
<1>3. PICK e, ret : /\ e = EstimateStoredRequest(c, Measure(c))
                    /\ ret = IF resumed THEN Weight(OlderImages(c)) ELSE 0
  OBVIOUS
<1>4. /\ e \in Nat /\ Measure(c) \in Nat /\ Measure(s) \in Nat
      /\ e <= Measure(s) /\ Measure(c) <= e + ret
  BY <1>1, <1>3, EstimateBounds
<1>5. /\ history' = history /\ rejection' = rejection /\ resumed' = resumed
      /\ safetyActive' = ~Storable(c) /\ warned' = (warned /\ ~Storable(c))
  BY <1>1 DEF Stream, ghostVars, SetSafetyActive
<1>6. Storable(c) <=> e < Cutoff /\ ~Rejected(c)
  BY <1>3 DEF Storable
<1>7. rejection.state = "none" => ~Rejected(c)
  BY <1>1, LatchAtStream
<1>8. Returned' = ret
  BY <1>2, <1>3, <1>5 DEF Returned, Weight
<1>9. ret \in Nat
  <2>1. OlderImages(c) \in SUBSET Images(c)
    BY DEF OlderImages
  <2>2. c \in Seq(Message)
    BY <1>1, ContextFacts
  <2>3. Weight(OlderImages(c)) \in Nat
    BY <2>1, <2>2, ImagesFinite, WeightGrows
  <2> QED
    BY <2>3, <1>3
<1>10. Cutoff \in Nat
  BY CutoffAssumption
<1>11. ASSUME Storable(c)
       PROVE  Measure(request'.context) < Cutoff + Returned' /\ ~warned' /\ ~safetyActive'
  <2>1. Measure(c) < Cutoff + ret
    BY <1>4, <1>6, <1>9, <1>10, <1>11
  <2>2. ~warned' /\ ~safetyActive'
    BY <1>5, <1>11
  <2> QED
    BY <2>1, <2>2, <1>2, <1>8
<1>12. ASSUME ~Storable(c), rejection.state = "none" PROVE Measure(s) >= Cutoff
  <2>1. ~(e < Cutoff)
    BY <1>6, <1>7, <1>12
  <2> QED
    BY <2>1, <1>4, <1>10
<1> QED
  BY <1>1, <1>2, <1>5, <1>11, <1>12

(* Clearing the session forgets screenshots, and so allows for no less.    *)
LEMMA ClearReturns ==
    ASSUME UsageTrue, stage = "requesting", request.context \in Seq(Message),
           request'.context = request.context, resumed' = (history # <<>>)
    PROVE  Returned \in Nat /\ Returned' \in Nat /\ Returned <= Returned'
<1>1. PICK c : c = request.context
  OBVIOUS
<1>2. PICK w : w = Weight(OlderImages(c))
  OBVIOUS
<1>3. w \in Nat
  <2>1. OlderImages(c) \in SUBSET Images(c)
    BY DEF OlderImages
  <2> QED
    BY <1>1, <1>2, <2>1, ImagesFinite, WeightGrows
<1>4. Returned \in {0, w} /\ Returned' = IF history # <<>> THEN w ELSE 0
  BY <1>1, <1>2 DEF Returned, Weight
<1>5. ASSUME history = <<>> PROVE w = 0
  <2>1. Images(c) \subseteq Images(Sanitized(<<>>))
    BY <1>1, <1>5 DEF UsageTrue, SentStays
  <2>2. OlderImages(c) = {}
    BY <2>1, NothingSanitized DEF OlderImages
  <2>3. Cardinality({}) = 0
    BY FS_EmptySet
  <2> QED
    BY <1>2, <2>2, <2>3, ImageSizeAssumption DEF Weight
<1> QED
  BY <1>3, <1>4, <1>5

LEMMA StoreFollowsNext ==
    ASSUME Types, HistoryInOrder, LatchStands, UsageTrue, StoreFollowsSize, [Next]_vars
    PROVE  StoreFollowsSize'
<1>1. ASSUME stage' # "requesting" PROVE StoreFollowsSize'
  BY <1>1 DEF StoreFollowsSize
<1>2. ASSUME stage' = stage, request' = request, history' = history, resumed' = resumed,
             warned' = warned, safetyActive' = safetyActive
      PROVE  StoreFollowsSize'
  BY <1>2 DEF StoreFollowsSize, Returned
<1>3. CASE UNCHANGED vars
  BY <1>2, <1>3 DEF vars, hostVars, ghostVars, storedVars
<1>4. CASE Tick
  BY <1>2, <1>4 DEF Tick, ghostVars, storedVars
<1>5. CASE Stream
  BY <1>5, StreamStores DEF StoreFollowsSize, UsageTrue
<1>6. CASE TooLargeEarly
  <2>1. request' = [request EXCEPT !.store = FALSE, !.rejected = TRUE]
    BY <1>6 DEF TooLargeEarly
  <2>2. request'.store = FALSE /\ request'.rejected = TRUE
    BY <2>1, Rejecting DEF Types
  <2> QED
    BY <2>2 DEF StoreFollowsSize
<1>7. CASE ClearSession
  <2>1. /\ history' = history /\ stage' = stage /\ resumed' = (history # <<>>)
        /\ request' = [request EXCEPT !.omitted = {}] /\ ~warned' /\ ~safetyActive'
    BY <1>7 DEF ClearSession, hostVars, ClearStored
  <2>2. /\ request'.context = request.context /\ request'.store = request.store
        /\ request'.rejected = request.rejected
    BY <2>1, Clearing DEF Types
  <2>3. request.context \in Seq(Message)
    BY DEF Types, Request
  <2>4. ASSUME stage = "requesting"
        PROVE  Returned \in Nat /\ Returned' \in Nat /\ Returned <= Returned'
    BY <2>1, <2>2, <2>3, <2>4, ClearReturns
  <2>5. Measure(request.context) \in Nat /\ Cutoff \in Nat
    BY <2>3, MeasureType, CutoffAssumption
  <2>6. ASSUME stage = "requesting", Measure(request.context) < Cutoff + Returned
        PROVE  Measure(request.context) < Cutoff + Returned'
    BY <2>4, <2>5, <2>6
  <2> QED
    BY <2>1, <2>2, <2>6 DEF StoreFollowsSize
<1>8. ASSUME NEW image, Prompt(image) PROVE StoreFollowsSize'
  BY <1>1, <1>8 DEF Prompt
<1>9. ASSUME NEW end, NEW usage, NEW active, NEW toolImage,
             Turn(end, usage, active, toolImage)
      PROVE  StoreFollowsSize'
  BY <1>1, <1>9 DEF Turn, TurnEnd
<1>10. ASSUME NEW n, Compact(n) PROVE StoreFollowsSize'
  BY <1>1, <1>10 DEF Compact
<1>11. ASSUME NEW n, GoBack(n) PROVE StoreFollowsSize'
  BY <1>1, <1>11 DEF GoBack
<1> QED
  BY <1>3, <1>4, <1>5, <1>6, <1>7, <1>8, <1>9, <1>10, <1>11, NextCases

Sized == Latched /\ UsageTrue /\ StoreFollowsSize

(* A request is stored if and only if what it would make xAI store is      *)
(* below the cutoff, as far as reported usage and screenshots that come    *)
(* and go let the estimate know: it never stores one that measures the     *)
(* cutoff or more, but for what came back, and never withholds one whose   *)
(* history measures less.                                                  *)
THEOREM SizeCorrect == Spec => []StoreFollowsSize
<1>1. Init => Sized
  <2> SUFFICES ASSUME Init PROVE Sized
    OBVIOUS
  <2>1. history = <<>> /\ stage = "idle"
    BY DEF Init
  <2>2. Len(history) = 0
    BY <2>1
  <2>3. AnswersReport
    BY <2>2 DEF AnswersReport
  <2> QED
    BY <2>1, <2>3, InitInvariant DEF Sized, UsageTrue, StoreFollowsSize
<1>2. Sized /\ [Next]_vars => Sized'
  <2> SUFFICES ASSUME Sized, [Next]_vars PROVE Sized'
    OBVIOUS
  <2>1. /\ Types /\ HistoryInOrder /\ LatchStands
        /\ UsageTrue /\ AnswersReport /\ StoreFollowsSize
    BY DEF Sized, Latched, UsageTrue
  <2>2. Types'
    BY <2>1, TypesNext
  <2>3. HistoryInOrder'
    BY <2>1, <2>2, OrderNext
  <2>4. LatchStands'
    BY <2>1, <2>2, <2>3, LatchNext
  <2>5. UsageTrue'
    BY <2>1, <2>2, UsageNext
  <2>6. StoreFollowsSize'
    BY <2>1, StoreFollowsNext
  <2> QED
    BY <2>2, <2>3, <2>4, <2>5, <2>6 DEF Sized, Latched
<1>3. Sized => StoreFollowsSize
  BY DEF Sized
<1> QED
  BY <1>1, <1>2, <1>3, PTL DEF Spec
================================================================================
