-------------------------- MODULE RabStripeProofs --------------------------
(***************************************************************************)
(* Proofs about StripeTable and RabStripe, for every number of stripes,    *)
(* every buffer and every number of slices: the striping table covers each *)
(* stripe with slices that translate to its frames, and an update never    *)
(* disturbs a stripe the accelerator may be working on.  The invariant     *)
(* relates the hardware sets to the window of recent stripes: the set next *)
(* to be overwritten is SetSel, and the stripe mapped d updates ago is in  *)
(* the set d places before it.                                             *)
(***************************************************************************)
EXTENDS RabStripe, SequenceTheorems, FiniteSetTheorems, WellFoundedInduction, TLAPS

-----------------------------------------------------------------------------
(* Counting *)

\* A set of naturals has a least element.
LEMMA LeastNat ==
    ASSUME NEW S \in SUBSET Nat, S # {}
    PROVE  \E x \in S : \A y \in S : x <= y
<1>1. PICK x \in S : \A y \in S : ~(<<y, x>> \in OpToRel(<, Nat))
  BY NatLessThanWellFounded, WFMin
<1>2. \A y \in S : ~(y < x)
  BY <1>1 DEF OpToRel
<1> QED
  BY <1>2

\* A downward closed part of an interval is an interval, counted by its end.
LEMMA CountPrefix ==
    ASSUME NEW a \in Nat, NEW c \in Int, a <= c + 1, NEW S \in SUBSET (a .. c),
           \A x \in S, y \in a .. c : y <= x => y \in S
    PROVE  /\ Cardinality(S) \in Nat /\ a + Cardinality(S) <= c + 1
           /\ S = a .. a + Cardinality(S) - 1
<1> DEFINE U == (a .. c + 1) \ S
<1>1. c + 1 \in U /\ U \in SUBSET Nat
  OBVIOUS
<1>2. PICK m \in U : \A y \in U : m <= y
  BY <1>1, LeastNat
<1>3. S = a .. m - 1
  <2>1. ASSUME NEW x \in S PROVE x \in a .. m - 1
    BY <1>2, <2>1
  <2>2. ASSUME NEW x \in a .. m - 1 PROVE x \in S
    BY <1>2, <2>2
  <2> QED
    BY <2>1, <2>2
<1>4. Cardinality(a .. m - 1) = IF a > m - 1 THEN 0 ELSE m - 1 - a + 1
  <2>1. a \in Int /\ m - 1 \in Int
    BY <1>2
  <2> QED
    BY <2>1, FS_Interval
<1>5. Cardinality(S) = m - a
  BY <1>2, <1>3, <1>4
<1> QED
  BY <1>2, <1>3, <1>5

\* Elements of B below i.
Below(B, i) == {j \in B : j < i}

LEMMA BelowFacts ==
    ASSUME NEW B \in SUBSET Nat, IsFiniteSet(B)
    PROVE  /\ Cardinality(B) \in Nat
           /\ \A i \in Nat : IsFiniteSet(Below(B, i)) /\ Cardinality(Below(B, i)) \in Nat
           /\ \A i \in B : Cardinality(Below(B, i)) \in 0 .. Cardinality(B) - 1
           /\ \A i, k \in Nat : i <= k => Cardinality(Below(B, i)) <= Cardinality(Below(B, k))
           /\ \A i, k \in Nat : i < k /\ i \in B =>
                  Cardinality(Below(B, i)) < Cardinality(Below(B, k))
           /\ \A i, k \in Nat : i <= k =>
                  Cardinality(Below(B, k)) - Cardinality(Below(B, i)) <= k - i
<1>1. Cardinality(B) \in Nat
  BY FS_CardinalityType
<1>2. ASSUME NEW i \in Nat PROVE IsFiniteSet(Below(B, i)) /\ Cardinality(Below(B, i)) \in Nat
                                 /\ Cardinality(Below(B, i)) <= Cardinality(B)
  <2>1. Below(B, i) \in SUBSET B
    BY DEF Below
  <2> QED
    BY <2>1, FS_Subset, FS_CardinalityType
<1>3. ASSUME NEW i \in Nat, NEW k \in Nat, i <= k
      PROVE  Cardinality(Below(B, i)) <= Cardinality(Below(B, k))
  <2>1. \A j \in B : j < i => j < k
    BY <1>3
  <2>2. Below(B, i) \in SUBSET Below(B, k)
    BY <2>1 DEF Below
  <2> QED
    BY <2>2, <1>2, FS_Subset
<1>4. ASSUME NEW i \in Nat, NEW T, IsFiniteSet(T), i \in T, Below(B, i) \subseteq T
      PROVE  Cardinality(Below(B, i)) < Cardinality(T)
  <2>1. Below(B, i) \in SUBSET (T \ {i})
    BY <1>4 DEF Below
  <2>2. IsFiniteSet(T \ {i}) /\ Cardinality(T \ {i}) = Cardinality(T) - 1
    BY <1>4, FS_RemoveElement
  <2>3. Cardinality(Below(B, i)) <= Cardinality(T \ {i})
    BY <2>1, <2>2, FS_Subset
  <2>4. Cardinality(T) \in Nat
    BY <1>4, FS_CardinalityType
  <2> QED
    BY <2>2, <2>3, <2>4, <1>2
<1>5. ASSUME NEW i \in Nat, NEW k \in Nat, i < k, i \in B
      PROVE  Cardinality(Below(B, i)) < Cardinality(Below(B, k))
  <2>1. \A j \in B : j < i => j < k
    BY <1>5
  <2>2. i \in Below(B, k) /\ Below(B, i) \subseteq Below(B, k)
    BY <1>5, <2>1 DEF Below
  <2> QED
    BY <2>2, <1>2, <1>4
<1>6. ASSUME NEW i \in B PROVE Cardinality(Below(B, i)) \in 0 .. Cardinality(B) - 1
  <2>1. Below(B, i) \subseteq B
    BY DEF Below
  <2>2. Cardinality(Below(B, i)) < Cardinality(B)
    BY <2>1, <1>4
  <2> QED
    BY <2>2, <1>1, <1>2
<1>7. ASSUME NEW i \in Nat, NEW k \in Nat, i <= k
      PROVE  Cardinality(Below(B, k)) - Cardinality(Below(B, i)) <= k - i
  <2>a. \A j \in B : j < k => j < i \/ j \in i .. k - 1
    BY <1>7
  <2>1. Below(B, k) \in SUBSET (Below(B, i) \cup (i .. k - 1))
    BY <2>a DEF Below
  <2>2. IsFiniteSet(i .. k - 1) /\ Cardinality(i .. k - 1) = k - i
    <3>1. i \in Int /\ k - 1 \in Int
      OBVIOUS
    <3>2. /\ IsFiniteSet(i .. k - 1)
          /\ Cardinality(i .. k - 1) = IF i > k - 1 THEN 0 ELSE k - 1 - i + 1
      BY <3>1, FS_Interval
    <3> QED
      BY <1>7, <3>2
  <2> DEFINE I == Below(B, i) \cap (i .. k - 1)
  <2>3. /\ IsFiniteSet(Below(B, i) \cup (i .. k - 1))
        /\ Cardinality(Below(B, i) \cup (i .. k - 1)) =
               Cardinality(Below(B, i)) + Cardinality(i .. k - 1) - Cardinality(I)
    BY <2>2, <1>2, FS_Union
  <2>4. I = {}
    BY DEF Below
  <2>5. Cardinality(I) = 0
    BY <2>4, FS_EmptySet
  <2>6. Cardinality(Below(B, k)) <= Cardinality(Below(B, i) \cup (i .. k - 1))
    BY <2>1, <2>3, FS_Subset
  <2> HIDE DEF I
  <2> QED
    BY <2>2, <2>3, <2>5, <2>6, <1>2
<1> QED
  BY <1>1, <1>2, <1>3, <1>5, <1>6, <1>7

\* The elements of a set are numbered by how many are below them.
LEMMA RankExists ==
    ASSUME NEW B \in SUBSET Nat, IsFiniteSet(B), NEW s \in 0 .. Cardinality(B) - 1
    PROVE  \E i \in B : Cardinality(Below(B, i)) = s
<1>1. SUFFICES ASSUME \A i \in B : Cardinality(Below(B, i)) # s PROVE FALSE
  OBVIOUS
<1>2. /\ Cardinality(B) \in Nat
      /\ \A i \in B : Cardinality(Below(B, i)) \in 0 .. Cardinality(B) - 1
      /\ \A i, k \in Nat : i < k /\ i \in B =>
             Cardinality(Below(B, i)) < Cardinality(Below(B, k))
  BY BelowFacts
<1> DEFINE T == (0 .. Cardinality(B) - 1) \ {s}
           f == [i \in B |-> Cardinality(Below(B, i))]
<1>3. f \in [B -> T]
  BY <1>1, <1>2
<1>4. /\ IsFiniteSet(0 .. Cardinality(B) - 1)
      /\ Cardinality(0 .. Cardinality(B) - 1) = Cardinality(B)
  <2>1. 0 \in Int /\ Cardinality(B) - 1 \in Int
    BY <1>2
  <2> QED
    BY <1>2, <2>1, FS_Interval
<1>5. IsFiniteSet(T) /\ Cardinality(T) = Cardinality(B) - 1
  BY <1>4, FS_RemoveElement
<1>6. Cardinality(T) < Cardinality(B)
  BY <1>2, <1>5
<1> HIDE DEF T, f
<1>7. PICK x, y \in B : x # y /\ f[x] = f[y]
  BY <1>3, <1>5, <1>6, FS_PigeonHole
<1>8. x \in Nat /\ y \in Nat /\ (x < y \/ y < x)
  BY <1>7
<1>9. Cardinality(Below(B, x)) = Cardinality(Below(B, y))
  BY <1>7 DEF f
<1> QED
  BY <1>2, <1>7, <1>8, <1>9

\* What the code relies on about a buffer.
LEMMA BufferFacts ==
    ASSUME NEW b, IsBuffer(b)
    PROVE  /\ Cardinality(Stripes(b)) \in Nat \ {0}
           /\ Stripes(b) = 0 .. Cardinality(Stripes(b)) - 1
           /\ \A j \in Stripes(b) : /\ b.lo[j] \in Nat /\ b.hi[j] \in Nat /\ b.lo[j] < b.hi[j]
                                    /\ Start(b) <= b.lo[j] /\ b.hi[j] <= End(b)
           /\ \A i, j \in Stripes(b) : i <= j => b.lo[i] <= b.lo[j] /\ b.hi[i] <= b.hi[j]
           /\ Start(b) \in 0 .. P - 1 /\ End(b) \in Nat /\ Start(b) < End(b)
           /\ \A i \in 0 .. NPages(b) - 1 : b.frame[i] \in Nat
<1> DEFINE n == Cardinality(Stripes(b))
<1>1. /\ n \in Nat \ {0} /\ Stripes(b) = 0 .. n - 1
      /\ b.lo \in [0 .. n - 1 -> Nat] /\ b.hi \in [0 .. n - 1 -> Nat]
      /\ Start(b) < P
      /\ \A j \in 0 .. n - 1 : b.lo[j] < b.hi[j]
      /\ \A i, j \in 0 .. n - 1 : i <= j => b.lo[i] <= b.lo[j] /\ b.hi[i] <= b.hi[j]
      /\ \A i \in 0 .. NPages(b) - 1 : b.frame[i] \in Nat
  BY DEF IsBuffer
<1> HIDE DEF n
<1>2. 0 \in 0 .. n - 1 /\ n - 1 \in 0 .. n - 1
  BY <1>1
<1>3. Start(b) = b.lo[0] /\ End(b) = b.hi[n - 1]
  BY DEF Start, End, n
<1>4. P \in Nat \ {0}
  BY PageAssumption
<1>5. Start(b) \in Nat /\ End(b) \in Nat
  BY <1>1, <1>2, <1>3
<1>6. ASSUME NEW j \in 0 .. n - 1
      PROVE  /\ b.lo[j] \in Nat /\ b.hi[j] \in Nat /\ b.lo[j] < b.hi[j]
             /\ Start(b) <= b.lo[j] /\ b.hi[j] <= End(b)
  <2>1. 0 <= j /\ j <= n - 1
    BY <1>1
  <2> QED
    BY <1>1, <1>2, <1>3, <2>1
<1>7. Start(b) < End(b)
  <2>1. Start(b) <= b.lo[n - 1] /\ b.lo[n - 1] < End(b) /\ b.lo[n - 1] \in Nat
    BY <1>2, <1>3, <1>6
  <2> QED
    BY <1>5, <2>1
<1>8. Start(b) \in 0 .. P - 1
  BY <1>1, <1>4, <1>5
<1> QED
  BY <1>1, <1>5, <1>6, <1>7, <1>8 DEF n

\* Products with the page size keep the order.
LEMMA TimesP ==
    ASSUME NEW x \in Int, NEW y \in Int
    PROVE  /\ P * x \in Int
           /\ x <= y => P * x <= P * y
           /\ x < y => P * x + P <= P * y
           /\ P * (y - x) = P * y - P * x
           /\ P * x < P * y => x < y
<1>1. P \in Nat \ {0}
  BY PageAssumption
<1>2. P * (y - x) = P * y - P * x
  BY <1>1
<1>3. P * x \in Int /\ P * y \in Int
  BY <1>1
<1>4. ASSUME NEW d \in Nat PROVE P * d >= 0
  BY <1>1
<1>5. x <= y => P * x <= P * y
  <2>1. ASSUME x <= y PROVE P * (y - x) >= 0
    <3>1. y - x \in Nat
      BY <2>1
    <3> QED
      BY <3>1, <1>4
  <2> QED
    BY <2>1, <1>2, <1>3
<1>6. x < y => P * x + P <= P * y
  <2>1. ASSUME x < y PROVE P * (y - x - 1) >= 0
    <3>1. y - x - 1 \in Nat
      BY <2>1
    <3> QED
      BY <3>1, <1>4
  <2>2. P * (y - x - 1) = P * y - P * x - P
    BY <1>1
  <2> QED
    BY <2>1, <2>2, <1>1, <1>3
<1>7. P * x < P * y => x < y
  <2>1. y <= x => P * y <= P * x
    <3>1. ASSUME y <= x PROVE P * (x - y) >= 0
      <4>1. x - y \in Nat
        BY <3>1
      <4> QED
        BY <4>1, <1>4
    <3>2. P * (x - y) = P * x - P * y
      BY <1>1
    <3> QED
      BY <3>1, <3>2, <1>3
  <2> QED
    BY <2>1, <1>3
<1> QED
  BY <1>2, <1>3, <1>5, <1>6, <1>7

\* Pages of addresses.
LEMMA PageFacts ==
    ASSUME NEW a \in Nat
    PROVE  /\ Page(a) \in Nat /\ InPage(a) \in 0 .. P - 1
           /\ a = P * Page(a) + InPage(a)
           /\ P * Page(a) <= a /\ a < P * Page(a) + P
<1>1. P \in Nat \ {0}
  BY PageAssumption
<1>2. a \div P \in Int
  BY <1>1
<1>3. a % P \in 0 .. P - 1
  BY <1>1
<1>4. a = P * (a \div P) + (a % P)
  BY <1>1
<1>5. PICK q \in Int, r \in 0 .. P - 1 : q = a \div P /\ r = a % P
  BY <1>2, <1>3
<1>6. PICK v \in Int : v = P * q
  BY TimesP
<1>7. a = v + r
  BY <1>4, <1>5, <1>6
<1>8. q \in Nat
  <2>1. q < 0 => P * q + P <= P * 0
    BY TimesP
  <2>2. P * 0 = 0
    BY <1>1
  <2> QED
    BY <2>1, <2>2, <1>1, <1>6, <1>7
<1> QED
  BY <1>1, <1>5, <1>6, <1>7, <1>8 DEF Page, InPage

\* The page of an address between two page borders.
LEMMA PageBetween ==
    ASSUME NEW a \in Nat, NEW x \in Nat
    PROVE  /\ P * x <= a => x <= Page(a)
           /\ a < P * x => Page(a) < x
           /\ Page(P * x) = x
<1>1. P \in Nat \ {0}
  BY PageAssumption
<1>2. Page(a) \in Nat /\ P * Page(a) <= a /\ a < P * Page(a) + P
  BY PageFacts
<1>3. P * Page(a) \in Int /\ P * x \in Int
  BY <1>2, TimesP
<1>4. P * x <= a => x <= Page(a)
  <2>1. Page(a) < x => P * Page(a) + P <= P * x
    BY <1>2, TimesP
  <2> QED
    BY <2>1, <1>1, <1>2, <1>3
<1>5. a < P * x => Page(a) < x
  <2>1. x <= Page(a) => P * x <= P * Page(a)
    BY <1>2, TimesP
  <2> QED
    BY <2>1, <1>1, <1>2, <1>3
<1>6. Page(P * x) = x
  <2>1. P * x \in Nat
    BY <1>1
  <2>2. PICK q \in Nat : q = Page(P * x) /\ P * q <= P * x /\ P * x < P * q + P
    BY <2>1, PageFacts
  <2>a. P * q \in Int /\ P * x \in Int
    BY TimesP
  <2>3. PICK u \in Int, v \in Int : u = P * q /\ v = P * x
    BY <2>a
  <2>4. q < x => u + P <= v
    BY <2>3, TimesP
  <2>5. x < q => v + P <= u
    BY <2>3, TimesP
  <2> QED
    BY <2>1, <2>2, <2>3, <2>4, <2>5, <1>1
<1> QED
  BY <1>4, <1>5, <1>6

\* The pages of a buffer reach just beyond its end.
LEMMA NPagesFacts ==
    ASSUME NEW b, IsBuffer(b)
    PROVE  /\ NPages(b) \in Nat \ {0}
           /\ End(b) <= P * NPages(b) /\ P * NPages(b) < End(b) + P
<1>1. P \in Nat \ {0}
  BY PageAssumption
<1>2. Start(b) \in 0 .. P - 1 /\ End(b) \in Nat /\ Start(b) < End(b)
  BY BufferFacts
<1>3. InPage(Start(b)) = Start(b)
  BY <1>1, <1>2 DEF InPage
<1>4. PICK e \in Nat : e = End(b) + P - 1
  BY <1>1, <1>2
<1>5. NPages(b) = Page(e)
  <2>1. InPage(Start(b)) + (End(b) - Start(b)) + P - 1 = e
    BY <1>1, <1>2, <1>3, <1>4
  <2> QED
    BY <2>1 DEF NPages, Page
<1>6. Page(e) \in Nat /\ P * Page(e) <= e /\ e < P * Page(e) + P
  BY PageFacts
<1>7. P * Page(e) \in Int
  BY <1>6, TimesP
<1>8. End(b) <= P * Page(e) /\ P * Page(e) < End(b) + P
  BY <1>1, <1>2, <1>4, <1>6, <1>7
<1>9. Page(e) # 0
  <2>1. P * 0 = 0
    BY <1>1
  <2> QED
    BY <2>1, <1>2, <1>6, <1>8
<1> QED
  BY <1>5, <1>6, <1>8, <1>9

-----------------------------------------------------------------------------
(* Segments *)

\* The first pages of the segments ascend from page 0.
LEMMA SegPageFacts ==
    ASSUME NEW b, IsBuffer(b)
    PROVE  /\ NSegs(b) \in Nat \ {0}
           /\ \A s \in 0 .. NSegs(b) - 1 : SegPage(b, s) \in Breaks(b)
           /\ \A s \in 0 .. NSegs(b) - 1 : SegPage(b, s) \in 0 .. NPages(b) - 1
           /\ SegPage(b, 0) = 0
           /\ \A s, t \in 0 .. NSegs(b) - 1 :
                  s <= t => t - s <= SegPage(b, t) - SegPage(b, s)
           /\ \A s \in 0 .. NSegs(b) - 1, i \in Breaks(b) :
                  SegPage(b, s) < i => /\ s + 1 <= NSegs(b) - 1
                                       /\ SegPage(b, s + 1) <= i
<1> DEFINE B == Breaks(b)
           N == NSegs(b)
           R(i) == Cardinality(Below(B, i))
           p(s) == SegPage(b, s)
<1>1. NPages(b) \in Nat \ {0}
  BY NPagesFacts
<1>2. B \in SUBSET (0 .. NPages(b) - 1) /\ 0 \in B
  BY <1>1 DEF Breaks
<1>3. B \in SUBSET Nat /\ IsFiniteSet(B)
  <2>1. B \in SUBSET Nat /\ NPages(b) \in Nat /\ \A s \in B : s <= NPages(b)
    BY <1>1, <1>2
  <2> HIDE DEF B
  <2> QED
    BY <2>1, FS_BoundedSetOfNaturals
<1>4. N = Cardinality(B)
  BY DEF NSegs
<1>a. \A s : p(s) = CHOOSE i \in B : R(i) = s
  BY DEF SegPage, Below
<1> HIDE DEF B, N, R, p
<1>5. /\ N \in Nat
      /\ \A i \in Nat : R(i) \in Nat
      /\ \A i \in B : R(i) \in 0 .. N - 1
      /\ \A i, k \in Nat : i <= k => R(i) <= R(k)
      /\ \A i, k \in Nat : i < k /\ i \in B => R(i) < R(k)
      /\ \A i, k \in Nat : i <= k => R(k) - R(i) <= k - i
  BY <1>3, <1>4, BelowFacts DEF R
<1>6. ASSUME NEW s \in 0 .. N - 1 PROVE p(s) \in B /\ p(s) \in Nat /\ R(p(s)) = s
  <2>1. \E i \in B : R(i) = s
    BY <1>3, <1>4, RankExists DEF R
  <2>2. p(s) \in B /\ R(p(s)) = s
    BY <2>1, <1>a
  <2> QED
    BY <2>2, <1>3
<1>7. N # 0
  BY <1>2, <1>5
<1>8. p(0) = 0
  <2>1. 0 \in 0 .. N - 1
    BY <1>5, <1>7
  <2>2. p(0) \in Nat /\ R(p(0)) = 0
    BY <2>1, <1>6
  <2>3. 0 < p(0) => R(0) < R(p(0))
    BY <2>2, <1>2, <1>5
  <2>4. R(0) \in Nat
    BY <1>5
  <2> QED
    BY <2>2, <2>3, <2>4
<1>9. ASSUME NEW s \in 0 .. N - 1, NEW t \in 0 .. N - 1, s <= t PROVE t - s <= p(t) - p(s)
  <2>1. p(s) \in B /\ p(s) \in Nat /\ R(p(s)) = s /\ p(t) \in B /\ p(t) \in Nat /\ R(p(t)) = t
    BY <1>6
  <2>2. CASE p(s) <= p(t)
    BY <2>1, <2>2, <1>5
  <2>3. CASE p(t) < p(s)
    <3>1. R(p(t)) < R(p(s))
      BY <2>1, <2>3, <1>5
    <3> QED
      BY <3>1, <2>1, <1>9
  <2> QED
    BY <2>1, <2>2, <2>3
<1>10. ASSUME NEW s \in 0 .. N - 1, NEW i \in B, p(s) < i
       PROVE  s + 1 <= N - 1 /\ p(s + 1) <= i
  <2>1. p(s) \in B /\ p(s) \in Nat /\ R(p(s)) = s /\ i \in Nat /\ R(i) \in 0 .. N - 1
    BY <1>3, <1>5, <1>6
  <2>2. s < R(i)
    BY <2>1, <1>5, <1>10
  <2>3. s + 1 \in 0 .. N - 1
    BY <2>1, <2>2, <1>5
  <2>4. p(s + 1) \in B /\ p(s + 1) \in Nat /\ R(p(s + 1)) = s + 1
    BY <2>3, <1>6
  <2>5. i < p(s + 1) => R(i) < R(p(s + 1))
    BY <2>1, <2>4, <1>5
  <2> QED
    BY <2>1, <2>2, <2>3, <2>4, <2>5, <1>5
<1> QED
  BY <1>2, <1>5, <1>6, <1>7, <1>8, <1>9, <1>10 DEF B, N, p

\* Segments follow each other from the start of the buffer to its end, and all
\* but the first start on a page border.
LEMMA SegFacts ==
    ASSUME NEW b, IsBuffer(b)
    PROVE  /\ \A s \in 0 .. NSegs(b) - 1 :
                  SegLo(b, s) \in Nat /\ SegHi(b, s) \in Nat /\ SegLo(b, s) < SegHi(b, s)
           /\ SegLo(b, 0) = Start(b) /\ SegHi(b, NSegs(b) - 1) = End(b)
           /\ \A s \in 0 .. NSegs(b) - 2 : SegHi(b, s) = SegLo(b, s + 1)
           /\ \A s, t \in 0 .. NSegs(b) - 1 : s < t => SegLo(b, s) < SegLo(b, t)
           /\ \A s, t \in 1 .. NSegs(b) - 1 : s <= t =>
                  P * (t - s) <= SegLo(b, t) - SegLo(b, s)
<1> DEFINE N == NSegs(b)
           p(s) == SegPage(b, s)
<1>1. P \in Nat \ {0}
  BY PageAssumption
<1>2. /\ N \in Nat \ {0} /\ p(0) = 0
      /\ \A s \in 0 .. N - 1 : p(s) \in 0 .. NPages(b) - 1
      /\ \A s, t \in 0 .. N - 1 : s <= t => t - s <= p(t) - p(s)
  BY SegPageFacts
<1>3. Start(b) \in 0 .. P - 1 /\ End(b) \in Nat
  BY BufferFacts
<1>4. NPages(b) \in Nat \ {0} /\ P * NPages(b) < End(b) + P
  BY NPagesFacts
<1>5. \A s : SegLo(b, s) = IF s = 0 THEN Start(b) ELSE P * p(s)
  BY DEF SegLo
<1>6. \A s : SegHi(b, s) = IF s = N - 1 THEN End(b) ELSE P * p(s + 1)
  BY DEF SegHi
<1> HIDE DEF N, p
<1>7. ASSUME NEW s \in 0 .. N - 1 PROVE P * p(s) \in Nat /\ SegLo(b, s) \in Nat
  <2>1. p(s) \in Nat
    BY <1>2, <1>4
  <2>2. P * p(s) \in Nat
    BY <2>1, <1>1
  <2> QED
    BY <2>2, <1>3, <1>5
<1>8. ASSUME NEW s \in 0 .. N - 1, NEW t \in 0 .. N - 1, s < t PROVE SegLo(b, s) < SegLo(b, t)
  <2>1. p(s) \in Nat /\ p(t) \in Nat /\ p(s) < p(t) /\ t # 0
    BY <1>2, <1>4, <1>8
  <2>2. P * p(s) + P <= P * p(t)
    BY <2>1, TimesP
  <2>3. SegLo(b, t) = P * p(t)
    BY <2>1, <1>5
  <2>4. CASE s = 0
    <3>1. SegLo(b, s) = Start(b)
      BY <2>4, <1>5
    <3>2. PICK u \in Nat, v \in Nat : u = P * p(s) /\ v = P * p(t)
      BY <1>7
    <3> QED
      BY <2>2, <2>3, <3>1, <3>2, <1>1, <1>3
  <2>5. CASE s # 0
    <3>1. SegLo(b, s) = P * p(s)
      BY <2>5, <1>5
    <3>2. PICK u \in Nat, v \in Nat : u = P * p(s) /\ v = P * p(t)
      BY <1>7
    <3> QED
      BY <2>2, <2>3, <3>1, <3>2, <1>1
  <2> QED
    BY <2>4, <2>5
<1>9. ASSUME NEW s \in 0 .. N - 2 PROVE SegHi(b, s) = SegLo(b, s + 1)
  <2>1. s # N - 1 /\ s + 1 # 0
    BY <1>2
  <2> QED
    BY <2>1, <1>5, <1>6
<1>10. ASSUME NEW s \in 0 .. N - 1
       PROVE  SegLo(b, s) \in Nat /\ SegHi(b, s) \in Nat /\ SegLo(b, s) < SegHi(b, s)
  <2>1. CASE s = N - 1
    <3>1. p(s) \in Nat /\ p(s) <= NPages(b) - 1
      BY <1>2, <1>4
    <3>a. NPages(b) - 1 \in Int
      BY <1>4
    <3>2. P * p(s) <= P * (NPages(b) - 1)
      BY <3>1, <3>a, TimesP
    <3>3. P * (NPages(b) - 1) = P * NPages(b) - P
      BY <1>1, <1>4
    <3>4. PICK u \in Nat, v \in Int : u = P * p(s) /\ v = P * NPages(b)
      <4>1. P * NPages(b) \in Int
        BY <1>4, TimesP
      <4> QED
        BY <4>1, <1>7
    <3>5. u < End(b)
      BY <3>2, <3>3, <3>4, <1>1, <1>3, <1>4
    <3>6. Start(b) < End(b)
      BY BufferFacts
    <3> QED
      BY <2>1, <3>4, <3>5, <3>6, <1>3, <1>5, <1>6, <1>7
  <2>2. CASE s # N - 1
    <3>1. s \in 0 .. N - 2 /\ s + 1 \in 0 .. N - 1 /\ s < s + 1
      BY <2>2, <1>2
    <3> QED
      BY <3>1, <1>7, <1>8, <1>9
  <2> QED
    BY <2>1, <2>2
<1>11. ASSUME NEW s \in 1 .. N - 1, NEW t \in 1 .. N - 1, s <= t
       PROVE  P * (t - s) <= SegLo(b, t) - SegLo(b, s)
  <2>1. s \in 0 .. N - 1 /\ t \in 0 .. N - 1
    BY <1>2
  <2>2. p(s) \in Int /\ p(t) \in Int /\ t - s <= p(t) - p(s)
    BY <2>1, <1>2, <1>4, <1>11
  <2>a. PICK x \in Int, y \in Int : x = t - s /\ y = p(t) - p(s) /\ x <= y
    BY <2>1, <2>2
  <2>b. P * x <= P * y
    BY <2>a, TimesP
  <2>3. P * (t - s) <= P * (p(t) - p(s))
    BY <2>a, <2>b
  <2>4. P * (p(t) - p(s)) = P * p(t) - P * p(s)
    BY <2>2, TimesP
  <2> QED
    BY <2>3, <2>4, <1>5
<1>12. SegLo(b, 0) = Start(b) /\ SegHi(b, N - 1) = End(b)
  BY <1>5, <1>6
<1> QED
  BY <1>8, <1>9, <1>10, <1>11, <1>12 DEF N

-----------------------------------------------------------------------------
(* The striping table *)

\* A stripe starts in segment FirstSeg and ends in segment LastSeg.
LEMMA SegsOfStripe ==
    ASSUME NEW b, IsBuffer(b), NEW j \in Stripes(b)
    PROVE  /\ FirstSeg(b, j) \in 0 .. NSegs(b) - 1 /\ LastSeg(b, j) \in 0 .. NSegs(b) - 1
           /\ FirstSeg(b, j) <= LastSeg(b, j)
           /\ SegLo(b, FirstSeg(b, j)) <= b.lo[j]
           /\ FirstSeg(b, j) < NSegs(b) - 1 => b.lo[j] < SegLo(b, FirstSeg(b, j) + 1)
           /\ b.hi[j] <= SegHi(b, LastSeg(b, j))
           /\ LastSeg(b, j) > 0 => SegLo(b, LastSeg(b, j)) < b.hi[j]
<1> DEFINE N == NSegs(b)
           F == FirstSeg(b, j)
           L == LastSeg(b, j)
           lo(s) == SegLo(b, s)
           hi(s) == SegHi(b, s)
           FS == {s \in 1 .. N - 1 : b.lo[j] >= lo(s)}
           LS == {s \in 0 .. N - 1 : b.hi[j] > hi(s)}
<1>1. /\ Stripes(b) = 0 .. Cardinality(Stripes(b)) - 1 /\ Cardinality(Stripes(b)) \in Nat
      /\ \A i \in Stripes(b) : b.lo[i] \in Nat /\ b.hi[i] \in Nat
      /\ \A i \in Stripes(b) : i <= j => b.lo[i] <= b.lo[j] /\ b.hi[i] <= b.hi[j]
      /\ b.lo[j] < b.hi[j] /\ Start(b) <= b.lo[j] /\ b.hi[j] <= End(b)
      /\ End(b) \in Nat /\ Start(b) \in Nat
  BY BufferFacts
<1>2. N \in Nat \ {0}
  BY SegPageFacts
<1>3. /\ \A s \in 0 .. N - 1 : lo(s) \in Nat /\ hi(s) \in Nat /\ lo(s) < hi(s)
      /\ lo(0) = Start(b) /\ hi(N - 1) = End(b)
      /\ \A s \in 0 .. N - 2 : hi(s) = lo(s + 1)
      /\ \A s, t \in 0 .. N - 1 : s < t => lo(s) < lo(t)
  BY SegFacts
<1>4. 0 .. j \subseteq Stripes(b) /\ j \in 0 .. j /\ \A i \in 0 .. j : i <= j
  BY <1>1
<1>5. F = Cardinality(FS)
  <2>1. ASSUME NEW s \in 1 .. N - 1
        PROVE  (\E i \in 0 .. j : b.lo[i] >= SegLo(b, s)) <=> b.lo[j] >= lo(s)
    <3>1. lo(s) \in Nat
      BY <1>2, <1>3
    <3>2. ASSUME NEW i \in 0 .. j PROVE b.lo[i] \in Nat /\ b.lo[i] <= b.lo[j]
      BY <1>1, <1>4
    <3> QED
      BY <3>1, <3>2, <1>1, <1>4
  <2>2. {s \in 1 .. N - 1 : \E i \in 0 .. j : b.lo[i] >= SegLo(b, s)} = FS
    BY <2>1
  <2> QED
    BY <2>2 DEF FirstSeg
<1>6. L = Cardinality(LS)
  <2>1. ASSUME NEW s \in 0 .. N - 1
        PROVE  (\E i \in 0 .. j : b.hi[i] > SegHi(b, s)) <=> b.hi[j] > hi(s)
    <3>1. hi(s) \in Nat
      BY <1>2, <1>3
    <3>2. ASSUME NEW i \in 0 .. j PROVE b.hi[i] \in Nat /\ b.hi[i] <= b.hi[j]
      BY <1>1, <1>4
    <3> QED
      BY <3>1, <3>2, <1>1, <1>4
  <2>2. {s \in 0 .. N - 1 : \E i \in 0 .. j : b.hi[i] > SegHi(b, s)} = LS
    BY <2>1
  <2> QED
    BY <2>2 DEF LastSeg
<1> HIDE DEF F, L, N, lo, hi
<1>7. F \in Nat /\ 1 + F <= N /\ FS = 1 .. F
  <2>1. \A x \in FS, y \in 1 .. N - 1 : y <= x => y \in FS
    <3> SUFFICES ASSUME NEW x \in FS, NEW y \in 1 .. N - 1, y < x PROVE y \in FS
      BY <1>2
    <3>1. x \in 0 .. N - 1 /\ y \in 0 .. N - 1
      BY <1>2
    <3>2. lo(y) < lo(x) /\ lo(x) \in Nat /\ lo(y) \in Nat
      BY <3>1, <1>3
    <3> QED
      BY <3>2, <1>1
  <2>2. 1 \in Nat /\ N - 1 \in Int /\ 1 <= N - 1 + 1 /\ FS \in SUBSET (1 .. N - 1)
    BY <1>2
  <2> HIDE DEF FS
  <2>3. Cardinality(FS) \in Nat /\ 1 + Cardinality(FS) <= N - 1 + 1 /\ FS = 1 .. 1 + Cardinality(FS) - 1
    BY <2>1, <2>2, CountPrefix
  <2> QED
    BY <2>3, <1>2, <1>5
<1>8. L \in Nat /\ L <= N /\ LS = 0 .. L - 1
  <2>1. \A x \in LS, y \in 0 .. N - 1 : y <= x => y \in LS
    <3> SUFFICES ASSUME NEW x \in LS, NEW y \in 0 .. N - 1, y < x PROVE y \in LS
      BY <1>2
    <3>1. y \in 0 .. N - 2 /\ y + 1 \in 0 .. N - 1 /\ x \in 0 .. N - 1
      BY <1>2
    <3>2. hi(y) = lo(y + 1) /\ lo(y + 1) \in Nat /\ lo(x) \in Nat /\ hi(x) \in Nat /\ lo(x) < hi(x)
      BY <3>1, <1>3
    <3>3. y + 1 = x \/ lo(y + 1) < lo(x)
      BY <3>1, <1>3
    <3>4. b.hi[j] > hi(x)
      OBVIOUS
    <3> QED
      BY <3>2, <3>3, <3>4, <1>1
  <2>2. 0 \in Nat /\ N - 1 \in Int /\ 0 <= N - 1 + 1 /\ LS \in SUBSET (0 .. N - 1)
    BY <1>2
  <2> HIDE DEF LS
  <2>3. Cardinality(LS) \in Nat /\ 0 + Cardinality(LS) <= N - 1 + 1 /\ LS = 0 .. 0 + Cardinality(LS) - 1
    BY <2>1, <2>2, CountPrefix
  <2> QED
    BY <2>3, <1>2, <1>6
<1>9. F \in 0 .. N - 1 /\ lo(F) \in Nat /\ lo(F) <= b.lo[j]
  <2>1. F = 0 \/ F \in FS
    BY <1>7
  <2> QED
    BY <2>1, <1>1, <1>2, <1>3, <1>7
<1>10. F < N - 1 => b.lo[j] < lo(F + 1)
  <2>1. F < N - 1 => F + 1 \in 1 .. N - 1 /\ F + 1 \notin FS /\ lo(F + 1) \in Nat
    BY <1>2, <1>3, <1>7
  <2> QED
    BY <2>1, <1>1
<1>11. L <= N - 1
  <2>1. N - 1 \in 0 .. N - 1 /\ ~(b.hi[j] > hi(N - 1))
    BY <1>1, <1>2, <1>3
  <2>2. N - 1 \notin LS
    BY <2>1
  <2> QED
    BY <2>1, <2>2, <1>2, <1>8
<1>12. L \in 0 .. N - 1 /\ b.hi[j] <= hi(L) /\ hi(L) \in Nat
  <2>1. L \in 0 .. N - 1 /\ L \notin LS
    BY <1>2, <1>8, <1>11
  <2> QED
    BY <2>1, <1>1, <1>3
<1>13. L > 0 => lo(L) < b.hi[j]
  <2>1. ASSUME L > 0 PROVE lo(L) < b.hi[j]
    <3>1. L - 1 \in LS /\ L - 1 \in 0 .. N - 2 /\ L - 1 + 1 = L
      BY <2>1, <1>2, <1>8, <1>11
    <3>2. hi(L - 1) = lo(L)
      BY <3>1, <1>3
    <3> QED
      BY <3>1, <3>2, <1>1, <1>3, <1>12
  <2> QED
    BY <2>1
<1>14. F <= L
  <2>1. ASSUME L < F PROVE FALSE
    <3>1. L \in 0 .. N - 2 /\ L + 1 \in 0 .. N - 1 /\ L + 1 <= F
      BY <2>1, <1>2, <1>8, <1>9
    <3>2. hi(L) = lo(L + 1) /\ lo(L + 1) \in Nat
      BY <3>1, <1>3
    <3>3. L + 1 = F \/ lo(L + 1) < lo(F)
      BY <3>1, <1>3, <1>8, <1>9
    <3> QED
      BY <3>2, <3>3, <1>1, <1>9, <1>12
  <2> QED
    BY <2>1, <1>8, <1>9
<1> QED
  BY <1>9, <1>10, <1>12, <1>13, <1>14 DEF F, L, N, lo, hi

(***************************************************************************)
(* The slices that pulp_rab_req_striped enters for a stripe follow each    *)
(* other from its start to its end, for every buffer.                      *)
(***************************************************************************)
THEOREM TableCoversStripes ==
    ASSUME NEW b, IsBuffer(b) PROVE Covers(b)
<1> SUFFICES ASSUME NEW j \in Stripes(b)
             PROVE  /\ SliceLo(b, j, 0) = b.lo[j] /\ SliceHi(b, j, NSlices(b, j) - 1) = b.hi[j]
                    /\ \A k \in 0 .. NSlices(b, j) - 1 : SliceLo(b, j, k) < SliceHi(b, j, k)
                    /\ \A k \in 1 .. NSlices(b, j) - 1 : SliceHi(b, j, k - 1) = SliceLo(b, j, k)
  BY DEF Covers
<1> DEFINE N == NSegs(b)
           F == FirstSeg(b, j)
           L == LastSeg(b, j)
           lo(s) == SegLo(b, s)
           hi(s) == SegHi(b, s)
           SL(k) == SliceLo(b, j, k)
           SH(k) == SliceHi(b, j, k)
<1>1. b.lo[j] \in Nat /\ b.hi[j] \in Nat /\ b.lo[j] < b.hi[j]
  BY BufferFacts
<1>2. N \in Nat \ {0}
  BY SegPageFacts
<1>3. /\ \A s \in 0 .. N - 1 : lo(s) \in Nat /\ hi(s) \in Nat /\ lo(s) < hi(s)
      /\ \A s \in 0 .. N - 2 : hi(s) = lo(s + 1)
  BY SegFacts
<1>4. /\ F \in 0 .. N - 1 /\ L \in 0 .. N - 1 /\ F <= L
      /\ F < N - 1 => b.lo[j] < lo(F + 1)
      /\ L > 0 => lo(L) < b.hi[j]
  BY SegsOfStripe
<1>5. NSlices(b, j) = L - F + 1
  BY DEF NSlices
<1>6. \A k : SL(k) = IF k = 0 THEN b.lo[j] ELSE lo(F + k)
  BY DEF SliceLo
<1>7. \A k : SH(k) = IF k = L - F THEN b.hi[j] ELSE hi(F + k)
  <2>1. NSlices(b, j) - 1 = L - F
    BY <1>4, <1>5
  <2> QED
    BY <2>1 DEF SliceHi
<1> HIDE DEF N, F, L, lo, hi, SL, SH
<1>8. SL(0) = b.lo[j] /\ SH(L - F) = b.hi[j]
  BY <1>6, <1>7
<1>9. ASSUME NEW k \in 0 .. L - F PROVE SL(k) < SH(k)
  <2>1. CASE k = 0 /\ k = L - F
    BY <2>1, <1>1, <1>6, <1>7
  <2>2. CASE k = 0 /\ k # L - F
    <3>1. F < N - 1 /\ F \in 0 .. N - 2 /\ F + 0 = F
      BY <2>2, <1>2, <1>4
    <3>2. SH(k) = hi(F) /\ SL(k) = b.lo[j]
      BY <2>2, <3>1, <1>6, <1>7
    <3> QED
      BY <3>1, <3>2, <1>3, <1>4
  <2>3. CASE k # 0 /\ k = L - F
    <3>1. F + k = L /\ L > 0
      BY <2>3, <1>4
    <3> QED
      BY <2>3, <3>1, <1>4, <1>6, <1>7
  <2>4. CASE k # 0 /\ k # L - F
    <3>1. F + k \in 0 .. N - 1
      BY <1>2, <1>4
    <3> QED
      BY <2>4, <3>1, <1>3, <1>6, <1>7
  <2> QED
    BY <2>1, <2>2, <2>3, <2>4
<1>10. ASSUME NEW k \in 1 .. L - F PROVE SH(k - 1) = SL(k)
  <2>1. k - 1 # L - F /\ F + (k - 1) \in 0 .. N - 2 /\ F + (k - 1) + 1 = F + k /\ k # 0
    BY <1>2, <1>4
  <2>2. SH(k - 1) = hi(F + (k - 1)) /\ SL(k) = lo(F + k)
    BY <2>1, <1>6, <1>7
  <2> QED
    BY <2>1, <2>2, <1>3
<1>11. NSlices(b, j) - 1 = L - F
  BY <1>4, <1>5
<1> QED
  BY <1>8, <1>9, <1>10, <1>11 DEF SL, SH

\* max_stripe_size_b is a size of some stripe and bounds them all.
LEMMA MaxStripeFacts ==
    ASSUME NEW b, IsBuffer(b)
    PROVE  /\ MaxStripe(b) \in Nat
           /\ \A j \in Stripes(b) : b.hi[j] - b.lo[j] <= MaxStripe(b)
<1> DEFINE D(j) == b.hi[j] - b.lo[j]
           S == {D(j) : j \in Stripes(b)}
           U == {n \in Nat : \A j \in Stripes(b) : n >= D(j)}
<1>1. /\ 0 \in Stripes(b)
      /\ \A j \in Stripes(b) : D(j) \in Nat /\ D(j) > 0 /\ D(j) <= End(b)
      /\ End(b) \in Nat
  BY BufferFacts
<1>2. MaxStripe(b) = CHOOSE n \in S : \A j \in Stripes(b) : n >= D(j)
  BY DEF MaxStripe
<1> HIDE DEF D
<1>3. U \in SUBSET Nat /\ End(b) \in U
  BY <1>1
<1>4. PICK n \in U : \A y \in U : n <= y
  BY <1>3, LeastNat
<1>5. n \in S
  <2>1. SUFFICES ASSUME \A j \in Stripes(b) : n # D(j) PROVE FALSE
    OBVIOUS
  <2>2. \A j \in Stripes(b) : n - 1 >= D(j)
    BY <2>1, <1>1
  <2>3. n - 1 \in Nat
    BY <1>1
  <2>4. n - 1 \in U
    BY <2>2, <2>3
  <2> QED
    BY <2>4, <1>4
<1>6. \E x \in S : \A j \in Stripes(b) : x >= D(j)
  BY <1>5
<1>7. MaxStripe(b) \in S /\ \A j \in Stripes(b) : MaxStripe(b) >= D(j)
  BY <1>2, <1>6
<1>8. MaxStripe(b) \in Nat
  BY <1>1, <1>7
<1> QED
  BY <1>1, <1>7, <1>8 DEF D

(***************************************************************************)
(* n_slices_per_stripe is enough for every stripe of every buffer: the     *)
(* warning "touches too many memory segments" is never printed.            *)
(***************************************************************************)
THEOREM ReservedSlicesSuffice ==
    ASSUME NEW b, IsBuffer(b) PROVE Suffices(b)
<1> SUFFICES ASSUME NEW j \in Stripes(b) PROVE NSlices(b, j) \in 1 .. SlicesPerStripe(b)
  BY DEF Suffices
<1> DEFINE N == NSegs(b)
           F == FirstSeg(b, j)
           L == LastSeg(b, j)
           lo(s) == SegLo(b, s)
<1>1. b.lo[j] \in Nat /\ b.hi[j] \in Nat /\ b.lo[j] < b.hi[j]
  BY BufferFacts
<1>2. N \in Nat \ {0} /\ P \in Nat \ {0}
  BY SegPageFacts, PageAssumption
<1>3. /\ \A s \in 0 .. N - 1 : lo(s) \in Nat
      /\ \A s, t \in 1 .. N - 1 : s <= t => P * (t - s) <= lo(t) - lo(s)
  BY SegFacts
<1>4. /\ F \in 0 .. N - 1 /\ L \in 0 .. N - 1 /\ F <= L
      /\ F < N - 1 => b.lo[j] < lo(F + 1)
      /\ L > 0 => lo(L) < b.hi[j]
  BY SegsOfStripe
<1>5. NSlices(b, j) = L - F + 1
  BY DEF NSlices
<1>6. MaxStripe(b) \in Nat /\ b.hi[j] - b.lo[j] <= MaxStripe(b)
  BY MaxStripeFacts
<1>7. PICK q \in Nat, e \in Nat : e = MaxStripe(b) + P - 1 /\ q = Page(e)
  <2>1. MaxStripe(b) + P - 1 \in Nat
    BY <1>2, <1>6
  <2> QED
    BY <2>1, PageFacts
<1>8. SlicesPerStripe(b) = q + 1
  BY <1>7 DEF SlicesPerStripe, Page
<1>9. PICK u \in Int : u = P * q /\ u <= e /\ e < u + P
  <2>1. P * q \in Int
    BY TimesP
  <2>2. P * q <= e /\ e < P * q + P
    BY <1>7, PageFacts
  <2> QED
    BY <2>1, <2>2
<1> HIDE DEF N, F, L, lo
<1>10. CASE L <= F + 1
  <2>1. q # 0 \/ L = F
    <3>1. q = 0 => u = 0
      BY <1>2, <1>9
    <3>2. MaxStripe(b) > 0
      BY <1>1, <1>6
    <3> QED
      BY <3>1, <3>2, <1>2, <1>6, <1>7, <1>9
  <2> QED
    BY <2>1, <1>2, <1>4, <1>5, <1>8, <1>10
<1>11. CASE L > F + 1
  <2>1. F + 1 \in 1 .. N - 1 /\ L \in 1 .. N - 1 /\ F + 1 <= L
    BY <1>2, <1>4, <1>11
  <2>2. P * (L - (F + 1)) <= lo(L) - lo(F + 1)
    BY <2>1, <1>3
  <2>3. PICK d \in Int : d = L - (F + 1)
    BY <1>4
  <2>4. PICK v \in Int : v = P * d
    BY TimesP
  <2>5. lo(L) \in Nat /\ lo(F + 1) \in Nat /\ b.lo[j] < lo(F + 1) /\ lo(L) < b.hi[j]
    BY <2>1, <1>2, <1>3, <1>4
  <2>6. v < MaxStripe(b)
    BY <2>2, <2>3, <2>4, <2>5, <1>1, <1>6
  <2>7. v < u
    BY <2>6, <1>2, <1>6, <1>7, <1>9
  <2>8. d < q
    BY <2>4, <2>7, <1>9, TimesP
  <2> QED
    BY <2>3, <2>8, <1>4, <1>5, <1>8
<1> QED
  BY <1>4, <1>10, <1>11

\* The frames of a segment follow each other.
LEMMA SegFrames ==
    ASSUME NEW b, IsBuffer(b), NEW s \in 0 .. NSegs(b) - 1, NEW i \in 0 .. NPages(b) - 1,
           SegPage(b, s) <= i, s < NSegs(b) - 1 => i < SegPage(b, s + 1)
    PROVE  b.frame[i] = b.frame[SegPage(b, s)] + (i - SegPage(b, s))
<1> DEFINE N == NSegs(b)
           p == SegPage(b, s)
           Bad == {k \in p .. i : b.frame[k] # b.frame[p] + (k - p)}
<1>1. /\ NPages(b) \in Nat /\ N \in Nat /\ p \in 0 .. NPages(b) - 1
      /\ \A k \in Breaks(b) : p < k => s + 1 <= N - 1 /\ SegPage(b, s + 1) <= k
      /\ \A t \in 0 .. N - 1 : SegPage(b, t) \in Nat
  <2>1. NPages(b) \in Nat
    BY NPagesFacts
  <2> QED
    BY <2>1, SegPageFacts
<1>2. \A k \in 0 .. NPages(b) - 1 : b.frame[k] \in Nat
  BY BufferFacts
<1> HIDE DEF N, p
<1>3. SUFFICES ASSUME Bad # {} PROVE FALSE
  <2>1. i \in p .. i
    BY <1>1 DEF p
  <2>2. i \notin Bad
    BY <1>3
  <2> QED
    BY <2>1, <2>2 DEF p
<1>4. Bad \in SUBSET Nat
  BY <1>1
<1>5. PICK k \in Bad : \A y \in Bad : k <= y
  BY <1>3, <1>4, LeastNat
<1>6. k \in p .. i /\ b.frame[k] # b.frame[p] + (k - p)
  OBVIOUS
<1>7. k # p
  BY <1>1, <1>2, <1>6
<1>8. k - 1 \in p .. i /\ k \in 1 .. NPages(b) - 1 /\ k - 1 \in 0 .. NPages(b) - 1 /\ p < k
  BY <1>1, <1>6, <1>7
<1>9. b.frame[k - 1] = b.frame[p] + (k - 1 - p)
  <2>1. k - 1 \notin Bad
    BY <1>1, <1>5, <1>6
  <2> QED
    BY <2>1, <1>8
<1>10. k \notin Breaks(b)
  <2>1. ASSUME k \in Breaks(b) PROVE FALSE
    <3>1. s + 1 <= N - 1 /\ SegPage(b, s + 1) <= k
      BY <2>1, <1>1, <1>8
    <3>2. i < SegPage(b, s + 1) /\ s + 1 \in 0 .. N - 1
      BY <3>1, <1>1 DEF N
    <3>3. SegPage(b, s + 1) \in Nat
      BY <3>2, <1>1
    <3> QED
      BY <3>1, <3>2, <3>3, <1>1, <1>6
  <2> QED
    BY <2>1
<1>11. b.frame[k] = b.frame[k - 1] + 1
  BY <1>8, <1>10 DEF Breaks
<1> QED
  BY <1>1, <1>2, <1>6, <1>8, <1>9, <1>11

\* The page of an address that is given by its page.
LEMMA PageOf ==
    ASSUME NEW m \in Nat, NEW r \in 0 .. P - 1 PROVE Page(P * m + r) = m
<1>1. P \in Nat \ {0}
  BY PageAssumption
<1>2. P * m \in Nat
  BY <1>1
<1>3. PICK a \in Nat : a = P * m + r
  BY <1>1, <1>2
<1>4. P * m <= a => m <= Page(a)
  BY PageBetween
<1>5. P * (m + 1) = P * m + P
  BY <1>1
<1>6. a < P * (m + 1) => Page(a) < m + 1
  BY PageBetween
<1>7. Page(a) \in Nat
  BY PageFacts
<1>8. m <= Page(a)
  BY <1>1, <1>2, <1>3, <1>4
<1>9. a < P * (m + 1)
  BY <1>1, <1>2, <1>3, <1>5
<1>10. Page(a) < m + 1
  BY <1>6, <1>9
<1> QED
  BY <1>3, <1>7, <1>8, <1>10

\* A piece of a segment of an aligned buffer.
LEMMA PieceFacts ==
    ASSUME NEW b, IsBuffer(b), InPage(Start(b)) = 0, NEW s \in 0 .. NSegs(b) - 1,
           NEW x \in Nat, NEW y \in Nat, SegLo(b, s) <= x, x < y, y <= SegHi(b, s)
    PROVE  /\ SegPage(b, s) \in 0 .. NPages(b) - 1 /\ b.frame[SegPage(b, s)] \in Nat
           /\ Page(SegLo(b, s)) = SegPage(b, s)
           /\ SegOffset(b, s) = P * b.frame[SegPage(b, s)]
           /\ Page(x) \in Nat /\ SegPage(b, s) <= Page(x)
           /\ \A i \in Page(x) .. Page(y - 1) :
                  b.frame[i] = b.frame[SegPage(b, s)] + (i - SegPage(b, s))
<1> DEFINE N == NSegs(b)
           p(t) == SegPage(b, t)
<1>1. P \in Nat \ {0}
  BY PageAssumption
<1>2. /\ N \in Nat /\ p(0) = 0
      /\ \A t \in 0 .. N - 1 : p(t) \in 0 .. NPages(b) - 1
  BY SegPageFacts
<1>3. NPages(b) \in Nat /\ End(b) <= P * NPages(b)
  BY NPagesFacts
<1>4. Start(b) = 0 /\ End(b) \in Nat
  <2>1. Start(b) \in 0 .. P - 1 /\ End(b) \in Nat
    BY BufferFacts
  <2> QED
    BY <2>1, <1>1 DEF InPage
<1>5. p(s) \in Nat /\ P * p(s) \in Nat
  <2>1. p(s) \in Nat
    BY <1>2, <1>3
  <2> QED
    BY <2>1, <1>1
<1>6. SegLo(b, s) = P * p(s)
  <2>1. P * 0 = 0
    BY <1>1
  <2> QED
    BY <2>1, <1>2, <1>4 DEF SegLo
<1>7. Page(SegLo(b, s)) = p(s)
  BY <1>5, <1>6, PageBetween
<1>8. b.frame[p(s)] \in Nat
  BY <1>2, BufferFacts
<1>9. SegOffset(b, s) = P * b.frame[p(s)]
  <2>1. P * b.frame[p(s)] \in Nat
    BY <1>1, <1>8
  <2>2. SegOffset(b, s) = P * b.frame[p(s)] + 0
    BY DEF SegOffset
  <2> QED
    BY <2>1, <2>2
<1>10. Page(x) \in Nat /\ p(s) <= Page(x)
  <2>1. P * p(s) <= x
    BY <1>6
  <2> QED
    BY <2>1, <1>5, PageFacts, PageBetween
<1>11. y - 1 \in Nat
  OBVIOUS
<1>12. PICK z \in Nat : z = Page(y - 1)
  BY <1>11, PageFacts
<1>13. /\ z < NPages(b)
       /\ s < N - 1 => z < p(s + 1)
  <2>1. CASE s < N - 1
    <3>1. SegHi(b, s) = P * p(s + 1) /\ s + 1 \in 0 .. N - 1
      BY <2>1, <1>2 DEF SegHi
    <3>2. p(s + 1) \in Nat /\ p(s + 1) <= NPages(b) - 1
      BY <3>1, <1>2, <1>3
    <3>3. P * p(s + 1) \in Nat
      BY <3>2, <1>1
    <3>4. y - 1 < P * p(s + 1)
      BY <3>1, <3>3, <1>11
    <3>5. Page(y - 1) < p(s + 1)
      BY <3>2, <3>4, <1>11, PageBetween
    <3> QED
      BY <3>2, <3>5, <1>3, <1>12
  <2>2. CASE s = N - 1
    <3>1. SegHi(b, s) = End(b)
      BY <2>2 DEF SegHi
    <3>2. P * NPages(b) \in Int
      BY <1>3, TimesP
    <3>3. y - 1 < P * NPages(b)
      BY <3>1, <3>2, <1>3, <1>4, <1>11
    <3>4. Page(y - 1) < NPages(b)
      BY <3>3, <1>3, <1>11, PageBetween
    <3> QED
      BY <2>2, <3>4, <1>12
  <2> QED
    BY <2>1, <2>2, <1>2
<1>14. ASSUME NEW i \in Page(x) .. Page(y - 1)
       PROVE  b.frame[i] = b.frame[p(s)] + (i - p(s))
  <2>1. i \in 0 .. NPages(b) - 1 /\ p(s) <= i
    BY <1>3, <1>5, <1>10, <1>12, <1>13
  <2>2. s < N - 1 => i < p(s + 1)
    <3>1. s < N - 1 => p(s + 1) \in Nat
      BY <1>2, <1>3
    <3> QED
      BY <3>1, <2>1, <1>12, <1>13
  <2> QED
    BY <2>1, <2>2, SegFrames
<1> QED
  BY <1>2, <1>7, <1>8, <1>9, <1>10, <1>14

(***************************************************************************)
(* Every slice of the table translates its pages to their frames, if the   *)
(* buffer starts on a page border.                                         *)
(***************************************************************************)
THEOREM AlignedTableTranslates ==
    ASSUME NEW b, IsBuffer(b), InPage(Start(b)) = 0,
           NEW j \in Stripes(b), NEW k \in 0 .. NSlices(b, j) - 1
    PROVE  TranslatesSlice(b, j, k)
<1> DEFINE N == NSegs(b)
           F == FirstSeg(b, j)
           L == LastSeg(b, j)
           s == F + k
           x == SliceLo(b, j, k)
           y == SliceHi(b, j, k)
           p == SegPage(b, s)
           fr == b.frame[p]
<1>1. P \in Nat \ {0}
  BY PageAssumption
<1>2. /\ F \in 0 .. N - 1 /\ L \in 0 .. N - 1 /\ F <= L
      /\ SegLo(b, F) <= b.lo[j] /\ b.hi[j] <= SegHi(b, L)
  BY SegsOfStripe
<1>3. NSlices(b, j) - 1 = L - F /\ k \in 0 .. L - F /\ N \in Nat
  BY <1>2, SegPageFacts DEF NSlices
<1>4. s \in 0 .. N - 1
  BY <1>2, <1>3
<1>5. b.lo[j] \in Nat /\ b.hi[j] \in Nat
  BY BufferFacts
<1>6. SegLo(b, s) \in Nat /\ SegHi(b, s) \in Nat
  BY <1>4, SegFacts
<1>7. x < y
  BY TableCoversStripes DEF Covers
<1>8. x = (IF k = 0 THEN b.lo[j] ELSE SegLo(b, s)) /\ y = (IF k = L - F THEN b.hi[j] ELSE SegHi(b, s))
  BY <1>3 DEF SliceLo, SliceHi
<1>9. x \in Nat /\ y \in Nat /\ SegLo(b, s) <= x /\ y <= SegHi(b, s)
  <2>1. x \in Nat /\ SegLo(b, s) <= x
    <3>1. CASE k = 0
      <4>1. s = F
        BY <3>1, <1>2
      <4>2. SegLo(b, s) = SegLo(b, F) /\ x = b.lo[j]
        BY <4>1, <3>1, <1>8
      <4> QED
        BY <4>2, <1>2, <1>5
    <3>2. CASE k # 0
      <4>1. x = SegLo(b, s)
        BY <3>2, <1>8
      <4> QED
        BY <4>1, <1>6
    <3> QED
      BY <3>1, <3>2
  <2>2. y \in Nat /\ y <= SegHi(b, s)
    <3>1. CASE k = L - F
      <4>1. s = L
        BY <3>1, <1>2
      <4>2. SegHi(b, s) = SegHi(b, L) /\ y = b.hi[j]
        BY <4>1, <3>1, <1>8
      <4> QED
        BY <4>2, <1>2, <1>5
    <3>2. CASE k # L - F
      <4>1. y = SegHi(b, s)
        BY <3>2, <1>8
      <4> QED
        BY <4>1, <1>6
    <3> QED
      BY <3>1, <3>2
  <2> QED
    BY <2>1, <2>2
<1>10. /\ p \in Nat /\ fr \in Nat /\ Page(SegLo(b, s)) = p /\ SegOffset(b, s) = P * fr
       /\ Page(x) \in Nat /\ p <= Page(x)
       /\ \A i \in Page(x) .. Page(y - 1) : b.frame[i] = fr + (i - p)
  BY <1>4, <1>7, <1>9, PieceFacts
<1>11. Page(SliceOffset(b, j, k)) = fr + (Page(x) - p)
  <2>1. CASE k = 0
    <3>1. s = F /\ x = b.lo[j]
      BY <2>1, <1>2, <1>8
    <3>2. PICK r \in 0 .. P - 1 : r = IF j = 0 THEN 0 ELSE InPage(b.lo[j])
      BY <1>1, <1>5, PageFacts
    <3>3. SliceOffset(b, j, k) = P * fr + P * (Page(x) - p) + r
      BY <2>1, <3>1, <3>2, <1>10 DEF SliceOffset
    <3>4. PICK u \in Nat, v \in Nat : u = fr /\ v = Page(x) - p
      BY <1>10
    <3>5. P * u + P * v = P * (u + v)
      BY <1>1
    <3>6. Page(P * (u + v) + r) = u + v
      BY PageOf
    <3> QED
      BY <3>3, <3>4, <3>5, <3>6
  <2>2. CASE k # 0
    <3>1. x = SegLo(b, s) /\ Page(x) = p
      BY <2>2, <1>8, <1>10
    <3>2. SliceOffset(b, j, k) = P * fr
      BY <2>2, <1>10 DEF SliceOffset
    <3>3. PICK u \in Nat : u = fr
      BY <1>10
    <3>4. P * u \in Nat /\ 0 \in 0 .. P - 1
      BY <1>1
    <3>5. Page(P * u) = u
      BY <3>4, PageBetween
    <3> QED
      BY <3>1, <3>2, <3>3, <3>5, <1>10
  <2> QED
    BY <2>1, <2>2
<1> HIDE DEF fr, p, x, y
<1>12. ASSUME NEW i \in Page(x) .. Page(y - 1)
       PROVE  Page(SliceOffset(b, j, k)) + (i - Page(x)) = b.frame[i]
  <2>1. i \in Int
    OBVIOUS
  <2> QED
    BY <2>1, <1>10, <1>11
<1> QED
  BY <1>12 DEF TranslatesSlice, x, y

-----------------------------------------------------------------------------
(* The double buffering *)

W == NSets(elem[active])

\* The set that holds the stripe mapped d updates ago.
SetOf(d) == (SetSel + W - d) % W

\* What it holds: that stripe, or nothing if there were fewer updates.
Held(d) == IF d <= Len(recent) THEN Mapped(elem[active], recent[d]) ELSE Empty

ElemOK(m) ==
    \/ elem[m] = NoElem
    \/ /\ elem[m].type \in ElemTypes
       /\ elem[m].buf \in Buffers
       /\ elem[m].n \in Nat \ {0}
       /\ elem[m].per \in 1 .. MaxSlices
       /\ elem[m].n > 1 => idx[m] < elem[m].n
       /\ off[m] < NSets(elem[m])
       /\ \A j, k \in Nat : k >= elem[m].per /\ j < elem[m].n => ~(k < elem[m].ns[j])

DataInv ==
    /\ active \in Mappings
    /\ at \in (0 .. MaxSlices) \cup {None}
    /\ hw \in [Sets -> [Slots -> Nat \cup {None}]]
    /\ recent \in Seq(Nat)
    /\ elem = [m \in Mappings |-> elem[m]]
    /\ idx \in [Mappings -> Nat] /\ off \in [Mappings -> Sets]
    /\ \A m \in Mappings : ElemOK(m)

IdleInv == elem[active] = NoElem =>
    at = None /\ recent = <<>> /\ hw = [s \in Sets |-> Empty]

RotateInv == elem[active] # NoElem =>
    /\ Len(recent) \in 1 .. W
    /\ \A d \in 1 .. Len(recent) : recent[d] < elem[active].n
    /\ at # None => at <= elem[active].per /\ elem[active].n > 1
    /\ \A d \in 1 .. W : d < W \/ at = None => hw[SetOf(d)] = Held(d)
    /\ at # None => \A k \in Slots :
          hw[SetSel][k] = IF k < at THEN Mapped(elem[active], idx[active])[k]
                                    ELSE Held(W)[k]
    /\ \A s \in Sets : s >= W => hw[s] = Empty

StripeInv == DataInv /\ IdleInv /\ RotateInv

\* What a request enters into rab_stripe_req.
LEMMA ElemFacts ==
    ASSUME NEW t \in ElemTypes, NEW b \in Buffers
    PROVE  /\ Elem(t, b) # NoElem
           /\ Elem(t, b).type = t /\ Elem(t, b).buf = b
           /\ Elem(t, b).n \in Nat \ {0}
           /\ Elem(t, b).per \in 1 .. MaxSlices
           /\ \A j, k \in Nat : k >= Elem(t, b).per /\ j < Elem(t, b).n
                                    => ~(k < Elem(t, b).ns[j])
<1> DEFINE e == Elem(t, b)
<1>1. /\ e.type = t /\ e.buf = b /\ e.per = SlicesPerStripe(b)
      /\ e.n = Cardinality(Stripes(b))
      /\ e.ns = [j \in Stripes(b) |-> NSlices(b, j)]
  BY DEF Elem
<1>2. e # NoElem
  BY <1>1 DEF NoElem, ElemTypes
<1>3. /\ e.n \in Nat \ {0} /\ e.per \in 1 .. MaxSlices /\ Stripes(b) = 0 .. e.n - 1
  BY <1>1, StripeAssumption, BufferFacts
<1>4. ASSUME NEW j \in Nat, NEW k \in Nat, k >= e.per, j < e.n PROVE ~(k < e.ns[j])
  <2>1. j \in Stripes(b)
    BY <1>3, <1>4
  <2>2. e.ns[j] = NSlices(b, j)
    BY <1>1, <2>1
  <2>3. NSlices(b, j) \in 1 .. e.per
    BY <1>1, <2>1, StripeAssumption, ReservedSlicesSuffice DEF Suffices
  <2> QED
    BY <1>3, <1>4, <2>2, <2>3
<1> QED
  BY <1>1, <1>2, <1>3, <1>4

\* Initially there is no striped element.
LEMMA StripeInitInv == StripeInit => StripeInv
BY StripeAssumption DEF StripeInit, StripeInv, DataInv, IdleInv, RotateInv, ElemOK,
   Mappings, Sets, Slots, Empty, None, NoElem

\* There are two or four sets.
LEMMA SetsOf == ASSUME NEW e PROVE NSets(e) \in {2, 4}
BY DEF NSets

\* The hardware of a mapping that has just been activated, the next stripe
\* going into the second set.
LEMMA FreshSets ==
    ASSUME NEW e, e # NoElem, NEW w \in {2, 4}
    PROVE  /\ \A d \in 1 .. w : FirstStripe(e)[(1 + w - d) % w]
                                  = IF d <= 1 THEN Mapped(e, 0) ELSE Empty
           /\ \A s \in Sets : s >= w => FirstStripe(e)[s] = Empty
<1>1. \A s \in Sets : FirstStripe(e)[s] = IF s = 0 THEN Mapped(e, 0) ELSE Empty
  BY DEF FirstStripe
<1>2. \A d \in 1 .. w : (1 + w - d) % w \in Sets /\ ((1 + w - d) % w = 0 <=> d = 1)
  BY DEF Sets
<1>3. ASSUME NEW d \in 1 .. w
      PROVE  FirstStripe(e)[(1 + w - d) % w] = IF d <= 1 THEN Mapped(e, 0) ELSE Empty
  <2> DEFINE x == (1 + w - d) % w
  <2>1. x \in Sets /\ (x = 0 <=> d = 1) /\ (d <= 1 <=> d = 1)
    BY <1>2
  <2> HIDE DEF x
  <2>2. FirstStripe(e)[x] = IF d <= 1 THEN Mapped(e, 0) ELSE Empty
    BY <1>1, <2>1
  <2> QED
    BY <2>2 DEF x
<1>4. ASSUME NEW s \in Sets, s >= w PROVE FirstStripe(e)[s] = Empty
  BY <1>1, <1>4
<1> QED
  BY <1>3, <1>4

LEMMA FreshTypes ==
    ASSUME NEW e
    PROVE  /\ FirstStripe(e) \in [Sets -> [Slots -> Nat \cup {None}]]
           /\ [s \in Sets |-> Empty] \in [Sets -> [Slots -> Nat \cup {None}]]
<1>1. Mapped(e, 0) \in [Slots -> Nat \cup {None}]
  BY DEF Mapped
<1>2. Empty \in [Slots -> Nat \cup {None}]
  BY DEF Empty
<1> QED
  BY <1>1, <1>2 DEF FirstStripe

\* A fresh mapping satisfies the invariant: the part about its window.
LEMMA FreshWindow ==
    ASSUME active' \in Mappings, elem'[active'] # NoElem, at' = None,
           idx'[active'] = 1, off'[active'] = 0,
           recent' = FirstRecent(elem'[active']),
           hw' = FirstStripe(elem'[active']), elem'[active'].n \in Nat \ {0}
    PROVE  RotateInv'
<1> DEFINE e == elem'[active']
           w == NSets(e)
<1>1. w \in {2, 4}
  BY SetsOf
<1>2. SetSel' = 1 /\ W' = w
  <2>1. SetSel' = (1 + 0) % w
    BY DEF SetSel
  <2> QED
    BY <1>1, <2>1 DEF W
<1>3. Len(recent') = 1 /\ recent'[1] = 0
  BY DEF FirstRecent
<1>4. \A d \in 1 .. w : hw'[(1 + w - d) % w] = IF d <= 1 THEN Mapped(e, 0) ELSE Empty
  BY <1>1, FreshSets
<1>5. \A s \in Sets : s >= w => hw'[s] = Empty
  BY <1>1, FreshSets
<1>6. \A d \in 1 .. W' : hw'[SetOf(d)'] = Held(d)'
  BY <1>2, <1>3, <1>4 DEF SetOf, Held
<1> QED
  BY <1>1, <1>2, <1>3, <1>5, <1>6 DEF RotateInv

\* Requests and frees.
LEMMA RequestInv ==
    ASSUME StripeInv, NEW m \in Ids, NEW t \in ElemTypes, NEW b \in Buffers,
           RequestStriped(m, t, b)
    PROVE  StripeInv'
<1> DEFINE e == Elem(t, b)
<1>1. /\ e # NoElem /\ e.type = t /\ e.buf = b /\ e.n \in Nat \ {0}
      /\ e.per \in 1 .. MaxSlices
      /\ \A j, k \in Nat : k >= e.per /\ j < e.n => ~(k < e.ns[j])
  BY ElemFacts
<1> HIDE DEF e
<1>2. m \in Mappings
  BY StripeAssumption
<1>3. /\ at = None /\ at' = None /\ active' = active /\ elem[m] = NoElem
      /\ elem' = [elem EXCEPT ![m] = e]
      /\ idx' = [idx EXCEPT ![m] = 1] /\ off' = [off EXCEPT ![m] = 0]
      /\ m = active => hw' = FirstStripe(e) /\ recent' = <<0>>
      /\ m # active => hw' = hw /\ recent' = recent
  BY DEF RequestStriped, e
<1>4. /\ elem'[m] = e /\ idx'[m] = 1 /\ off'[m] = 0
      /\ \A n \in Mappings \ {m} : elem'[n] = elem[n] /\ idx'[n] = idx[n] /\ off'[n] = off[n]
      /\ elem' = [n \in Mappings |-> elem'[n]]
      /\ idx' \in [Mappings -> Nat] /\ off' \in [Mappings -> Sets]
  <2>1. /\ elem = [n \in Mappings |-> elem[n]]
        /\ idx \in [Mappings -> Nat] /\ off \in [Mappings -> Sets] /\ 0 \in Sets
    BY DEF StripeInv, DataInv, Sets
  <2>2. elem' = [n \in Mappings |-> elem'[n]] /\ elem'[m] = e
        /\ \A n \in Mappings \ {m} : elem'[n] = elem[n]
    BY <1>2, <1>3, <2>1
  <2> QED
    BY <1>2, <1>3, <2>1, <2>2
<1>5. \A n \in Mappings : ElemOK(n)'
  <2> SUFFICES ASSUME NEW n \in Mappings PROVE ElemOK(n)'
    OBVIOUS
  <2>1. CASE n = m
    <3>1. NSets(e) \in {2, 4}
      BY SetsOf
    <3> QED
      BY <1>1, <1>4, <2>1, <3>1 DEF ElemOK
  <2>2. CASE n # m
    BY <1>4, <2>2 DEF ElemOK, StripeInv, DataInv
  <2> QED
    BY <2>1, <2>2
<1>6. hw' \in [Sets -> [Slots -> Nat \cup {None}]] /\ recent' \in Seq(Nat)
  <2>1. hw \in [Sets -> [Slots -> Nat \cup {None}]] /\ recent \in Seq(Nat)
    BY DEF StripeInv, DataInv
  <2>2. <<0>> \in Seq(Nat)
    OBVIOUS
  <2>3. hw' = FirstStripe(e) \/ hw' = hw
    BY <1>3
  <2>4. recent' = <<0>> \/ recent' = recent
    BY <1>3
  <2>5. hw' \in [Sets -> [Slots -> Nat \cup {None}]]
    BY <2>1, <2>3, FreshTypes, Zenon
  <2> QED
    BY <2>1, <2>2, <2>4, <2>5, Zenon
<1>7. DataInv'
  BY <1>3, <1>4, <1>5, <1>6 DEF DataInv, StripeInv
<1>8. CASE m = active
  <2>1. RotateInv'
    BY <1>1, <1>2, <1>3, <1>4, <1>8, FreshWindow DEF FirstRecent
  <2>2. IdleInv'
    BY <1>1, <1>3, <1>4, <1>8 DEF IdleInv
  <2> QED
    BY <1>7, <2>1, <2>2 DEF StripeInv
<1>9. CASE m # active
  <2>1. /\ elem'[active'] = elem[active] /\ idx'[active'] = idx[active]
        /\ off'[active'] = off[active] /\ hw' = hw /\ recent' = recent /\ at' = at
    BY <1>3, <1>4, <1>9 DEF StripeInv, DataInv
  <2>2. RotateInv' /\ IdleInv'
    BY <2>1 DEF StripeInv, RotateInv, IdleInv, W, SetOf, SetSel, Held
  <2> QED
    BY <1>7, <2>2 DEF StripeInv
<1> QED
  BY <1>8, <1>9

LEMMA FreeInv ==
    ASSUME StripeInv, NEW m \in Mappings, FreeStriped(m) PROVE StripeInv'
<1>1. /\ at = None /\ at' = None /\ active' = active /\ idx' = idx /\ off' = off
      /\ elem' = [elem EXCEPT ![m] = NoElem]
      /\ m = active => hw' = [s \in Sets |-> Empty] /\ recent' = <<>>
      /\ m # active => hw' = hw /\ recent' = recent
  BY DEF FreeStriped
<1>2. /\ elem'[m] = NoElem /\ \A n \in Mappings \ {m} : elem'[n] = elem[n]
      /\ elem' = [n \in Mappings |-> elem'[n]]
  BY <1>1 DEF StripeInv, DataInv
<1>3. \A n \in Mappings : ElemOK(n)'
  BY <1>1, <1>2 DEF ElemOK, StripeInv, DataInv
<1>4. DataInv'
  <2>1. hw' \in [Sets -> [Slots -> Nat \cup {None}]] /\ recent' \in Seq(Nat)
    <3>1. hw \in [Sets -> [Slots -> Nat \cup {None}]] /\ recent \in Seq(Nat)
      BY DEF StripeInv, DataInv
    <3>2. <<>> \in Seq(Nat)
      OBVIOUS
    <3>3. /\ hw' = [s \in Sets |-> Empty] \/ hw' = hw
          /\ recent' = <<>> \/ recent' = recent
      BY <1>1
    <3>4. hw' \in [Sets -> [Slots -> Nat \cup {None}]]
      BY <3>1, <3>3, FreshTypes, Zenon
    <3> QED
      BY <3>1, <3>2, <3>3, <3>4, Zenon
  <2> QED
    BY <1>1, <1>2, <1>3, <2>1 DEF DataInv, StripeInv
<1>5. CASE m = active
  BY <1>1, <1>2, <1>4, <1>5 DEF StripeInv, RotateInv, IdleInv
<1>6. CASE m # active
  <2>1. /\ elem'[active'] = elem[active] /\ hw' = hw /\ recent' = recent /\ at' = at
    BY <1>1, <1>2, <1>6 DEF StripeInv, DataInv
  <2>2. RotateInv' /\ IdleInv'
    BY <1>1, <2>1 DEF StripeInv, RotateInv, IdleInv, W, SetOf, SetSel, Held
  <2> QED
    BY <1>4, <2>2 DEF StripeInv
<1> QED
  BY <1>5, <1>6

\* A switch to a mapping whose next stripe goes into the second set.
LEMMA SwitchInv ==
    ASSUME StripeInv, ~Rewinds, Switch PROVE StripeInv'
<1> DEFINE to == 1 - active
<1>1. /\ to \in Mappings /\ at = None /\ at' = None /\ active' = to
      /\ elem' = elem /\ off' = off
      /\ elem[to] = NoElem \/ (off[to] = 0 /\ elem[to].type # "out")
      /\ idx' = [idx EXCEPT ![to] = IF elem[to] = NoElem THEN @ ELSE StartsAt(elem[to])]
      /\ hw' = FirstStripe(elem[to]) /\ recent' = FirstRecent(elem[to])
  BY DEF Switch, StripeInv, DataInv, Mappings
<1>2. /\ idx' \in [Mappings -> Nat]
      /\ \A n \in Mappings \ {to} : idx'[n] = idx[n]
      /\ elem[to] = NoElem => idx'[to] = idx[to]
      /\ elem[to] # NoElem => idx'[to] = 1
  BY <1>1 DEF StripeInv, DataInv, StartsAt
<1> HIDE DEF to
<1>3. \A n \in Mappings : ElemOK(n)'
  BY <1>1, <1>2 DEF ElemOK, StripeInv, DataInv
<1>4. hw' \in [Sets -> [Slots -> Nat \cup {None}]] /\ recent' \in Seq(Nat)
  BY <1>1, FreshTypes DEF FirstRecent
<1>5. DataInv'
  BY <1>1, <1>2, <1>3, <1>4 DEF DataInv, StripeInv
<1>6. CASE elem[to] = NoElem
  <2>1. recent' = <<>> /\ hw' = [s \in Sets |-> Empty]
    BY <1>1, <1>6 DEF FirstStripe, FirstRecent
  <2> QED
    BY <1>1, <1>5, <1>6, <2>1 DEF StripeInv, RotateInv, IdleInv
<1>7. CASE elem[to] # NoElem
  <2>1. /\ elem'[active'] # NoElem /\ idx'[active'] = 1 /\ off'[active'] = 0
        /\ recent' = FirstRecent(elem'[active']) /\ hw' = FirstStripe(elem'[active'])
        /\ elem'[active'].n \in Nat \ {0}
    BY <1>1, <1>2, <1>7 DEF StripeInv, DataInv, ElemOK
  <2>2. RotateInv'
    BY <1>1, <2>1, FreshWindow
  <2> QED
    BY <1>5, <2>1, <2>2 DEF StripeInv, IdleInv
<1> QED
  BY <1>6, <1>7

----------------------------------------------------------------------------
\* The facts about the element of the active mapping that an update uses.
LEMMA ActiveElem ==
    ASSUME StripeInv, elem[active] # NoElem
    PROVE  /\ active \in Mappings /\ W \in {2, 4}
           /\ idx[active] \in Nat /\ off[active] \in Nat /\ off[active] < W
           /\ elem[active].n \in Nat /\ elem[active].per \in 1 .. MaxSlices
           /\ elem[active].n > 1 => idx[active] < elem[active].n
           /\ (elem[active].type = "inout" <=> W = 4)
           /\ SetSel = (idx[active] + off[active]) % W /\ SetSel \in 0 .. W - 1
<1>1. active \in Mappings /\ ElemOK(active) /\ idx \in [Mappings -> Nat]
      /\ off \in [Mappings -> Sets]
  BY DEF StripeInv, DataInv
<1>2. W \in {2, 4} /\ (elem[active].type = "inout" <=> W = 4)
  BY DEF W, NSets
<1>3. idx[active] \in Nat /\ off[active] \in Nat
  BY <1>1 DEF Sets
<1>4. /\ elem[active].n \in Nat /\ elem[active].per \in 1 .. MaxSlices
      /\ elem[active].n > 1 => idx[active] < elem[active].n
      /\ off[active] < W
  BY <1>1 DEF ElemOK, W
<1>5. SetSel = (idx[active] + off[active]) % W
  BY DEF SetSel, W
<1>6. SetSel \in 0 .. W - 1
  BY <1>2, <1>3, <1>5
<1> QED
  BY <1>1, <1>2, <1>3, <1>4, <1>5, <1>6

LEMMA UpdateStartInv == ASSUME StripeInv, UpdateStart PROVE StripeInv'
<1>1. /\ at = None /\ at' = 0 /\ elem[active] # NoElem /\ elem[active].n > 1
      /\ UNCHANGED <<elem, idx, off, active, hw, recent>>
  BY DEF UpdateStart
<1>2. DataInv'
  BY <1>1, StripeAssumption DEF StripeInv, DataInv, ElemOK
<1>3. IdleInv'
  BY <1>1 DEF IdleInv
<1>4. W \in {2, 4} /\ SetSel \in 0 .. W - 1 /\ elem[active].per \in 1 .. MaxSlices
  BY <1>1, ActiveElem
<1>5. W' = W /\ SetSel' = SetSel /\ \A d : SetOf(d)' = SetOf(d) /\ Held(d)' = Held(d)
  BY <1>1 DEF W, SetSel, SetOf, Held
<1>6. SetOf(W) = SetSel
  BY <1>4 DEF SetOf
<1>7. hw[SetSel] = Held(W)
  BY <1>1, <1>4, <1>6 DEF StripeInv, RotateInv
<1>8. RotateInv'
  BY <1>1, <1>4, <1>5, <1>7, StripeAssumption DEF StripeInv, RotateInv, None, Slots
<1> QED
  BY <1>2, <1>3, <1>8 DEF StripeInv

\* One slice of the set that is next is written; the other sets keep theirs.
LEMMA UpdateSliceInv == ASSUME StripeInv, UpdateSlice PROVE StripeInv'
<1> DEFINE S == SetSel
           V == Mapped(elem[active], idx[active])
<1>1. /\ at # None /\ at < elem[active].per /\ at' = at + 1
      /\ hw' = [hw EXCEPT ![S][at] = V[at]]
      /\ UNCHANGED <<elem, idx, off, active, recent>>
  BY DEF UpdateSlice
<1>2. elem[active] # NoElem
  BY <1>1 DEF StripeInv, IdleInv
<1>3. /\ W \in {2, 4} /\ S \in 0 .. W - 1 /\ elem[active].per \in 1 .. MaxSlices
      /\ idx[active] \in Nat
  BY <1>2, ActiveElem
<1>4. /\ at \in Nat /\ at < MaxSlices /\ at \in Slots /\ S \in Sets
      /\ MaxSlices \in Nat
  <2>1. MaxSlices \in Nat
    BY StripeAssumption
  <2>2. at \in 0 .. MaxSlices
    BY <1>1 DEF StripeInv, DataInv
  <2> QED
    BY <1>1, <1>3, <2>1, <2>2 DEF Slots, Sets
<1>5. V \in [Slots -> Nat \cup {None}]
  BY <1>3 DEF Mapped
<1>6. hw \in [Sets -> [Slots -> Nat \cup {None}]]
  BY DEF StripeInv, DataInv
<1> HIDE DEF V, S
<1>7. /\ hw' \in [Sets -> [Slots -> Nat \cup {None}]]
      /\ \A s \in Sets : s # S => hw'[s] = hw[s]
      /\ hw'[S] = [hw[S] EXCEPT ![at] = V[at]]
  BY <1>1, <1>4, <1>5, <1>6
<1>8. W' = W /\ SetSel' = SetSel /\ \A d : SetOf(d)' = SetOf(d) /\ Held(d)' = Held(d)
  BY <1>1 DEF W, SetSel, SetOf, Held
<1>9. DataInv'
  <2>1. at' \in 0 .. MaxSlices
    BY <1>1, <1>3, <1>4
  <2> QED
    BY <1>1, <1>7, <2>1 DEF StripeInv, DataInv, ElemOK
<1>10. IdleInv'
  BY <1>1, <1>2 DEF IdleInv
<1>11. RotateInv'
  <2>1. /\ Len(recent) \in 1 .. W
        /\ \A d \in 1 .. Len(recent) : recent[d] < elem[active].n
        /\ elem[active].n > 1
    BY <1>1, <1>2 DEF StripeInv, RotateInv
  <2>2. ASSUME NEW d \in 1 .. W, d < W PROVE hw'[SetOf(d)] = Held(d)
    <3>1. SetOf(d) \in Sets /\ SetOf(d) # S
      BY <1>3, <2>2 DEF SetOf, Sets, S
    <3> HIDE DEF SetOf
    <3>2. hw[SetOf(d)] = Held(d)
      BY <1>2, <2>2 DEF StripeInv, RotateInv
    <3> QED
      BY <1>7, <3>1, <3>2
  <2>3. ASSUME NEW k \in Slots
        PROVE  hw'[S][k] = IF k < at + 1 THEN V[k] ELSE Held(W)[k]
    <3>1. hw[S][k] = IF k < at THEN V[k] ELSE Held(W)[k]
      BY <1>1, <1>2 DEF StripeInv, RotateInv, V, S
    <3>2. k \in Nat /\ hw[S] \in [Slots -> Nat \cup {None}]
      BY <1>4, <1>6 DEF Slots
    <3>3. CASE k = at
      <4>1. hw'[S][k] = V[k]
        BY <1>7, <3>2, <3>3
      <4>2. k < at + 1
        BY <3>3, <1>4
      <4> QED
        BY <4>1, <4>2
    <3>4. CASE k # at
      <4>1. hw'[S][k] = hw[S][k]
        BY <1>7, <3>2, <3>4
      <4>2. k < at + 1 <=> k < at
        BY <1>4, <3>2, <3>4
      <4> QED
        BY <3>1, <4>1, <4>2
    <3> QED
      BY <3>3, <3>4
  <2>4. ASSUME NEW s \in Sets, s >= W PROVE hw'[s] = Empty
    <3>1. hw[s] = Empty
      BY <1>2, <2>4 DEF StripeInv, RotateInv
    <3>2. s # S
      BY <1>3, <2>4 DEF Sets
    <3> QED
      BY <1>7, <3>1, <3>2
  <2>5. at' # None /\ at' <= elem[active].per
    BY <1>1, <1>3, <1>4 DEF None
  <2>6. V' = V
    BY <1>1 DEF V
  <2> QED
    BY <1>1, <1>8, <2>1, <2>2, <2>3, <2>4, <2>5, <2>6 DEF RotateInv, V, S
<1> QED
  BY <1>9, <1>10, <1>11 DEF StripeInv

\* Counting stripes and sets: the steps of the set index.
LEMMA ModStep ==
    ASSUME NEW i \in Nat, NEW o \in Nat
    PROVE  /\ (i + 1 + o) % 2 = (((i + o) % 2) + 1) % 2
           /\ (i + 1 + o) % 4 = (((i + o) % 4) + 1) % 4
BY SMT

LEMMA ModWrap ==
    ASSUME NEW i \in Nat, NEW o \in Nat
    PROVE  /\ o < 2 /\ (i + 1) % 2 = 1 => (1 - o) \in 0 .. 1 /\ 1 - o = (((i + o) % 2) + 1) % 2
           /\ o < 2 /\ (i + 1) % 2 # 1 => o = (((i + o) % 2) + 1) % 2
           /\ (o + ((i + 1) % 4)) % 4 = (((i + o) % 4) + 1) % 4
           /\ (o + ((i + 1) % 4)) % 4 \in 0 .. 3
<1>1. o < 2 => o = 0 \/ o = 1
  OBVIOUS
<1> QED
  BY <1>1, SMT

\* The next set is the set after the one just written, also when the stripes
\* start over: this is what the shift of set_offset is for.
LEMMA NextSet ==
    ASSUME StripeInv, UpdateDone, elem[active] # NoElem, elem[active].n > 1
    PROVE  /\ idx'[active] \in Nat /\ idx'[active] < elem[active].n
           /\ off'[active] \in Sets /\ off'[active] < W
           /\ SetSel' = (SetSel + 1) % W
<1> DEFINE i == idx[active]
           o == off[active]
           n == elem[active].n
<1>1. /\ active \in Mappings /\ W \in {2, 4} /\ i \in Nat /\ o \in Nat /\ o < W /\ n \in Nat
      /\ i < n /\ (elem[active].type = "inout" <=> W = 4)
      /\ SetSel = (i + o) % W
  BY ActiveElem
<1>2. idx \in [Mappings -> Nat] /\ off \in [Mappings -> Sets]
  BY DEF StripeInv, DataInv
<1>3. /\ idx'[active] = IF i + 1 = n THEN 0 ELSE i + 1
      /\ off'[active] = IF i + 1 = n THEN WrapOffset(elem[active], o) ELSE o
      /\ elem' = elem /\ active' = active
  BY <1>1, <1>2 DEF UpdateDone
<1>4. SetSel' = (idx'[active] + off'[active]) % W
  BY <1>3 DEF SetSel, W
<1> HIDE DEF i, o, n
<1>5. CASE i + 1 # n
  <2>1. idx'[active] = i + 1 /\ off'[active] = o /\ i + 1 < n
    BY <1>1, <1>3, <1>5
  <2>2. o \in Sets
    BY <1>1 DEF Sets
  <2>3. (i + 1 + o) % W = (((i + o) % W) + 1) % W
    BY <1>1, ModStep
  <2> QED
    BY <1>1, <1>4, <2>1, <2>2, <2>3 DEF i, n, o
<1>6. CASE i + 1 = n /\ W = 4
  <2>1. off'[active] = (o + (n % 4)) % 4
    BY <1>1, <1>3, <1>6 DEF WrapOffset, n
  <2>2. idx'[active] = 0 /\ n > 0
    BY <1>1, <1>3, <1>6
  <2>3. off'[active] \in 0 .. 3 /\ off'[active] = (SetSel + 1) % 4
    BY <1>1, <1>6, <2>1, ModWrap
  <2>4. SetSel' = off'[active] % 4
    BY <1>4, <1>6, <2>2, <2>3
  <2> QED
    BY <1>6, <2>2, <2>3, <2>4 DEF Sets, n
<1>7. CASE i + 1 = n /\ W = 2
  <2>1. off'[active] = IF (n % 2) = 1 THEN 1 - o ELSE o
    BY <1>1, <1>3, <1>7 DEF WrapOffset, n
  <2>2. idx'[active] = 0 /\ n > 0
    BY <1>1, <1>3, <1>7
  <2>3. off'[active] \in 0 .. 1 /\ off'[active] = (SetSel + 1) % 2
    BY <1>1, <1>7, <2>1, ModWrap
  <2>4. SetSel' = off'[active] % 2
    BY <1>4, <1>7, <2>2, <2>3
  <2> QED
    BY <1>7, <2>2, <2>3, <2>4 DEF Sets, n
<1> QED
  BY <1>1, <1>5, <1>6, <1>7 DEF i, n

\* The history after an update: the stripe just mapped, then the former ones.
LEMMA LatestFacts ==
    ASSUME NEW q \in Seq(Nat), NEW x \in Nat, NEW w \in Nat \ {0}, Len(q) <= w,
           NEW r, r = Latest(<<x>> \o q, w)
    PROVE  /\ r \in Seq(Nat)
           /\ Len(r) = IF Len(q) = w THEN w ELSE Len(q) + 1
           /\ r[1] = x
           /\ \A d \in 2 .. Len(r) : r[d] = q[d - 1]
<1> DEFINE c == <<x>> \o q
<1>1. /\ c \in Seq(Nat) /\ Len(c) = Len(q) + 1 /\ c[1] = x
      /\ \A d \in 2 .. Len(c) : c[d] = q[d - 1]
  OBVIOUS
<1>2. Len(q) \in Nat /\ r = Latest(c, w)
  OBVIOUS
<1> HIDE DEF c
<1>3. CASE Len(q) = w
  <2>1. r = SubSeq(c, 1, w)
    BY <1>1, <1>2, <1>3 DEF Latest
  <2>2. w <= Len(c) /\ 1 <= w + 1 /\ w \in Nat
    BY <1>1, <1>2, <1>3
  <2>3. /\ SubSeq(c, 1, w) \in Seq(Nat) /\ Len(SubSeq(c, 1, w)) = w
        /\ \A d \in 1 .. w : SubSeq(c, 1, w)[d] = c[d]
    BY <1>1, <2>2
  <2>4. r \in Seq(Nat) /\ Len(r) = w /\ \A d \in 1 .. w : r[d] = c[d]
    BY <2>1, <2>3, Zenon
  <2>5. r[1] = x
    <3>1. 1 \in 1 .. w
      BY <2>2
    <3> QED
      BY <1>1, <2>4, <3>1, Zenon
  <2>6. ASSUME NEW d \in 2 .. w PROVE r[d] = q[d - 1]
    <3>1. d \in 1 .. w /\ d \in 2 .. Len(c)
      BY <1>1, <1>2, <1>3
    <3> QED
      BY <1>1, <2>4, <3>1, Zenon
  <2> QED
    BY <1>3, <2>4, <2>5, <2>6
<1>4. CASE Len(q) # w
  <2>1. r = c
    BY <1>1, <1>2, <1>4 DEF Latest
  <2> QED
    BY <1>1, <1>2, <1>4, <2>1
<1> QED
  BY <1>3, <1>4

\* Going one set on and one update back is standing still.
LEMMA SetBack ==
    ASSUME NEW w \in {2, 4}, NEW S \in 0 .. w - 1, NEW d \in 1 .. w
    PROVE  /\ (((S + 1) % w) + w - d) % w \in 0 .. w - 1
           /\ d = 1 => (((S + 1) % w) + w - d) % w = S
           /\ d > 1 => (((S + 1) % w) + w - d) % w = (S + w - (d - 1)) % w
<1>1. CASE w = 2
  BY <1>1
<1>2. CASE w = 4
  <2>1. S \in {0, 1, 2, 3} /\ d \in {1, 2, 3, 4}
    BY <1>2
  <2> QED
    BY <1>2, <2>1
<1> QED
  BY <1>1, <1>2

\* When all slices are written the set holds the stripe and nothing else.
LEMMA SetComplete ==
    ASSUME StripeInv, UpdateDone, elem[active] # NoElem
    PROVE  hw[SetSel] = Mapped(elem[active], idx[active])
<1> DEFINE S == SetSel
           e == elem[active]
           j == idx[active]
<1>1. at # None /\ at = e.per
  BY DEF UpdateDone
<1>2. /\ W \in {2, 4} /\ S \in 0 .. W - 1 /\ e.per \in 1 .. MaxSlices /\ e.n \in Nat
      /\ j \in Nat /\ MaxSlices \in Nat /\ active \in Mappings
  BY ActiveElem, StripeAssumption
<1>3. e.n > 1 /\ j < e.n
  <2>1. e.n > 1
    BY <1>1 DEF StripeInv, RotateInv
  <2> QED
    BY <2>1, ActiveElem
<1>4. \A i, k \in Nat : k >= e.per /\ i < e.n => ~(k < e.ns[i])
  BY <1>2 DEF StripeInv, DataInv, ElemOK
<1>5. \A k \in Slots : hw[S][k] = IF k < at THEN Mapped(e, j)[k] ELSE Held(W)[k]
  BY <1>1 DEF StripeInv, RotateInv
<1>6. /\ Len(recent) \in 1 .. W /\ recent \in Seq(Nat)
      /\ \A d \in 1 .. Len(recent) : recent[d] < e.n
  BY DEF StripeInv, RotateInv, DataInv
<1>7. S \in Sets /\ hw[S] \in [Slots -> Nat \cup {None}]
  <2>1. S \in Sets
    BY <1>2 DEF Sets
  <2>2. hw \in [Sets -> [Slots -> Nat \cup {None}]]
    BY DEF StripeInv, DataInv
  <2> HIDE DEF S
  <2> QED
    BY <2>1, <2>2
<1> HIDE DEF S, e, j
<1>8. ASSUME NEW k \in Slots, k >= e.per, NEW i \in Nat, i < e.n PROVE Mapped(e, i)[k] = None
  <2>1. k \in Nat
    BY <1>2 DEF Slots
  <2> QED
    BY <1>4, <1>8, <2>1 DEF Mapped
<1>9. ASSUME NEW k \in Slots PROVE hw[S][k] = Mapped(e, j)[k]
  <2>1. k \in Nat /\ at \in Nat
    BY <1>1, <1>2 DEF Slots
  <2>2. CASE k < at
    BY <1>5, <2>2
  <2>3. CASE ~(k < at)
    <3>1. k >= e.per
      BY <1>1, <1>2, <2>1, <2>3
    <3>2. Mapped(e, j)[k] = None
      BY <1>2, <1>3, <1>8, <3>1
    <3>3. Held(W)[k] = None
      <4>1. CASE W <= Len(recent)
        <5>1. recent[W] \in Nat /\ recent[W] < e.n
          BY <1>2, <1>6, <4>1
        <5>2. Held(W) = Mapped(e, recent[W])
          BY <4>1 DEF Held, e
        <5> QED
          BY <1>8, <3>1, <5>1, <5>2
      <4>2. CASE ~(W <= Len(recent))
        BY <4>2 DEF Held, Empty
      <4> QED
        BY <4>1, <4>2
    <3> QED
      BY <1>5, <2>3, <3>2, <3>3
  <2> QED
    BY <2>2, <2>3
<1>10. Mapped(e, j) = [k \in Slots |-> Mapped(e, j)[k]]
  BY DEF Mapped
<1>11. hw[S] = [k \in Slots |-> hw[S][k]]
  BY <1>7
<1>12. hw[S] = Mapped(e, j)
  BY <1>9, <1>10, <1>11
<1> QED
  BY <1>12 DEF S, e, j

LEMMA UpdateDoneInv == ASSUME StripeInv, UpdateDone PROVE StripeInv'
<1> DEFINE e == elem[active]
<1>1. /\ at # None /\ at = e.per /\ at' = None /\ elem' = elem /\ active' = active /\ hw' = hw
      /\ recent' = Latest(<<idx[active]>> \o recent, W)
  BY DEF UpdateDone, W
<1>2. e # NoElem
  BY <1>1 DEF StripeInv, IdleInv
<1>3. /\ active \in Mappings /\ W \in {2, 4} /\ SetSel \in 0 .. W - 1 /\ idx[active] \in Nat
      /\ e.n \in Nat
  BY <1>2, ActiveElem
<1>4. e.n > 1 /\ idx[active] < e.n
  <2>1. e.n > 1
    BY <1>1, <1>2 DEF StripeInv, RotateInv
  <2> QED
    BY <1>2, <2>1, ActiveElem
<1>5. /\ idx'[active] \in Nat /\ idx'[active] < e.n
      /\ off'[active] \in Sets /\ off'[active] < W
      /\ SetSel' = (SetSel + 1) % W
  BY <1>2, <1>4, NextSet
<1>6. hw[SetSel] = Mapped(e, idx[active])
  BY <1>2, SetComplete
<1>7. /\ Len(recent) \in 1 .. W /\ recent \in Seq(Nat)
      /\ \A d \in 1 .. Len(recent) : recent[d] < e.n
  BY <1>2 DEF StripeInv, RotateInv, DataInv
<1>8. /\ recent' \in Seq(Nat)
      /\ Len(recent') = IF Len(recent) = W THEN W ELSE Len(recent) + 1
      /\ recent'[1] = idx[active]
      /\ \A d \in 2 .. Len(recent') : recent'[d] = recent[d - 1]
  BY <1>1, <1>3, <1>7, LatestFacts
<1>9. DataInv'
  <2>1. /\ idx \in [Mappings -> Nat] /\ off \in [Mappings -> Sets]
        /\ \A m \in Mappings : ElemOK(m)
    BY DEF StripeInv, DataInv
  <2>2. \A m \in Mappings \ {active} : idx'[m] = idx[m] /\ off'[m] = off[m]
    BY <1>3, <2>1 DEF UpdateDone
  <2>3. idx' \in [Mappings -> Nat]
    <3>1. idx' = [idx EXCEPT ![active] = idx'[active]]
      BY <1>3, <2>1 DEF UpdateDone
    <3> QED
      BY <1>3, <1>5, <2>1, <3>1
  <2>4. off' \in [Mappings -> Sets]
    <3>1. off' = [off EXCEPT ![active] = off'[active]]
      BY <1>3, <2>1 DEF UpdateDone
    <3> QED
      BY <1>3, <1>5, <2>1, <3>1
  <2>5. \A m \in Mappings : ElemOK(m)'
    <3> SUFFICES ASSUME NEW m \in Mappings PROVE ElemOK(m)'
      OBVIOUS
    <3>1. CASE m = active
      BY <1>1, <1>2, <1>5, <2>1, <3>1 DEF ElemOK, W
    <3>2. CASE m # active
      BY <1>1, <2>1, <2>2, <3>2 DEF ElemOK
    <3> QED
      BY <3>1, <3>2
  <2> QED
    BY <1>1, <1>8, <2>3, <2>4, <2>5 DEF DataInv, StripeInv
<1>10. IdleInv'
  BY <1>1, <1>2 DEF IdleInv
<1>11. RotateInv'
  <2>1. W' = W /\ elem'[active'] = e
    BY <1>1 DEF W
  <2>2. Len(recent') \in 1 .. W /\ \A d \in 1 .. Len(recent') : recent'[d] < e.n
    <3>1. Len(recent') \in 1 .. W
      BY <1>3, <1>7, <1>8
    <3>2. ASSUME NEW d \in 1 .. Len(recent') PROVE recent'[d] < e.n
      <4>1. CASE d = 1
        BY <1>4, <1>8, <4>1
      <4>2. CASE d # 1
        <5>1. d \in 2 .. Len(recent') /\ d - 1 \in 1 .. Len(recent)
          BY <1>3, <1>7, <1>8, <3>1, <4>2
        <5> QED
          BY <1>7, <1>8, <5>1
      <4> QED
        BY <4>1, <4>2
    <3> QED
      BY <3>1, <3>2
  <2>3. ASSUME NEW d \in 1 .. W PROVE hw'[SetOf(d)'] = Held(d)'
    <3>1. SetOf(d)' = (((SetSel + 1) % W) + W - d) % W
      BY <1>5, <2>1 DEF SetOf
    <3>2. Held(d)' = IF d <= Len(recent') THEN Mapped(e, recent'[d]) ELSE Empty
      BY <2>1 DEF Held
    <3>3. CASE d = 1
      <4>1. SetOf(d)' = SetSel
        BY <1>3, <3>1, <3>3, SetBack
      <4>2. Held(d)' = Mapped(e, idx[active])
        BY <1>8, <2>2, <3>2, <3>3
      <4> QED
        BY <1>1, <1>6, <4>1, <4>2
    <3>4. CASE d # 1
      <4>1. d - 1 \in 1 .. W /\ d - 1 < W /\ d > 1
        BY <1>3, <3>4
      <4>2. SetOf(d)' = SetOf(d - 1)
        <5>1. SetOf(d)' = (SetSel + W - (d - 1)) % W
          BY <1>3, <3>1, <4>1, SetBack
        <5> QED
          BY <5>1 DEF SetOf
      <4>3. hw[SetOf(d - 1)] = Held(d - 1)
        BY <1>2, <4>1 DEF StripeInv, RotateInv
      <4>4. Held(d)' = Held(d - 1)
        <5>1. d <= Len(recent') <=> d - 1 <= Len(recent)
          BY <1>3, <1>7, <1>8, <4>1
        <5>2. d <= Len(recent') => recent'[d] = recent[d - 1]
          BY <1>3, <1>7, <1>8, <4>1
        <5> QED
          BY <3>2, <5>1, <5>2 DEF Held
      <4> QED
        BY <1>1, <4>2, <4>3, <4>4
    <3> QED
      BY <3>3, <3>4
  <2>4. \A s \in Sets : s >= W => hw'[s] = Empty
    BY <1>1, <1>2 DEF StripeInv, RotateInv
  <2> QED
    BY <1>1, <2>1, <2>2, <2>3, <2>4 DEF RotateInv
<1> QED
  BY <1>9, <1>10, <1>11 DEF StripeInv

\* Every step keeps the invariant.
LEMMA StripeStep ==
    ASSUME StripeInv, ~Rewinds, [StripeNext]_stripeVars PROVE StripeInv'
<1>1. ASSUME NEW m \in Ids, NEW t \in ElemTypes, NEW b \in Buffers, RequestStriped(m, t, b)
      PROVE  StripeInv'
  BY <1>1, RequestInv
<1>2. ASSUME NEW m \in Mappings, FreeStriped(m) PROVE StripeInv'
  BY <1>2, FreeInv
<1>3. CASE UpdateStart
  BY <1>3, UpdateStartInv
<1>4. CASE UpdateSlice
  BY <1>4, UpdateSliceInv
<1>5. CASE UpdateDone
  BY <1>5, UpdateDoneInv
<1>6. CASE Switch
  BY <1>6, SwitchInv
<1>7. CASE UNCHANGED stripeVars
  BY <1>7 DEF stripeVars, StripeInv, DataInv, IdleInv, RotateInv, ElemOK, W, SetOf, SetSel, Held
<1> QED
  BY <1>1, <1>2, <1>3, <1>4, <1>5, <1>6, <1>7 DEF StripeNext

(***************************************************************************)
(* The invariant holds of every behaviour in which the accelerator only    *)
(* switches to a mapping whose next stripe goes into the second set.       *)
(***************************************************************************)
THEOREM StripeInvariant ==
    ASSUME ~Rewinds PROVE StripeSpec => []StripeInv
<1>1. StripeInit => StripeInv
  BY StripeInitInv
<1>2. StripeInv /\ [StripeNext]_stripeVars => StripeInv'
  BY StripeStep
<1> QED
  BY <1>1, <1>2, PTL DEF StripeSpec

(***************************************************************************)
(* Type correctness of the striped elements; stripe_idx stays inside the   *)
(* striping table.                                                         *)
(***************************************************************************)
THEOREM StripeTypes ==
    ASSUME ~Rewinds PROVE StripeSpec => []StripeTypeOK
<1>1. StripeInv => StripeTypeOK
  BY DEF StripeInv, DataInv, ElemOK, StripeTypeOK
<1> QED
  BY <1>1, StripeInvariant, PTL

(***************************************************************************)
(* pulp_rab_update never disturbs a stripe the accelerator may be working  *)
(* on, for any number of stripes, wrap around included.                    *)
(***************************************************************************)
THEOREM WindowKept ==
    ASSUME ~Rewinds PROVE StripeSpec => []WindowMapped
<1>1. StripeInv => WindowMapped
  <2> SUFFICES ASSUME StripeInv, elem[active] # NoElem,
                      NEW d \in DOMAIN recent, d < NSets(elem[active])
               PROVE  \E s \in Sets : hw[s] = Mapped(elem[active], recent[d])
    BY DEF WindowMapped
  <2>1. W \in {2, 4} /\ SetSel \in 0 .. W - 1
    BY ActiveElem
  <2>2. d \in 1 .. Len(recent) /\ Len(recent) \in 1 .. W /\ d < W /\ d \in 1 .. W
    BY <2>1 DEF StripeInv, DataInv, RotateInv, W
  <2>3. hw[SetOf(d)] = Held(d) /\ Held(d) = Mapped(elem[active], recent[d])
    BY <2>2 DEF StripeInv, RotateInv, Held
  <2>4. SetOf(d) \in Sets
    BY <2>1, <2>2 DEF SetOf, Sets
  <2> QED
    BY <2>3, <2>4
<1> QED
  BY <1>1, StripeInvariant, PTL

\* Every set of a mapping is the one of some update of its window.
LEMMA SetReached ==
    ASSUME NEW w \in {2, 4}, NEW S \in 0 .. w - 1, NEW s \in 0 .. w - 1
    PROVE  \E d \in 1 .. w : s = (S + w - d) % w /\ (s # S => d < w)
<1>1. CASE s = S
  <2>1. s = (S + w - w) % w
    BY <1>1
  <2> QED
    BY <1>1, <2>1
<1>2. CASE s < S
  <2>1. S - s \in 1 .. w /\ S - s < w /\ s = (S + w - (S - s)) % w
    BY <1>2
  <2> QED
    BY <2>1
<1>3. CASE s > S
  <2>1. S + w - s \in 1 .. w /\ S + w - s < w /\ s = (S + w - (S + w - s)) % w
    BY <1>3
  <2> QED
    BY <2>1
<1> QED
  BY <1>1, <1>2, <1>3

(***************************************************************************)
(* No stale translation: the accelerator reaches only the stripes of its   *)
(* window and the one that pulp_rab_update is mapping.                     *)
(***************************************************************************)
THEOREM NoStaleStripe ==
    ASSUME ~Rewinds PROVE StripeSpec => []OnlyWindow
<1>1. StripeInv => OnlyWindow
  <2> SUFFICES ASSUME StripeInv, NEW s \in Sets, NEW k \in Slots, hw[s][k] # None
               PROVE  \/ \E d \in DOMAIN recent : hw[s][k] = recent[d]
                      \/ at # None /\ hw[s][k] = idx[active]
    BY DEF OnlyWindow
  <2>1. Empty[k] = None
    BY DEF Empty
  <2>2. elem[active] # NoElem
    BY <2>1 DEF StripeInv, IdleInv
  <2>3. W \in {2, 4} /\ SetSel \in 0 .. W - 1
    BY <2>2, ActiveElem
  <2>4. s \in 0 .. W - 1
    BY <2>1, <2>2, <2>3 DEF StripeInv, RotateInv, Sets
  <2>5. PICK d \in 1 .. W : s = SetOf(d) /\ (s # SetSel => d < W)
    BY <2>3, <2>4, SetReached DEF SetOf
  <2>6. DOMAIN recent = 1 .. Len(recent) /\ Len(recent) \in Nat
    BY DEF StripeInv, DataInv
  <2>7. ASSUME NEW i \in 1 .. W, Held(i)[k] # None
        PROVE  \E d1 \in DOMAIN recent : Held(i)[k] = recent[d1]
    <3>1. i \in DOMAIN recent /\ Held(i) = Mapped(elem[active], recent[i])
      BY <2>1, <2>3, <2>6, <2>7 DEF Held
    <3>2. Held(i)[k] = recent[i]
      BY <2>7, <3>1 DEF Mapped
    <3> QED
      BY <3>1, <3>2
  <2>8. CASE s # SetSel \/ at = None
    <3>1. hw[s] = Held(d)
      BY <2>2, <2>5, <2>8 DEF StripeInv, RotateInv
    <3> QED
      BY <2>7, <3>1
  <2>9. CASE s = SetSel /\ at # None
    <3>1. hw[s][k] = IF k < at THEN Mapped(elem[active], idx[active])[k] ELSE Held(W)[k]
      BY <2>2, <2>9 DEF StripeInv, RotateInv
    <3>2. CASE k < at
      BY <2>9, <3>1, <3>2 DEF Mapped
    <3>3. CASE ~(k < at)
      <4>1. W \in 1 .. W
        BY <2>3
      <4> QED
        BY <2>7, <3>1, <3>3, <4>1
    <3> QED
      BY <3>2, <3>3
  <2> QED
    BY <2>8, <2>9
<1> QED
  BY <1>1, StripeInvariant, PTL

-----------------------------------------------------------------------------
(* The tables in use *)

BufInv == /\ elem = [m \in Mappings |-> elem[m]]
          /\ \A m \in Mappings : elem[m] # NoElem => elem[m].buf \in Buffers

\* The elements in use are those of buffers that were striped.
LEMMA ElemsAreBuffers == StripeSpec => []BufInv
<1>1. StripeInit => BufInv
  BY DEF StripeInit, BufInv
<1>2. BufInv /\ [StripeNext]_stripeVars => BufInv'
  <2> SUFFICES ASSUME BufInv, [StripeNext]_stripeVars PROVE BufInv'
    OBVIOUS
  <2>1. ASSUME NEW m \in Ids, NEW t \in ElemTypes, NEW b \in Buffers, RequestStriped(m, t, b)
        PROVE  BufInv'
    <3>1. elem' = [elem EXCEPT ![m] = Elem(t, b)] /\ Elem(t, b).buf = b
      BY <2>1 DEF RequestStriped, Elem
    <3>2. m \in Mappings
      BY StripeAssumption
    <3> QED
      BY <3>1, <3>2 DEF BufInv
  <2>2. ASSUME NEW m \in Mappings, FreeStriped(m) PROVE BufInv'
    <3>1. elem' = [elem EXCEPT ![m] = NoElem]
      BY <2>2 DEF FreeStriped
    <3> QED
      BY <3>1 DEF BufInv
  <2>3. CASE UNCHANGED elem
    BY <2>3 DEF BufInv
  <2> QED
    BY <2>1, <2>2, <2>3
    DEF StripeNext, UpdateStart, UpdateSlice, UpdateDone, Switch, stripeVars
<1> QED
  BY <1>1, <1>2, PTL DEF StripeSpec

LEMMA TablesOfBuffers == ASSUME BufInv, NEW b \in ElemBufs PROVE IsBuffer(b)
<1>1. PICK m \in Mappings : elem[m] # NoElem /\ b = elem[m].buf
  BY DEF ElemBufs
<1>2. b \in Buffers
  BY <1>1 DEF BufInv
<1> QED
  BY <1>2, StripeAssumption

(***************************************************************************)
(* At all times the table of every striped element covers exactly its      *)
(* stripes.                                                                *)
(***************************************************************************)
THEOREM TablesCover == StripeSpec => []TableCovers
<1>1. BufInv => TableCovers
  BY TablesOfBuffers, TableCoversStripes DEF TableCovers
<1> QED
  BY <1>1, ElemsAreBuffers, PTL

(***************************************************************************)
(* At all times no stripe of an element has more slices than are reserved. *)
(***************************************************************************)
THEOREM SlicesDoSuffice == StripeSpec => []SlicesSuffice
<1>1. BufInv => SlicesSuffice
  BY TablesOfBuffers, ReservedSlicesSuffice DEF SlicesSuffice
<1> QED
  BY <1>1, ElemsAreBuffers, PTL

(***************************************************************************)
(* At all times the slices of every element whose buffer starts on a page  *)
(* border translate to the frames of their pages.                          *)
(***************************************************************************)
THEOREM AlignedDoTranslate == StripeSpec => []AlignedTranslates
<1>1. BufInv => AlignedTranslates
  BY TablesOfBuffers, AlignedTableTranslates DEF AlignedTranslates
<1> QED
  BY <1>1, ElemsAreBuffers, PTL
=============================================================================
