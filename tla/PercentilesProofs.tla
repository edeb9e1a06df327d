------------------------- MODULE PercentilesProofs -------------------------
(***************************************************************************)
(* The percentiles of a Dist are nearest ranks, for any values and any     *)
(* number of samples whose product with 99 fits a usize.                   *)
(***************************************************************************)
EXTENDS Percentiles, FiniteSetTheorems, SequenceTheorems, TLAPS

Sorted(v) == \A i, j \in 1 .. Len(v) : i <= j => v[i] <= v[j]

\* Why NearestRank holds: the vector is sorted when it is looked at.
SortedSamples == TypeOK /\ Sorted(samples)

----------------------------------------------------------------------------
\* Inserting a sample after those that are not above it keeps a vector sorted.
LEMMA InsertedSorted ==
  ASSUME NEW v \in Seq(Values), Sorted(v), NEW x \in Values, NEW k \in 0 .. Len(v),
         \A i \in 1 .. Len(v) : v[i] <= x <=> i <= k
  PROVE  /\ Inserted(v, k, x) \in Seq(Values)
         /\ Len(Inserted(v, k, x)) = Len(v) + 1
         /\ Sorted(Inserted(v, k, x))
<1> DEFINE n == Len(v)
           w == Inserted(v, k, x)
<1>1. n \in Nat /\ Values \subseteq Nat /\ \A i \in 1 .. n : v[i] \in Values
  BY PercentilesAssumption DEF PercentilesAssumption
<1>2. w \in [1 .. n + 1 -> Values]
  BY <1>1 DEF Inserted
<1>3. w \in Seq(Values) /\ Len(w) = n + 1
  BY <1>1, <1>2, SeqDef
<1>4. ASSUME NEW i \in 1 .. n + 1, NEW j \in 1 .. n + 1, i <= j
      PROVE  w[i] <= w[j]
  <2>1. \A l \in 1 .. n + 1 : w[l] = IF l <= k THEN v[l] ELSE IF l = k + 1 THEN x ELSE v[l - 1]
    BY DEF Inserted
  <2>2. \A l, m \in 1 .. n : l <= m => v[l] <= v[m]
    BY DEF Sorted
  <2> HIDE DEF w
  <2>3. CASE j <= k
    BY <1>1, <1>4, <2>1, <2>2, <2>3
  <2>4. CASE j = k + 1
    BY <1>1, <1>4, <2>1, <2>4
  <2>5. CASE j > k + 1
    <3>1. j - 1 \in 1 .. n /\ w[j] = v[j - 1] /\ ~ (v[j - 1] <= x)
      BY <1>1, <2>1, <2>5
    <3>2. CASE i <= k
      <4>1. i \in 1 .. n /\ i <= j - 1 /\ w[i] = v[i]
        BY <1>1, <2>1, <2>5, <3>2
      <4> QED
        BY <2>2, <3>1, <4>1
    <3>3. CASE i = k + 1
      <4>1. w[i] = x
        BY <1>1, <2>1, <3>3
      <4>2. v[j - 1] \in Nat /\ x \in Nat
        BY <1>1, <3>1
      <4> QED
        BY <3>1, <4>1, <4>2
    <3>4. CASE i > k + 1
      <4>1. i - 1 \in 1 .. n /\ i - 1 <= j - 1 /\ w[i] = v[i - 1]
        BY <1>1, <1>4, <2>1, <3>4
      <4> QED
        BY <2>2, <3>1, <4>1
    <3> QED
      BY <3>2, <3>3, <3>4
  <2> QED
    BY <2>3, <2>4, <2>5
<1> QED
  BY <1>3, <1>4 DEF Sorted

\* In a sorted vector i samples are at most the i-th, and fewer are below it.
LEMMA RankOfSample ==
  ASSUME NEW v \in Seq(Values), Sorted(v), NEW i \in 1 .. Len(v)
  PROVE  /\ UpTo(v, v[i]) \in Nat /\ UpTo(v, v[i]) >= i
         /\ \A y \in Values : y < v[i] => UpTo(v, y) \in Nat /\ UpTo(v, y) <= i - 1
<1>1. Len(v) \in Nat /\ \A j \in 1 .. Len(v) : v[j] \in Nat
  <2>1. Values \subseteq Nat /\ \A j \in 1 .. Len(v) : v[j] \in Values
    BY ElementOfSeq, PercentilesAssumption DEF PercentilesAssumption
  <2> QED
    BY <2>1, LenProperties
<1>2. \A a \in Nat : IsFiniteSet(1 .. a) /\ Cardinality(1 .. a) = a
  BY FS_Interval
<1>3. ASSUME NEW y \in Values
      PROVE  /\ IsFiniteSet({j \in 1 .. Len(v) : v[j] <= y})
             /\ UpTo(v, y) \in Nat
  <2> DEFINE below == {j \in 1 .. Len(v) : v[j] <= y}
  <2>1. IsFiniteSet(below)
    <3>1. below \in SUBSET (1 .. Len(v)) /\ IsFiniteSet(1 .. Len(v))
      BY <1>1, <1>2
    <3> HIDE DEF below
    <3> QED
      BY <3>1, FS_Subset
  <2>2. Cardinality(below) \in Nat
    <3> HIDE DEF below
    <3> QED
      BY <2>1, FS_CardinalityType
  <2> QED
    BY <2>1, <2>2 DEF UpTo
<1>4. UpTo(v, v[i]) \in Nat /\ UpTo(v, v[i]) >= i
  <2>1. v[i] \in Values
    OBVIOUS
  <2>2. 1 .. i \subseteq {j \in 1 .. Len(v) : v[j] <= v[i]}
    BY <1>1 DEF Sorted
  <2>3. IsFiniteSet({j \in 1 .. Len(v) : v[j] <= v[i]}) /\ UpTo(v, v[i]) \in Nat
    BY <1>3, <2>1
  <2>4. Cardinality(1 .. i) <= Cardinality({j \in 1 .. Len(v) : v[j] <= v[i]})
    BY <2>2, <2>3, FS_Subset
  <2> QED
    BY <1>2, <2>3, <2>4 DEF UpTo
<1>5. ASSUME NEW y \in Values, y < v[i]
      PROVE  UpTo(v, y) <= i - 1
  <2>1. ASSUME NEW j \in 1 .. Len(v), v[j] <= y PROVE j \in 1 .. i - 1
    <3>1. ~ (v[i] <= v[j])
      BY <1>1, <1>5, <2>1, PercentilesAssumption DEF PercentilesAssumption
    <3> QED
      BY <1>1, <3>1 DEF Sorted
  <2>2. {j \in 1 .. Len(v) : v[j] <= y} \subseteq 1 .. i - 1
    BY <2>1
  <2>3. i - 1 \in Nat
    BY <1>1
  <2> QED
    BY <1>2, <2>2, <2>3, FS_Subset DEF UpTo
<1> QED
  BY <1>3, <1>4, <1>5

\* A product that fits the word is not changed by it.
LEMMA Fits ==
  ASSUME NEW a \in Nat, NEW W \in Nat, a < W
  PROVE  a % W = a
OBVIOUS

\* The index is that of the first sample whose rank covers p percent.
LEMMA IndexIsRank ==
  ASSUME NEW n \in Nat \ {0}, NEW p \in {50, 90, 99}, 99 * n < Word
  PROVE  /\ Index(p, n) \in 0 .. n - 1
         /\ 100 * Index(p, n) < p * n
         /\ p * n <= 100 * (Index(p, n) + 1)
<1>1. p * n \in Nat /\ p * n < Word /\ p * n > 0 /\ p * n <= 99 * n /\ Word \in Nat
  BY PercentilesAssumption DEF PercentilesAssumption
<1>2. RankOf(p, n) = (p * n + 99) \div 100
  BY <1>1, Fits DEF RankOf
<1> DEFINE r == RankOf(p, n)
<1>3. /\ r \in Nat \ {0} /\ r <= n
      /\ 100 * (r - 1) < p * n /\ p * n <= 100 * r
  BY <1>1, <1>2
<1>4. Index(p, n) = r - 1
  BY <1>3 DEF Index
<1> QED
  BY <1>3, <1>4

----------------------------------------------------------------------------
\* The vector a worker collects, as from_samples sorts it, is sorted.
THEOREM SamplesSorted == Spec => []SortedSamples
<1>1. Init => SortedSamples
  BY PercentilesAssumption DEF Init, SortedSamples, TypeOK, Sorted, PercentilesAssumption
<1>2. SortedSamples /\ [Next]_samples => SortedSamples'
  <2> SUFFICES ASSUME SortedSamples, [Next]_samples PROVE SortedSamples'
    OBVIOUS
  <2>1. ASSUME NEW x \in Values, Record(x) PROVE SortedSamples'
    <3>1. PICK k \in 0 .. Len(samples) :
            /\ \A i \in 1 .. Len(samples) : samples[i] <= x <=> i <= k
            /\ samples' = Inserted(samples, k, x)
      BY <2>1 DEF Record
    <3>2. Len(samples) < MaxSamples /\ Len(samples) \in Nat /\ MaxSamples \in Nat
      BY <2>1, PercentilesAssumption
      DEF Record, SortedSamples, TypeOK, PercentilesAssumption
    <3>3. samples' \in Seq(Values) /\ Len(samples') = Len(samples) + 1 /\ Sorted(samples')
      BY <3>1, InsertedSorted DEF SortedSamples, TypeOK
    <3> QED
      BY <3>2, <3>3 DEF SortedSamples, TypeOK
  <2>2. CASE UNCHANGED samples
    BY <2>2 DEF SortedSamples, TypeOK, Sorted
  <2> QED
    BY <2>1, <2>2 DEF Next
<1> QED
  BY <1>1, <1>2, PTL DEF Spec

\* Every percentile that from_samples returns is the smallest value that covers
\* that share of the samples, as long as 99 times their number fits a usize.
THEOREM PercentilesExact ==
  ASSUME 99 * MaxSamples < Word
  PROVE  Spec => []NearestRank
<1>1. SortedSamples => NearestRank
  <2> SUFFICES ASSUME SortedSamples, samples # <<>>, NEW p \in {50, 90, 99, 100}
               PROVE  /\ \E i \in 1 .. Len(samples) : samples[i] = Pct(samples, p)
                      /\ Covers(samples, Pct(samples, p), p)
                      /\ \A y \in Values : y < Pct(samples, p) => ~ Covers(samples, y, p)
    BY DEF NearestRank
  <2> DEFINE n == Len(samples)
  <2>1. samples \in Seq(Values) /\ Sorted(samples) /\ n \in Nat \ {0} /\ n <= MaxSamples
    BY DEF SortedSamples, TypeOK
  <2>2. PICK i \in 1 .. n : /\ Pct(samples, p) = samples[i]
                            /\ 100 * (i - 1) < p * n
                            /\ p * n <= 100 * i
    <3>1. CASE p = 100
      <4>1. Pct(samples, p) = samples[n]
        BY <3>1 DEF Pct
      <4> QED
        BY <2>1, <3>1, <4>1
    <3>2. CASE p \in {50, 90, 99}
      <4>1. 99 * n < Word
        BY <2>1, PercentilesAssumption DEF PercentilesAssumption
      <4>2. /\ Index(p, n) \in 0 .. n - 1
            /\ 100 * Index(p, n) < p * n
            /\ p * n <= 100 * (Index(p, n) + 1)
        <5> DEFINE ps == {50, 90, 99}
        <5>1. \A m \in Nat \ {0}, q \in ps :
                99 * m < Word => /\ Index(q, m) \in 0 .. m - 1
                                 /\ 100 * Index(q, m) < q * m
                                 /\ q * m <= 100 * (Index(q, m) + 1)
          BY IndexIsRank
        <5>2. n \in Nat \ {0} /\ p \in ps
          BY <2>1, <3>2
        <5> HIDE DEF n, ps
        <5> QED
          BY <4>1, <5>1, <5>2
      <4>3. Pct(samples, p) = samples[Index(p, n) + 1]
        BY <3>2 DEF Pct
      <4> QED
        BY <2>1, <4>2, <4>3
    <3> QED
      BY <3>1, <3>2
  <2>3. /\ UpTo(samples, samples[i]) \in Nat /\ UpTo(samples, samples[i]) >= i
        /\ \A y \in Values : y < samples[i] => /\ UpTo(samples, y) \in Nat
                                                /\ UpTo(samples, y) <= i - 1
    BY <2>1, RankOfSample
  <2>4. Covers(samples, samples[i], p)
    BY <2>1, <2>2, <2>3 DEF Covers
  <2>5. ASSUME NEW y \in Values, y < samples[i] PROVE ~ Covers(samples, y, p)
    BY <2>1, <2>2, <2>3, <2>5 DEF Covers
  <2> QED
    BY <2>2, <2>4, <2>5
<1> QED
  BY <1>1, SamplesSorted, PTL

============================================================================
