---------------------------- MODULE Percentiles ----------------------------
(***************************************************************************)
(* The percentiles of a stream's latency samples: Dist::from_samples       *)
(* (stats.rs) and the vector a worker collects for it (stream_worker.rs).  *)
(* from_samples sorts the vector before it looks at it, and its result is  *)
(* a function of the sorted vector, so samples is kept sorted here.        *)
(* Lengths are usize, 32 bits wide on wasm32.  The mean is left out.       *)
(***************************************************************************)
EXTENDS Integers, Sequences, FiniteSets

CONSTANTS Values,      \* what a sample may be, in nanoseconds
          MaxSamples,  \* the most samples one worker collects
          Word         \* arithmetic in usize is modulo this, 2^32 on wasm32

ASSUME PercentilesAssumption ==
  /\ Values \subseteq Nat
  /\ MaxSamples \in Nat
  /\ Word \in Nat \ {0}

VARIABLE samples

TypeOK == samples \in Seq(Values) /\ Len(samples) <= MaxSamples

Init == samples = <<>>

\* v.sort_unstable(): a sample x goes after the k that are not above it.
Inserted(v, k, x) ==
  [i \in 1 .. Len(v) + 1 |-> IF i <= k THEN v[i] ELSE IF i = k + 1 THEN x ELSE v[i - 1]]

\* samples.push(dt)
Record(x) ==
  /\ Len(samples) < MaxSamples
  /\ \E k \in 0 .. Len(samples) :
       /\ \A i \in 1 .. Len(samples) : samples[i] <= x <=> i <= k
       /\ samples' = Inserted(samples, k, x)

Next == \E x \in Values : Record(x)

Spec == Init /\ [][Next]_samples

----------------------------------------------------------------------------
(* Dist::from_samples.                                                     *)

\* A faulty variant: rounded down.
RankDown(p, n) == ((p * n) % Word) \div 100

\* (p as usize * n).div_ceil(100): only the product can wrap.
RankOf(p, n) == (((p * n) % Word) + 99) \div 100

\* A faulty variant: the rank taken for an index.
IndexOfRank(p, n) == IF RankOf(p, n) < n THEN RankOf(p, n) ELSE n - 1

\* rank.saturating_sub(1).min(n - 1), which counts from 0.
Index(p, n) ==
  LET i == IF RankOf(p, n) = 0 THEN 0 ELSE RankOf(p, n) - 1
  IN IF i < n THEN i ELSE n - 1

\* The percentile p of a Dist: p100 is the last sample, an empty Dist is all 0.
Pct(v, p) ==
  IF v = <<>> THEN 0
  ELSE IF p = 100 THEN v[Len(v)] ELSE v[Index(p, Len(v)) + 1]

----------------------------------------------------------------------------
(* Properties.                                                             *)

\* How many samples are at most x.
UpTo(v, x) == Cardinality({i \in 1 .. Len(v) : v[i] <= x})

\* At least p percent of the samples are at most x.
Covers(v, x, p) == 100 * UpTo(v, x) >= p * Len(v)

\* stats.rs: "Nearest-rank: the smallest value whose rank covers p% of the
\* samples."  Every percentile of a Dist is that value, however the rank is
\* rounded and turned into an index.
NearestRank ==
  samples # <<>> =>
    \A p \in {50, 90, 99, 100} :
      /\ \E i \in 1 .. Len(samples) : samples[i] = Pct(samples, p)
      /\ Covers(samples, Pct(samples, p), p)
      /\ \A y \in Values : y < Pct(samples, p) => ~ Covers(samples, y, p)

============================================================================
