--------------------------- MODULE EntropyHealth ---------------------------
(***************************************************************************)
(* The statistical tests of src/src/entropy_health.rs on the raw bytes of  *)
(* a source.  The logarithm and the correlation coefficient are compared   *)
(* without leaving the integers: -log2(m / n) >= h says m * 2^h <= n, and  *)
(* the coefficient is the pair of its numerator and the two variances,     *)
(* each multiplied by n^2.                                                 *)
(***************************************************************************)
EXTENDS Integers, Sequences, FiniteSets, FiniteSetsExt

CONSTANTS
  Samples,     \* the raw buffers that are tested, 64 bytes each in the code
  Others(_),   \* what a buffer is compared with
  RctCutoff,   \* monitor_entropy_quality's repetition cutoff; 10 in the code
  MinEntropy   \* health_check_source's threshold in bits; 6 in the code

ASSUME HealthAssumption ==
  /\ \A s \in Samples :
       s \in Seq(Nat) /\ Len(s) = 2 ^ MinEntropy /\ Len(s) >= 4 /\ Others(s) \subseteq Seq(Nat)
  /\ RctCutoff \in Nat /\ MinEntropy \in Nat

VARIABLES sample, other  \* the buffers the tests were last run on

healthVars == <<sample, other>>
HealthInit == sample = << >> /\ other = << >>
HealthCheck(s, o) == sample' = s /\ other' = o
HealthNext == \E s \in Samples : \E o \in Others(s) : HealthCheck(s, o)
HealthSpec == HealthInit /\ [][HealthNext]_healthVars

----------------------------------------------------------------------------
\* Mutant of Repetitions: the count is not started afresh by a new value.
RepetitionsKept(s) ==
  LET count[k \in DOMAIN s] ==
        IF k = 1 THEN 1 ELSE IF s[k] = s[k - 1] THEN count[k - 1] + 1 ELSE count[k - 1]
  IN  count

\* How often the k-th sample has just been repeated.
Repetitions(s) ==
  LET count[k \in DOMAIN s] ==
        IF k = 1 THEN 1 ELSE IF s[k] = s[k - 1] THEN count[k - 1] + 1 ELSE 1
  IN  count

\* The count is looked at only when a sample repeats its predecessor.
repetition_count_test(s, cutoff) ==
  \A k \in 2 .. Len(s) : s[k] = s[k - 1] => Repetitions(s)[k] < cutoff

Occurrences(s, b) == Cardinality({k \in DOMAIN s : s[k] = b})
max_count(s) == Max({Occurrences(s, s[k]) : k \in DOMAIN s})

adaptive_proportion_test(s, cutoff) == s = << >> \/ max_count(s) < cutoff

\* Mutant of MinEntropyAtLeast: the first occurrence is not counted.
RepeatEntropyAtLeast(s, h) ==
  IF s = << >> THEN h = 0 ELSE (max_count(s) - 1) * 2 ^ h <= Len(s)

\* estimate_min_entropy(s) >= h.
MinEntropyAtLeast(s, h) ==
  IF s = << >> THEN h = 0 ELSE max_count(s) * 2 ^ h <= Len(s)

\* The three tests in their order.
monitor_entropy_quality(s, h) ==
  CASE ~MinEntropyAtLeast(s, h) -> "below threshold"
    [] MinEntropyAtLeast(s, h) /\ ~repetition_count_test(s, RctCutoff) -> "repetition"
    [] MinEntropyAtLeast(s, h) /\ repetition_count_test(s, RctCutoff)
         /\ ~adaptive_proportion_test(s, Len(s) \div 2) -> "proportion"
    [] OTHER -> "ok"

health_check_source(s) == monitor_entropy_quality(s, MinEntropy)

\* A sum in the order of its terms.
SumOf(s) ==
  LET upto[k \in 0 .. Len(s)] == IF k = 0 THEN 0 ELSE upto[k - 1] + s[k]
  IN  upto[Len(s)]

Total(s) == SumOf(s)

\* n times the sample's distance from the mean.
Diff(s, k) == Len(s) * s[k] - Total(s)

Covariance(s, o) == SumOf([k \in DOMAIN s |-> Diff(s, k) * Diff(o, k)])

\* Mutant of validate_source_diversity: the means are not subtracted.
validate_source_diversity_raw(s, o) ==
  LET n == IF Len(s) < Len(o) THEN Len(s) ELSE Len(o)
      a == SubSeq(s, 1, n)
      b == SubSeq(o, 1, n)
      dot(x, y) == SumOf([k \in DOMAIN x |-> x[k] * y[k]])
  IN  IF n = 0 \/ dot(a, a) = 0 \/ dot(b, b) = 0 THEN [num |-> 0, var1 |-> 1, var2 |-> 1]
      ELSE [num |-> dot(a, b), var1 |-> dot(a, a), var2 |-> dot(b, b)]

\* The coefficient num / sqrt(var1 * var2) over the common prefix; 0 without variance.
validate_source_diversity(s, o) ==
  LET n == IF Len(s) < Len(o) THEN Len(s) ELSE Len(o)
      a == SubSeq(s, 1, n)
      b == SubSeq(o, 1, n)
  IN  IF n = 0 \/ Covariance(a, a) = 0 \/ Covariance(b, b) = 0
      THEN [num |-> 0, var1 |-> 1, var2 |-> 1]
      ELSE [num |-> Covariance(a, b), var1 |-> Covariance(a, a), var2 |-> Covariance(b, b)]

----------------------------------------------------------------------------
(* Properties                                                              *)

Run(s, i, j) == \A k \in i .. j : s[k] = s[i]

\* n equal samples in a row, at least two.
HasRun(s, n) == \E i, j \in DOMAIN s : j - i + 1 >= n /\ i < j /\ Run(s, i, j)

\* Where documentation and code agree: the repetition test finds every run of more than
\* `cutoff` equal samples, wherever it begins and whatever is around it, and refuses no
\* buffer whose runs are all shorter than that.
RepetitionFindsRuns ==
  \A cutoff \in 0 .. Len(sample) + 1 :
    /\ HasRun(sample, cutoff + 1) => ~repetition_count_test(sample, cutoff)
    /\ ~HasRun(sample, cutoff) => repetition_count_test(sample, cutoff)

\* entropy_health.rs:29: the cutoff is the "Maximum allowed consecutive repetitions".
\* The code refuses the maximum too.
CutoffIsAllowed ==
  \A cutoff \in 1 .. Len(sample) + 1 :
    ~HasRun(sample, cutoff + 1) => repetition_count_test(sample, cutoff)

\* With as many samples as 2^MinEntropy, as in the code (64 and 6), a source passes
\* only if its bytes are pairwise distinct, and the other two tests never decide:
\* the estimate is so coarse that one repeated byte fails a good source.
HealthyMeansDistinct ==
  sample # << >> =>
    health_check_source(sample) =
      (IF \A i, j \in DOMAIN sample : i # j => sample[i] # sample[j]
       THEN "ok" ELSE "below threshold")

\* The coefficient is one: its square is at most 1, it does not change when one of
\* the sources is shifted by a constant, and a source is never reported independent
\* of itself unless it is stuck, where the variance and with it the coefficient is 0.
CorrelationIsSound ==
  LET r == validate_source_diversity(sample, other)
      shifted == [k \in DOMAIN other |-> other[k] + 1]
      twin == validate_source_diversity(sample, sample)
  IN  /\ r.num * r.num <= r.var1 * r.var2
      /\ r = validate_source_diversity(sample, shifted)
      /\ twin.num = 0 <=> \A k \in DOMAIN sample : sample[k] = sample[1]

\* Each health test of a raw buffer decides what it is named for, up to the borderline
\* case of the repetition test.
HealthTestsAreExact == RepetitionFindsRuns /\ HealthyMeansDistinct /\ CorrelationIsSound
=============================================================================
