------------------------------- MODULE Rates --------------------------------
(***************************************************************************)
(* Speed limits (flowbrake-core, lib.rs): the token bucket of a limit, the *)
(* average of the last samples, and the rate that adaptive limiting sets.  *)
(* Bytes and rates are integers here, in a unit that an instance chooses,  *)
(* where the code has f64; a division rounds down.                         *)
(***************************************************************************)
EXTENDS Integers, SequencesExt

Least(a, b) == IF a <= b THEN a ELSE b
Most(a, b) == IF a >= b THEN a ELSE b

\* TokenBucket, without max_tokens, which is always Burst(rate)
Burst(rate) == 2 * rate
NewBucket(rate) == [tokens |-> Burst(rate), rate |-> rate]

SetRate(bucket, rate) == [tokens |-> Least(bucket.tokens, Burst(rate)), rate |-> rate]

\* Mutant: an idle limit saves up without bound.
RefillUncapped(bucket, elapsed) == [bucket EXCEPT !.tokens = @ + bucket.rate * elapsed]
Refill(bucket, elapsed) ==
  [bucket EXCEPT !.tokens = Least(@ + bucket.rate * elapsed, Burst(bucket.rate))]

Fits(bucket, bytes) == bucket.tokens >= bytes

\* Mutant: a dropped packet is charged too.
SpendAlways(bucket, bytes) == [bucket EXCEPT !.tokens = @ - bytes]
\* try_consume, of a refilled bucket
Spend(bucket, bytes) == [bucket EXCEPT !.tokens = IF @ >= bytes THEN @ - bytes ELSE @]

\* RollingAverage: the last samples, at most window of them
Pushed(samples, sample, window) ==
  LET all == Append(samples, sample)
  IN  IF Len(all) > window THEN Tail(all) ELSE all
Average(samples) == IF samples = <<>> THEN 0 ELSE SumFunction(samples) \div Len(samples)

(***************************************************************************)
(* compute_adaptive_rate, for a current rate and the measured average: a   *)
(* rate is lowered when the average is over 102% of the target, raised     *)
(* when it is under 98%.  quiet is the average below which nothing is      *)
(* concluded.                                                              *)
(***************************************************************************)
Floor(target) == Most(target \div 20, 1)
\* Mutants: without the floor, without the ceiling.
ClampAbove(rate, target) == Least(rate, target)
ClampBelow(rate, target) == Most(rate, Floor(target))
Clamp(rate, target) == Least(Most(rate, Floor(target)), target)

Lowered(rate, measured, target) == (rate * (300 * measured + 700 * target)) \div (1000 * measured)
Raised(rate, measured, target) ==
  IF 100 * measured < 90 * target THEN (rate * 115) \div 100 ELSE (rate * 105) \div 100

AdaptiveRate(current, measured, target, quiet) ==
  LET rate == IF current <= 0 THEN target ELSE current
      over == 100 * measured > 102 * target
      under == 100 * measured < 98 * target
  IN  IF target <= 0 THEN 0
      ELSE IF measured < quiet \/ ~(over \/ under) THEN rate
      ELSE IF over THEN Clamp(Lowered(rate, measured, target), target)
      ELSE Clamp(Raised(rate, measured, target), target)
=============================================================================
