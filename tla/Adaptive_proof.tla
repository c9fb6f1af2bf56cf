--------------------------- MODULE Adaptive_proof ---------------------------
(***************************************************************************)
(* Proof that adaptive limiting keeps its variables' types, for any        *)
(* limits, packets, averages and edits: in particular, that every rate it  *)
(* sets lies between the floor of some limit and that limit.               *)
(***************************************************************************)
EXTENDS Adaptive, Sums, SequenceTheorems

-----------------------------------------------------------------------------
(* Lemmas about the operators of Rates. *)

LEMMA Products == \A x, y \in Nat : x * y \in Nat
OBVIOUS

LEMMA Quotient == \A x \in Nat, y \in Nat \ {0} : x \div y \in Nat
OBVIOUS

\* A batch is cut to the packets that the tokens are enough for.
LEMMA Share == \A x \in Nat, y \in Nat \ {0} : (x \div y) * y <= x
OBVIOUS

LEMMA Scaled ==
  ASSUME NEW x \in Nat, NEW y \in Nat, NEW z \in Nat, x <= y PROVE x * z <= y * z
<1>1. PICK d \in Nat : y = x + d
  <2>1. y - x \in Nat /\ y = x + (y - x)
    OBVIOUS
  <2> QED BY <2>1
<1>2. y * z = x * z + d * z
  BY <1>1
<1>3. x * z \in Nat /\ d * z \in Nat
  BY Products
<1> QED BY <1>2, <1>3

\* The rates that a limit allows.
LEMMA FloorType == \A t \in Nat \ {0} : Floor(t) \in 1 .. t
BY DEF Floor, Most

LEMMA ClampType ==
  ASSUME NEW t \in Nat \ {0}, NEW rate \in Int PROVE Clamp(rate, t) \in Floor(t) .. t
BY FloorType DEF Clamp, Least, Most

LEMMA RaisedType ==
  ASSUME NEW rate \in Nat, NEW measured \in Nat, NEW t \in Nat PROVE Raised(rate, measured, t) \in Nat
BY DEF Raised

LEMMA LoweredType ==
  ASSUME NEW rate \in Nat, NEW measured \in Nat \ {0}, NEW t \in Nat
  PROVE  Lowered(rate, measured, t) \in Nat
<1>1. 300 * measured + 700 * t \in Nat /\ 1000 * measured \in Nat \ {0}
  OBVIOUS
<1> DEFINE a == 300 * measured + 700 * t
           b == 1000 * measured
<1>2. rate * a \in Nat
  BY <1>1, Products
<1>3. a \in Nat /\ b \in Nat \ {0}
  BY <1>1
<1>4. Lowered(rate, measured, t) = (rate * a) \div b
  BY DEF Lowered
<1> HIDE DEF a, b
<1> QED BY <1>2, <1>3, <1>4, Quotient

\* A rate is kept, or set between the floor of the target and the target.
LEMMA AdaptiveRateType ==
  ASSUME NEW t \in Nat \ {0}, NEW rate \in Nat, NEW measured \in Nat, NEW quiet \in Nat
  PROVE  \/ AdaptiveRate(rate, measured, t, quiet) \in Floor(t) .. t
         \/ rate > 0 /\ AdaptiveRate(rate, measured, t, quiet) = rate
<1> DEFINE r == IF rate <= 0 THEN t ELSE rate
           over == 100 * measured > 102 * t
           under == 100 * measured < 98 * t
<1>1. r \in Nat /\ (over => measured \in Nat \ {0})
  OBVIOUS
<1>2. t \in Floor(t) .. t
  BY FloorType
<1>3. CASE measured < quiet \/ ~(over \/ under)
  BY <1>2, <1>3 DEF AdaptiveRate
<1>4. CASE ~(measured < quiet) /\ over
  <2>1. AdaptiveRate(rate, measured, t, quiet) = Clamp(Lowered(r, measured, t), t)
    BY <1>4 DEF AdaptiveRate
  <2>2. Lowered(r, measured, t) \in Int
    <3> HIDE DEF r
    <3> QED BY <1>1, <1>4, LoweredType
  <2> QED BY <2>1, <2>2, ClampType
<1>5. CASE ~(measured < quiet) /\ ~over /\ under
  <2>1. AdaptiveRate(rate, measured, t, quiet) = Clamp(Raised(r, measured, t), t)
    BY <1>5 DEF AdaptiveRate
  <2>2. Raised(r, measured, t) \in Int
    <3> HIDE DEF r
    <3> QED BY <1>1, RaisedType
  <2> QED BY <2>1, <2>2, ClampType
<1> QED BY <1>3, <1>4, <1>5

LEMMA AverageType == ASSUME NEW s \in Seq(Nat) PROVE Average(s) \in Nat
<1>1. CASE s = <<>>
  BY <1>1 DEF Average
<1>2. CASE s # <<>>
  <2>1. DOMAIN s = 1 .. Len(s) /\ Len(s) \in Nat \ {0} /\ \A i \in 1 .. Len(s) : s[i] \in Nat
    BY <1>2, ElementOfSeq, EmptySeq
  <2>2. IsFiniteSet(1 .. Len(s))
    BY <2>1, FS_Interval
  <2>3. SumFunctionOnSet(s, 1 .. Len(s)) \in Nat
    BY <2>1, <2>2, SumIn
  <2>4. Average(s) = SumFunctionOnSet(s, 1 .. Len(s)) \div Len(s)
    BY <1>2, <2>1 DEF Average, SumFunction
  <2> QED BY <2>1, <2>3, <2>4, Quotient
<1> QED BY <1>1, <1>2

LEMMA PushedType ==
  ASSUME NEW s \in Seq(Nat), NEW x \in Nat, NEW w \in Nat, Len(s) <= w
  PROVE  Pushed(s, x, w) \in Seq(Nat) /\ Len(Pushed(s, x, w)) <= w
<1> DEFINE all == Append(s, x)
<1>1. all \in Seq(Nat) /\ Len(all) = Len(s) + 1 /\ Len(s) \in Nat /\ all # <<>>
  BY AppendProperties
<1>2. Tail(all) \in Seq(Nat) /\ Len(Tail(all)) = Len(all) - 1
  BY <1>1, HeadTailProperties
<1>3. Pushed(s, x, w) = IF Len(all) > w THEN Tail(all) ELSE all
  BY DEF Pushed
<1> HIDE DEF all
<1> QED BY <1>1, <1>2, <1>3

-----------------------------------------------------------------------------
(***************************************************************************)
(* The inductive invariant: the type, with what a step relies on beyond    *)
(* it.  The bucket is one, the samples are bytes, and nothing has passed   *)
(* since the last tick unless this second's batch was sent.                *)
(***************************************************************************)
Allowed == {0} \cup UNION {Floor(t) .. t : t \in Target}

Chosen ==
  /\ target \in Target \cup {0} /\ adaptive \in BOOLEAN
  /\ adjusted \in Allowed /\ shown \in Allowed

Used ==
  /\ busy \in BOOLEAN /\ sent \in BOOLEAN /\ idle \in Nat
  /\ bucket \in [tokens : Nat, rate : Nat] /\ bucket.tokens <= Burst(bucket.rate)
  /\ passed \in Nat /\ passed <= Batch * Size /\ (~sent => passed = 0)
  /\ samples \in Seq(Nat) /\ Len(samples) <= Window

AdaptiveInv == Chosen /\ Used

LEMMA TargetType == \A t \in Target : t \in Nat \ {0}
BY AdaptiveAssumption

LEMMA SizeType == Size \in Nat \ {0} /\ Batch \in Nat \ {0} /\ Quiet \in Nat /\ Window \in Nat \ {0}
BY AdaptiveAssumption

LEMMA AllowedType == Allowed \subseteq Nat
<1> SUFFICES ASSUME NEW t \in Target, NEW x \in Floor(t) .. t PROVE x \in Nat
  BY DEF Allowed
<1> QED BY TargetType, FloorType

LEMMA AdaptiveInit == Init => AdaptiveInv
<1> SUFFICES ASSUME Init PROVE AdaptiveInv
  OBVIOUS
<1>1. 0 <= Batch * Size
  BY SizeType, Products
<1>2. Chosen
  BY DEF Init, Chosen, Allowed
<1>3. samples \in Seq(Nat) /\ Len(samples) <= Window
  BY SizeType DEF Init
<1>4. passed \in Nat /\ passed <= Batch * Size /\ (~sent => passed = 0)
  BY <1>1 DEF Init
<1>5. busy \in BOOLEAN /\ sent \in BOOLEAN /\ idle \in Nat
  BY DEF Init
<1>6. bucket \in [tokens : Nat, rate : Nat] /\ bucket.tokens <= Burst(bucket.rate)
  BY DEF Init, NoBucket, Burst
<1> QED BY <1>2, <1>3, <1>4, <1>5, <1>6 DEF AdaptiveInv, Used

\* The bucket as a batch finds it.
LEMMA ReadyType ==
  ASSUME AdaptiveInv, Limited
  PROVE  /\ Ready \in [tokens : Nat, rate : Nat]
         /\ Ready.tokens <= Burst(Ready.rate)
<1> DEFINE rate == EffectiveRate
<1>1. rate \in Nat
  BY AllowedType, TargetType DEF AdaptiveInv, Chosen, EffectiveRate
<1>2. CASE bucket = NoBucket
  BY <1>1, <1>2 DEF Ready, NewBucket, Burst
<1>3. CASE bucket # NoBucket
  <2> DEFINE kept == Least(bucket.tokens, Burst(rate))
             gain == rate * idle
             full == Least(kept + gain, Burst(rate))
  <2>1. kept \in Nat /\ Burst(rate) \in Nat /\ gain \in Nat
    BY <1>1, Products DEF AdaptiveInv, Used, Least, Burst
  <2>2. Ready = [tokens |-> full, rate |-> rate]
    BY <1>3 DEF Ready, Refill, SetRate
  <2>3. full \in Nat /\ full <= Burst(rate)
    <3> HIDE DEF kept, gain, rate
    <3> QED BY <2>1 DEF Least
  <2> HIDE DEF full, rate
  <2> QED BY <1>1, <2>2, <2>3
<1> QED BY <1>2, <1>3

LEMMA AdaptiveTraffic == ASSUME AdaptiveInv, Traffic PROVE AdaptiveInv'
<1>1. Chosen'
  BY DEF AdaptiveInv, Chosen, Traffic, rule
<1>2. Passing \in Nat /\ Passing <= Batch
  <2>1. CASE Limited
    <3>1. Ready.tokens \div Size \in Nat
      BY <2>1, ReadyType, SizeType, Quotient
    <3> QED BY <2>1, <3>1, SizeType DEF Passing, Least
  <2>2. CASE ~Limited
    BY <2>2, SizeType DEF Passing
  <2> QED BY <2>1, <2>2
<1>3. Passing * Size \in Nat /\ Passing * Size <= Batch * Size
  BY <1>2, SizeType, Products, Scaled
<1>4. passed' \in Nat /\ passed' <= Batch * Size /\ sent' = TRUE
  BY <1>3 DEF Traffic, AdaptiveInv, Used
<1>5. bucket' \in [tokens : Nat, rate : Nat] /\ bucket'.tokens <= Burst(bucket'.rate) /\ idle' \in Nat
  <2>1. CASE Limited
    <3> DEFINE r == Ready
               cost == Passing * Size
               left == IF r.tokens >= cost THEN r.tokens - cost ELSE r.tokens
    <3>1. bucket' = [r EXCEPT !.tokens = left] /\ idle' = 0
      BY <2>1 DEF Traffic, Spend
    <3>2. r \in [tokens : Nat, rate : Nat] /\ r.tokens <= Burst(r.rate) /\ cost \in Nat
      BY <1>3, <2>1, ReadyType
    <3>3. left \in Nat /\ left <= r.tokens
      <4> HIDE DEF r, cost
      <4> QED BY <3>2
    <3> HIDE DEF r, left
    <3> QED BY <3>1, <3>2, <3>3 DEF Burst
  <2>2. CASE ~Limited
    BY <2>2 DEF Traffic, AdaptiveInv, Used
  <2> QED BY <2>1, <2>2
<1> QED BY <1>1, <1>4, <1>5 DEF Traffic, AdaptiveInv, Used

LEMMA AdjustedType ==
  ASSUME AdaptiveInv, NEW history \in Seq(Nat) PROVE Adjusted(history) \in Allowed
<1>1. CASE ~(adaptive /\ Limited)
  BY <1>1 DEF Adjusted, AdaptiveInv, Chosen
<1>2. CASE adaptive /\ Limited
  <2>1. target \in Target /\ target \in Nat \ {0} /\ adjusted \in Nat /\ adjusted \in Allowed
    BY <1>2, TargetType, AllowedType DEF Limited, AdaptiveInv, Chosen
  <2>2. Average(history) \in Nat
    BY AverageType
  <2>3. \/ Adjusted(history) \in Floor(target) .. target
        \/ Adjusted(history) = adjusted
    BY <1>2, <2>1, <2>2, SizeType, AdaptiveRateType DEF Adjusted
  <2> QED BY <2>1, <2>3 DEF Allowed
<1> QED BY <1>1, <1>2

LEMMA AdaptiveTick == ASSUME AdaptiveInv, Tick PROVE AdaptiveInv'
<1>1. samples' \in Seq(Nat) /\ Len(samples') <= Window
  BY SizeType, PushedType DEF Tick, AdaptiveInv, Used
<1>2. adjusted' \in Allowed
  BY <1>1, AdjustedType DEF Tick
<1>3. Chosen'
  BY <1>2 DEF Tick, AdaptiveInv, Chosen, Allowed
<1>4. idle' \in Nat
  BY DEF Tick, AdaptiveInv, Used, Least
<1>5. passed' = 0 /\ passed' <= Batch * Size
  <2>1. 0 <= Batch * Size
    BY SizeType, Products
  <2> QED BY <2>1 DEF Tick
<1>6. busy' \in BOOLEAN /\ sent' \in BOOLEAN
  BY Zenon DEF Tick, AdaptiveInv, Used
<1>7. bucket' \in [tokens : Nat, rate : Nat] /\ bucket'.tokens <= Burst(bucket'.rate)
  BY DEF Tick, AdaptiveInv, Used
<1> QED BY <1>1, <1>3, <1>4, <1>5, <1>6, <1>7 DEF AdaptiveInv, Used

LEMMA AdaptiveEdit ==
  ASSUME AdaptiveInv,
         \/ \E t \in Target \cup {0} : SetTarget(t)
         \/ \E on \in BOOLEAN : SetAdaptive(on)
         \/ Refresh \/ Turn
  PROVE  AdaptiveInv'
<1>1. Chosen'
  <2> USE DEF AdaptiveInv, Chosen, Allowed
  <2>1. ASSUME NEW t \in Target \cup {0}, SetTarget(t) PROVE Chosen'
    BY <2>1 DEF SetTarget
  <2>2. ASSUME NEW on \in BOOLEAN, SetAdaptive(on) PROVE Chosen'
    BY <2>2 DEF SetAdaptive
  <2>3. CASE Refresh
    BY <2>3 DEF Refresh
  <2>4. CASE Turn
    BY <2>4 DEF Turn, rule
  <2> QED BY <2>1, <2>2, <2>3, <2>4
<1>2. UNCHANGED traffic /\ busy' \in BOOLEAN
  BY DEF SetTarget, SetAdaptive, Refresh, Turn, Edit, AdaptiveInv, Used
<1> QED BY <1>1, <1>2 DEF AdaptiveInv, Used, traffic

LEMMA AdaptiveStep == AdaptiveInv /\ [Next]_vars => AdaptiveInv'
<1>1. AdaptiveInv /\ UNCHANGED vars => AdaptiveInv'
  BY DEF vars, rule, traffic, AdaptiveInv, Chosen, Used, Allowed
<1> QED BY <1>1, AdaptiveTraffic, AdaptiveTick, AdaptiveEdit DEF Next

(***************************************************************************)
(* Whatever the traffic, the edits and the rows that are shown, a rate     *)
(* adjusted by the feedback lies between a twentieth of some limit and     *)
(* that limit (lib.rs: new_rate.clamp(target * 0.05, target)), the bucket  *)
(* never holds more than its burst, and no more passes than was sent.      *)
(***************************************************************************)
THEOREM RatesTyped == Spec => []TypeOK
<1>1. AdaptiveInv => TypeOK
  BY DEF AdaptiveInv, Chosen, Used, Allowed, TypeOK
<1> QED BY <1>1, AdaptiveInit, AdaptiveStep, PTL DEF Spec
=============================================================================
