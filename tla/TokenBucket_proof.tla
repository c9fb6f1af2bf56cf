------------------------- MODULE TokenBucket_proof --------------------------
(***************************************************************************)
(* Proofs about TokenBucket: that a limit lets no more through than its    *)
(* burst and the time allow, and is no stricter than that, whatever the    *)
(* limits, the packets and the moments at which the limit is changed.      *)
(***************************************************************************)
EXTENDS TokenBucket, TLAPS

LEMMA Product == \A p, x \in Nat : p * x \in Nat
OBVIOUS

LEMMA Monotone == \A p, x, y \in Nat : x <= y => p * x <= p * y
<1> SUFFICES ASSUME NEW p \in Nat, NEW x \in Nat, NEW y \in Nat, x <= y PROVE p * x <= p * y
  OBVIOUS
<1>1. y - x \in Nat /\ y = x + (y - x)
  OBVIOUS
<1>2. p * (y - x) \in Nat
  BY <1>1, Product
<1>3. p * y = p * x + p * (y - x)
  OBVIOUS
<1> QED BY <1>2, <1>3

LEMMA Refills == \A p, r, x, y \in Nat : r <= p => p * x + r * y <= p * (x + y)
<1> SUFFICES ASSUME NEW p \in Nat, NEW r \in Nat, NEW x \in Nat, NEW y \in Nat, r <= p
             PROVE  p * x + r * y <= p * (x + y)
  OBVIOUS
<1>1. y * r <= y * p
  BY Monotone
<1>2. p * (x + y) = p * x + p * y /\ y * r = r * y /\ y * p = p * y
  OBVIOUS
<1> QED BY <1>1, <1>2

-----------------------------------------------------------------------------
(***************************************************************************)
(* The inductive invariant.  Saved says that what passed since an instant  *)
(* and what is left in the bucket together stay within the limit, up to    *)
(* the moment the bucket was last used; Owed, that the bucket holds what a *)
(* quiet time under an unchanged limit has earned.                         *)
(***************************************************************************)
HasBucket == bucket # NoBucket
Record == [tokens : Nat, rate : Rate \cup {None}]

Typed ==
  /\ limit \in Rate \cup {None} /\ now \in Instant /\ last \in 0 .. now /\ changed \in 0 .. now
  /\ bucket \in Record
  /\ HasBucket => bucket.rate \in Rate /\ bucket.tokens <= Burst(bucket.rate)
  /\ since \in [Instant -> Nat] /\ peak \in [Instant -> Rate \cup {0}]
Later == \A t \in Instant : (t > last \/ ~HasBucket) => since[t] = 0
Saved ==
  HasBucket => \A t \in 0 .. last :
    since[t] + bucket.tokens <= Burst(peak[t]) + peak[t] * (last - t)
Owed ==
  HasBucket /\ limit # None => \A t \in changed .. last :
    since[t] = 0 /\ t < last => bucket.rate = limit /\ bucket.tokens >= limit * Least(2, last - t)
BucketInv == Typed /\ Later /\ Saved /\ Owed

LEMMA BucketInit == Init => BucketInv
BY HorizonAssumption
   DEF Init, BucketInv, Typed, Later, Saved, Owed, HasBucket, NoBucket, Record, Instant, None

\* The bucket as a packet finds it.
LEMMA ReadyIs ==
  ASSUME BucketInv, limit # None
  PROVE  /\ Ready = [tokens |-> Ready.tokens, rate |-> limit]
         /\ limit \in Nat \ {0} /\ Ready.tokens \in 0 .. Burst(limit)
         /\ ~HasBucket => Ready.tokens = Burst(limit)
         /\ HasBucket => /\ Ready.tokens <= bucket.tokens + limit * (now - last)
                         /\ \/ Ready.tokens = Burst(limit)
                            \/ /\ Ready.tokens = Least(bucket.tokens, Burst(limit))
                                                  + limit * (now - last)
<1>1. limit \in Nat \ {0} /\ now - last \in Nat /\ now \in Nat /\ last \in Nat
  BY RateAssumption, HorizonAssumption DEF BucketInv, Typed, Instant
<1>2. limit * (now - last) \in Nat
  BY <1>1, Product
<1> DEFINE gain == limit * (now - last)
           held == IF bucket = NoBucket THEN NewBucket(limit) ELSE bucket
           kept == Least(held.tokens, Burst(limit))
<1>3. bucket.tokens \in Nat
  BY DEF BucketInv, Typed, Record
<1>4. held.tokens \in Nat /\ kept \in 0 .. Burst(limit)
  BY <1>1, <1>3 DEF NewBucket, Burst, Least
<1>5. SetRate(held, limit) = [tokens |-> kept, rate |-> limit]
  BY DEF SetRate
<1>6. CASE ~HasBucket
  <2>1. kept = Burst(limit)
    BY <1>1, <1>6 DEF HasBucket, NewBucket, Burst, Least
  <2>2. Ready = [tokens |-> Least(kept + limit * 0, Burst(limit)), rate |-> limit]
    BY <1>5, <1>6 DEF HasBucket, Ready, Refill
  <2>3. Least(kept + limit * 0, Burst(limit)) = Burst(limit)
    BY <1>1, <2>1 DEF Least, Burst
  <2> QED BY <1>1, <1>6, <2>2, <2>3 DEF Burst
<1>7. CASE HasBucket
  <2>1. kept = Least(bucket.tokens, Burst(limit))
    BY <1>7 DEF HasBucket
  <2>2. Ready = [tokens |-> Least(kept + gain, Burst(limit)), rate |-> limit]
    BY <1>5, <1>7 DEF HasBucket, Ready, Refill
  <2> HIDE DEF gain, kept
  <2>3. gain \in Nat
    BY <1>2 DEF gain
  <2>4. kept <= bucket.tokens
    BY <1>1, <1>3, <2>1 DEF Least, Burst
  <2>5. /\ Least(kept + gain, Burst(limit)) \in 0 .. Burst(limit)
        /\ Least(kept + gain, Burst(limit)) <= bucket.tokens + gain
        /\ \/ Least(kept + gain, Burst(limit)) = Burst(limit)
           \/ Least(kept + gain, Burst(limit)) = kept + gain
    BY <1>1, <1>3, <1>4, <2>3, <2>4 DEF Least, Burst
  <2> QED BY <1>1, <1>7, <2>1, <2>2, <2>5 DEF gain
<1> QED BY <1>6, <1>7

\* What a packet does to the bucket and to the history.
LEMMA PacketIs ==
  ASSUME BucketInv, NEW b \in Size, Packet(b)
  PROVE  /\ b \in Nat /\ limit \in Rate /\ now \in Nat /\ last \in 0 .. now
         /\ bucket' = [tokens |-> IF Fits(Ready, b) THEN Ready.tokens - b ELSE Ready.tokens,
                       rate |-> limit]
         /\ bucket'.tokens \in 0 .. Burst(limit) /\ bucket'.rate = limit /\ HasBucket'
         /\ \A t \in 0 .. now :
              /\ since'[t] = IF Fits(Ready, b) THEN since[t] + b ELSE since[t]
              /\ since'[t] + bucket'.tokens = since[t] + Ready.tokens
              /\ peak'[t] \in Rate /\ peak'[t] >= limit /\ peak'[t] >= peak[t]
         /\ since' \in [Instant -> Nat] /\ peak' \in [Instant -> Rate \cup {0}]
         /\ \A t \in Instant : t > now => since'[t] = since[t]
<1>1. b \in Nat /\ limit \in Rate /\ limit \in Nat \ {0} /\ now \in Nat /\ last \in 0 .. now
  BY RateAssumption DEF BucketInv, Typed, Packet, Instant
<1>2. Ready.tokens \in 0 .. Burst(limit) /\ Ready = [tokens |-> Ready.tokens, rate |-> limit]
  BY <1>1, ReadyIs DEF Packet
<1> DEFINE rest == IF Fits(Ready, b) THEN Ready.tokens - b ELSE Ready.tokens
<1>3. rest \in 0 .. Burst(limit)
  BY <1>1, <1>2 DEF Fits, Burst
<1>4. bucket' = [tokens |-> rest, rate |-> limit]
  BY <1>2 DEF Packet, Spend, Fits
<1>5. HasBucket'
  BY <1>1, <1>4 DEF HasBucket, NoBucket, None
<1>6. 0 .. now \subseteq Instant
  BY HorizonAssumption DEF BucketInv, Typed, Instant
<1>7. ASSUME NEW t \in Instant
      PROVE  /\ since[t] \in Nat /\ peak[t] \in Rate \cup {0}
             /\ since'[t] = IF t <= now /\ Fits(Ready, b) THEN since[t] + b ELSE since[t]
             /\ peak'[t] = IF t <= now THEN Most(peak[t], limit) ELSE 0
  BY DEF BucketInv, Typed, Packet
<1>8. \A p \in Rate \cup {0} : Most(p, limit) \in Rate /\ Most(p, limit) >= limit /\ Most(p, limit) >= p
  BY <1>1, RateAssumption DEF Most
<1>9. since' \in [Instant -> Nat] /\ peak' \in [Instant -> Rate \cup {0}]
  <2>1. DOMAIN since' = Instant /\ DOMAIN peak' = Instant
    BY DEF Packet
  <2>2. ASSUME NEW t \in Instant PROVE since'[t] \in Nat /\ peak'[t] \in Rate \cup {0}
    <3>1. since[t] \in Nat /\ since[t] + b \in Nat
      BY <1>1, <1>7
    <3>2. since'[t] = since[t] \/ since'[t] = since[t] + b
      BY <1>7
    <3>3. peak'[t] = 0 \/ peak'[t] = Most(peak[t], limit)
      BY <1>7
    <3>4. Most(peak[t], limit) \in Rate
      BY <1>7, <1>8
    <3> QED BY <3>1, <3>2, <3>3, <3>4
  <2>3. since' = [t \in Instant |-> since'[t]] /\ peak' = [t \in Instant |-> peak'[t]]
    BY DEF Packet
  <2> QED BY <2>2, <2>3
<1>10. ASSUME NEW t \in 0 .. now
       PROVE  /\ since'[t] = IF Fits(Ready, b) THEN since[t] + b ELSE since[t]
              /\ since'[t] + rest = since[t] + Ready.tokens
              /\ peak'[t] \in Rate /\ peak'[t] >= limit /\ peak'[t] >= peak[t]
  <2>1. t \in Instant /\ t <= now
    BY <1>1, <1>6
  <2> QED BY <1>1, <1>2, <1>7, <1>8, <2>1
<1>11. \A t \in Instant : t > now => since'[t] = since[t]
  BY <1>1, <1>7 DEF Instant
<1> HIDE DEF rest
<1>12. bucket'.tokens = rest /\ bucket'.rate = limit
  BY <1>4
<1> QED BY <1>1, <1>3, <1>4, <1>5, <1>9, <1>10, <1>11, <1>12 DEF rest

LEMMA PacketOK == ASSUME BucketInv, NEW b \in Size, Packet(b) PROVE BucketInv'
<1> DEFINE left == bucket'.tokens
<1>1. /\ limit' = limit /\ now' = now /\ changed' = changed /\ last' = now
      /\ limit # None
  BY DEF Packet
<1>2. limit \in Nat \ {0} /\ last \in 0 .. now /\ now \in Nat /\ changed \in 0 .. now
      /\ Instant = 0 .. Horizon /\ now \in Instant
  BY <1>1, RateAssumption DEF BucketInv, Typed, Instant
<1>3. Typed'
  <2>1. bucket' \in Record
    <3>1. bucket' = [tokens |-> bucket'.tokens, rate |-> limit] /\ bucket'.tokens \in Nat
      BY <1>2, PacketIs DEF Burst
    <3> QED BY <3>1, PacketIs DEF Record
  <2>2. now' \in Instant /\ last' \in 0 .. now' /\ changed' \in 0 .. now' /\ limit' \in Rate \cup {None}
    BY <1>1, <1>2, PacketIs
  <2>3. bucket'.rate \in Rate /\ bucket'.tokens <= Burst(bucket'.rate)
    BY PacketIs, <1>2 DEF Burst
  <2> QED BY <2>1, <2>2, <2>3, PacketIs DEF Typed
<1>4. Later'
  <2>1. ASSUME NEW t \in Instant, t > now PROVE since'[t] = 0
    BY <1>2, <2>1, PacketIs DEF BucketInv, Later
  <2> QED BY <1>1, <2>1, PacketIs DEF Later
<1>5. ASSUME NEW t \in 0 .. now
      PROVE  since'[t] + left <= Burst(peak'[t]) + peak'[t] * (now - t)
  <2>0. t \in Instant /\ t \in Nat /\ t <= now
    BY <1>2, HorizonAssumption
  <2>1. peak'[t] \in Nat /\ peak'[t] >= limit /\ peak'[t] >= peak[t] /\ peak[t] \in Nat
    <3>1. peak'[t] \in Rate /\ peak'[t] >= limit /\ peak'[t] >= peak[t]
      BY <1>5, PacketIs
    <3>2. peak[t] \in Rate \cup {0}
      BY <2>0 DEF BucketInv, Typed
    <3>3. Rate \subseteq Nat /\ 0 \in Nat
      BY RateAssumption
    <3>4. peak'[t] \in Nat /\ peak[t] \in Nat
      BY <3>1, <3>2, <3>3, Zenon
    <3> QED BY <3>1, <3>4
  <2>2. since'[t] + left = since[t] + Ready.tokens /\ since[t] \in Nat
    <3>1. since'[t] + left = since[t] + Ready.tokens
      BY <1>5, PacketIs
    <3>2. since[t] \in Nat
      BY <2>0 DEF BucketInv, Typed
    <3> QED BY <3>1, <3>2
  <2>3. Ready.tokens \in 0 .. Burst(limit)
    BY <1>1, ReadyIs
  <2>4. CASE t > last \/ ~HasBucket
    <3>1. since[t] = 0
      BY <2>0, <2>4 DEF BucketInv, Later
    <3>2. peak'[t] * (now - t) \in Nat
      BY <1>2, <1>5, <2>1, Product
    <3> QED BY <1>2, <2>1, <2>2, <2>3, <3>1, <3>2 DEF Burst
  <2>5. CASE HasBucket /\ t <= last
    <3>1. since[t] + bucket.tokens <= Burst(peak[t]) + peak[t] * (last - t)
      BY <1>2, <1>5, <2>5 DEF BucketInv, Saved
    <3>2. Ready.tokens <= bucket.tokens + limit * (now - last)
      BY <1>1, <2>5, ReadyIs
    <3>3. peak'[t] * (last - t) + limit * (now - last) <= peak'[t] * ((last - t) + (now - last))
      <4>1. last - t \in Nat /\ now - last \in Nat /\ limit \in Nat
        BY <1>2, <2>0, <2>5
      <4> QED BY <2>1, <4>1, Refills
    <3>4. (last - t) * peak[t] <= (last - t) * peak'[t]
      BY <1>2, <1>5, <2>1, <2>5, Monotone
    <3>5. (last - t) * peak[t] = peak[t] * (last - t) /\ (last - t) * peak'[t] = peak'[t] * (last - t)
          /\ (last - t) + (now - last) = now - t
      BY <1>2, <1>5, <2>1
    <3>6. bucket.tokens \in Nat
      BY DEF BucketInv, Typed, Record
    <3> DEFINE a == peak[t] * (last - t)
               c == peak'[t] * (last - t)
               d == limit * (now - last)
               e == peak'[t] * (now - t)
    <3>7. a \in Nat /\ c \in Nat /\ d \in Nat /\ e \in Nat
      BY <1>2, <1>5, <2>1, <2>5, Product
    <3>8. a <= c /\ c + d <= e
      BY <3>3, <3>4, <3>5
    <3>9. since[t] + bucket.tokens <= Burst(peak[t]) + a /\ Ready.tokens <= bucket.tokens + d
      BY <3>1, <3>2
    <3> HIDE DEF a, c, d, e
    <3>10. since[t] + Ready.tokens <= Burst(peak'[t]) + e
      <4>1. since[t] \in Nat /\ limit \in Nat /\ Ready.tokens \in Nat
        BY <1>2, <2>2, <2>3 DEF Burst
      <4>2. since[t] + Ready.tokens <= 2 * peak[t] + a + d
        BY <2>1, <3>6, <3>7, <3>9, <4>1 DEF Burst
      <4> QED BY <2>1, <3>7, <3>8, <4>1, <4>2 DEF Burst
    <3> QED BY <2>2, <3>10 DEF e
  <2> QED BY <1>2, <1>5, <2>4, <2>5
<1>6. Saved'
  BY <1>1, <1>5 DEF Saved
<1>7. ASSUME NEW t \in changed .. now, since'[t] = 0, t < now
      PROVE  left >= limit * Least(2, now - t)
  <2>1. t \in 0 .. now /\ since[t] \in Nat
    <3>1. t \in 0 .. now /\ t \in Instant
      BY <1>2, HorizonAssumption
    <3> QED BY <3>1 DEF BucketInv, Typed
  <2>2. Ready.tokens \in 0 .. Burst(limit)
    BY <1>1, ReadyIs
  <2>3. since[t] = 0 /\ left = Ready.tokens
    <3>1. b \in Nat \ {0}
      BY RateAssumption
    <3> QED BY <1>7, <2>1, <2>2, <3>1, PacketIs
  <2>4. limit * Least(2, now - t) <= Burst(limit)
    BY <1>2, <2>1 DEF Least, Burst
  <2>5. CASE Ready.tokens = Burst(limit)
    BY <1>2, <2>3, <2>4, <2>5 DEF Burst
  <2>6. CASE HasBucket /\ Ready.tokens = Least(bucket.tokens, Burst(limit)) + limit * (now - last)
    <3> DEFINE gain == limit * (now - last)
    <3>1. gain \in Nat /\ gain >= 0
      BY <1>2, Product
    <3>2. bucket.tokens \in Nat
      BY DEF BucketInv, Typed, Record
    <3>3. CASE t >= last
      <4>1. Least(2, now - t) \in Nat /\ now - last \in Nat /\ Least(2, now - t) <= now - last
        BY <1>2, <2>1, <3>3 DEF Least
      <4>2. limit * Least(2, now - t) <= gain
        BY <1>2, <4>1, Monotone
      <4>3. limit * Least(2, now - t) \in Nat
        BY <1>2, <4>1, Product
      <4> HIDE DEF gain
      <4>4. Ready.tokens >= gain
        BY <1>2, <2>6, <3>1, <3>2 DEF Least, Burst, gain
      <4> QED BY <2>2, <2>3, <3>1, <4>2, <4>3, <4>4, <1>2 DEF Burst
    <3>4. CASE t < last
      <4>1. bucket.tokens >= limit * Least(2, last - t)
        BY <1>1, <1>2, <1>7, <2>3, <2>6, <3>4 DEF BucketInv, Owed
      <4>2. CASE last - t >= 2
        <5>1. bucket.tokens >= Burst(limit)
          BY <1>2, <2>1, <4>1, <4>2 DEF Least, Burst
        <5>2. Ready.tokens >= Burst(limit)
          <6> HIDE DEF gain
          <6>1. Ready.tokens = Least(bucket.tokens, Burst(limit)) + gain
            BY <2>6 DEF gain
          <6> QED BY <1>2, <3>1, <3>2, <5>1, <6>1 DEF Least, Burst
        <5> QED BY <1>2, <2>2, <2>3, <2>4, <5>2 DEF Burst
      <4>3. CASE last - t = 1
        <5>1. bucket.tokens >= limit
          BY <1>2, <2>1, <4>1, <4>3 DEF Least
        <5>2. CASE now = last
          <6>1. Least(2, now - t) = 1
            BY <1>2, <2>1, <4>3, <5>2 DEF Least
          <6>2. gain = 0
            BY <1>2, <5>2
          <6>3. Ready.tokens >= limit
            BY <1>2, <2>6, <3>2, <5>1, <6>2 DEF Least, Burst
          <6> QED BY <1>2, <2>2, <2>3, <6>1, <6>3 DEF Burst
        <5>3. CASE now > last
          <6>1. gain >= limit
            <7>1. limit * 1 <= limit * (now - last)
              BY <1>2, <5>3, Monotone
            <7> QED BY <1>2, <7>1
          <6>2. Least(2, now - t) = 2
            BY <1>2, <2>1, <4>3, <5>3 DEF Least
          <6> HIDE DEF gain
          <6>3. Ready.tokens = Least(bucket.tokens, Burst(limit)) + gain
            BY <2>6 DEF gain
          <6>4. Ready.tokens >= Burst(limit)
            BY <1>2, <3>1, <3>2, <5>1, <6>1, <6>3 DEF Least, Burst
          <6> QED BY <1>2, <2>2, <2>3, <6>2, <6>4 DEF Burst
        <5> QED BY <1>2, <5>2, <5>3
      <4> QED BY <1>2, <2>1, <3>4, <4>2, <4>3
    <3> QED BY <1>2, <2>1, <3>3, <3>4
  <2> QED BY <1>1, <2>5, <2>6, ReadyIs
<1>8. Owed'
  BY <1>1, <1>7, PacketIs DEF Owed
<1> QED BY <1>3, <1>4, <1>6, <1>8 DEF BucketInv

LEMMA LimitOK == ASSUME BucketInv, NEW rate \in Rate \cup {None}, SetLimit(rate) PROVE BucketInv'
<1>1. /\ limit' = rate /\ changed' = now /\ bucket' = bucket /\ last' = last /\ now' = now
      /\ since' = since /\ peak' = peak
  BY DEF SetLimit
<1>2. now \in Nat /\ last \in 0 .. now /\ last \in Nat
  BY HorizonAssumption DEF BucketInv, Typed, Instant
<1>3. Typed'
  BY <1>1, <1>2 DEF BucketInv, Typed, HasBucket
<1>4. Later' /\ Saved'
  BY <1>1 DEF BucketInv, Later, Saved, HasBucket
<1>5. ASSUME NEW t \in now .. last PROVE ~(t < last)
  BY <1>2
<1>6. Owed'
  BY <1>1, <1>5 DEF Owed
<1> QED BY <1>3, <1>4, <1>6 DEF BucketInv

LEMMA TickOK == ASSUME BucketInv, Tick PROVE BucketInv'
<1>1. /\ limit' = limit /\ changed' = changed /\ bucket' = bucket /\ last' = last
      /\ now' = now + 1 /\ now < Horizon /\ since' = since /\ peak' = peak
  BY DEF Tick
<1>2. Typed'
  BY <1>1, HorizonAssumption DEF BucketInv, Typed, HasBucket, Instant
<1>3. Later' /\ Saved' /\ Owed'
  BY <1>1 DEF BucketInv, Later, Saved, Owed, HasBucket
<1> QED BY <1>2, <1>3 DEF BucketInv

LEMMA BucketStep == BucketInv /\ [Next]_vars => BucketInv'
<1> SUFFICES ASSUME BucketInv, [Next]_vars PROVE BucketInv'
  OBVIOUS
<1>1. CASE UNCHANGED vars
  BY <1>1 DEF vars, BucketInv, Typed, Later, Saved, Owed, HasBucket
<1>2. CASE Next
  BY <1>2, LimitOK, PacketOK, TickOK DEF Next
<1> QED BY <1>1, <1>2

LEMMA BucketAlways == Spec => []BucketInv
BY BucketInit, BucketStep, PTL DEF Spec

-----------------------------------------------------------------------------
(***************************************************************************)
(* Every variable of a limit keeps its type: the bucket holds no less than *)
(* nothing and no more than the burst of its rate (engine.rs,              *)
(* consume_bucket).                                                        *)
(***************************************************************************)
THEOREM TypeCorrect == Spec => []TypeOK
<1>1. BucketInv => TypeOK
  <2> SUFFICES ASSUME BucketInv PROVE TypeOK
    OBVIOUS
  <2>1. ASSUME HasBucket PROVE bucket.tokens \in 0 .. Burst(bucket.rate)
    BY <2>1, RateAssumption DEF BucketInv, Typed, Record, Burst
  <2> QED BY <2>1 DEF BucketInv, Typed, TypeOK, HasBucket
<1> QED BY <1>1, BucketAlways, PTL

(***************************************************************************)
(* From any instant on, a limit lets no more bytes through than the burst  *)
(* and the time allow (should_drop_process, should_drop_global).           *)
(***************************************************************************)
THEOREM LimitHolds == Spec => []WithinRate
<1>1. BucketInv => WithinRate
  <2> SUFFICES ASSUME BucketInv, NEW t \in 0 .. now
               PROVE  since[t] <= Burst(peak[t]) + peak[t] * (now - t)
    BY DEF WithinRate
  <2>1. now \in Nat /\ last \in 0 .. now /\ t \in Instant /\ t \in Nat /\ t <= now
    BY HorizonAssumption DEF BucketInv, Typed, Instant
  <2>2. since[t] \in Nat /\ peak[t] \in Rate \cup {0} /\ bucket.tokens \in Nat
    BY <2>1 DEF BucketInv, Typed, Record
  <2>3. peak[t] \in Nat
    <3>1. Rate \cup {0} \subseteq Nat
      BY RateAssumption
    <3> QED BY <2>2, <3>1, Zenon
  <2>4. peak[t] * (now - t) \in Nat
    BY <2>1, <2>3, Product
  <2>5. CASE t > last \/ ~HasBucket
    <3>1. since[t] = 0
      BY <2>1, <2>5 DEF BucketInv, Later
    <3> QED BY <2>3, <2>4, <3>1 DEF Burst
  <2>6. CASE HasBucket /\ t <= last
    <3>1. since[t] + bucket.tokens <= Burst(peak[t]) + peak[t] * (last - t)
      BY <2>1, <2>6 DEF BucketInv, Saved
    <3>2. peak[t] * (last - t) <= peak[t] * (now - t)
      BY <2>1, <2>3, <2>6, Monotone
    <3>3. peak[t] * (last - t) \in Nat
      BY <2>1, <2>3, <2>6, Product
    <3> QED BY <2>2, <2>3, <2>4, <3>1, <3>2, <3>3 DEF Burst
  <2> QED BY <2>1, <2>5, <2>6
<1> QED BY <1>1, BucketAlways, PTL

(***************************************************************************)
(* A packet that fits the burst is dropped only if something passed in the *)
(* last two ticks, or the limit has just been changed.                     *)
(***************************************************************************)
THEOREM LimitGenerous == Spec => Generous
<1> DEFINE Dropped(b) ==
      Packet(b) /\ since' = since /\ b <= Burst(limit) /\ changed + 2 <= now
        => since[now - 2] > 0
<1>1. BucketInv /\ [Next]_vars => [\A b \in Size : Dropped(b)]_vars
  <2> SUFFICES ASSUME BucketInv, NEW b \in Size, Packet(b), since' = since,
                      b <= Burst(limit), changed + 2 <= now, ~(since[now - 2] > 0)
               PROVE  FALSE
    OBVIOUS
  <2> DEFINE t == now - 2
  <2>1. /\ now \in Nat /\ changed \in 0 .. now /\ last \in 0 .. now /\ t \in 0 .. now
        /\ t \in Instant /\ t >= changed /\ limit \in Nat \ {0} /\ limit # None
    BY PacketIs, RateAssumption, HorizonAssumption DEF BucketInv, Typed, Instant, Packet
  <2>2. since[t] \in Nat /\ since[t] = 0
    <3>1. since[t] \in Nat
      BY <2>1 DEF BucketInv, Typed
    <3> QED BY <3>1
  <2>3. b \in Nat \ {0}
    BY RateAssumption
  <2>4. ~Fits(Ready, b)
    BY <2>1, <2>2, <2>3, PacketIs
  <2>5. Ready.tokens \in 0 .. Burst(limit) /\ Ready.tokens < Burst(limit)
    BY <2>1, <2>3, <2>4, ReadyIs DEF Fits, Burst
  <2>6. PICK left \in Nat : bucket'.tokens = left /\ left = Ready.tokens
    BY <2>1, <2>4, <2>5, PacketIs DEF Burst
  <2>7. BucketInv' /\ HasBucket' /\ limit' = limit /\ last' = now /\ changed' = changed
    BY PacketOK, PacketIs DEF Packet
  <2>8. bucket'.tokens >= limit * Least(2, now - t)
    BY <2>1, <2>2, <2>7 DEF BucketInv, Owed
  <2>9. Least(2, now - t) = 2
    BY <2>1 DEF Least
  <2> QED BY <2>1, <2>5, <2>6, <2>8, <2>9 DEF Burst
<1> QED BY <1>1, BucketAlways, PTL DEF Spec, Generous
=============================================================================
