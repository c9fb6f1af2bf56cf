---------------------------- MODULE TokenBucket -----------------------------
(***************************************************************************)
(* A speed limit on one direction of a process, or of the system: the      *)
(* token bucket that the receive thread keeps for it (engine.rs,           *)
(* should_drop_global and should_drop_process), while the UI changes the   *)
(* limit at any time.  The bucket is made when the first packet is         *)
(* limited, refilled when the next one comes, and told of a new rate then. *)
(***************************************************************************)
EXTENDS Rates

CONSTANTS
  Rate,       \* the limits that may be set, bytes per tick
  Size,       \* the payloads of packets
  Horizon     \* bound of the clock

ASSUME RateAssumption == Rate \subseteq Nat \ {0} /\ Size \subseteq Nat \ {0}
ASSUME HorizonAssumption == Horizon \in Nat

VARIABLES
  limit,      \* effective_bps of the rule, or None
  bucket,     \* the bucket, or NoBucket
  last,       \* when the bucket was last used
  now,        \* the clock
  (* History: of every instant, the bytes that passed the limit since it, and the highest
     rate used since; when the limit was last changed. *)
  since, peak, changed

vars == <<limit, bucket, last, now, since, peak, changed>>

None == -1
NoBucket == [tokens |-> 0, rate |-> None]
Instant == 0 .. Horizon

Init ==
  /\ limit = None /\ bucket = NoBucket /\ last = 0 /\ now = 0
  /\ since = [t \in Instant |-> 0] /\ peak = [t \in Instant |-> 0] /\ changed = 0

SetLimit(rate) ==
  /\ limit' = rate
  /\ changed' = now
  /\ UNCHANGED <<bucket, last, now, since, peak>>

\* consume_bucket: the bucket as it is when the packet is weighed.
Ready ==
  LET held == IF bucket = NoBucket THEN NewBucket(limit) ELSE bucket
      elapsed == IF bucket = NoBucket THEN 0 ELSE now - last
  IN  Refill(SetRate(held, limit), elapsed)

\* consume_existing_bucket, for a packet with b bytes of payload under a limit
Packet(b) ==
  /\ limit # None
  /\ bucket' = Spend(Ready, b)
  /\ last' = now
  /\ since' = [t \in Instant |-> IF t <= now /\ Fits(Ready, b) THEN since[t] + b ELSE since[t]]
  /\ peak' = [t \in Instant |-> IF t <= now THEN Most(peak[t], limit) ELSE 0]
  /\ UNCHANGED <<limit, now, changed>>

Tick == now < Horizon /\ now' = now + 1 /\ UNCHANGED <<limit, bucket, last, since, peak, changed>>

Next ==
  \/ \E rate \in Rate \cup {None} : SetLimit(rate)
  \/ \E b \in Size : Packet(b)
  \/ Tick

Spec == Init /\ [][Next]_vars

-----------------------------------------------------------------------------
(* Properties. *)

TypeOK ==
  /\ limit \in Rate \cup {None}
  /\ bucket = NoBucket \/ (bucket.rate \in Rate /\ bucket.tokens \in 0 .. Burst(bucket.rate))
  /\ now \in Instant /\ last \in 0 .. now /\ changed \in 0 .. now
  /\ since \in [Instant -> Nat] /\ peak \in [Instant -> Rate \cup {0}]

(***************************************************************************)
(* From any instant on, no more bytes pass a limit than the burst and the  *)
(* time allow at the highest rate used since: lowering a limit takes what  *)
(* was saved under the old one away, raising it or lifting it for a while  *)
(* yields no more than the new burst.                                      *)
(***************************************************************************)
WithinRate == \A t \in 0 .. now : since[t] <= Burst(peak[t]) + peak[t] * (now - t)

(***************************************************************************)
(* A limit is never stricter than it says: a packet that fits the burst is *)
(* dropped only if something has passed in the last two ticks, or the      *)
(* limit has just been changed.                                            *)
(***************************************************************************)
Generous ==
  [][\A b \in Size :
       Packet(b) /\ since' = since /\ b <= Burst(limit) /\ changed + 2 <= now
         => since[now - 2] > 0]_vars
=============================================================================
