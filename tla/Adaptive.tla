------------------------------ MODULE Adaptive ------------------------------
(***************************************************************************)
(* Adaptive limiting of one direction of a process (flowbrake-ui, main.rs, *)
(* with the engine's bucket).  Once a second the UI takes the bytes that   *)
(* passed, averages the last samples and sets the rate of the bucket.  The *)
(* process, while busy, sends a batch of packets every second, of which as *)
(* many pass as the bucket has tokens for.                                 *)
(*                                                                         *)
(* The user edits the rule through its row in the table.  A row is a copy, *)
(* made anew after an edit and when the list of processes changes, so an   *)
(* edit puts the adjusted rate of the row back into the rule.              *)
(***************************************************************************)
EXTENDS Rates

CONSTANTS
  Target,     \* the limits that may be set
  Size,       \* the payload of a packet
  Batch,      \* packets that the process sends in a second
  Quiet,      \* the average below which the rate is left alone
  Window,     \* the number of samples that are averaged
  Edits       \* bound: edits of the rule and changes of the process

ASSUME AdaptiveAssumption ==
  /\ Target \subseteq Nat \ {0} /\ {Size, Batch, Quiet, Window} \subseteq Nat \ {0} /\ Edits \in Nat

VARIABLES
  target,     \* target_bps of the rule, or 0
  adaptive,   \* the box
  adjusted,   \* adjusted_dl_bps of the rule
  shown,      \* adjusted_dl_bps of the row
  bucket, idle,   \* the bucket, and the seconds since it was used, 2 for more
  samples, passed,    \* dl_history, and the bytes passed since the last tick
  sent,       \* whether the batch of this second has been sent
  busy,       \* whether the process sends
  edits

rule == <<target, adaptive, adjusted, shown>>
traffic == <<bucket, idle, samples, passed, sent>>
vars == <<rule, traffic, busy, edits>>

NoBucket == [tokens |-> 0, rate |-> 0]

Init ==
  /\ target = 0 /\ adaptive = FALSE /\ adjusted = 0 /\ shown = 0
  /\ bucket = NoBucket /\ idle = 0 /\ samples = <<>> /\ passed = 0 /\ sent = FALSE
  /\ busy = TRUE /\ edits = 0

Limited == target > 0

\* effective_bps, under a limit
EffectiveRate == IF adaptive /\ adjusted > 0 THEN adjusted ELSE target

\* consume_existing_bucket: the bucket as a batch finds it.
Ready ==
  IF bucket = NoBucket THEN NewBucket(EffectiveRate)
  ELSE Refill(SetRate(bucket, EffectiveRate), idle)

\* The packets of a batch that pass.
Passing == IF Limited THEN Least(Batch, Ready.tokens \div Size) ELSE Batch

Traffic ==
  /\ busy /\ ~sent
  /\ sent' = TRUE
  /\ passed' = passed + Passing * Size
  /\ IF Limited THEN bucket' = Spend(Ready, Passing * Size) /\ idle' = 0
                ELSE UNCHANGED <<bucket, idle>>
  /\ UNCHANGED <<rule, samples, busy, edits>>

\* run_adaptive_feedback, with the samples of this tick
Adjusted(history) ==
  IF adaptive /\ Limited THEN AdaptiveRate(adjusted, Average(history), target, Quiet) ELSE adjusted

Tick ==
  /\ sent \/ ~busy
  /\ sent' = FALSE
  /\ samples' = Pushed(samples, passed, Window)
  /\ passed' = 0
  /\ adjusted' = Adjusted(samples')
  /\ idle' = Least(2, idle + 1)
  /\ UNCHANGED <<target, adaptive, shown, bucket, busy, edits>>

Edit == edits < Edits /\ edits' = edits + 1 /\ UNCHANGED traffic

\* edit_bool("limit_dl", _), edit_row_limit, and render_rows
SetTarget(t) ==
  /\ Edit
  /\ target' = t /\ adjusted' = shown
  /\ UNCHANGED <<adaptive, shown, busy>>

\* edit_bool("adaptive", _), and render_rows
SetAdaptive(on) ==
  /\ Edit
  /\ adaptive' = on
  /\ adjusted' = IF on THEN shown ELSE 0
  /\ shown' = adjusted'
  /\ UNCHANGED <<target, busy>>

\* rebuild_rows, when the list of processes has changed
Refresh == Edit /\ shown' = adjusted /\ UNCHANGED <<target, adaptive, adjusted, busy>>

\* The process starts or stops sending.
Turn == Edit /\ busy' = ~busy /\ UNCHANGED rule

Next ==
  \/ Traffic
  \/ Tick
  \/ \E t \in Target \cup {0} : SetTarget(t)
  \/ \E on \in BOOLEAN : SetAdaptive(on)
  \/ Refresh
  \/ Turn

(***************************************************************************)
(* The timer of the UI fires and a busy process sends; nothing is assumed  *)
(* of the user.                                                            *)
(***************************************************************************)
Spec == Init /\ [][Next]_vars /\ WF_vars(Traffic) /\ WF_vars(Tick)

-----------------------------------------------------------------------------
(* Properties. *)

(***************************************************************************)
(* An adjusted rate stays between the floor of some limit and some limit.  *)
(***************************************************************************)
TypeOK ==
  /\ target \in Target \cup {0} /\ adaptive \in BOOLEAN /\ busy \in BOOLEAN /\ sent \in BOOLEAN
  /\ {adjusted, shown} \subseteq {0} \cup UNION {Floor(t) .. t : t \in Target}
  /\ bucket.tokens \in 0 .. Burst(bucket.rate)
  /\ Len(samples) <= Window /\ passed \in 0 .. Batch * Size

(***************************************************************************)
(* Whatever was edited, a busy process is in the end held to the limit     *)
(* that is displayed: the rate in force settles at or below the target.    *)
(***************************************************************************)
SettlesBelow == <>[](busy /\ Limited => EffectiveRate <= target)

(***************************************************************************)
(* A limit slows a process down and does not cut it off: time and again    *)
(* some of its packets pass.                                               *)
(***************************************************************************)
KeepsPassing == []<>(busy => passed > 0)
=============================================================================
