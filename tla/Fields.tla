------------------------------- MODULE Fields -------------------------------
(***************************************************************************)
(* The numbers in the fields of the window (flowbrake-core, lib.rs): how a *)
(* limit and a loss are shown, and how what stands in a field is read.  A  *)
(* field is read whenever it loses the focus, whether somebody typed in it *)
(* or not.                                                                 *)
(*                                                                         *)
(* The text of a limit is its value in thousandths, that of a loss its     *)
(* parts around the point.  Floating point is exact enough to be left out: *)
(* what is rounded is never close to a half.                               *)
(***************************************************************************)
EXTENDS Integers, Sequences

CONSTANT MaxLimit       \* u32::MAX, in KiB/s

ASSUME FieldsAssumption == MaxLimit \in Nat

Unit == {"bits", "bytes"}   \* SpeedUnit: Kb/s, and KB/s of 1024 bytes
Invalid == -1
MaxLoss == 10000        \* hundredths of a percent

Rounded(n, d) == (2 * n + d) \div (2 * d)

\* format_limit_kibps
LimitText(kibps, unit) ==
  1000 * (IF unit = "bits" THEN Rounded(8 * 1024 * kibps, 1000) ELSE kibps)

\* Mutant: cut, not rounded.
CutLimit(text, unit) == IF unit = "bits" THEN text \div (8 * 1024) ELSE text \div 1000
\* parse_limit_input
LimitOf(text, unit) ==
  LET kibps == IF unit = "bits" THEN Rounded(text, 8 * 1024) ELSE text \div 1000
  IN  IF kibps > MaxLimit \/ (unit = "bytes" /\ text % 1000 # 0) THEN Invalid ELSE kibps

\* format_loss_percent, of hundredths of a percent
LossText(points) ==
  LET tenths == (points % 100) \div 10
      hundredths == points % 10
  IN  [whole |-> points \div 100, point |-> points % 100 # 0,
       fraction |-> IF points % 100 = 0 THEN <<>>
                    ELSE IF hundredths = 0 THEN <<tenths>> ELSE <<tenths, hundredths>>]

\* parse_loss_percent
LossOf(text) ==
  LET digits == text.fraction
      points == 100 * text.whole +
                  (IF digits = <<>> THEN 0
                   ELSE 10 * digits[1] + (IF Len(digits) = 2 THEN digits[2] ELSE 0))
  IN  IF Len(digits) > 2 \/ (text.point /\ digits = <<>>) \/ points > MaxLoss
        THEN Invalid ELSE points

\* What a field shows reads as what it was made from.
LimitsReadBack == \A unit \in Unit, k \in 0 .. MaxLimit : LimitOf(LimitText(k, unit), unit) = k
LossesReadBack == \A points \in 0 .. MaxLoss : LossOf(LossText(points)) = points
=============================================================================
