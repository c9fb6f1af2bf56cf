----------------------------- MODULE MCAdaptive -----------------------------
(* Instances of Adaptive, in units of 100 bytes: packets of 1500 bytes,    *)
(* of which a process sends 1 MB in a second, and limits of 20 and of      *)
(* 40 KiB/s, or of 10 KiB/s.                                               *)
EXTENDS Adaptive
MCTarget == {205, 410}
MCLowTarget == {102}
=============================================================================
