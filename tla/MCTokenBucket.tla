--------------------------- MODULE MCTokenBucket ----------------------------
(* A small instance of TokenBucket: a low and a high limit, and packets    *)
(* that fit the burst of both, and of the high one only.                   *)
EXTENDS TokenBucket
MCRate == {1, 3}
MCSize == {1, 4}
=============================================================================
