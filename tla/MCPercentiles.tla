--------------------------- MODULE MCPercentiles ---------------------------
(***************************************************************************)
(* Two values and many samples for TLC: whether a value is a percentile    *)
(* depends only on which samples are at most that value.                   *)
(***************************************************************************)
EXTENDS Percentiles

TwoValues == {3, 7}

============================================================================
