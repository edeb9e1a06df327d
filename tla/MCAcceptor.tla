----------------------------- MODULE MCAcceptor -----------------------------
(***************************************************************************)
(* A few clients for TLC.                                                  *)
(***************************************************************************)
EXTENDS AcceptorInvariant, TLC

CONSTANTS a, b, c3

Two == {a, b}
Three == {a, b, c3}
None == {}
OnlyA == {a}
OnlyB == {b}

============================================================================
