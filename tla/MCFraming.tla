----------------------------- MODULE MCFraming -----------------------------
(***************************************************************************)
(* Three kinds of message for TLC: short, as long as may be, and too long. *)
(***************************************************************************)
EXTENDS Framing

Kinds == {"short", "full", "over"}
Lengths3 == [short |-> 1, full |-> 2, over |-> 3]

============================================================================
