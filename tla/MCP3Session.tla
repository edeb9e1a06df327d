---------------------------- MODULE MCP3Session ----------------------------
(***************************************************************************)
(* Two clients that start against one server, for TLC: one with two data   *)
(* connections, and one with none, whose control connection can be taken   *)
(* for a data connection of the other.                                     *)
(***************************************************************************)
EXTENDS P3Report

Two == {"a", "b"}
OnlyA == {"a"}
AnyOfA == [a |-> {"forward", "reverse", "bidir"}, b |-> {"forward"}]
TwoAndNone == [a |-> 2, b |-> 0]

============================================================================
