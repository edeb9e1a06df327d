----------------------------- MODULE MCSession -----------------------------
(***************************************************************************)
(* Small tests for TLC.                                                    *)
(***************************************************************************)
EXTENDS SessionInvariant

Forward3 == [direction |-> "ClientToServer", parallel |-> 3]
Reverse == [direction |-> "ServerToClient", parallel |-> 2]
Both == [direction |-> "Bidirectional", parallel |-> 1]
Single == [direction |-> "ClientToServer", parallel |-> 1]

\* Twice this many streams are none at all in u16.
HalfU16 == [direction |-> "Bidirectional", parallel |-> 32768]

============================================================================
