----------------------------- MODULE ByteStream -----------------------------
(***************************************************************************)
(* What the two ends of a stream of data promise each other about its      *)
(* bytes: nothing is counted that was not sent, and no byte twice; nothing *)
(* is sent once the sender has closed, or counted once the receiver has    *)
(* ended; and a receiver ends only when it has counted everything and the  *)
(* sender has closed, or when the sender is lost.                          *)
(***************************************************************************)
EXTENDS Integers

VARIABLES sent, counted,  \* bytes
          from,           \* what has become of the sender
          to              \* and of the receiver

streamVars == <<sent, counted, from, to>>

Opens == from = "wait" /\ from' = "open" /\ UNCHANGED <<sent, counted, to>>

Sends == from = "open" /\ sent' > sent /\ UNCHANGED <<counted, from, to>>

Closes == from \in {"wait", "open"} /\ from' = "closed" /\ UNCHANGED <<sent, counted, to>>

IsLost == from' = "lost" /\ UNCHANGED <<sent, counted, to>>

\* Data may be there already.
Listens ==
  /\ to = "wait" /\ to' = "open"
  /\ counted' \in counted .. sent
  /\ UNCHANGED <<sent, from>>

Counts ==
  /\ to = "open"
  /\ counted' \in counted .. sent
  /\ UNCHANGED <<sent, from, to>>

Ends ==
  /\ to = "open" /\ to' = "ended"
  /\ (from = "closed" /\ counted = sent) \/ from = "lost"
  /\ UNCHANGED <<sent, counted, from>>

Leaves == to' = "away" /\ UNCHANGED <<sent, counted, from>>

StreamInit == sent = 0 /\ counted = 0 /\ from = "wait" /\ to = "wait"

StreamNext ==
  Opens \/ Sends \/ Closes \/ IsLost \/ Listens \/ Counts \/ Ends \/ Leaves

StreamSpec == StreamInit /\ [][StreamNext]_streamVars

=============================================================================
