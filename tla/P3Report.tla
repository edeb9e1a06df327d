------------------------------ MODULE P3Report ------------------------------
(***************************************************************************)
(* What a p3 client prints in the end: P3Session.tla, and the report made  *)
(* of the rows of both ends.                                               *)
(***************************************************************************)
EXTENDS P3Session, Summary

Sent(c) == Sum(LocalRows(c), remote[c], dir[c] = "bidir", TRUE)
Received(c) == Sum(LocalRows(c), remote[c], dir[c] = "bidir", FALSE)

Answered(c) == c = owner /\ Streams(c) \subseteq Accepted

\* The SUM lines of a client show what its streams carried, and count no byte
\* twice.  Only the client's own rows are added in a test in both directions.
\* In one direction, no more was received than sent; and no less, if the server
\* served every stream and both ends lived.
SumsAreTrue ==
  \A c \in Clients : cli[c] = "done" =>
    IF dir[c] = "bidir"
    THEN /\ Sent(c) = MapThenSumSet(LAMBDA k : up[k] - CookieLen, Streams(c))
         /\ Received(c) = MapThenSumSet(LAMBDA k : downRead[k], Streams(c))
    ELSE /\ Received(c) <= Sent(c)
         /\ Answered(c) => Received(c) = Sent(c)

=============================================================================
