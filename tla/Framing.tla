------------------------------ MODULE Framing ------------------------------
(***************************************************************************)
(* One direction of a p2 control connection, byte by byte:                 *)
(* send_control_message at one end, read_control_message (net_utils.rs) at *)
(* the other.  A frame is a length of Prefix bytes and that many bytes of  *)
(* JSON; TCP delivers it in any number of parts.  Modules Session and      *)
(* Acceptor take whole frames.                                             *)
(*                                                                         *)
(* A byte is known by its frame's message and its place in the frame.      *)
(***************************************************************************)
EXTENDS Integers, Sequences

CONSTANTS
  Messages,
  Size,        \* the length of a message's JSON
  Prefix,      \* MESSAGE_LENGTH_SIZE_BYTES (consts.rs), 4 in the code
  MaxMessage,  \* MAX_CONTROL_MESSAGE (consts.rs), 20 MB in the code
  Capacity,    \* bytes the sockets hold
  MaxSent      \* bound: the messages sent

ASSUME FramingAssumption ==
  /\ Size \in [Messages -> Nat \ {0}]
  /\ Prefix \in Nat \ {0} /\ MaxMessage \in Nat /\ Capacity \in Nat \ {0}
  /\ MaxSent \in Nat

Bytes == [msg : Messages, at : Nat \ {0}]

VARIABLES
  sent,       \* the messages whose frames were begun
  writing,    \* what write_all has still to write
  wire,       \* bytes written and not read
  closed,     \* has the writer closed the connection?
  phase,      \* what the reader reads: the length or the rest; or it failed
  size,       \* message_size
  got,        \* the bytes of this frame it has consumed
  delivered,  \* the messages it returned
  torn        \* was a read given up that had consumed part of a frame?

writer == <<sent, writing, closed>>
reader == <<phase, size, got, delivered, torn>>
vars == <<writer, wire, reader>>

TypeOK ==
  /\ sent \in Seq(Messages) /\ delivered \in Seq(Messages)
  /\ writing \in Seq(Bytes) /\ wire \in Seq(Bytes) /\ got \in Seq(Bytes)
  /\ Len(wire) <= Capacity
  /\ closed \in BOOLEAN /\ torn \in BOOLEAN
  /\ phase \in {"length", "body", "failed"}
  /\ size \in 0 .. MaxMessage

Init ==
  /\ sent = <<>> /\ writing = <<>> /\ closed = FALSE
  /\ wire = <<>>
  /\ phase = "length" /\ size = 0 /\ got = <<>> /\ delivered = <<>> /\ torn = FALSE

----------------------------------------------------------------------------
(* The writer.                                                             *)

Frame(m) == [k \in 1 .. Prefix + Size[m] |-> [msg |-> m, at |-> k]]

Send(m) ==
  /\ ~ closed /\ writing = <<>> /\ Len(sent) < MaxSent
  /\ sent' = Append(sent, m)
  /\ writing' = Frame(m)
  /\ UNCHANGED <<closed, wire, reader>>

Front(s, n) == SubSeq(s, 1, n)
Rest(s, n) == SubSeq(s, n + 1, Len(s))
Least(m, n) == IF m < n THEN m ELSE n

\* write_all writes what there is room for, until all is written.
Write ==
  /\ ~ closed
  /\ \E n \in 1 .. Least(Len(writing), Capacity - Len(wire)) :
       /\ wire' = wire \o Front(writing, n)
       /\ writing' = Rest(writing, n)
  /\ UNCHANGED <<sent, closed, reader>>

\* The writer's end is closed, perhaps in the middle of a frame.
Close ==
  /\ ~ closed
  /\ closed' = TRUE
  /\ UNCHANGED <<sent, writing, wire, reader>>

----------------------------------------------------------------------------
(* The reader.                                                             *)

Fails == phase' = "failed" /\ UNCHANGED <<writer, wire, size, got, delivered, torn>>

\* What the length says: the size of the frame it begins, or, if it is not the
\* beginning of a frame, anything.  Nothing is told apart above MaxMessage.
Lengths(prefix) ==
  LET m == prefix[1].msg
  IN IF prefix = Front(Frame(m), Prefix) THEN {Size[m]} ELSE 0 .. MaxMessage + 1

\* A faulty variant: no limit.
Unlimited(n) == TRUE

Within(n) == n <= MaxMessage

\* read_u32 collects Prefix bytes, then the limit is applied.
ReadLength ==
  /\ phase = "length"
  /\ \E n \in 1 .. Least(Prefix - Len(got), Len(wire)) :
       /\ wire' = Rest(wire, n)
       /\ got' = got \o Front(wire, n)
       /\ IF Len(got) + n < Prefix
          THEN UNCHANGED <<phase, size>>
          ELSE \E len \in Lengths(got') :
                 IF Within(len)
                 THEN phase' = "body" /\ size' = len
                 ELSE phase' = "failed" /\ UNCHANGED size
  /\ UNCHANGED <<writer, delivered, torn>>

\* A faulty variant: a read takes whatever is there.
TakeAll == Len(wire)

Remaining == Prefix + size - Len(got)

\* take(remaining_bytes): never more than the rest of this frame.
MayTake == Least(Remaining, Len(wire))

ReadBody ==
  /\ phase = "body"
  /\ \E n \in 1 .. MayTake :
       /\ wire' = Rest(wire, n)
       /\ got' = got \o Front(wire, n)
  /\ UNCHANGED <<writer, phase, size, delivered, torn>>

Complete == Remaining <= 0

\* A faulty variant: the buffer is not cleared for the next message.
ParseAndKeep ==
  /\ phase = "body"
  /\ Complete
  /\ \E m \in Messages : got = Frame(m) /\ delivered' = Append(delivered, m)
  /\ UNCHANGED <<writer, wire, phase, size, got, torn>>

\* The bytes are a message if they are the bytes of one frame, and otherwise
\* no JSON that serde accepts.
Parse ==
  /\ phase = "body"
  /\ Complete
  /\ \/ \E m \in Messages :
          /\ got = Frame(m)
          /\ delivered' = Append(delivered, m)
          /\ phase' = "length" /\ got' = <<>>
          /\ UNCHANGED <<writer, wire, size, torn>>
     \/ (\A m \in Messages : got # Frame(m)) /\ Fails

\* A faulty variant: only the length notices the end.
EndBetweenFrames == closed /\ wire = <<>> /\ phase = "length" /\ Fails

\* The end of the connection, between two frames or inside one.
EndOfStream ==
  /\ closed /\ wire = <<>>
  /\ (phase = "length") \/ (phase = "body" /\ ~ Complete)
  /\ Fails

\* The client's select! drops the read for the sake of another branch.  A read
\* that has all it wants is no longer suspended.
DropRead ==
  /\ phase # "failed" /\ got # <<>>
  /\ phase = "body" => ~ Complete
  /\ got' = <<>> /\ phase' = "length" /\ torn' = TRUE
  /\ UNCHANGED <<writer, wire, size, delivered>>

\* A reader that has failed is not called again.
Quiet ==
  /\ phase = "failed"
  /\ UNCHANGED vars

----------------------------------------------------------------------------

Next ==
  \/ \E m \in Messages : Send(m)
  \/ Write \/ Close
  \/ ReadLength \/ ReadBody \/ Parse \/ EndOfStream \/ DropRead
  \/ Quiet

Spec == Init /\ [][Next]_vars

\* The write goes on while there is room, the read while there are bytes; no
\* read has to be dropped and nothing more has to be sent.
Fairness ==
  WF_vars(Write) /\ WF_vars(ReadLength \/ ReadBody \/ Parse \/ EndOfStream)

FairSpec == Spec /\ Fairness

----------------------------------------------------------------------------
(* Properties.                                                             *)

\* The messages come out whole and in order; a reader that was dropped may skip
\* some, if it is dropped again just where a frame ends, but makes none up.
Queue == INSTANCE MessageQueue
           WITH in <- sent, out <- delivered, broken <- torn, failed <- (phase = "failed")

ImplementsQueue == Queue!QueueSpec

\* net_utils.rs: "don't over read [..] The next read should find the LENGTH as
\* the first 4 bytes."  A reader that was never dropped keeps step with the
\* frames however they arrive: it fails only at a message over the limit, which
\* it always refuses, or when the connection was closed and every message
\* written whole has come out.
Whole == Len(sent) - (IF writing = <<>> THEN 0 ELSE 1)

OnlyOversizeRefused ==
  /\ \A k \in 1 .. Len(delivered) : Size[delivered[k]] <= MaxMessage
  /\ (phase = "failed" /\ ~ torn) =>
       \/ Len(delivered) < Len(sent) /\ Size[sent[Len(delivered) + 1]] > MaxMessage
       \/ closed /\ Len(delivered) = Whole

\* A message whose frame was begun is delivered, unless the reader fails.
Delivers ==
  \A k \in 1 .. MaxSent :
    (Len(sent) = k) ~> (Len(delivered) >= k \/ phase = "failed" \/ torn)

============================================================================
