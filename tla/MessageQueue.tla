---------------------------- MODULE MessageQueue ----------------------------
(***************************************************************************)
(* What one direction of a control connection promises: messages come out  *)
(* as they were put in, whole, in order and each once, until it fails.     *)
(* Once a reader has been interrupted inside a message the queue is broken *)
(* and may skip messages, but makes none up.                               *)
(***************************************************************************)
EXTENDS Sequences, Naturals

VARIABLES in,      \* the messages put in so far
          out,     \* those that have come out
          broken,
          failed

queueVars == <<in, out, broken, failed>>

QueueInit == in = <<>> /\ out = <<>> /\ broken = FALSE /\ failed = FALSE

\* in' names the only message this can have put in.
Put == /\ in' # <<>>
       /\ in' = Append(in, in'[Len(in')])
       /\ UNCHANGED <<out, broken, failed>>

Take == /\ ~ failed
        /\ \E k \in Len(out) + 1 .. Len(in) :
             /\ k = Len(out) + 1 \/ broken
             /\ out' = Append(out, in[k])
        /\ UNCHANGED <<in, broken, failed>>

Interrupt == broken' = TRUE /\ UNCHANGED <<in, out, failed>>

Fail == failed' = TRUE /\ UNCHANGED <<in, out, broken>>

QueueSpec == QueueInit /\ [][Put \/ Take \/ Interrupt \/ Fail]_queueVars

=============================================================================
