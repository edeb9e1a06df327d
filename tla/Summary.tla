------------------------------ MODULE Summary ------------------------------
(***************************************************************************)
(* The SUM lines of a report (print_summary of netperf-core), which either *)
(* build prints from the results of both ends of a test.                   *)
(***************************************************************************)
EXTENDS Integers, FiniteSetsExt

\* A faulty variant: the other end's results are added in every test.
ShowAll(local, remote, bidirectional) == DOMAIN local \cap DOMAIN remote

\* The streams of which the remote end's line is printed, and added: one that is
\* missing at either end is passed over.
Shown(local, remote, bidirectional) ==
  IF bidirectional THEN {} ELSE DOMAIN local \cap DOMAIN remote

Bytes(stats, ids, sender) ==
  MapThenSumSet(LAMBDA id : stats[id].bytes, {id \in ids : stats[id].sender = sender})

\* The two lines: what senders and what receivers report of their streams.
Sum(local, remote, bidirectional, sender) ==
  Bytes(local, DOMAIN local, sender) + Bytes(remote, Shown(local, remote, bidirectional), sender)

============================================================================
