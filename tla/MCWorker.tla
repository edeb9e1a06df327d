------------------------------ MODULE MCWorker ------------------------------
(***************************************************************************)
(* One short stream for TLC.                                               *)
(***************************************************************************)
EXTENDS Worker

=============================================================================
