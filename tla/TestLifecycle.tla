--------------------------- MODULE TestLifecycle ---------------------------
(***************************************************************************)
(* What one netperf test promises, seen from outside: the server walks the *)
(* states of control.rs one at a time, the client goes through the same    *)
(* states in the same order and never ahead of it, the server finishes     *)
(* only after the client has reached the exchange, and the client finishes *)
(* only after the server has.  Either end may fail at any time.            *)
(***************************************************************************)

Ends == {"Client", "Server"}

States == {"TestStart", "CreateStreams", "Running", "ExchangeResults"}

After(s) == CASE s = "TestStart"     -> "CreateStreams"
              [] s = "CreateStreams" -> "Running"
              [] OTHER               -> "ExchangeResults"

VARIABLES phase,   \* the server's state
          seen,    \* the state the client is in
          over     \* how each end's part ended, if it has

lifeVars == <<phase, seen, over>>

LifeInit == /\ phase = "TestStart"
            /\ seen = "TestStart"
            /\ over = [e \in Ends |-> "no"]

Advance == /\ over["Server"] = "no"
           /\ phase # "ExchangeResults"
           /\ phase' = After(phase)
           /\ UNCHANGED <<seen, over>>

Follow == /\ over["Client"] = "no"
          /\ seen # phase
          /\ seen' = After(seen)
          /\ UNCHANGED <<phase, over>>

ServerDone == /\ over["Server"] = "no"
              /\ phase = "ExchangeResults"
              /\ seen = "ExchangeResults"
              /\ over' = [over EXCEPT !["Server"] = "done"]
              /\ UNCHANGED <<phase, seen>>

ClientDone == /\ over["Client"] = "no"
              /\ over["Server"] = "done"
              /\ over' = [over EXCEPT !["Client"] = "done"]
              /\ UNCHANGED <<phase, seen>>

Fail(e) == /\ over[e] = "no"
           /\ over' = [over EXCEPT ![e] = "failed"]
           /\ UNCHANGED <<phase, seen>>

LifeNext == Advance \/ Follow \/ ServerDone \/ ClientDone \/ \E e \in Ends : Fail(e)

LifeSpec == LifeInit /\ [][LifeNext]_lifeVars

============================================================================
