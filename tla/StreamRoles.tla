---------------------------- MODULE StreamRoles ----------------------------
(***************************************************************************)
(* How many data streams a p2 test needs and which end of each one sends:  *)
(* PerfTest::new (perf_test.rs) and the head of                            *)
(* create_and_register_stream_worker (controller.rs).  Both ends compute   *)
(* these from the TestParameters the client sent, and nothing on the wire  *)
(* tells one end what the other computed.                                  *)
(***************************************************************************)
EXTENDS Integers

Ends == {"Client", "Server"}

Peer(e) == IF e = "Client" THEN "Server" ELSE "Client"

Directions == {"ClientToServer", "ServerToClient", "Bidirectional"}

\* The counts are u16, and so is their sum.
U16 == 65536

\* The fields of TestParameters that shape the test.
TestParameters == [direction : Directions, parallel : 0 .. U16 - 1]

ClientSends(par) == IF par.direction = "ServerToClient" THEN 0 ELSE par.parallel

ClientReceives(par) == IF par.direction = "ClientToServer" THEN 0 ELSE par.parallel

\* PerfTest::new computes the client's counts; the server swaps them.
NumSend(par, e) == IF e = "Client" THEN ClientSends(par) ELSE ClientReceives(par)

NumReceive(par, e) == NumSend(par, Peer(e))

\* What the user asked for, and what total_needed_streams holds: the sum is
\* taken in u16 before the cast, so a release build wraps.
Requested(par) == ClientSends(par) + ClientReceives(par)

Needed(par) == (NumSend(par, "Client") + NumReceive(par, "Client")) % U16

\* A faulty variant: the server forgets to flip a bidirectional test.
NoFlip(par, e, id) == id < NumSend(par, e)

\* The first num_send streams send, flipped on the server of a bidirectional
\* test because the client connects its own sending streams first.
IsSending(par, e, id) ==
  IF e = "Server" /\ par.direction = "Bidirectional"
  THEN ~ (id < NumSend(par, e))
  ELSE id < NumSend(par, e)

============================================================================
