------------------------- MODULE AcceptorInvariant -------------------------
(***************************************************************************)
(* The inductive invariant behind the safety properties of Acceptor.  What *)
(* is said of connections and counts holds until the server goes down,     *)
(* which may happen in the middle of anything.                             *)
(***************************************************************************)
EXTENDS Acceptor

\* What becomes of a connection the server has not answered.
Unanswered(c) == client[c] \in Waiting \/ Ended(c)

\* A client has one unanswered connection at most, and nothing but a Hello has
\* been sent on it.
Distinct(s) == \A j, k \in 1 .. Len(s) : j # k => s[j] # s[k]

InBacklog(c) == \E k \in 1 .. Len(backlog) : backlog[k] = c

BacklogSane ==
  /\ Distinct(backlog)
  /\ \A c \in Clients : InBacklog(c) => Unanswered(c) /\ said[c] # "parameters"

\* The connection being served has left the backlog, and the parameters that
\* start a test are those of a client that has had none.
InboundSane ==
  /\ at \in {"cookie", "hello", "params"} =>
       inbound \in Clients /\ ~ InBacklog(inbound)
  /\ at \in {"cookie", "hello"} => Unanswered(inbound) /\ said[inbound] # "parameters"
  /\ at = "hello" => client[inbound] # "data"
  /\ at = "params" =>
       /\ client[inbound] \in {"welcomed", "test"} \/ Ended(inbound)
       /\ said[inbound] = "parameters" \/ ~ Ended(inbound) => test[inbound] = "none"

\* A test in flight is the latest, and there is none while one is negotiated.
LatestOnly ==
  /\ \A c \in Clients : Running(c) => c = latest
  /\ at \in {"hello", "params"} => \A c \in Clients : ~ Running(c)
  /\ at = "down" => \A c \in Clients : ~ Running(c)

\* How far a client has come, against how far its test has.
Abreast(c) ==
  /\ client[c] \in {"idle", "control", "welcomed"} => test[c] = "none"
  /\ client[c] \in Waiting \cup {"welcomed"} => said[c] # "parameters"
  /\ test[c] = "none" => ctl[c] = "top"
  /\ test[c] = "TestStart" => ctl[c] \in {"top", "toCreate"}
  /\ test[c] \in {"CreateStreams", "Running"} => ctl[c] # "toCreate"
  /\ test[c] = "over" /\ ctl[c] = "toCreate" => Ended(c)
  /\ test[c] \in {"none", "TestStart"} /\ ctl[c] = "top" => client[c] # "data"

\* The welcomed streams of a client are on the server, all of them once the
\* test is running, and while it dials one is missing.
Counted(c) ==
  /\ client[c] = "data" => opened[c] < Streams
  /\ ~ Ended(c) => opened[c] = Len(queue[c]) + Len(streams[c])
  /\ test[c] = "Running" \/ ctl[c] = "toRun" => Len(streams[c]) >= Streams
  /\ test[c] = "over" => Ended(c) \/ opened[c] = Streams

Sane ==
  /\ BacklogSane
  /\ InboundSane
  /\ \A c \in Clients : Abreast(c) /\ Counted(c)

AccInv ==
  /\ TypeOK
  /\ LatestOnly
  /\ StreamsAreOwn
  /\ NeverRefused
  /\ at # "down" => Sane

============================================================================
