------------------------------ MODULE Acceptor ------------------------------
(***************************************************************************)
(* The p2 server between and during tests: run_server and create_test      *)
(* (server.rs), with several clients (client.rs) that connect whenever     *)
(* they like, go quiet or die.  Of a test in flight only what the accept   *)
(* loop shares with it is kept: the state behind its mutex, the channel of *)
(* its controller, and the steps of run_controller that use either.  The   *)
(* rest of a test is module Session.                                       *)
(*                                                                         *)
(* A client's cookie is the client.  Everything the server does is one     *)
(* thread: a step lasts from one suspension point to the next.             *)
(***************************************************************************)
EXTENDS Integers, Sequences, FiniteSets

CONSTANTS Clients,     \* the client processes, one test each
          Nobody,      \* no client
          Streams,     \* how many data streams a test needs
          ProtBuffer,  \* INTERNAL_PROT_BUFFER (consts.rs), 5 in the code
          Silent,      \* clients that may never send a Hello
          Slow,        \* clients that may never send their parameters
          MayDie       \* clients that may be killed

ASSUME AcceptorAssumption ==
  /\ Nobody \notin Clients
  /\ Streams \in Nat \ {0}
  /\ ProtBuffer \in Nat \ {0}
  /\ Silent \subseteq Clients
  /\ Slow \subseteq Clients
  /\ MayDie \subseteq Clients

VARIABLES
  at,       \* where run_server is suspended
  inbound,  \* the client whose connection it is serving
  backlog,  \* connections it has not accepted, oldest first
  latest,   \* the test in_flight_test_state and controller_channel are about
  test,     \* the state of each client's test, on the server
  ctl,      \* where the controller of that test is suspended
  queue,    \* sockets in the channel of that controller
  streams,  \* sockets it has made into data streams
  client,   \* what each client process is doing
  said,     \* the last message the client sent on its newest connection
  opened    \* how many data streams the client has had welcomed

loop == <<at, inbound, backlog, latest>>
tests == <<test, ctl, queue, streams>>
clients == <<client, said, opened>>
vars == <<loop, tests, clients>>

InTest == {"TestStart", "CreateStreams", "Running"}

\* "control" and "data": connected, and waiting for a Welcome.
Waiting == {"control", "data"}

TypeOK ==
  /\ at \in {"accept", "cookie", "hello", "params", "down"}
  /\ inbound \in Clients \cup {Nobody}
  /\ backlog \in Seq(Clients)
  /\ latest \in Clients \cup {Nobody}
  /\ test \in [Clients -> InTest \cup {"none", "over"}]
  /\ ctl \in [Clients -> {"top", "recv", "toCreate", "toRun"}]
  /\ queue \in [Clients -> Seq(Clients)]
  /\ streams \in [Clients -> Seq(Clients)]
  /\ client \in [Clients -> Waiting \cup {"idle", "welcomed", "test", "denied", "refused", "gone"}]
  /\ said \in [Clients -> {"nothing", "hello", "parameters"}]
  /\ opened \in [Clients -> 0 .. Streams]

Init ==
  /\ at = "accept"
  /\ inbound = Nobody
  /\ backlog = <<>>
  /\ latest = Nobody
  /\ test = [c \in Clients |-> "none"]
  /\ ctl = [c \in Clients |-> "top"]
  /\ queue = [c \in Clients |-> <<>>]
  /\ streams = [c \in Clients |-> <<>>]
  /\ client = [c \in Clients |-> "idle"]
  /\ said = [c \in Clients |-> "nothing"]
  /\ opened = [c \in Clients |-> 0]

----------------------------------------------------------------------------
(* Clients.                                                                *)

Ended(c) == client[c] \in {"denied", "refused", "gone"}

Open(c, kind) ==
  /\ client' = [client EXCEPT ![c] = kind]
  /\ said' = [said EXCEPT ![c] = "nothing"]
  /\ backlog' = Append(backlog, c)
  /\ UNCHANGED <<at, inbound, latest, tests, opened>>

\* run_client opens the control connection.
Connect(c) ==
  /\ client[c] = "idle"
  /\ at # "down"
  /\ Open(c, "control")

\* A faulty variant: one stream too many.
OneMoreNeeded(c) == opened[c] <= Streams

MoreNeeded(c) == opened[c] < Streams

\* connect_data_stream, once the frame SetState(CreateStreams) has been sent.
Dial(c) ==
  /\ client[c] = "test"
  /\ ctl[c] = "toCreate" \/ test[c] \notin {"none", "TestStart"}
  /\ MoreNeeded(c)
  /\ at # "down"
  /\ Open(c, "data")

Hello(c) ==
  /\ client[c] \in Waiting
  /\ said[c] = "nothing"
  /\ said' = [said EXCEPT ![c] = "hello"]
  /\ UNCHANGED <<loop, tests, client, opened>>

SendParameters(c) ==
  /\ client[c] = "welcomed"
  /\ client' = [client EXCEPT ![c] = "test"]
  /\ said' = [said EXCEPT ![c] = "parameters"]
  /\ UNCHANGED <<loop, tests, opened>>

\* The client is done with its test, or finds the server closed, or is killed.
\* Its connections stay where they are, with what it sent on them.
Leave(c) ==
  /\ ~ Ended(c)
  /\ c \in MayDie \/ test[c] = "over" \/ at = "down"
  /\ client' = [client EXCEPT ![c] = "gone"]
  /\ UNCHANGED <<loop, tests, said, opened>>

----------------------------------------------------------------------------
(* The accept loop.                                                        *)

\* The server writes a Welcome, which a client that has ended never reads.
Welcome(c) ==
  /\ client' = IF Ended(c) THEN client
               ELSE [client EXCEPT ![c] = IF @ = "data" THEN "test" ELSE "welcomed"]
  /\ opened' = IF client[c] = "data" THEN [opened EXCEPT ![c] = @ + 1] ELSE opened

\* AccessDenied, which ends the client.
Deny(c) ==
  client' = CASE client[c] = "control" -> [client EXCEPT ![c] = "denied"]
              [] client[c] = "data"    -> [client EXCEPT ![c] = "refused"]
              [] OTHER                 -> client

Running(c) == test[c] \in InTest

\* A faulty variant: a test that has yet to leave TestStart is overlooked.
InFlightOnceStarted == latest # Nobody /\ test[latest] \in {"CreateStreams", "Running"}

\* Does the Weak reference upgrade?  The controller holds the only other one.
InFlight == latest # Nobody /\ Running(latest)

\* set_state has written its frame and has, or is next to get, the mutex.
Setting(c) == ctl[c] \in {"toCreate", "toRun"}

\* A faulty variant: the loop looks at the state without the mutex.
NoMutex == TRUE

MutexFree == InFlight => ~ Setting(latest)

\* A faulty variant: a cookie is read whatever the test is doing.
AnyTestWantsStreams == TRUE

WantsStreams == test[latest] = "CreateStreams"

\* The loop takes the next connection and looks at the test in flight.
Accept ==
  /\ at = "accept"
  /\ backlog # <<>>
  /\ MutexFree
  /\ LET c == Head(backlog)
     IN /\ backlog' = Tail(backlog)
        /\ IF InFlight /\ ~ WantsStreams
           THEN Deny(c) /\ UNCHANGED <<at, inbound>>
           ELSE /\ at' = IF InFlight THEN "cookie" ELSE "hello"
                /\ inbound' = c
                /\ UNCHANGED client
  /\ UNCHANGED <<latest, tests, said, opened>>

\* run_server returns, and the process ends with every test in it.
Down ==
  /\ at' = "down"
  /\ inbound' = Nobody
  /\ test' = [c \in Clients |-> IF Running(c) THEN "over" ELSE test[c]]
  /\ UNCHANGED <<backlog, latest, ctl, queue, streams, said>>

\* accept() fails: the next connection was aborted before it was taken, on a
\* platform that reports this.  `while let Ok` leaves the loop.
AcceptFails ==
  /\ at = "accept"
  /\ backlog # <<>>
  /\ Ended(Head(backlog))
  /\ Down
  /\ UNCHANGED <<client, opened>>

Back == at' = "accept" /\ inbound' = Nobody

\* A faulty variant: anybody's cookie will do.
AnyCookie == TRUE

CookieMatches == inbound = latest

\* The controller's channel takes no more; try_send does not wait.
Full == Len(queue[latest]) >= ProtBuffer

\* The cookie is right: Welcome, and the socket goes to the controller.
Admit ==
  /\ at = "cookie"
  /\ said[inbound] = "hello"
  /\ CookieMatches
  /\ InFlight
  /\ ~ Full
  /\ Welcome(inbound)
  /\ queue' = [queue EXCEPT ![latest] = Append(@, inbound)]
  /\ Back
  /\ UNCHANGED <<backlog, latest, test, ctl, streams, said>>

\* A faulty variant: the loop waits for another cookie on the same connection.
RejectAndRetry ==
  /\ at = "cookie"
  /\ said[inbound] = "hello"
  /\ ~ CookieMatches
  /\ said' = [said EXCEPT ![inbound] = "nothing"]
  /\ UNCHANGED <<loop, tests, client, opened>>

Reject ==
  /\ at = "cookie"
  /\ said[inbound] = "hello"
  /\ ~ CookieMatches
  /\ Deny(inbound)
  /\ Back
  /\ UNCHANGED <<backlog, latest, tests, said, opened>>

\* The connection ends before its Hello, or before the Welcome is written: the
\* `?` is run_server's own.
ServerFails ==
  /\ at = "cookie"
  /\ Ended(inbound)
  /\ said[inbound] = "nothing" \/ (said[inbound] = "hello" /\ CookieMatches)
  /\ Down
  /\ UNCHANGED <<client, opened>>

\* So it is when the Welcome is out and the controller has closed its channel or
\* has not kept up with it.
TrySendFails ==
  /\ at = "cookie"
  /\ said[inbound] = "hello"
  /\ CookieMatches
  /\ ~ InFlight \/ Full
  /\ Welcome(inbound)
  /\ Down

\* create_test: the Hello is in, and answered before the parameters are read.
Greet ==
  /\ at = "hello"
  /\ said[inbound] = "hello"
  /\ Welcome(inbound)
  /\ at' = "params"
  /\ UNCHANGED <<inbound, backlog, latest, tests, said>>

\* create_test returns a test, which is spawned.
CreateTest ==
  /\ at = "params"
  /\ said[inbound] = "parameters"
  /\ latest' = inbound
  /\ test' = [test EXCEPT ![inbound] = "TestStart"]
  /\ Back
  /\ UNCHANGED <<backlog, ctl, queue, streams, clients>>

\* A faulty variant: no timer runs while the parameters are awaited.
NoPatience == FALSE

\* PROTOCOL_TIMEOUT may pass at any time.
Patience == TRUE

\* create_test returns an error: the connection has ended, or has sent no
\* parameters in time.  It is closed, which is the end of the client.
GiveUp ==
  /\ \/ at = "hello" /\ Ended(inbound)
     \/ at = "params" /\ (Ended(inbound) \/ Patience)
  /\ client' = IF Ended(inbound) THEN client ELSE [client EXCEPT ![inbound] = "gone"]
  /\ Back
  /\ UNCHANGED <<backlog, latest, tests, said, opened>>

----------------------------------------------------------------------------
(* What run_controller does with the mutex and the channel.                *)

\* The loop holds the mutex while it awaits a cookie.
Unlocked(c) == at # "cookie" \/ c # latest

End(c) == test' = [test EXCEPT ![c] = "over"]

\* The head of the loop: a test that has just started announces CreateStreams.
Top(c) ==
  /\ Running(c)
  /\ ctl[c] = "top"
  /\ Unlocked(c)
  /\ ctl' = [ctl EXCEPT ![c] = IF test[c] = "TestStart" THEN "toCreate" ELSE "recv"]
  /\ UNCHANGED <<loop, test, queue, streams, clients>>

\* A frame cannot be written to a client that has gone: `?` ends the controller.
FrameFails(c) ==
  /\ Running(c)
  /\ Setting(c)
  /\ Ended(c)
  /\ End(c)
  /\ UNCHANGED <<loop, ctl, queue, streams, clients>>

\* The frame is out; the state follows when the mutex is free.
SetState(c) ==
  /\ Running(c)
  /\ Setting(c)
  /\ Unlocked(c)
  /\ test' = [test EXCEPT ![c] = IF ctl[c] = "toCreate" THEN "CreateStreams" ELSE "Running"]
  /\ ctl' = [ctl EXCEPT ![c] = "top"]
  /\ UNCHANGED <<loop, queue, streams, clients>>

\* accept_stream: when the last stream is there it announces Running.
AcceptStream(c) ==
  /\ Running(c)
  /\ ctl[c] = "recv"
  /\ queue[c] # <<>>
  /\ queue' = [queue EXCEPT ![c] = Tail(@)]
  /\ streams' = [streams EXCEPT ![c] = Append(@, Head(queue[c]))]
  /\ ctl' = [ctl EXCEPT ![c] = IF Len(streams[c]) + 1 = Streams THEN "toRun" ELSE "top"]
  /\ UNCHANGED <<loop, test, clients>>

\* A faulty variant: a controller may return before its streams are connected.
MayEndEarly(c) == test[c] \in {"CreateStreams", "Running"}

MayEnd(c) == test[c] = "Running"

\* run_controller returns; the reference and the channel go with it.
EndTest(c) ==
  /\ MayEnd(c)
  /\ ctl[c] = "recv"
  /\ End(c)
  /\ UNCHANGED <<loop, ctl, queue, streams, clients>>

----------------------------------------------------------------------------
Serve ==
  \/ Accept \/ Admit \/ Reject \/ ServerFails \/ TrySendFails
  \/ Greet \/ CreateTest \/ GiveUp

Controller(c) == Top(c) \/ FrameFails(c) \/ SetState(c) \/ AcceptStream(c)

Next ==
  \/ Serve
  \/ AcceptFails
  \/ \E c \in Clients :
       \/ Connect(c) \/ Dial(c) \/ Hello(c) \/ SendParameters(c) \/ Leave(c)
       \/ Controller(c) \/ EndTest(c)

Spec == Init /\ [][Next]_vars

\* The runtime polls the accept loop and every controller, and timers fire.  A
\* client need not connect, but one that talks goes on talking.  A test under
\* load need not end, and no accept() need fail.
Fairness ==
  /\ WF_vars(Serve)
  /\ \A c \in Clients : WF_vars(Controller(c)) /\ WF_vars(Dial(c))
  /\ \A c \in Clients \ Silent : WF_vars(Hello(c))
  /\ \A c \in Clients \ Slow : WF_vars(SendParameters(c))

FairSpec == Spec /\ Fairness

----------------------------------------------------------------------------
(* Properties.                                                             *)

\* server.rs: "we don't run tests concurrently".  The only guard is a weak
\* reference read long before the next test exists.
OneTestAtATime == \A c, d \in Clients : Running(c) /\ Running(d) => c = d

\* Only the client that started a test has data streams in it, although the
\* channel a socket is put into is looked up apart from the cookie.
StreamsAreOwn ==
  \A c \in Clients :
    /\ \A k \in 1 .. Len(queue[c]) : queue[c][k] = c
    /\ \A k \in 1 .. Len(streams[c]) : streams[c][k] = c

\* A data connection says the same Hello as a control connection, and a server
\* with no test in flight would take the one for the other.  It never happens
\* to a client that is still there.
DataNeverStartsTest == at \in {"hello", "params"} => client[inbound] # "data"

\* The client hears of CreateStreams before the server is in that state, yet
\* none of its data connections is turned away as belonging to another test.
NeverRefused == \A c \in Clients : client[c] # "refused"

\* server.rs: "Note that here we don't read anything from the socket".  Whatever
\* ends run_server, it is not one of the `?` in its loop that takes down a test
\* whose streams are all connected: only an accept() that fails can, and for that
\* a client must have gone while its connection waited.
OnlyAcceptEndsLoad ==
  [][at # "down" /\ at' = "down" /\ (\E c \in Clients : test[c] = "Running")
       => at = "accept" /\ \E k \in 1 .. Len(backlog) : Ended(backlog[k])]_vars

\* client.rs: "If the server is busy, this will return an Error of
\* AccessDenied and the client will terminate."  No client that says Hello
\* waits forever for a Welcome or a denial.
EveryoneAnswered ==
  \A c \in Clients : client[c] \in Waiting ~> client[c] \notin Waiting \/ at = "down"

\* A client that never sends its parameters does not hold up the loop for good.
NegotiationEnds == at = "params" ~> at # "params"

\* server.rs: "setting up a race between these reads and a timeout timer ... to
\* ensure we don't end up waiting forever and not accepting new potential
\* tests."  A loop that has accepted a connection comes back for the next.
KeepsAccepting == at = "hello" ~> at = "accept"

============================================================================
