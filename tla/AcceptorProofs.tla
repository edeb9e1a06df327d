--------------------------- MODULE AcceptorProofs ---------------------------
(***************************************************************************)
(* AccInv is an invariant of Acceptor, for any clients, any number of      *)
(* streams, and whoever is silent, slow or killed; and with it the safety  *)
(* properties.                                                             *)
(***************************************************************************)
EXTENDS AcceptorInvariant, TLAPS

\* What Append and Tail do to a sequence, element by element.
LEMMA Appended ==
  ASSUME NEW S, NEW s \in Seq(S), NEW e \in S
  PROVE  /\ Append(s, e) \in Seq(S)
         /\ Len(Append(s, e)) = Len(s) + 1
         /\ \A k \in 1 .. Len(s) : Append(s, e)[k] = s[k]
         /\ Append(s, e)[Len(s) + 1] = e
         /\ Len(s) \in Nat
OBVIOUS

LEMMA Tailed ==
  ASSUME NEW S, NEW s \in Seq(S), s # <<>>
  PROVE  /\ Head(s) \in S /\ Head(s) = s[1]
         /\ Tail(s) \in Seq(S)
         /\ Len(Tail(s)) = Len(s) - 1
         /\ \A k \in 1 .. Len(s) - 1 : Tail(s)[k] = s[k + 1]
         /\ Len(s) \in Nat \ {0}
OBVIOUS

\* A client with no connection in the backlog may add one.
LEMMA NewConnection ==
  ASSUME NEW c \in Clients, backlog \in Seq(Clients), Distinct(backlog), ~ InBacklog(c),
         backlog' = Append(backlog, c)
  PROVE  /\ backlog' \in Seq(Clients)
         /\ Distinct(backlog)'
         /\ \A d \in Clients : InBacklog(d)' => d = c \/ InBacklog(d)
<1>1. /\ backlog' \in Seq(Clients)
      /\ Len(backlog') = Len(backlog) + 1
      /\ \A k \in 1 .. Len(backlog) : backlog'[k] = backlog[k]
      /\ backlog'[Len(backlog) + 1] = c
      /\ Len(backlog) \in Nat
  BY Appended
<1>2. \A k \in 1 .. Len(backlog') : k \in 1 .. Len(backlog) \/ k = Len(backlog) + 1
  BY <1>1
<1>3. Distinct(backlog)'
  BY <1>1, <1>2 DEF Distinct, InBacklog
<1>4. \A d \in Clients : InBacklog(d)' => d = c \/ InBacklog(d)
  BY <1>1, <1>2 DEF InBacklog
<1> QED BY <1>1, <1>3, <1>4

\* The oldest connection leaves the backlog.
LEMMA NextConnection ==
  ASSUME backlog \in Seq(Clients), Distinct(backlog), backlog # <<>>,
         backlog' = Tail(backlog)
  PROVE  /\ Head(backlog) \in Clients
         /\ InBacklog(Head(backlog))
         /\ backlog' \in Seq(Clients)
         /\ Distinct(backlog)'
         /\ \A d \in Clients : InBacklog(d)' => d # Head(backlog) /\ InBacklog(d)
<1>1. /\ Head(backlog) \in Clients /\ Head(backlog) = backlog[1]
      /\ backlog' \in Seq(Clients)
      /\ Len(backlog') = Len(backlog) - 1
      /\ \A k \in 1 .. Len(backlog) - 1 : backlog'[k] = backlog[k + 1]
      /\ Len(backlog) \in Nat \ {0}
  BY Tailed
<1>2. InBacklog(Head(backlog))
  BY <1>1 DEF InBacklog
<1>3. Distinct(backlog)'
  BY <1>1 DEF Distinct
<1>4. \A d \in Clients : InBacklog(d)' => d # Head(backlog) /\ InBacklog(d)
  BY <1>1 DEF InBacklog, Distinct
<1> QED BY <1>1, <1>2, <1>3, <1>4

\* A client opens its control connection.
LEMMA ConnectStep ==
  ASSUME AccInv, NEW c \in Clients, Connect(c)
  PROVE  AccInv'
<1> USE AcceptorAssumption DEF AcceptorAssumption
<1>1. /\ client[c] = "idle" /\ at # "down"
      /\ client' = [client EXCEPT ![c] = "control"]
      /\ said' = [said EXCEPT ![c] = "nothing"]
      /\ backlog' = Append(backlog, c)
      /\ UNCHANGED <<at, inbound, latest, test, ctl, queue, streams, opened>>
  BY DEF Connect, Open, tests
<1>2. TypeOK /\ LatestOnly /\ StreamsAreOwn /\ NeverRefused
      /\ BacklogSane /\ InboundSane /\ \A d \in Clients : Abreast(d) /\ Counted(d)
  BY <1>1 DEF AccInv, Sane
<1>3. ~ InBacklog(c) /\ Distinct(backlog)
  BY <1>1, <1>2 DEF BacklogSane, Unanswered, Ended, Waiting
<1>4. /\ backlog' \in Seq(Clients)
      /\ Distinct(backlog)'
      /\ \A d \in Clients : InBacklog(d)' => d = c \/ InBacklog(d)
  BY <1>1, <1>2, <1>3, NewConnection DEF TypeOK
<1>5. TypeOK'
  BY <1>1, <1>2, <1>4 DEF TypeOK, Waiting
<1>6. LatestOnly' /\ StreamsAreOwn'
  BY <1>1, <1>2 DEF LatestOnly, StreamsAreOwn, Running
<1>7. NeverRefused'
  BY <1>1, <1>2 DEF NeverRefused, TypeOK
<1>8. BacklogSane'
  BY <1>1, <1>2, <1>4 DEF BacklogSane, Unanswered, Ended, Waiting, TypeOK
<1>9. InboundSane'
  BY <1>1, <1>2, <1>4 DEF InboundSane, Unanswered, Ended, Waiting, TypeOK
<1>10. ASSUME NEW d \in Clients PROVE Abreast(d)' /\ Counted(d)'
  BY <1>1, <1>2 DEF Abreast, Counted, Ended, Waiting, TypeOK
<1> QED BY <1>5, <1>6, <1>7, <1>8, <1>9, <1>10 DEF AccInv, Sane

\* A client opens a data connection.
LEMMA DialStep ==
  ASSUME AccInv, NEW c \in Clients, Dial(c)
  PROVE  AccInv'
<1> USE AcceptorAssumption DEF AcceptorAssumption
<1>1. /\ client[c] = "test" /\ at # "down"
      /\ ctl[c] = "toCreate" \/ test[c] \notin {"none", "TestStart"}
      /\ opened[c] < Streams
      /\ client' = [client EXCEPT ![c] = "data"]
      /\ said' = [said EXCEPT ![c] = "nothing"]
      /\ backlog' = Append(backlog, c)
      /\ UNCHANGED <<at, inbound, latest, test, ctl, queue, streams, opened>>
  BY DEF Dial, Open, tests, MoreNeeded
<1>2. TypeOK /\ LatestOnly /\ StreamsAreOwn /\ NeverRefused
      /\ BacklogSane /\ InboundSane /\ \A d \in Clients : Abreast(d) /\ Counted(d)
  BY <1>1 DEF AccInv, Sane
<1>3. ~ InBacklog(c) /\ Distinct(backlog)
  BY <1>1, <1>2 DEF BacklogSane, Unanswered, Ended, Waiting
<1>4. /\ backlog' \in Seq(Clients)
      /\ Distinct(backlog)'
      /\ \A d \in Clients : InBacklog(d)' => d = c \/ InBacklog(d)
  BY <1>1, <1>2, <1>3, NewConnection DEF TypeOK
<1>5. TypeOK'
  BY <1>1, <1>2, <1>4 DEF TypeOK, Waiting
<1>6. LatestOnly' /\ StreamsAreOwn'
  BY <1>1, <1>2 DEF LatestOnly, StreamsAreOwn, Running
<1>7. NeverRefused'
  BY <1>1, <1>2 DEF NeverRefused, TypeOK
<1>8. BacklogSane'
  BY <1>1, <1>2, <1>4 DEF BacklogSane, Unanswered, Ended, Waiting, TypeOK
<1>9. at \in {"cookie", "hello", "params"} => inbound # c
  BY <1>1, <1>2 DEF InboundSane, Unanswered, Ended, Waiting, Abreast
<1>10. InboundSane'
  BY <1>1, <1>2, <1>4, <1>9 DEF InboundSane, Unanswered, Ended, Waiting, TypeOK
<1>11. ASSUME NEW d \in Clients PROVE Abreast(d)' /\ Counted(d)'
  BY <1>1, <1>2 DEF Abreast, Counted, Ended, Waiting, TypeOK
<1> QED BY <1>5, <1>6, <1>7, <1>8, <1>10, <1>11 DEF AccInv, Sane

\* A client says Hello.
LEMMA HelloStep ==
  ASSUME AccInv, NEW c \in Clients, Hello(c)
  PROVE  AccInv'
<1>1. /\ client[c] \in Waiting
      /\ said' = [said EXCEPT ![c] = "hello"]
      /\ UNCHANGED <<at, inbound, latest, backlog, test, ctl, queue, streams, client, opened>>
  BY DEF Hello, loop, tests
<1>2. TypeOK' /\ LatestOnly' /\ StreamsAreOwn' /\ NeverRefused'
  BY <1>1 DEF AccInv, TypeOK, LatestOnly, StreamsAreOwn, NeverRefused, Running, Waiting
<1>3. ASSUME at # "down" PROVE Sane'
  <2>1. BacklogSane'
    BY <1>1, <1>3 DEF AccInv, Sane, BacklogSane, Distinct, InBacklog, Unanswered, Ended, TypeOK
  <2>2. InboundSane'
    BY <1>1, <1>3
    DEF AccInv, Sane, InboundSane, InBacklog, Unanswered, Ended, Waiting, TypeOK
  <2>3. ASSUME NEW d \in Clients PROVE Abreast(d)' /\ Counted(d)'
    BY <1>1, <1>3 DEF AccInv, Sane, Abreast, Counted, Ended, TypeOK
  <2> QED BY <2>1, <2>2, <2>3 DEF Sane
<1> QED BY <1>1, <1>2, <1>3 DEF AccInv

\* A client sends its parameters.
LEMMA ParametersStep ==
  ASSUME AccInv, NEW c \in Clients, SendParameters(c)
  PROVE  AccInv'
<1>1. /\ client[c] = "welcomed"
      /\ client' = [client EXCEPT ![c] = "test"]
      /\ said' = [said EXCEPT ![c] = "parameters"]
      /\ UNCHANGED <<at, inbound, latest, backlog, test, ctl, queue, streams, opened>>
  BY DEF SendParameters, loop, tests
<1>2. TypeOK' /\ LatestOnly' /\ StreamsAreOwn' /\ NeverRefused'
  BY <1>1 DEF AccInv, TypeOK, LatestOnly, StreamsAreOwn, NeverRefused, Running, Waiting
<1>3. ASSUME at # "down" PROVE Sane'
  <2>1. ~ InBacklog(c) /\ (at \in {"cookie", "hello"} => inbound # c) /\ test[c] = "none"
    BY <1>1, <1>3
    DEF AccInv, Sane, BacklogSane, InboundSane, Abreast, Unanswered, Ended, Waiting
  <2>2. BacklogSane'
    <3>1. Distinct(backlog)' /\ \A d \in Clients : InBacklog(d)' <=> InBacklog(d)
      BY <1>1, <1>3 DEF AccInv, Sane, BacklogSane, Distinct, InBacklog
    <3>2. \A d \in Clients : d # c => client'[d] = client[d] /\ said'[d] = said[d]
      BY <1>1 DEF AccInv, TypeOK
    <3>3. \A d \in Clients : InBacklog(d) => Unanswered(d) /\ said[d] # "parameters"
      BY <1>3 DEF AccInv, Sane, BacklogSane
    <3> QED
      BY <3>1, <3>2, <3>3, <2>1 DEF BacklogSane, Unanswered, Ended
  <2>3. InboundSane'
    BY <1>1, <1>3, <2>1
    DEF AccInv, Sane, InboundSane, InBacklog, Unanswered, Ended, Waiting, TypeOK
  <2>4. ASSUME NEW d \in Clients PROVE Abreast(d)' /\ Counted(d)'
    BY <1>1, <1>3 DEF AccInv, Sane, Abreast, Counted, Ended, Waiting, TypeOK
  <2> QED BY <2>2, <2>3, <2>4 DEF Sane
<1> QED BY <1>1, <1>2, <1>3 DEF AccInv

\* One client ends, and nothing else changes.
LEMMA EndedStep ==
  ASSUME AccInv, NEW c \in Clients, ~ Ended(c),
         client' = [client EXCEPT ![c] = "gone"],
         UNCHANGED <<at, inbound, latest, backlog, tests, said, opened>>
  PROVE  AccInv'
<1>1. TypeOK' /\ LatestOnly' /\ StreamsAreOwn' /\ NeverRefused'
  BY DEF AccInv, TypeOK, LatestOnly, StreamsAreOwn, NeverRefused, Running, Waiting, tests
<1>2. ASSUME at # "down" PROVE Sane'
  <2>1. BacklogSane'
    <3>1. Distinct(backlog)' /\ \A d \in Clients : InBacklog(d)' <=> InBacklog(d)
      BY <1>2 DEF AccInv, Sane, BacklogSane, Distinct, InBacklog
    <3>2. /\ \A d \in Clients : d # c => client'[d] = client[d]
          /\ client'[c] = "gone" /\ said' = said
      BY DEF AccInv, TypeOK
    <3>3. \A d \in Clients : InBacklog(d) => Unanswered(d) /\ said[d] # "parameters"
      BY <1>2 DEF AccInv, Sane, BacklogSane
    <3> QED
      BY <3>1, <3>2, <3>3 DEF BacklogSane, Unanswered, Ended
  <2>2. InboundSane'
    BY <1>2
    DEF AccInv, Sane, InboundSane, InBacklog, Unanswered, Ended, TypeOK, tests
  <2>3. ASSUME NEW d \in Clients PROVE Abreast(d)' /\ Counted(d)'
    BY <1>2 DEF AccInv, Sane, Abreast, Counted, Ended, Waiting, TypeOK, tests
  <2> QED BY <2>1, <2>2, <2>3 DEF Sane
<1> QED BY <1>1, <1>2 DEF AccInv

\* A client leaves.
LEMMA LeaveStep ==
  ASSUME AccInv, NEW c \in Clients, Leave(c)
  PROVE  AccInv'
BY EndedStep DEF Leave, loop

\* Arithmetic.
LEMMA PartOfSum ==
  ASSUME NEW q \in Nat, NEW s \in Nat, NEW o, o = q + s
  PROVE  s <= o
OBVIOUS

\* A client that waits on a data connection has its test in flight, and that
\* test has left TestStart and lacks a stream.
LEMMA DialsItsOwn ==
  ASSUME TypeOK, LatestOnly, NEW c \in Clients, Abreast(c), Counted(c), client[c] = "data"
  PROVE  /\ InFlight /\ c = latest
         /\ test[c] = "CreateStreams" \/ (test[c] = "TestStart" /\ Setting(c))
<1> USE AcceptorAssumption DEF AcceptorAssumption
<1>1. ~ Ended(c)
  BY DEF Ended
<1>2. /\ opened[c] < Streams
      /\ opened[c] = Len(queue[c]) + Len(streams[c])
      /\ Len(queue[c]) \in Nat /\ Len(streams[c]) \in Nat /\ opened[c] \in Nat
  BY <1>1 DEF Counted, TypeOK
<1>3. test[c] # "Running" /\ test[c] # "over"
  <2>1. opened[c] \in Nat /\ Len(streams[c]) \in Nat /\ Streams \in Nat
    BY <1>2
  <2>2. opened[c] < Streams
    BY <1>2
  <2>3. opened[c] # Streams
    BY <2>1, <2>2
  <2>4. Len(streams[c]) < Streams
    <3>1. Len(streams[c]) <= opened[c]
      BY <1>2, PartOfSum
    <3> QED BY <2>1, <2>2, <3>1
  <2>5. ~ (Len(streams[c]) >= Streams)
    BY <2>1, <2>4
  <2> QED BY <1>1, <2>3, <2>5 DEF Counted
<1>4. test[c] # "none" /\ (test[c] = "TestStart" => Setting(c))
  BY DEF Abreast, Setting
<1>5. test[c] \in InTest
  BY <1>3, <1>4 DEF TypeOK
<1>6. c = latest
  BY <1>5 DEF LatestOnly, Running
<1> QED BY <1>3, <1>4, <1>5, <1>6 DEF InFlight, Running, InTest

\* The loop takes the next connection: it is denied, or its Hello is awaited.
LEMMA AcceptStep ==
  ASSUME AccInv, Accept
  PROVE  AccInv'
<1> USE AcceptorAssumption DEF AcceptorAssumption
<1> DEFINE c == Head(backlog)
<1>1. /\ at = "accept" /\ backlog # <<>> /\ backlog' = Tail(backlog)
      /\ InFlight => ~ Setting(latest)
      /\ UNCHANGED <<latest, test, ctl, queue, streams, said, opened>>
  BY DEF Accept, tests, MutexFree
<1>2. TypeOK /\ LatestOnly /\ StreamsAreOwn /\ NeverRefused
      /\ BacklogSane /\ InboundSane /\ \A d \in Clients : Abreast(d) /\ Counted(d)
  BY <1>1 DEF AccInv, Sane
<1>3. /\ c \in Clients /\ InBacklog(c)
      /\ backlog' \in Seq(Clients)
      /\ Distinct(backlog)'
      /\ \A d \in Clients : InBacklog(d)' => d # c /\ InBacklog(d)
  BY <1>1, <1>2, NextConnection DEF TypeOK, BacklogSane
<1>4. Unanswered(c) /\ said[c] # "parameters"
  BY <1>2, <1>3 DEF BacklogSane
<1>5. client[c] = "data" => InFlight /\ c = latest /\ test[c] = "CreateStreams"
  BY <1>1, <1>2, <1>3, DialsItsOwn
<1> HIDE DEF c
<1>6. CASE InFlight /\ ~ WantsStreams
  <2>1. Deny(c) /\ UNCHANGED <<at, inbound>>
    BY <1>6 DEF Accept, c
  <2>2. client[c] # "data"
    BY <1>5, <1>6 DEF WantsStreams
  <2>3. client' = IF client[c] = "control" THEN [client EXCEPT ![c] = "denied"] ELSE client
    BY <2>1, <2>2 DEF Deny
  <2>4. TypeOK'
    BY <1>1, <1>2, <1>3, <2>1, <2>3 DEF TypeOK
  <2>5. LatestOnly' /\ StreamsAreOwn'
    BY <1>1, <1>2, <2>1 DEF LatestOnly, StreamsAreOwn, Running
  <2>6. NeverRefused'
    BY <1>2, <1>3, <2>3 DEF NeverRefused, TypeOK
  <2>7. BacklogSane'
    BY <1>1, <1>2, <1>3, <2>3 DEF BacklogSane, Unanswered, Ended, Waiting, TypeOK
  <2>8. InboundSane'
    BY <1>1, <2>1 DEF InboundSane
  <2>9. ASSUME NEW d \in Clients PROVE Abreast(d)' /\ Counted(d)'
    BY <1>1, <1>2, <1>3, <2>3 DEF Abreast, Counted, Ended, Waiting, TypeOK
  <2> QED BY <2>4, <2>5, <2>6, <2>7, <2>8, <2>9 DEF AccInv, Sane
<1>7. CASE ~ (InFlight /\ ~ WantsStreams)
  <2>1. /\ at' = IF InFlight THEN "cookie" ELSE "hello"
        /\ inbound' = c
        /\ UNCHANGED client
    BY <1>7 DEF Accept, c
  <2>2. TypeOK'
    BY <1>1, <1>2, <1>3, <2>1 DEF TypeOK
  <2>3. LatestOnly' /\ StreamsAreOwn' /\ NeverRefused'
    <3>1. ~ InFlight => \A d \in Clients : ~ Running(d)
      BY <1>2 DEF LatestOnly, InFlight
    <3> QED BY <1>1, <1>2, <2>1, <3>1
            DEF LatestOnly, StreamsAreOwn, NeverRefused, Running
  <2>4. BacklogSane'
    BY <1>1, <1>2, <1>3, <2>1 DEF BacklogSane, Unanswered, Ended
  <2>5. InboundSane'
    BY <1>1, <1>2, <1>3, <1>4, <1>5, <2>1 DEF InboundSane, Unanswered, Ended
  <2>6. ASSUME NEW d \in Clients PROVE Abreast(d)' /\ Counted(d)'
    BY <1>1, <1>2, <2>1 DEF Abreast, Counted, Ended
  <2> QED BY <2>2, <2>3, <2>4, <2>5, <2>6 DEF AccInv, Sane
<1> QED BY <1>6, <1>7

\* The connection being served is answered: nothing is left to say about it,
\* and what is said of the backlog stays true when only its client moves on.
LEMMA Answered ==
  ASSUME AccInv, at \in {"cookie", "hello", "params"},
         NEW new,
         client' = [client EXCEPT ![inbound] = new],
         UNCHANGED <<backlog, said>>
  PROVE  BacklogSane'
<1>1. /\ inbound \in Clients /\ ~ InBacklog(inbound) /\ BacklogSane /\ TypeOK
  BY DEF AccInv, Sane, InboundSane
<1>2. \A d \in Clients : InBacklog(d)' => InBacklog(d) /\ d # inbound
  BY <1>1 DEF InBacklog
<1> QED BY <1>1, <1>2 DEF BacklogSane, Distinct, Unanswered, Ended, TypeOK

\* The connection of the test in flight becomes a data stream.
LEMMA AdmitStep ==
  ASSUME AccInv, Admit
  PROVE  AccInv'
<1> USE AcceptorAssumption DEF AcceptorAssumption
<1> DEFINE c == inbound
<1>1. /\ at = "cookie" /\ c = latest /\ InFlight
      /\ Welcome(c)
      /\ queue' = [queue EXCEPT ![c] = Append(@, c)]
      /\ at' = "accept" /\ inbound' = Nobody
      /\ UNCHANGED <<backlog, latest, test, ctl, streams, said>>
  BY DEF Admit, CookieMatches, Back
<1>2. TypeOK /\ LatestOnly /\ StreamsAreOwn /\ NeverRefused
      /\ BacklogSane /\ InboundSane /\ \A d \in Clients : Abreast(d) /\ Counted(d)
  BY <1>1 DEF AccInv, Sane
<1>3. c \in Clients /\ Unanswered(c) /\ test[c] # "none" /\ (~ Ended(c) <=> client[c] = "data")
  <2>1. c \in Clients /\ Unanswered(c)
    BY <1>1, <1>2 DEF InboundSane
  <2>2. test[c] # "none"
    BY <1>1 DEF InFlight, Running, InTest
  <2>3. client[c] # "control"
    BY <1>2, <2>1, <2>2 DEF Abreast
  <2> QED BY <2>1, <2>2, <2>3 DEF Unanswered, Ended, Waiting
<1> HIDE DEF c
<1>4. /\ client' = IF client[c] = "data" THEN [client EXCEPT ![c] = "test"] ELSE client
      /\ opened' = IF client[c] = "data" THEN [opened EXCEPT ![c] = @ + 1] ELSE opened
  <2>1. CASE client[c] = "data"
    BY <1>1, <1>3, <2>1 DEF Welcome
  <2>2. CASE client[c] # "data"
    BY <1>1, <1>3, <2>2 DEF Welcome
  <2> QED BY <2>1, <2>2
<1>5. /\ queue'[c] \in Seq(Clients)
      /\ Len(queue'[c]) = Len(queue[c]) + 1
      /\ \A k \in 1 .. Len(queue[c]) : queue'[c][k] = queue[c][k]
      /\ queue'[c][Len(queue[c]) + 1] = c
      /\ Len(queue[c]) \in Nat
  BY <1>1, <1>2, <1>3, Appended DEF TypeOK
<1>6. \A d \in Clients : d # c => queue'[d] = queue[d]
  BY <1>1, <1>2 DEF TypeOK
<1>7. TypeOK'
  <2>1. opened' \in [Clients -> 0 .. Streams]
    <3>1. CASE client[c] = "data"
      <4>1. opened[c] < Streams /\ opened[c] \in 0 .. Streams /\ Streams \in Nat
        BY <1>2, <1>3, <3>1, AcceptorAssumption DEF TypeOK, Counted, AcceptorAssumption
      <4>2. opened[c] + 1 \in 0 .. Streams
        BY <4>1
      <4> QED
        BY <3>1, <4>2, <1>2, <1>4 DEF TypeOK
    <3>2. CASE client[c] # "data"
      BY <3>2, <1>2, <1>4 DEF TypeOK
    <3> QED
      BY <3>1, <3>2
  <2>2. queue' \in [Clients -> Seq(Clients)]
    BY <1>1, <1>2, <1>3, <1>5 DEF TypeOK
  <2> QED BY <1>1, <1>2, <1>3, <1>4, <2>1, <2>2 DEF TypeOK
<1>8. LatestOnly'
  BY <1>1, <1>2 DEF LatestOnly, Running
<1>9. StreamsAreOwn'
  <2>1. \A k \in 1 .. Len(queue'[c]) : k \in 1 .. Len(queue[c]) \/ k = Len(queue[c]) + 1
    BY <1>5
  <2>2. \A k \in 1 .. Len(queue'[c]) : queue'[c][k] = c
    BY <1>2, <1>3, <1>5, <2>1 DEF StreamsAreOwn
  <2> QED BY <1>1, <1>2, <1>6, <2>2 DEF StreamsAreOwn
<1>10. NeverRefused'
  BY <1>2, <1>3, <1>4 DEF NeverRefused, TypeOK
<1>11. BacklogSane'
  <2>1. client' = [client EXCEPT ![inbound] = IF client[c] = "data" THEN "test" ELSE client[c]]
    BY <1>2, <1>3, <1>4 DEF c, TypeOK
  <2> QED BY <1>1, <2>1, Answered
<1>12. InboundSane'
  BY <1>1 DEF InboundSane
<1>13. ASSUME NEW d \in Clients PROVE Abreast(d)'
  BY <1>1, <1>2, <1>3, <1>4 DEF Abreast, Ended, Waiting, TypeOK
<1>14. ASSUME NEW d \in Clients PROVE Counted(d)'
  <2>1. CASE d = c
    <3>1. client[c] = "data" => opened'[c] = opened[c] + 1 /\ client'[c] = "test" /\ ~ Ended(c)
      BY <1>2, <1>3, <1>4 DEF TypeOK
    <3>2. client[c] # "data" => UNCHANGED <<client, opened>> /\ Ended(c)
      BY <1>3, <1>4
    <3>3. test[c] # "over"
      BY <1>1 DEF InFlight, Running, InTest
    <3> QED BY SMTT(30), <1>1, <1>2, <1>3, <1>5, <2>1, <3>1, <3>2, <3>3 DEF Counted, Ended, TypeOK
  <2>2. CASE d # c
    BY <1>1, <1>2, <1>4, <1>6, <2>2 DEF Counted, Ended, TypeOK
  <2> QED BY <2>1, <2>2
<1> QED BY <1>7, <1>8, <1>9, <1>10, <1>11, <1>12, <1>13, <1>14 DEF AccInv, Sane

\* A connection with another cookie is denied.
LEMMA RejectStep ==
  ASSUME AccInv, Reject
  PROVE  AccInv'
<1> USE AcceptorAssumption DEF AcceptorAssumption
<1> DEFINE c == inbound
<1>1. /\ at = "cookie" /\ c # latest
      /\ Deny(c)
      /\ at' = "accept" /\ inbound' = Nobody
      /\ UNCHANGED <<backlog, latest, test, ctl, queue, streams, said, opened>>
  BY DEF Reject, CookieMatches, Back, tests
<1>2. TypeOK /\ LatestOnly /\ StreamsAreOwn /\ NeverRefused
      /\ BacklogSane /\ InboundSane /\ \A d \in Clients : Abreast(d) /\ Counted(d)
  BY <1>1 DEF AccInv, Sane
<1>3. c \in Clients /\ Unanswered(c)
  BY <1>1, <1>2 DEF InboundSane
<1>4. client[c] # "data"
  BY <1>1, <1>2, <1>3, DialsItsOwn
<1> HIDE DEF c
<1>5. client' = [client EXCEPT ![c] = IF client[c] = "control" THEN "denied" ELSE client[c]]
  BY <1>1, <1>2, <1>3, <1>4 DEF Deny, TypeOK
<1>6. TypeOK'
  BY <1>1, <1>2, <1>3, <1>5 DEF TypeOK
<1>7. LatestOnly' /\ StreamsAreOwn'
  BY <1>1, <1>2 DEF LatestOnly, StreamsAreOwn, Running
<1>8. NeverRefused'
  BY <1>2, <1>3, <1>5 DEF NeverRefused, TypeOK
<1>9. BacklogSane'
  BY <1>1, <1>5, Answered DEF c
<1>10. InboundSane'
  BY <1>1 DEF InboundSane
<1>11. ASSUME NEW d \in Clients PROVE Abreast(d)' /\ Counted(d)'
  BY <1>1, <1>2, <1>3, <1>5 DEF Abreast, Counted, Ended, Waiting, TypeOK
<1> QED BY <1>6, <1>7, <1>8, <1>9, <1>10, <1>11 DEF AccInv, Sane

\* The server process ends, and no client is refused by that.
LEMMA DownStep ==
  ASSUME AccInv, Down, (TypeOK /\ NeverRefused)'
  PROVE  AccInv'
<1>1. /\ at' = "down"
      /\ test' = [c \in Clients |-> IF Running(c) THEN "over" ELSE test[c]]
      /\ UNCHANGED <<latest, queue, streams>>
  BY DEF Down
<1>2. LatestOnly'
  BY <1>1 DEF LatestOnly, Running, InTest
<1>3. StreamsAreOwn'
  BY <1>1 DEF AccInv, StreamsAreOwn
<1> QED BY <1>1, <1>2, <1>3 DEF AccInv

\* A read of a cookie fails, or a Welcome is not written, or an accept() fails.
LEMMA FailStep ==
  ASSUME AccInv, ServerFails \/ AcceptFails
  PROVE  AccInv'
<1>1. Down /\ UNCHANGED <<client, opened>>
  BY DEF ServerFails, AcceptFails
<1>2. TypeOK'
  BY <1>1 DEF Down, AccInv, TypeOK, Running
<1>3. NeverRefused'
  BY <1>1 DEF AccInv, NeverRefused
<1> QED BY <1>1, <1>2, <1>3, DownStep

\* The Welcome is out, and the channel does not take the socket.
LEMMA TrySendStep ==
  ASSUME AccInv, TrySendFails
  PROVE  AccInv'
<1> USE AcceptorAssumption DEF AcceptorAssumption
<1> DEFINE c == inbound
<1>1. at = "cookie" /\ Welcome(c) /\ Down
  BY DEF TrySendFails
<1>2. TypeOK /\ NeverRefused /\ InboundSane /\ \A d \in Clients : Counted(d)
  BY <1>1 DEF AccInv, Sane
<1>3. c \in Clients /\ client[c] # "refused"
  BY <1>1, <1>2 DEF InboundSane, NeverRefused
<1> HIDE DEF c
<1>4. PICK new \in {"test", "welcomed", client[c]} : client' = [client EXCEPT ![c] = new]
  <2>1. CASE Ended(c)
    BY <1>1, <1>2, <2>1 DEF Welcome, TypeOK
  <2>2. CASE ~ Ended(c)
    BY <1>1, <2>2 DEF Welcome
  <2> QED BY <2>1, <2>2
<1>5. opened' \in [Clients -> 0 .. Streams]
  <2>1. CASE client[c] = "data"
    <3>1. opened[c] < Streams /\ opened[c] \in 0 .. Streams /\ Streams \in Nat
      BY <1>2, <1>3, <2>1 DEF TypeOK, Counted
    <3>2. opened[c] + 1 \in 0 .. Streams
      BY <3>1
    <3> QED BY <1>1, <1>2, <2>1, <3>2 DEF Welcome, TypeOK
  <2>2. CASE client[c] # "data"
    BY <1>1, <1>2, <2>2 DEF Welcome, TypeOK
  <2> QED BY <2>1, <2>2
<1>6. TypeOK'
  <2>1. client' \in [Clients -> Waiting \cup {"idle", "welcomed", "test", "denied", "refused", "gone"}]
    BY <1>2, <1>3, <1>4 DEF TypeOK
  <2> QED BY <1>1, <1>2, <1>5, <2>1 DEF Down, TypeOK, Running
<1>7. NeverRefused'
  BY <1>2, <1>3, <1>4 DEF NeverRefused, TypeOK
<1> QED BY <1>1, <1>6, <1>7, DownStep

\* The Hello of a control connection is answered.
LEMMA GreetStep ==
  ASSUME AccInv, Greet
  PROVE  AccInv'
<1> USE AcceptorAssumption DEF AcceptorAssumption
<1> DEFINE c == inbound
<1>1. /\ at = "hello" /\ said[c] = "hello"
      /\ Welcome(c)
      /\ at' = "params"
      /\ UNCHANGED <<inbound, backlog, latest, test, ctl, queue, streams, said>>
  BY DEF Greet, tests
<1>2. TypeOK /\ LatestOnly /\ StreamsAreOwn /\ NeverRefused
      /\ BacklogSane /\ InboundSane /\ \A d \in Clients : Abreast(d) /\ Counted(d)
  BY <1>1 DEF AccInv, Sane
<1>3. c \in Clients /\ ~ InBacklog(c) /\ (client[c] = "control" \/ Ended(c))
  BY <1>1, <1>2 DEF InboundSane, Unanswered, Waiting
<1> HIDE DEF c
<1>4. /\ opened' = opened
      /\ client' = [client EXCEPT ![c] = IF Ended(c) THEN @ ELSE "welcomed"]
  BY <1>1, <1>2, <1>3 DEF Welcome, Ended, TypeOK
<1>5. ~ Ended(c) => client[c] = "control" /\ test[c] = "none"
  BY <1>2, <1>3 DEF Abreast
<1>6. TypeOK'
  BY <1>1, <1>2, <1>3, <1>4 DEF TypeOK
<1>7. LatestOnly' /\ StreamsAreOwn'
  BY <1>1, <1>2 DEF LatestOnly, StreamsAreOwn, Running
<1>8. NeverRefused'
  BY <1>2, <1>3, <1>4 DEF NeverRefused, TypeOK
<1>9. BacklogSane'
  <2>1. client' = [client EXCEPT ![inbound] = IF Ended(c) THEN client[c] ELSE "welcomed"]
    BY <1>4 DEF c
  <2> QED BY <1>1, <2>1, Answered
<1>10. InboundSane'
  <2>1. inbound' = c /\ ~ InBacklog(inbound)'
    BY <1>1, <1>3 DEF InBacklog, c
  <2>2. Ended(inbound)' <=> client'[c] \in {"denied", "refused", "gone"}
    BY <2>1 DEF Ended
  <2>3. (client'[c] = "welcomed" /\ test'[c] = "none") \/ Ended(inbound)'
    BY <1>1, <1>2, <1>3, <1>4, <1>5, <2>2 DEF Ended, TypeOK
  <2> QED BY <1>1, <1>3, <2>1, <2>3 DEF InboundSane
<1>11. ASSUME NEW d \in Clients PROVE Abreast(d)' /\ Counted(d)'
  BY <1>1, <1>2, <1>3, <1>4, <1>5 DEF Abreast, Counted, Ended, Waiting, TypeOK
<1> QED BY <1>6, <1>7, <1>8, <1>9, <1>10, <1>11 DEF AccInv, Sane

\* A test begins.
LEMMA CreateStep ==
  ASSUME AccInv, CreateTest
  PROVE  AccInv'
<1> USE AcceptorAssumption DEF AcceptorAssumption
<1> DEFINE c == inbound
<1>1. /\ at = "params" /\ said[c] = "parameters"
      /\ latest' = c
      /\ test' = [test EXCEPT ![c] = "TestStart"]
      /\ at' = "accept" /\ inbound' = Nobody
      /\ UNCHANGED <<backlog, ctl, queue, streams, client, said, opened>>
  BY DEF CreateTest, Back, clients
<1>2. TypeOK /\ LatestOnly /\ StreamsAreOwn /\ NeverRefused
      /\ BacklogSane /\ InboundSane /\ \A d \in Clients : Abreast(d) /\ Counted(d)
  BY <1>1 DEF AccInv, Sane
<1>3. /\ c \in Clients /\ test[c] = "none"
      /\ client[c] \in {"welcomed", "test"} \/ Ended(c)
  BY <1>1, <1>2 DEF InboundSane
<1> HIDE DEF c
<1>4. client[c] \notin Waiting \cup {"welcomed", "idle"} /\ ctl[c] = "top"
  BY <1>1, <1>2, <1>3 DEF Abreast, Ended, Waiting
<1>5. TypeOK'
  BY <1>1, <1>2, <1>3 DEF TypeOK, InTest
<1>6. LatestOnly' /\ StreamsAreOwn' /\ NeverRefused'
  BY <1>1, <1>2, <1>3 DEF LatestOnly, StreamsAreOwn, NeverRefused, Running, TypeOK
<1>7. BacklogSane'
  BY <1>1, <1>2 DEF BacklogSane, Distinct, InBacklog, Unanswered, Ended
<1>8. InboundSane'
  BY <1>1 DEF InboundSane
<1>9. ASSUME NEW d \in Clients PROVE Abreast(d)' /\ Counted(d)'
  BY <1>1, <1>2, <1>3, <1>4 DEF Abreast, Counted, Ended, Waiting, TypeOK
<1> QED BY <1>5, <1>6, <1>7, <1>8, <1>9 DEF AccInv, Sane

\* create_test gives up.
LEMMA GiveUpStep ==
  ASSUME AccInv, GiveUp
  PROVE  AccInv'
<1> USE AcceptorAssumption DEF AcceptorAssumption
<1> DEFINE c == inbound
<1>1. /\ at \in {"hello", "params"}
      /\ client' = IF Ended(c) THEN client ELSE [client EXCEPT ![c] = "gone"]
      /\ at' = "accept" /\ inbound' = Nobody
      /\ UNCHANGED <<backlog, latest, test, ctl, queue, streams, said, opened>>
  BY DEF GiveUp, Back, tests
<1>2. TypeOK /\ LatestOnly /\ StreamsAreOwn /\ NeverRefused
      /\ BacklogSane /\ InboundSane /\ \A d \in Clients : Abreast(d) /\ Counted(d)
  BY <1>1 DEF AccInv, Sane
<1>3. c \in Clients
  BY <1>1, <1>2 DEF InboundSane
<1> HIDE DEF c
<1>4. client' = [client EXCEPT ![c] = IF Ended(c) THEN client[c] ELSE "gone"]
  BY <1>1, <1>2, <1>3 DEF TypeOK
<1>5. TypeOK'
  BY <1>1, <1>2, <1>3, <1>4 DEF TypeOK
<1>6. LatestOnly' /\ StreamsAreOwn'
  BY <1>1, <1>2 DEF LatestOnly, StreamsAreOwn, Running
<1>7. NeverRefused'
  BY <1>2, <1>3, <1>4 DEF NeverRefused, TypeOK
<1>8. BacklogSane'
  BY <1>1, <1>4, Answered DEF c
<1>9. InboundSane'
  BY <1>1 DEF InboundSane
<1>10. ASSUME NEW d \in Clients PROVE Abreast(d)' /\ Counted(d)'
  BY <1>1, <1>2, <1>3, <1>4 DEF Abreast, Counted, Ended, Waiting, TypeOK
<1> QED BY <1>5, <1>6, <1>7, <1>8, <1>9, <1>10 DEF AccInv, Sane

\* A step of the controller of c's test that leaves the loop, the clients and
\* the channels alone keeps everything but the state of that test.
LEMMA ControllerFrame ==
  ASSUME AccInv, NEW c \in Clients, Running(c),
         UNCHANGED <<at, inbound, backlog, latest, queue, streams, client, said, opened>>,
         NEW now \in InTest \cup {"over"}, test' = [test EXCEPT ![c] = now],
         NEW next \in {"top", "recv", "toCreate", "toRun"}, ctl' = [ctl EXCEPT ![c] = next],
         Abreast(c)', Counted(c)'
  PROVE  AccInv'
<1>1. /\ TypeOK /\ LatestOnly /\ StreamsAreOwn /\ NeverRefused /\ at # "down"
      /\ BacklogSane /\ InboundSane /\ \A d \in Clients : Abreast(d) /\ Counted(d)
  BY DEF AccInv, Sane, LatestOnly
<1>2. TypeOK'
  BY <1>1 DEF TypeOK
<1>3. LatestOnly' /\ StreamsAreOwn' /\ NeverRefused'
  BY <1>1 DEF LatestOnly, StreamsAreOwn, NeverRefused, Running, InTest, TypeOK
<1>4. BacklogSane'
  BY <1>1 DEF BacklogSane, Distinct, InBacklog, Unanswered, Ended
<1>5. InboundSane'
  <2>1. at = "params" => inbound # c
    BY <1>1 DEF LatestOnly
  <2> QED BY <1>1, <2>1 DEF InboundSane, InBacklog, Unanswered, Ended, TypeOK
<1>6. ASSUME NEW d \in Clients PROVE Abreast(d)' /\ Counted(d)'
  <2>1. CASE d = c
    BY <2>1
  <2>2. CASE d # c
    BY <1>1, <2>2 DEF Abreast, Counted, Ended, Waiting, TypeOK
  <2> QED BY <2>1, <2>2
<1> QED BY <1>2, <1>3, <1>4, <1>5, <1>6 DEF AccInv, Sane

\* What holds of a client whose test is in flight.
LEMMA InTestFacts ==
  ASSUME AccInv, NEW c \in Clients, Running(c)
  PROVE  TypeOK /\ Abreast(c) /\ Counted(c) /\ test[c] \in InTest
BY DEF AccInv, Sane, LatestOnly, Running

\* The head of the controller's loop.
LEMMA TopStep ==
  ASSUME AccInv, NEW c \in Clients, Top(c)
  PROVE  AccInv'
<1> DEFINE next == IF test[c] = "TestStart" THEN "toCreate" ELSE "recv"
<1>1. /\ Running(c) /\ ctl[c] = "top"
      /\ ctl' = [ctl EXCEPT ![c] = next]
      /\ UNCHANGED <<at, inbound, backlog, latest, test, queue, streams, client, said, opened>>
  BY DEF Top, loop, clients
<1>2. TypeOK /\ Abreast(c) /\ Counted(c) /\ test[c] \in InTest
  BY <1>1, InTestFacts
<1>3. test' = [test EXCEPT ![c] = test[c]]
  BY <1>1, <1>2 DEF TypeOK
<1>4. Abreast(c)' /\ Counted(c)'
  BY <1>1, <1>2 DEF Abreast, Counted, Ended, Waiting, TypeOK, InTest
<1>5. next \in {"top", "recv", "toCreate", "toRun"} /\ test[c] \in InTest \cup {"over"}
  BY <1>2
<1> HIDE DEF next
<1> QED BY <1>1, <1>3, <1>4, <1>5, ControllerFrame

\* A test ends, and its client has ended or has all its streams.
LEMMA OverStep ==
  ASSUME AccInv, NEW c \in Clients, Running(c), End(c),
         Ended(c) \/ (MayEnd(c) /\ ctl[c] = "recv"),
         UNCHANGED <<at, inbound, backlog, latest, ctl, queue, streams, client, said, opened>>
  PROVE  AccInv'
<1> USE AcceptorAssumption DEF AcceptorAssumption
<1>1. TypeOK /\ Abreast(c) /\ Counted(c) /\ test[c] \in InTest
  BY InTestFacts
<1>2. test' = [test EXCEPT ![c] = "over"] /\ ctl' = [ctl EXCEPT ![c] = ctl[c]]
  BY <1>1 DEF End, TypeOK
<1>3. ctl[c] \in {"top", "recv", "toCreate", "toRun"} /\ test'[c] = "over"
  BY <1>1, <1>2 DEF TypeOK
<1>4. Abreast(c)'
  BY <1>1, <1>3 DEF Abreast, Ended, Waiting, InTest
<1>5. Ended(c) \/ opened[c] = Streams
  <2> SUFFICES ASSUME ~ Ended(c) PROVE opened[c] = Streams
    OBVIOUS
  <2>1. Len(streams[c]) >= Streams /\ opened[c] = Len(queue[c]) + Len(streams[c])
    BY <1>1 DEF MayEnd, Counted
  <2>2. Len(queue[c]) \in Nat /\ Len(streams[c]) \in Nat /\ opened[c] \in 0 .. Streams
    BY <1>1 DEF TypeOK
  <2>3. Len(streams[c]) <= opened[c]
    BY <2>1, <2>2, PartOfSum
  <2>4. Len(streams[c]) >= Streams
    BY <2>1
  <2> QED BY <2>2, <2>3, <2>4
<1>6. Counted(c)'
  BY <1>1, <1>3, <1>5 DEF Counted, Ended
<1> QED BY <1>2, <1>3, <1>4, <1>6, ControllerFrame

\* The state follows the frame.
LEMMA SetStep ==
  ASSUME AccInv, NEW c \in Clients, SetState(c)
  PROVE  AccInv'
<1> DEFINE now == IF ctl[c] = "toCreate" THEN "CreateStreams" ELSE "Running"
<1>1. /\ Running(c) /\ ctl[c] \in {"toCreate", "toRun"}
      /\ test' = [test EXCEPT ![c] = now]
      /\ ctl' = [ctl EXCEPT ![c] = "top"]
      /\ UNCHANGED <<at, inbound, backlog, latest, queue, streams, client, said, opened>>
  BY DEF SetState, Setting, loop, clients
<1>2. TypeOK /\ Abreast(c) /\ Counted(c) /\ test[c] \in InTest
  BY <1>1, InTestFacts
<1>3. Abreast(c)'
  BY <1>1, <1>2 DEF Abreast, Ended, Waiting, TypeOK, InTest
<1>4. Counted(c)'
  BY <1>1, <1>2 DEF Counted, Ended, TypeOK
<1>5. now \in InTest \cup {"over"}
  BY DEF InTest
<1> HIDE DEF now
<1> QED BY <1>1, <1>3, <1>4, <1>5, ControllerFrame

\* A socket becomes a data stream.
LEMMA AcceptStreamStep ==
  ASSUME AccInv, NEW c \in Clients, AcceptStream(c)
  PROVE  AccInv'
<1> USE AcceptorAssumption DEF AcceptorAssumption
<1> DEFINE q == queue[c]
           s == streams[c]
           next == IF Len(s) + 1 = Streams THEN "toRun" ELSE "top"
<1>1. /\ Running(c) /\ ctl[c] = "recv" /\ q # <<>>
      /\ queue' = [queue EXCEPT ![c] = Tail(q)]
      /\ streams' = [streams EXCEPT ![c] = Append(s, Head(q))]
      /\ ctl' = [ctl EXCEPT ![c] = next]
      /\ UNCHANGED <<at, inbound, backlog, latest, test, client, said, opened>>
  BY DEF AcceptStream, loop, clients
<1>2. /\ TypeOK /\ LatestOnly /\ StreamsAreOwn /\ NeverRefused /\ at # "down"
      /\ BacklogSane /\ InboundSane /\ \A d \in Clients : Abreast(d) /\ Counted(d)
  BY <1>1 DEF AccInv, Sane, LatestOnly
<1>3. /\ Head(q) \in Clients /\ Head(q) = q[1]
      /\ Tail(q) \in Seq(Clients) /\ Len(Tail(q)) = Len(q) - 1
      /\ \A k \in 1 .. Len(q) - 1 : Tail(q)[k] = q[k + 1]
      /\ Len(q) \in Nat \ {0}
  BY <1>1, <1>2, Tailed DEF TypeOK
<1>4. /\ Append(s, Head(q)) \in Seq(Clients) /\ Len(Append(s, Head(q))) = Len(s) + 1
      /\ \A k \in 1 .. Len(s) : Append(s, Head(q))[k] = s[k]
      /\ Append(s, Head(q))[Len(s) + 1] = Head(q)
      /\ Len(s) \in Nat
  BY <1>2, <1>3, Appended DEF TypeOK
<1>5. queue'[c] = Tail(q) /\ streams'[c] = Append(s, Head(q)) /\ ctl'[c] = next
  BY <1>1, <1>2 DEF TypeOK
<1>6. \A d \in Clients : d # c => queue'[d] = queue[d] /\ streams'[d] = streams[d]
                                   /\ ctl'[d] = ctl[d]
  BY <1>1, <1>2 DEF TypeOK
<1>7. next \in {"top", "toRun"} /\ (next = "toRun" => Len(s) + 1 >= Streams)
  OBVIOUS
<1>8. test[c] \in {"CreateStreams", "Running"}
  BY <1>1, <1>2 DEF Abreast, Running, InTest
<1> HIDE DEF q, s, next
<1>9. TypeOK'
  BY <1>1, <1>2, <1>3, <1>4, <1>7 DEF TypeOK
<1>10. StreamsAreOwn'
  <2>1. \A k \in 1 .. Len(q) : q[k] = c
    BY <1>2 DEF StreamsAreOwn, q
  <2>2. \A k \in 1 .. Len(s) : s[k] = c
    BY <1>2 DEF StreamsAreOwn, s
  <2>3. \A k \in 1 .. Len(Tail(q)) : Tail(q)[k] = c
    BY <1>3, <2>1
  <2>4. \A k \in 1 .. Len(s) + 1 : k \in 1 .. Len(s) \/ k = Len(s) + 1
    BY <1>4
  <2>5. Head(q) = c
    BY <1>3, <2>1
  <2>6. \A k \in 1 .. Len(s) + 1 : Append(s, Head(q))[k] = c
    BY <1>4, <2>2, <2>4, <2>5
  <2>7. ASSUME NEW d \in Clients
        PROVE  /\ \A k \in 1 .. Len(queue'[d]) : queue'[d][k] = d
               /\ \A k \in 1 .. Len(streams'[d]) : streams'[d][k] = d
    <3>1. CASE d = c
      BY <1>4, <1>5, <2>3, <2>6, <3>1
    <3>2. CASE d # c
      BY <1>2, <1>6, <3>2 DEF StreamsAreOwn
    <3> QED BY <3>1, <3>2
  <2> QED BY <2>7 DEF StreamsAreOwn
<1>11. LatestOnly' /\ NeverRefused'
  BY <1>1, <1>2 DEF LatestOnly, NeverRefused, Running
<1>12. BacklogSane' /\ InboundSane'
  BY <1>1, <1>2 DEF BacklogSane, InboundSane, Distinct, InBacklog, Unanswered, Ended
<1>13. ASSUME NEW d \in Clients PROVE Abreast(d)' /\ Counted(d)'
  <2>1. CASE d = c
    <3>1. Abreast(c)'
      BY <1>1, <1>2, <1>5, <1>7, <1>8 DEF Abreast, Ended, Waiting
    <3>2. Len(Tail(q)) + (Len(s) + 1) = Len(q) + Len(s)
      BY <1>3, <1>4
    <3>3. test[c] = "Running" => Len(s) + 1 >= Streams
      <4>1. test[c] = "Running" => Len(s) >= Streams
        BY <1>2 DEF Counted, s
      <4> QED BY <1>4, <4>1
    <3>4. Counted(c)'
      BY <1>1, <1>2, <1>4, <1>5, <1>7, <1>8, <3>2, <3>3 DEF Counted, Ended, q, s
    <3> QED BY <2>1, <3>1, <3>4
  <2>2. CASE d # c
    BY <1>1, <1>2, <1>6, <2>2 DEF Abreast, Counted, Ended
  <2> QED BY <2>1, <2>2
<1> QED BY <1>9, <1>10, <1>11, <1>12, <1>13 DEF AccInv, Sane

\* Nothing happens.
LEMMA StutterStep ==
  ASSUME AccInv, UNCHANGED vars
  PROVE  AccInv'
<1>1. UNCHANGED <<at, inbound, backlog, latest, test, ctl, queue, streams, client, said, opened>>
  BY DEF vars, loop, tests, clients
<1>2. TypeOK' /\ LatestOnly' /\ StreamsAreOwn' /\ NeverRefused'
  BY <1>1 DEF AccInv, TypeOK, LatestOnly, StreamsAreOwn, NeverRefused, Running
<1>3. at # "down" => BacklogSane' /\ InboundSane'
  BY <1>1
  DEF AccInv, Sane, BacklogSane, InboundSane, Distinct, InBacklog, Unanswered, Ended
<1>4. at # "down" => \A d \in Clients : Abreast(d)' /\ Counted(d)'
  BY <1>1 DEF AccInv, Sane, Abreast, Counted, Ended
<1> QED BY <1>1, <1>2, <1>3, <1>4 DEF AccInv, Sane

\* run_server and run_controller start with nobody connected.
LEMMA InitAccInv == Init => AccInv
<1> SUFFICES ASSUME Init PROVE AccInv
  OBVIOUS
<1> USE AcceptorAssumption DEF AcceptorAssumption
<1>1. TypeOK
  BY DEF Init, TypeOK
<1>2. LatestOnly /\ StreamsAreOwn /\ NeverRefused
  BY DEF Init, LatestOnly, StreamsAreOwn, NeverRefused, Running, InTest
<1>3. BacklogSane /\ InboundSane
  BY DEF Init, BacklogSane, InboundSane, Distinct, InBacklog
<1>4. ASSUME NEW c \in Clients PROVE Abreast(c) /\ Counted(c)
  BY DEF Init, Abreast, Counted, Ended, Waiting
<1> QED BY <1>1, <1>2, <1>3, <1>4 DEF AccInv, Sane

\* Every step of the server or of a client keeps AccInv.
LEMMA NextAccInv == AccInv /\ [Next]_vars => AccInv'
<1> SUFFICES ASSUME AccInv, [Next]_vars PROVE AccInv'
  OBVIOUS
<1>1. CASE Serve
  BY <1>1, AcceptStep, AdmitStep, RejectStep, FailStep, TrySendStep, GreetStep, CreateStep,
     GiveUpStep
  DEF Serve
<1>2. ASSUME NEW c \in Clients,
             Connect(c) \/ Dial(c) \/ Hello(c) \/ SendParameters(c) \/ Leave(c)
      PROVE  AccInv'
  BY <1>2, ConnectStep, DialStep, HelloStep, ParametersStep, LeaveStep
<1>3. ASSUME NEW c \in Clients, Controller(c) PROVE AccInv'
  <2>1. CASE Top(c)
    BY <2>1, TopStep
  <2>2. CASE FrameFails(c)
    <3>1. /\ Running(c) /\ Ended(c) /\ End(c)
          /\ UNCHANGED <<at, inbound, backlog, latest, ctl, queue, streams, client, said, opened>>
      BY <2>2 DEF FrameFails, loop, clients
    <3> QED BY <3>1, OverStep
  <2>3. CASE SetState(c)
    BY <2>3, SetStep
  <2>4. CASE AcceptStream(c)
    BY <2>4, AcceptStreamStep
  <2> QED BY <1>3, <2>1, <2>2, <2>3, <2>4 DEF Controller
<1>4. ASSUME NEW c \in Clients, EndTest(c) PROVE AccInv'
  BY <1>4, OverStep DEF EndTest, MayEnd, Running, InTest, loop, clients
<1>5. CASE AcceptFails
  BY <1>5, FailStep
<1>6. CASE UNCHANGED vars
  BY <1>6, StutterStep
<1> QED BY <1>1, <1>2, <1>3, <1>4, <1>5, <1>6 DEF Next

\* AccInv holds in every reachable state of the server and its clients.
THEOREM AcceptorInvariance == Spec => []AccInv
BY InitAccInv, NextAccInv, PTL DEF Spec

\* The accept loop, the controllers and the channels keep their types: no socket
\* gets into a queue that is not of this server's clients.
THEOREM AcceptorTypes == Spec => []TypeOK
<1>1. AccInv => TypeOK
  BY DEF AccInv
<1> QED BY <1>1, AcceptorInvariance, PTL

\* run_server never has two tests at once, although it gives up the reference
\* to one long before the next exists.
THEOREM NoConcurrentTests == Spec => []OneTestAtATime
<1>1. AccInv => OneTestAtATime
  BY DEF AccInv, LatestOnly, OneTestAtATime
<1> QED BY <1>1, AcceptorInvariance, PTL

\* The sockets in a controller's channel and map are its own client's.
THEOREM OwnStreams == Spec => []StreamsAreOwn
<1>1. AccInv => StreamsAreOwn
  BY DEF AccInv
<1> QED BY <1>1, AcceptorInvariance, PTL

\* create_test is never handed the data connection of a client that is there.
THEOREM ControlOnly == Spec => []DataNeverStartsTest
<1>1. AccInv => DataNeverStartsTest
  BY DEF AccInv, Sane, InboundSane, DataNeverStartsTest, Ended
<1> QED BY <1>1, AcceptorInvariance, PTL

\* No data connection of a client in a test is denied.
THEOREM DataWelcome == Spec => []NeverRefused
<1>1. AccInv => NeverRefused
  BY DEF AccInv
<1> QED BY <1>1, AcceptorInvariance, PTL

\* While the loop awaits a cookie, the mutex in its hand, no test goes on to Running.
NoneRuns == at = "cookie" => \A c \in Clients : test[c] # "Running"

\* Nobody but its controller takes a test on, and that needs the mutex.
LEMMA NoneRunsStep ==
  ASSUME AccInv, NoneRuns, [Next]_vars
  PROVE  NoneRuns'
<1> USE AcceptorAssumption DEF AcceptorAssumption
<1>1. LatestOnly /\ test \in [Clients -> InTest \cup {"none", "over"}]
  BY DEF AccInv, TypeOK
<1>2. ASSUME at' # "cookie" \/ (at' = at /\ test' = test)
      PROVE  NoneRuns'
  BY <1>2 DEF NoneRuns
<1>3. CASE Serve
  <2>1. CASE Accept
    <3>1. CASE at' = "cookie"
      <4>1. InFlight /\ WantsStreams /\ test' = test
        BY <2>1, <3>1 DEF Accept, tests
      <4>2. \A c \in Clients : test[c] = "Running" => c = latest
        BY <1>1 DEF LatestOnly, Running, InTest
      <4> QED
        BY <4>1, <4>2 DEF NoneRuns, WantsStreams
    <3> QED
      BY <3>1, <1>2
  <2>2. CASE \/ Admit \/ Reject \/ ServerFails \/ TrySendFails
             \/ Greet \/ CreateTest \/ GiveUp
    BY <2>2, <1>2
    DEF Admit, Reject, ServerFails, TrySendFails, Greet, CreateTest, GiveUp, Back, Down
  <2> QED
    BY <1>3, <2>1, <2>2 DEF Serve
<1>4. ASSUME NEW c \in Clients, Connect(c) \/ Dial(c) \/ Hello(c) \/ SendParameters(c) \/ Leave(c)
      PROVE  NoneRuns'
  BY <1>2, <1>4 DEF Connect, Dial, Open, Hello, SendParameters, Leave, loop, tests
<1>5. ASSUME NEW c \in Clients, Controller(c) \/ EndTest(c)
      PROVE  NoneRuns'
  <2>1. CASE SetState(c)
    <3>1. c = latest /\ at # "cookie" /\ at' = at
      BY <1>1, <2>1 DEF SetState, Unlocked, LatestOnly, loop
    <3> QED
      BY <3>1, <1>2
  <2>2. CASE Top(c) \/ AcceptStream(c)
    BY <2>2, <1>2 DEF Top, AcceptStream, loop
  <2>3. CASE FrameFails(c) \/ EndTest(c)
    <3>1. at' = at /\ test' = [test EXCEPT ![c] = "over"]
      BY <2>3 DEF FrameFails, EndTest, End, loop
    <3> QED
      BY <1>1, <3>1 DEF NoneRuns
  <2> QED
    BY <1>5, <2>1, <2>2, <2>3 DEF Controller
<1>6. CASE AcceptFails
  BY <1>2, <1>6 DEF AcceptFails, Down
<1>7. CASE UNCHANGED vars
  BY <1>2, <1>7 DEF vars, loop, tests
<1> QED
  BY <1>3, <1>4, <1>5, <1>6, <1>7 DEF Next

\* run_server ends where it awaits a cookie, and then no test is running, or
\* where an accept() fails: no `?` in its loop costs anybody a test under load.
THEOREM OnlyAcceptEnds == Spec => OnlyAcceptEndsLoad
<1>1. Init => NoneRuns
  BY DEF Init, NoneRuns
<1>2. AccInv /\ NoneRuns /\ [Next]_vars => NoneRuns'
  BY NoneRunsStep
<1>3. AccInv /\ NoneRuns /\ [Next]_vars
        => [at # "down" /\ at' = "down" /\ (\E c \in Clients : test[c] = "Running")
              => at = "accept" /\ \E k \in 1 .. Len(backlog) : Ended(backlog[k])]_vars
  <2> SUFFICES ASSUME AccInv, NoneRuns, Next, at # "down", at' = "down",
                      NEW c \in Clients, test[c] = "Running"
               PROVE  at = "accept" /\ \E k \in 1 .. Len(backlog) : Ended(backlog[k])
    OBVIOUS
  <2>1. ServerFails \/ TrySendFails \/ AcceptFails
    BY DEF Next, Serve, Accept, Admit, Reject, Greet, CreateTest, GiveUp, Back, Connect, Dial,
       Open, Hello, SendParameters, Leave, Controller, Top, FrameFails, SetState, AcceptStream,
       EndTest, loop
  <2>2. AcceptFails
    BY <2>1 DEF ServerFails, TrySendFails, NoneRuns
  <2>3. at = "accept" /\ backlog # <<>> /\ Ended(Head(backlog))
    BY <2>2 DEF AcceptFails
  <2>4. Head(backlog) = backlog[1] /\ Len(backlog) \in Nat \ {0}
    BY <2>3, Tailed DEF AccInv, TypeOK
  <2> QED BY <2>3, <2>4
<1> QED
  BY <1>1, <1>2, <1>3, AcceptorInvariance, PTL DEF Spec, OnlyAcceptEndsLoad

============================================================================
