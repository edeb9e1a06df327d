--------------------------- MODULE SessionStreams ---------------------------
(***************************************************************************)
(* What the workers of a session are told, what becomes of them and which  *)
(* results the server holds, for every direction and number of streams and *)
(* whoever crashes: three more invariants, on top of IndInv.               *)
(***************************************************************************)
EXTENDS SessionProofs

\* What a worker has been told.  StartLoad comes first, with the transition to
\* Running, which is the only one; Terminate comes in the exchange.
Silent(e, i) == \A k \in 1 .. Len(mail[e][i]) : mail[e][i][k] # "StartLoad"

StartsInv ==
  \A e \in Ends :
    /\ old_state[e] = "Running" => state[e] \notin Early
    /\ \A i \in Ids :
         /\ old_state[e] # "Running" => worker[e][i] \notin Loading /\ Silent(e, i)
         /\ old_state[e] # "Running" /\ state[e] # "ExchangeResults" => mail[e][i] = <<>>
         /\ worker[e][i] \in Loading => Silent(e, i)
         /\ \A k \in 2 .. Len(mail[e][i]) : mail[e][i][k] # "StartLoad"

\* Where the results of the server's streams are: a report on its way is that of
\* a finished worker, and in Running a stream that was removed has finished and
\* left its result.
Reports ==
  \A k \in 1 .. Len(queue["Server"]) :
    queue["Server"][k].kind = "StreamTerminated"
      => worker["Server"][queue["Server"][k].id] \in Finished

ResultsInv ==
  /\ Reports
  /\ state["Server"] \in Early => results["Server"] = {}
  /\ state["Server"] = "Running" /\ ~ Gone("Server") =>
       /\ \A i \in Ids \ streams["Server"] : worker["Server"][i] \in Finished
       /\ results["Server"] = {i \in Ids \ streams["Server"] : worker["Server"][i] = "ok"}
  /\ ServerResultsExact

\* No task outlives its process, and only a receiver drains its socket.
LivesInv ==
  \A e \in Ends, i \in Ids :
    /\ Down(e) => worker[e][i] \notin Tasks
    /\ worker[e][i] = "drain" => ~ IsSending(Par, e, i)

----------------------------------------------------------------------------
(* StartLoadOnce.                                                          *)

\* An end never goes back to a state before the load, or leaves the exchange.
LEMMA NeverBack ==
  ASSUME IndInv, [Next]_vars, NEW e \in Ends
  PROVE  /\ state[e] \notin Early => state'[e] \notin Early
         /\ state[e] = "ExchangeResults" => state'[e] = "ExchangeResults"
<1>1. [Lifecycle!LifeNext]_(Lifecycle!lifeVars)
  BY StepSimulation
<1>2. state[e] \in States
  BY DEF IndInv, TypeOK
<1>3. \A s \in States \ Early : Lifecycle!After(s) \notin Early
  BY DEF Lifecycle!After, States, Early
<1>4. Lifecycle!After("ExchangeResults") = "ExchangeResults"
  BY DEF Lifecycle!After
<1>5. e = "Client" \/ e = "Server"
  BY DEF Ends
<1> QED
  BY <1>1, <1>2, <1>3, <1>4, <1>5 DEF Lifecycle!LifeNext, Lifecycle!lifeVars, Lifecycle!Advance,
     Lifecycle!Follow, Lifecycle!ServerDone, Lifecycle!ClientDone, Lifecycle!Fail

\* Most steps tell the workers nothing and put none under load.
LEMMA NothingTold ==
  ASSUME IndInv, StartsInv, [Next]_vars, old_state' = old_state, mail' = mail,
         \A e \in Ends, i \in Ids : worker'[e][i] \in Loading => worker[e][i] \in Loading
  PROVE  StartsInv'
<1>1. \A e \in Ends : /\ state[e] \notin Early => state'[e] \notin Early
                      /\ state[e] = "ExchangeResults" => state'[e] = "ExchangeResults"
  BY NeverBack
<1>2. \A e \in Ends, i \in Ids : Silent(e, i)' <=> Silent(e, i)
  BY DEF Silent
<1> QED
  BY <1>1, <1>2 DEF StartsInv

\* A controller that looks at its state notes Running only in Running.
LEMMA StateNoted ==
  ASSUME IndInv, StartsInv, NEW e \in Ends, old_state' = [old_state EXCEPT ![e] = state[e]],
         old_state[e] = "Running" => state[e] = "Running",
         state[e] = "Running" => old_state[e] = "Running",
         UNCHANGED <<state, mail, worker>>
  PROVE  StartsInv'
<1>1. \A f \in Ends : old_state'[f] = "Running" <=> old_state[f] = "Running"
  BY DEF IndInv, TypeOK
<1>2. \A f \in Ends, i \in Ids : Silent(f, i)' <=> Silent(f, i)
  BY DEF Silent
<1> QED
  BY <1>1, <1>2 DEF StartsInv

\* The transition to Running finds every mailbox empty and no worker under load.
LEMMA LoadStarted ==
  ASSUME IndInv, StartsInv, NEW e \in Ends, StartLoad(e), IndInv'
  PROVE  StartsInv'
<1>1. /\ state[e] = "Running" /\ state' = state /\ old_state[e] # "Running" /\ worker' = worker
      /\ old_state' = [old_state EXCEPT ![e] = "Running"]
  BY DEF StartLoad, Transition
<1>2. \A i \in Ids : mail[e][i] = <<>> /\ worker[e][i] \notin Loading
  BY <1>1 DEF StartsInv
<1>3. \A i \in Ids : Len(mail'[e][i]) <= 1
  <2> SUFFICES ASSUME NEW i \in Ids
               PROVE  Len(mail'[e][i]) <= 1
    OBVIOUS
  <2>1. mail'[e][i] = mail[e][i] \/ mail'[e][i] = Append(mail[e][i], "StartLoad")
    BY DEF StartLoad, Broadcast, IndInv, TypeOK
  <2>2. Len(<<>>) <= 1 /\ Len(Append(<<>>, "StartLoad")) <= 1
    OBVIOUS
  <2>3. mail[e][i] = <<>>
    BY <1>2
  <2> QED
    BY <2>1, <2>2, <2>3
<1>4. \A f \in Ends : f # e => mail'[f] = mail[f] /\ old_state'[f] = old_state[f]
  BY <1>1 DEF StartLoad, Broadcast, IndInv, TypeOK
<1>5. old_state'[e] = "Running" /\ state'[e] \notin Early
  BY <1>1 DEF IndInv, TypeOK, Early
<1> SUFFICES ASSUME NEW f \in Ends
             PROVE  (/\ old_state[f] = "Running" => state[f] \notin Early
                     /\ \A i \in Ids :
                          /\ old_state[f] # "Running" => worker[f][i] \notin Loading /\ Silent(f, i)
                          /\ old_state[f] # "Running" /\ state[f] # "ExchangeResults" => mail[f][i] = <<>>
                          /\ worker[f][i] \in Loading => Silent(f, i)
                          /\ \A k \in 2 .. Len(mail[f][i]) : mail[f][i][k] # "StartLoad")'
  BY DEF StartsInv
<1>6. CASE f = e
  <2>1. \A i \in Ids : worker'[e][i] \notin Loading
    BY <1>1, <1>2
  <2>2. \A i \in Ids : Len(mail'[e][i]) \in Int
    <3>1. \A i \in Ids : mail'[e][i] \in Seq({"StartLoad", "Terminate"})
      BY DEF IndInv, TypeOK
    <3> QED
      BY <3>1
  <2>3. \A i \in Ids : 2 .. Len(mail'[e][i]) = {}
    BY <1>3, <2>2
  <2> QED
    BY <1>5, <1>6, <2>1, <2>3
<1>7. CASE f # e
  <2>1. mail'[f] = mail[f] /\ old_state'[f] = old_state[f] /\ state'[f] = state[f] /\ worker'[f] = worker[f]
    BY <1>1, <1>4, <1>7
  <2>2. \A i \in Ids : Silent(f, i)' <=> Silent(f, i)
    BY <2>1 DEF Silent
  <2> QED
    BY <2>1, <2>2 DEF StartsInv
<1> QED
  BY <1>6, <1>7

\* A Terminate in a mailbox, behind what is there, is no StartLoad.
LEMMA ToldToStop ==
  ASSUME IndInv, StartsInv, NEW e \in Ends, Finalise(e)
  PROVE  StartsInv'
<1>1. /\ state[e] = "ExchangeResults" /\ UNCHANGED <<state, old_state, worker>>
  BY DEF Finalise
<1>2. mail \in [Ends -> [Ids -> Seq({"StartLoad", "Terminate"})]]
  BY DEF IndInv, TypeOK
<1>3. \A f \in Ends, i \in Ids : mail'[f][i] = mail[f][i]
                                 \/ (f = e /\ mail'[f][i] = Append(mail[f][i], "Terminate"))
  BY <1>2 DEF Finalise, Broadcast
<1>4. \A f \in Ends, i \in Ids, k \in Nat \ {0} :
        k \in 1 .. Len(mail'[f][i]) =>
          mail'[f][i][k] = "Terminate" \/ (k \in 1 .. Len(mail[f][i]) /\ mail'[f][i][k] = mail[f][i][k])
  <2> SUFFICES ASSUME NEW f \in Ends, NEW i \in Ids, NEW k \in Nat \ {0}, k \in 1 .. Len(mail'[f][i])
               PROVE  mail'[f][i][k] = "Terminate"
                        \/ (k \in 1 .. Len(mail[f][i]) /\ mail'[f][i][k] = mail[f][i][k])
    OBVIOUS
  <2>1. mail[f][i] \in Seq({"StartLoad", "Terminate"})
    BY <1>2
  <2> DEFINE m == mail[f][i]
  <2>2. CASE mail'[f][i] = Append(m, "Terminate")
    <3>1. m \in Seq({"StartLoad", "Terminate"}) /\ k \in 1 .. Len(Append(m, "Terminate"))
      BY <2>1, <2>2
    <3>2. Append(m, "Terminate")[k] = "Terminate" \/ (k \in 1 .. Len(m) /\ Append(m, "Terminate")[k] = m[k])
      <4> HIDE DEF m
      <4> QED
        BY <3>1
    <3> QED
      BY <2>2, <3>2
  <2> QED
    BY <1>3, <2>2
<1>5. \A f \in Ends, i \in Ids : Silent(f, i) => Silent(f, i)'
  BY <1>4 DEF Silent
<1>6. \A f \in Ends, i \in Ids :
        (\A k \in 2 .. Len(mail[f][i]) : mail[f][i][k] # "StartLoad")
          => \A k \in 2 .. Len(mail'[f][i]) : mail'[f][i][k] # "StartLoad"
  <2> SUFFICES ASSUME NEW f \in Ends, NEW i \in Ids,
                      \A k \in 2 .. Len(mail[f][i]) : mail[f][i][k] # "StartLoad",
                      NEW k \in 2 .. Len(mail'[f][i])
               PROVE  mail'[f][i][k] # "StartLoad"
    OBVIOUS
  <2>1. k \in Nat \ {0} /\ k \in 1 .. Len(mail'[f][i]) /\ k >= 2
    OBVIOUS
  <2>2. CASE k \in 1 .. Len(mail[f][i]) /\ mail'[f][i][k] = mail[f][i][k]
    BY <2>1, <2>2
  <2> QED
    BY <1>4, <2>1, <2>2
<1>7. \A f \in Ends : f # e => mail'[f] = mail[f]
  BY <1>2 DEF Finalise, Broadcast
<1> QED
  BY <1>1, <1>5, <1>6, <1>7 DEF StartsInv

\* A worker that ends, or drains, has its mailbox emptied.
LEMMA MailDropped ==
  ASSUME IndInv, StartsInv, NEW e \in Ends, NEW i \in Ids,
         UNCHANGED <<state, old_state>>, mail' = [mail EXCEPT ![e][i] = <<>>],
         \A f \in Ends, j \in Ids : worker'[f][j] \in Loading => worker[f][j] \in Loading
  PROVE  StartsInv'
<1>1. \A f \in Ends, j \in Ids : mail'[f][j] = mail[f][j] \/ mail'[f][j] = <<>>
  BY DEF IndInv, TypeOK
<1>2. 1 .. Len(<<>>) = {} /\ 2 .. Len(<<>>) = {}
  OBVIOUS
<1>3. \A f \in Ends, j \in Ids : Silent(f, j) => Silent(f, j)'
  BY <1>1, <1>2 DEF Silent
<1>4. \A f \in Ends, j \in Ids :
        (\A k \in 2 .. Len(mail[f][j]) : mail[f][j][k] # "StartLoad")
          => \A k \in 2 .. Len(mail'[f][j]) : mail'[f][j][k] # "StartLoad"
  BY <1>1, <1>2
<1> QED
  BY <1>1, <1>3, <1>4 DEF StartsInv

\* A worker that takes its StartLoad leaves none behind it.
LEMMA StartTaken ==
  ASSUME IndInv, StartsInv, NEW e \in Ends, NEW i \in Ids, WorkerStart(e, i)
  PROVE  StartsInv'
<1>1. /\ UNCHANGED <<state, old_state>>
      /\ mail[e][i] # <<>> /\ Head(mail[e][i]) = "StartLoad"
      /\ mail[e][i] \in Seq({"StartLoad", "Terminate"})
      /\ worker' = [worker EXCEPT ![e][i] = "load"]
      /\ mail' = [mail EXCEPT ![e][i] = Tail(mail[e][i])]
  BY DEF WorkerStart, outside, IndInv, TypeOK
<1>2. mail[e][i][1] = "StartLoad" /\ 1 \in 1 .. Len(mail[e][i])
  BY <1>1
<1>3. old_state[e] = "Running"
  BY <1>2 DEF StartsInv, Silent
<1>4. \A k \in 1 .. Len(mail'[e][i]) : mail'[e][i][k] # "StartLoad"
  <2>1. mail'[e][i] = Tail(mail[e][i])
    BY <1>1 DEF IndInv, TypeOK
  <2>2. \A k \in 2 .. Len(mail[e][i]) : mail[e][i][k] # "StartLoad"
    BY DEF StartsInv
  <2>3. /\ Len(Tail(mail[e][i])) = Len(mail[e][i]) - 1 /\ Len(mail[e][i]) \in Nat
        /\ \A k \in 1 .. Len(mail[e][i]) - 1 : Tail(mail[e][i])[k] = mail[e][i][k + 1]
    BY <1>1
  <2> SUFFICES ASSUME NEW k \in 1 .. Len(mail'[e][i])
               PROVE  mail'[e][i][k] # "StartLoad"
    OBVIOUS
  <2>4. k + 1 \in 2 .. Len(mail[e][i]) /\ mail'[e][i][k] = mail[e][i][k + 1]
    BY <2>1, <2>3
  <2> QED
    BY <2>2, <2>4
<1>5. \A f \in Ends, j \in Ids : (f # e \/ j # i) =>
        mail'[f][j] = mail[f][j] /\ worker'[f][j] = worker[f][j]
  BY <1>1 DEF IndInv, TypeOK
<1>6. \A f \in Ends, j \in Ids : (f # e \/ j # i) => (Silent(f, j)' <=> Silent(f, j))
  BY <1>5 DEF Silent
<1>7. Silent(e, i)' /\ \A k \in 2 .. Len(mail'[e][i]) : mail'[e][i][k] # "StartLoad"
  BY <1>4 DEF Silent
<1> QED
  BY <1>1, <1>3, <1>5, <1>6, <1>7 DEF StartsInv

\* A process that ends or a controller that returns puts no worker under load.
LEMMA NoneLoaded ==
  ASSUME IndInv, NEW e \in Ends, NEW how, Leave(e, how)
  PROVE  \A f \in Ends, i \in Ids : worker'[f][i] \in Loading => worker[f][i] \in Loading
BY DEF Leave, Cut, Loading, IndInv, TypeOK

\* Nor does a worker that is made.
LEMMA NoneMadeLoaded ==
  ASSUME IndInv, NEW e \in Ends, NEW n, Register(e, n)
  PROVE  \A f \in Ends, i \in Ids : worker'[f][i] \in Loading => worker[f][i] \in Loading
BY DEF Register, Loading, IndInv, TypeOK

\* Every step keeps it.
LEMMA StartsStep ==
  ASSUME IndInv, StartsInv, [Next]_vars
  PROVE  StartsInv'
<1>1. ASSUME old_state' = old_state, mail' = mail, worker' = worker
      PROVE  StartsInv'
  BY <1>1, NothingTold
<1>2. ASSUME old_state' = old_state, mail' = mail, NEW e \in Ends, NEW how, Leave(e, how)
      PROVE  StartsInv'
  BY <1>2, NoneLoaded, NothingTold
<1>3. ASSUME old_state' = old_state, mail' = mail, NEW e \in Ends, NEW n, Register(e, n)
      PROVE  StartsInv'
  BY <1>3, NoneMadeLoaded, NothingTold
<1>4. ASSUME NEW e \in Ends, Control(e)
      PROVE  StartsInv'
  <2>1. CASE Wait(e)
    <3>1. /\ old_state' = [old_state EXCEPT ![e] = state[e]] /\ UNCHANGED <<state, mail, worker>>
          /\ state[e] = "Running" => old_state[e] = "Running"
          /\ state[e] # "ExchangeResults"
      BY <2>1 DEF Wait
    <3>2. old_state[e] = "Running" => state[e] = "Running"
      BY <3>1 DEF StartsInv, IndInv, TypeOK, States, Early
    <3> QED
      BY <3>1, <3>2, StateNoted
  <2>2. CASE StartLoad(e)
    BY <2>2, LoadStarted, NextInv
  <2>3. CASE Finalise(e)
    BY <2>3, ToldToStop
  <2>4. CASE RecvTerminated(e)
    BY <2>4, <1>1 DEF RecvTerminated
  <2>5. CASE \E i \in Ids : CollectJoin(e, i) \/ CollectTimeout(e, i)
    BY <2>5, <1>1 DEF CollectJoin, CollectTimeout
  <2>6. CASE CollectDone(e)
    BY <2>6, <1>1, <1>2 DEF CollectDone
  <2> QED
    BY <1>4, <2>1, <2>2, <2>3, <2>4, <2>5, <2>6 DEF Control
<1>5. CASE ServerControl
  <2>1. CASE ServerStart
    BY <2>1, <1>1 DEF ServerStart
  <2>2. CASE ServerStartFails \/ SrvReadFails \/ SrvExchange
    BY <2>2, <1>2 DEF ServerStartFails, SrvReadFails, SrvExchange, Ends
  <2>3. CASE RecvCreate
    BY <2>3, <1>2, <1>3 DEF RecvCreate, Ends
  <2> QED
    BY <1>5, <2>1, <2>2, <2>3 DEF ServerControl
<1>6. CASE ClientControl
  <2>1. CASE CreateStreams
    <3>1. /\ old_state' = [old_state EXCEPT !["Client"] = state["Client"]]
          /\ UNCHANGED <<state, mail, worker>> /\ state["Client"] = "CreateStreams"
      BY <2>1 DEF CreateStreams
    <3>2. "Client" \in Ends /\ old_state["Client"] # "Running"
      BY <3>1 DEF StartsInv, Early, Ends
    <3> QED
      BY <3>1, <3>2, StateNoted
  <2>2. CASE CliConnect \/ CliHello \/ CliReadFrame
    BY <2>2, <1>1 DEF CliConnect, CliHello, CliReadFrame
  <2>3. CASE CliWelcome
    BY <2>3, <1>3 DEF CliWelcome, Ends
  <2>4. CASE CliDialFails \/ CliReadFails \/ CliExchange
    BY <2>4, <1>2 DEF CliDialFails, CliReadFails, CliExchange, Ends
  <2> QED
    BY <1>6, <2>1, <2>2, <2>3, <2>4 DEF ClientControl
<1>7. CASE Acceptor
  BY <1>7, <1>1, <1>2 DEF Acceptor, AccAccept, AccAdmit, AccFail, Ends
<1>8. CASE CliReadPart \/ CliReadsGarbage
  BY <1>8, <1>1, <1>2 DEF CliReadPart, CliReadsGarbage, Ends
<1>9. ASSUME NEW e \in Ends, Crash(e)
      PROVE  StartsInv'
  BY <1>9, <1>2 DEF Crash
<1>10. ASSUME NEW e \in Ends, NEW i \in Ids, Work(e, i)
       PROVE  StartsInv'
  <2>1. CASE WorkerStart(e, i)
    BY <2>1, StartTaken
  <2>2. CASE ~ WorkerStart(e, i)
    <3>1. /\ UNCHANGED <<state, old_state>> /\ mail' = [mail EXCEPT ![e][i] = <<>>]
          /\ \/ \E how \in Finished : worker' = [worker EXCEPT ![e][i] = how]
             \/ worker[e][i] = "load" /\ worker' = [worker EXCEPT ![e][i] = "drain"]
      BY <1>10, <2>2 DEF Work, WorkerBail, WorkerStop, WorkerDrained, WorkerError, Finish,
         outside, Finished
    <3>2. \A f \in Ends, j \in Ids : worker'[f][j] \in Loading => worker[f][j] \in Loading
      <4>1. worker \in [Ends -> [Ids -> WorkerStates]]
        BY DEF IndInv, TypeOK
      <4> QED
        BY <3>1, <4>1 DEF Loading, Finished
    <3> QED
      BY <3>1, <3>2, MailDropped
  <2> QED
    BY <2>1, <2>2
<1>11. CASE Terminating \/ UNCHANGED vars
  BY <1>11, <1>1 DEF Terminating, vars
<1> QED
  BY <1>4, <1>5, <1>6, <1>7, <1>8, <1>9, <1>10, <1>11 DEF Next

\* What the workers are told, in every reachable state.
LEMMA StartsInvariance == Spec => []StartsInv
<1>1. Init => StartsInv
  <2> SUFFICES ASSUME Init
               PROVE  StartsInv
    OBVIOUS
  <2>1. 1 .. Len(<<>>) = {} /\ 2 .. Len(<<>>) = {}
    OBVIOUS
  <2>2. \A e \in Ends : /\ old_state[e] = "TestStart"
                        /\ \A i \in Ids : mail[e][i] = <<>> /\ worker[e][i] = "absent"
    BY DEF Init
  <2>3. \A e \in Ends, i \in Ids : Silent(e, i) /\ worker[e][i] \notin Loading
    BY <2>1, <2>2 DEF Silent, Loading
  <2> QED
    BY <2>1, <2>2, <2>3 DEF StartsInv
<1>2. IndInv /\ StartsInv /\ [Next]_vars => StartsInv'
  BY StartsStep
<1> QED
  BY <1>1, <1>2, Invariance, PTL DEF Spec

\* Controllers come back to the state Running with every message they handle,
\* but old_state lets only the transition start the load: no worker under load
\* ever finds another StartLoad in its channel.
THEOREM StartsOnce == Spec => []StartLoadOnce
<1>1. StartsInv => StartLoadOnce
  BY DEF StartsInv, StartLoadOnce, Silent
<1> QED
  BY <1>1, StartsInvariance, PTL

----------------------------------------------------------------------------
(* ServerResultsExact.                                                     *)

Settled == Finished \cup {"gone"}

\* A controller that returns leaves the workers that have ended as they are.
LEMMA SettledWhenLeft ==
  ASSUME IndInv, NEW e \in Ends, NEW how, Leave(e, how)
  PROVE  \A f \in Ends, i \in Ids : worker[f][i] \in Settled => worker'[f][i] = worker[f][i]
<1>1. worker \in [Ends -> [Ids -> WorkerStates]] /\ Settled \cap Tasks = {}
  BY DEF IndInv, TypeOK, Settled, Finished, Tasks, Loading
<1> QED
  BY <1>1 DEF Leave, Cut

\* A stream gets an id that no worker had.
LEMMA SettledWhenRegistered ==
  ASSUME IndInv, NEW e \in Ends, NEW n \in Ids, worker[e][n] = "absent", Register(e, n)
  PROVE  \A f \in Ends, i \in Ids : worker[f][i] \in Settled => worker'[f][i] = worker[f][i]
<1>1. worker \in [Ends -> [Ids -> WorkerStates]] /\ "absent" \notin Settled
  BY DEF IndInv, TypeOK, Settled, Finished
<1> QED
  BY <1>1 DEF Register

\* The id of the stream that an end is about to register: the next one.
LEMMA NextId ==
  ASSUME IndInv, NEW e \in Ends, state[e] \in Early, ~ Gone(e),
         Cardinality(streams[e]) \in Ids
  PROVE  worker[e][Cardinality(streams[e])] = "absent"
<1>1. Cardinality(streams[e]) = (IF e = "Client" THEN Dialled ELSE Registered)
  BY EarlyCounts DEF Ends
<1>2. Dialled \in Nat /\ Registered \in Nat
  BY NeededIsNat DEF IndInv, Numbered
<1>3. Cardinality(streams[e]) \notin Made(e)
  BY <1>1, <1>2 DEF IndInv, Numbered, Ends
<1> QED
  BY <1>3 DEF Made

\* The server registers in CreateStreams, before it has all its streams.
LEMMA ServerNextId ==
  ASSUME IndInv, RecvCreate
  PROVE  /\ state["Server"] = "CreateStreams" /\ ~ Gone("Server")
         /\ Cardinality(streams["Server"]) = Registered /\ Registered \in Ids
         /\ worker["Server"][Registered] = "absent"
<1>1. /\ pc["Server"] = "recv" /\ queue["Server"] # <<>>
      /\ Head(queue["Server"]).kind = "CreateStream"
      /\ queue["Server"] \in Seq(Messages) /\ state["Server"] \in States
  BY DEF RecvCreate, IndInv, TypeOK, Ends
<1>2. 1 \in 1 .. Len(queue["Server"]) /\ Head(queue["Server"]) = queue["Server"][1]
      /\ Len(queue["Server"]) >= 1
  BY <1>1
<1>3. state["Server"] = "CreateStreams" /\ ~ Gone("Server")
  BY <1>1, <1>2 DEF IndInv, ServerRegisters, Whereabouts, Early, States, Gone, Returned
<1>4. Cardinality(streams["Server"]) = Registered
  BY <1>3, EarlyCounts DEF Ends, Early
<1>5. Registered \in Ids
  <2>1. Registered + Len(queue["Server"]) = Dialled + Welcomed
    BY <1>3 DEF IndInv, ServerRegisters, Early
  <2>2. Dialled + Welcomed <= N
    <3>1. Dialled \in 0 .. N /\ (dial # "idle" => Dialled < N)
      BY DEF IndInv, Numbered
    <3> QED
      BY <3>1, NeededIsNat DEF Welcomed
  <2>3. Registered \in 0 .. N /\ Dialled \in 0 .. N /\ Welcomed \in 0 .. 1 /\ N \in Nat
    BY NeededIsNat DEF IndInv, Numbered, Welcomed
  <2>4. Len(queue["Server"]) \in Nat
    BY <1>1
  <2>5. Registered < N
    BY <1>2, <2>1, <2>2, <2>3, <2>4
  <2> QED
    BY <2>3, <2>5 DEF Ids, N
<1>6. worker["Server"][Registered] = "absent"
  BY <1>3, <1>4, <1>5, NextId DEF Ends, Early
<1> QED
  BY <1>3, <1>4, <1>5, <1>6

\* And the client while it dials.
LEMMA ClientNextId ==
  ASSUME IndInv, CliWelcome
  PROVE  /\ ~ Gone("Client") /\ Cardinality(streams["Client"]) \in Ids
         /\ worker["Client"][Cardinality(streams["Client"])] = "absent"
<1>1. pc["Client"] = "dial" /\ dial = "welcome"
  BY DEF CliWelcome
<1>2. state["Client"] \in Early /\ ~ Gone("Client") /\ Dialled < N
  BY <1>1 DEF IndInv, ClientOpens, Early, Gone, Returned
<1>3. Cardinality(streams["Client"]) = Dialled
  BY <1>2, EarlyCounts DEF Ends
<1>4. Dialled \in Ids
  BY <1>2, NeededIsNat DEF IndInv, Numbered, Ids, N
<1> QED
  BY <1>2, <1>3, <1>4, NextId DEF Ends

\* What each step of run_worker does to the worker,
LEMMA WorkMoves ==
  ASSUME NEW e \in Ends, NEW i \in Ids, Work(e, i)
  PROVE  /\ worker[e][i] \in Tasks
         /\ \E w \in Loading \cup Finished : worker' = [worker EXCEPT ![e][i] = w]
         /\ UNCHANGED <<state, pc, streams, results, conn>>
BY DEF Work, WorkerStart, WorkerBail, WorkerStop, WorkerDrained, WorkerError, Finish,
   outside, dialling, Tasks, Loading, Finished

\* and to the controller's channel: only a worker that has ended reports.
LEMMA WorkReports ==
  ASSUME NEW e \in Ends, NEW i \in Ids, Work(e, i)
  PROVE  \/ queue' = queue
         \/ /\ \E how \in Finished : worker' = [worker EXCEPT ![e][i] = how]
            /\ queue' = [queue EXCEPT ![e] = Append(@, [kind |-> "StreamTerminated", id |-> i])]
BY DEF Work, WorkerStart, WorkerBail, WorkerStop, WorkerDrained, WorkerError, Finish, Finished

\* A worker that has ended stays as it is.
LEMMA SettledStays ==
  ASSUME IndInv, [Next]_vars
  PROVE  \A f \in Ends, i \in Ids : worker[f][i] \in Settled => worker'[f][i] = worker[f][i]
<1> DEFINE Goal == \A f \in Ends, i \in Ids : worker[f][i] \in Settled => worker'[f][i] = worker[f][i]
<1> SUFFICES Goal
  OBVIOUS
<1>1. ASSUME worker' = worker
      PROVE  Goal
  BY <1>1
<1>2. ASSUME NEW e \in Ends, NEW how, Leave(e, how)
      PROVE  Goal
  BY <1>2, SettledWhenLeft
<1> HIDE DEF Goal
<1>3. ASSUME NEW e \in Ends, Control(e)
      PROVE  Goal
  BY <1>3, <1>1, <1>2 DEF Control, Wait, StartLoad, Finalise, RecvTerminated, CollectJoin,
     CollectTimeout, CollectDone
<1>4. CASE ServerControl
  <2>1. CASE RecvCreate
    <3>1. Register("Server", Registered) \/ Leave("Server", "aborted")
      BY <2>1, ServerNextId DEF RecvCreate
    <3> QED
      BY <2>1, <3>1, <1>2, ServerNextId, SettledWhenRegistered DEF Ends, Goal
  <2>2. CASE ServerStart
    BY <2>2, <1>1 DEF ServerStart
  <2>3. CASE ServerStartFails \/ SrvExchange \/ SrvReadFails
    BY <2>3, <1>2 DEF ServerStartFails, SrvExchange, SrvReadFails, Ends
  <2> QED
    BY <1>4, <2>1, <2>2, <2>3 DEF ServerControl
<1>5. CASE ClientControl
  <2>1. CASE CliWelcome
    BY <2>1, ClientNextId, SettledWhenRegistered DEF CliWelcome, Ends, Goal
  <2>2. CASE CreateStreams \/ CliConnect \/ CliHello \/ CliReadFrame
    BY <2>2, <1>1 DEF CreateStreams, CliConnect, CliHello, CliReadFrame
  <2>3. CASE CliDialFails \/ CliReadFails \/ CliExchange
    BY <2>3, <1>2 DEF CliDialFails, CliReadFails, CliExchange, Ends
  <2> QED
    BY <1>5, <2>1, <2>2, <2>3 DEF ClientControl
<1>6. CASE Acceptor
  BY <1>6, <1>1, <1>2 DEF Acceptor, AccAccept, AccAdmit, AccFail, Ends
<1>7. CASE CliReadPart \/ CliReadsGarbage
  BY <1>7, <1>1, <1>2 DEF CliReadPart, CliReadsGarbage, Ends
<1>8. ASSUME NEW e \in Ends, Crash(e)
      PROVE  Goal
  BY <1>8, <1>2 DEF Crash
<1>9. ASSUME NEW e \in Ends, NEW i \in Ids, Work(e, i)
      PROVE  Goal
  <2>1. \E w \in Loading \cup Finished : worker' = [worker EXCEPT ![e][i] = w]
    BY <1>9, WorkMoves
  <2>2. worker[e][i] \notin Settled
    BY <1>9, WorkMoves DEF Settled, Finished, Tasks, Loading
  <2>3. worker \in [Ends -> [Ids -> WorkerStates]]
    BY DEF IndInv, TypeOK
  <2> QED
    BY <2>1, <2>2, <2>3, SMT DEF Goal
<1>10. CASE Terminating \/ UNCHANGED vars
  BY <1>10, <1>1 DEF Terminating, vars
<1> QED
  BY <1>3, <1>4, <1>5, <1>6, <1>7, <1>8, <1>9, <1>10 DEF Next

\* The reports in a queue of which the first message was taken, or none, or to
\* which one was added that is true, are true.
LEMMA ReportsTrue ==
  ASSUME IndInv, Reports,
         \A i \in Ids : worker["Server"][i] \in Finished => worker'["Server"][i] \in Finished,
         \/ queue'["Server"] \in {queue["Server"], <<>>}
         \/ queue["Server"] # <<>> /\ queue'["Server"] = Tail(queue["Server"])
         \/ \E m \in Messages : /\ queue'["Server"] = Append(queue["Server"], m)
                                /\ m.kind = "StreamTerminated" => worker'["Server"][m.id] \in Finished
  PROVE  Reports'
<1> DEFINE q == queue["Server"]
           Good(m) == m.kind = "StreamTerminated" => worker'["Server"][m.id] \in Finished
<1>1. q \in Seq(Messages) /\ \A m \in Messages : m.id \in Ids
  BY DEF IndInv, TypeOK, Ends, Messages
<1>2. \A k \in 1 .. Len(q) : q[k] \in Messages
  BY <1>1
<1>3. \A k \in 1 .. Len(q) : Good(q[k])
  BY <1>1, <1>2 DEF Reports
<1> SUFFICES ASSUME NEW k \in 1 .. Len(queue'["Server"])
             PROVE  Good(queue'["Server"][k])
  BY DEF Reports
<1> HIDE DEF Good
<1>4. CASE queue'["Server"] = q
  BY <1>3, <1>4
<1>5. CASE queue'["Server"] = <<>>
  <2>1. 1 .. Len(<<>>) = {}
    OBVIOUS
  <2> QED
    BY <1>5, <2>1
<1>6. CASE q # <<>> /\ queue'["Server"] = Tail(q)
  <2>1. Len(q) \in Nat /\ Len(Tail(q)) = Len(q) - 1
        /\ \A j \in 1 .. Len(q) - 1 : Tail(q)[j] = q[j + 1]
    <3> HIDE DEF q
    <3> QED
      BY <1>1, <1>6
  <2>2. k + 1 \in 1 .. Len(q) /\ queue'["Server"][k] = q[k + 1]
    BY <1>6, <2>1
  <2> QED
    BY <1>3, <2>2
<1>7. CASE \E m \in Messages : queue'["Server"] = Append(q, m) /\ Good(m)
  <2>1. PICK m \in Messages : queue'["Server"] = Append(q, m) /\ Good(m)
    BY <1>7
  <2>2. k \in 1 .. Len(Append(q, m))
    BY <2>1
  <2>3. Append(q, m)[k] = m \/ (k \in 1 .. Len(q) /\ Append(q, m)[k] = q[k])
    <3> HIDE DEF q
    <3> QED
      BY <1>1, <2>2
  <2> QED
    BY <1>3, <2>1, <2>3
<1>8. \/ queue'["Server"] \in {q, <<>>}
      \/ q # <<>> /\ queue'["Server"] = Tail(q)
      \/ \E m \in Messages : queue'["Server"] = Append(q, m) /\ Good(m)
  BY DEF Good
<1> QED
  BY <1>4, <1>5, <1>6, <1>7, <1>8

\* A report stays true: workers that have ended stay so, and only they report.
LEMMA ReportsStep ==
  ASSUME IndInv, Reports, [Next]_vars
  PROVE  Reports'
<1> DEFINE q == queue["Server"]
           r == queue'["Server"]
<1>1. \A i \in Ids : worker["Server"][i] \in Finished => worker'["Server"][i] \in Finished
  BY SettledStays DEF Settled, Ends
<1>2. queue \in [Ends -> Seq(Messages)]
  BY DEF IndInv, TypeOK
<1>3. ASSUME r = q \/ r = <<>> \/ (q # <<>> /\ r = Tail(q))
      PROVE  Reports'
  BY <1>1, <1>3, ReportsTrue
<1>4. ASSUME NEW e \in Ends, NEW how, Leave(e, how)
      PROVE  Reports'
  BY <1>2, <1>3, <1>4 DEF Leave
<1>5. ASSUME queue' = queue
      PROVE  Reports'
  BY <1>3, <1>5
<1>6. ASSUME NEW e \in Ends, Control(e)
      PROVE  Reports'
  <2>1. CASE RecvTerminated(e)
    <3>1. queue[e] # <<>> /\ queue' = [queue EXCEPT ![e] = Tail(@)]
      BY <2>1 DEF RecvTerminated
    <3> QED
      BY <1>2, <1>3, <3>1
  <2>2. CASE ~ RecvTerminated(e)
    BY <1>4, <1>5, <1>6, <2>2 DEF Control, Wait, StartLoad, Finalise, CollectJoin,
       CollectTimeout, CollectDone
  <2> QED
    BY <2>1, <2>2
<1>7. CASE ServerControl
  <2>1. CASE RecvCreate
    <3>1. queue["Server"] # <<>>
          /\ (queue' = [queue EXCEPT !["Server"] = Tail(@)] \/ Leave("Server", "aborted"))
      BY <2>1 DEF RecvCreate
    <3> QED
      BY <1>2, <1>3, <1>4, <3>1 DEF Ends
  <2>2. CASE ServerStart
    BY <2>2, <1>5 DEF ServerStart
  <2>3. CASE ServerStartFails \/ SrvExchange \/ SrvReadFails
    BY <2>3, <1>4 DEF ServerStartFails, SrvExchange, SrvReadFails, Ends
  <2> QED
    BY <1>7, <2>1, <2>2, <2>3 DEF ServerControl
<1>8. CASE ClientControl
  <2>1. CASE CreateStreams \/ CliConnect \/ CliHello \/ CliReadFrame \/ CliWelcome
    BY <2>1, <1>5 DEF CreateStreams, CliConnect, CliHello, CliReadFrame, CliWelcome
  <2>2. CASE CliDialFails \/ CliReadFails \/ CliExchange
    BY <2>2, <1>4 DEF CliDialFails, CliReadFails, CliExchange, Ends
  <2> QED
    BY <1>8, <2>1, <2>2 DEF ClientControl
<1>9. CASE Acceptor
  <2>1. CASE AccAdmit
    <3>1. queue' = [queue EXCEPT !["Server"] =
                     Append(@, [kind |-> "CreateStream", id |-> Dialled])]
      BY <2>1 DEF AccAdmit
    <3>2. Dialled \in Ids
      <4>1. dial = "hello"
        BY <2>1 DEF AccAdmit
      <4> QED
        BY <4>1, NeededIsNat DEF IndInv, Numbered, Ids, N
    <3> DEFINE m == [kind |-> "CreateStream", id |-> Dialled]
    <3>3. m \in Messages /\ m.kind = "CreateStream" /\ r = Append(q, m)
      BY <1>2, <3>1, <3>2 DEF Messages, Ends
    <3> HIDE DEF m
    <3>4. m \in Messages /\ queue'["Server"] = Append(queue["Server"], m)
          /\ (m.kind = "StreamTerminated" => worker'["Server"][m.id] \in Finished)
      BY <3>3
    <3> QED
      BY <1>1, <3>4, ReportsTrue
  <2>2. CASE AccAccept
    BY <2>2, <1>5 DEF AccAccept
  <2>3. CASE AccFail
    BY <2>3, <1>4 DEF AccFail, Ends
  <2> QED
    BY <1>9, <2>1, <2>2, <2>3 DEF Acceptor
<1>10. CASE CliReadPart \/ CliReadsGarbage
  BY <1>10, <1>4, <1>5 DEF CliReadPart, CliReadsGarbage, Ends
<1>11. ASSUME NEW e \in Ends, Crash(e)
       PROVE  Reports'
  BY <1>11, <1>4 DEF Crash
<1>12. ASSUME NEW e \in Ends, NEW i \in Ids, Work(e, i)
       PROVE  Reports'
  <2>1. CASE queue' = queue
    BY <2>1, <1>5
  <2>2. CASE queue' # queue
    <3>1. /\ \E how \in Finished : worker' = [worker EXCEPT ![e][i] = how]
          /\ queue' = [queue EXCEPT ![e] = Append(@, [kind |-> "StreamTerminated", id |-> i])]
      BY <1>12, <2>2, WorkReports
    <3>2. worker'[e][i] \in Finished
      BY <3>1 DEF IndInv, TypeOK
    <3> DEFINE m == [kind |-> "StreamTerminated", id |-> i]
    <3>3. m \in Messages /\ m.id = i /\ queue'[e] = Append(queue[e], m)
      BY <1>2, <3>1 DEF Messages
    <3> HIDE DEF m
    <3>4. CASE e = "Server"
      <4>1. m \in Messages /\ queue'["Server"] = Append(queue["Server"], m)
            /\ (m.kind = "StreamTerminated" => worker'["Server"][m.id] \in Finished)
        BY <3>2, <3>3, <3>4
      <4> QED
        BY <1>1, <4>1, ReportsTrue
    <3>5. CASE e # "Server"
      <4>1. r = q
        BY <1>2, <3>1, <3>5 DEF Ends
      <4> QED
        BY <4>1, <1>3
    <3> QED
      BY <3>4, <3>5
  <2> QED
    BY <2>1, <2>2
<1>13. CASE Terminating \/ UNCHANGED vars
  BY <1>13, <1>5 DEF Terminating, vars
<1> QED
  BY <1>6, <1>7, <1>8, <1>9, <1>10, <1>11, <1>12, <1>13 DEF Next

\* A step that leaves the server's streams, results and state alone, or moves it
\* from an early state to another, keeps what is known of the results.
LEMMA ResultsKept ==
  ASSUME IndInv, ResultsInv, [Next]_vars, results'["Server"] = results["Server"],
         \/ state'["Server"] = state["Server"]
         \/ state["Server"] \in Early /\ state'["Server"] \in Early,
         ~ Gone("Server")' => ~ Gone("Server") /\ streams'["Server"] = streams["Server"]
  PROVE  ResultsInv'
<1>1. state["Server"] \in States /\ Reports'
  BY ReportsStep DEF IndInv, TypeOK, Ends, ResultsInv
<1>2. \A i \in Ids : worker["Server"][i] \in Finished \cup {"gone"}
                       => worker'["Server"][i] = worker["Server"][i]
  BY SettledStays DEF Settled, Ends
<1>3. CASE state'["Server"] \in Early
  <2>1. state["Server"] \in Early
    BY <1>3
  <2> QED
    BY <1>1, <1>3, <2>1 DEF ResultsInv, ServerResultsExact, Early
<1>4. CASE state'["Server"] = state["Server"] /\ state["Server"] = "Running"
  <2>1. ~ Gone("Server")' =>
          /\ \A i \in Ids \ streams'["Server"] : worker'["Server"][i] \in Finished
          /\ results'["Server"] = {i \in Ids \ streams'["Server"] : worker'["Server"][i] = "ok"}
    BY <1>2, <1>4 DEF ResultsInv
  <2> QED
    BY <1>1, <1>4, <2>1 DEF ResultsInv, ServerResultsExact, Early
<1>5. CASE state'["Server"] = state["Server"] /\ state["Server"] = "ExchangeResults"
  <2>1. /\ \A i \in Ids : worker'["Server"][i] = worker["Server"][i]
        /\ \A i \in Ids : worker'["Server"][i] \in Finished \cup {"gone"}
        /\ results'["Server"] = {i \in Ids : worker'["Server"][i] = "ok"}
    BY <1>2, <1>5 DEF ResultsInv, ServerResultsExact
  <2> QED
    BY <1>1, <1>5, <2>1 DEF ResultsInv, ServerResultsExact, Early
<1> QED
  BY <1>1, <1>3, <1>4, <1>5 DEF Early, States

\* The last stream: all of them are registered and none has a result.
LEMMA LastRegistered ==
  ASSUME IndInv, ResultsInv, [Next]_vars, RecvCreate
  PROVE  ResultsInv'
<1>1. /\ state["Server"] = "CreateStreams" /\ results' = results /\ results["Server"] = {}
      /\ Cardinality(streams["Server"]) = Registered /\ state["Server"] \in Early
  BY ServerNextId DEF RecvCreate, ResultsInv, Early
<1>2. ~ Gone("Server")
  BY ServerNextId
<1>3. CASE state' = state /\ (Gone("Server")' \/ Register("Server", Registered))
  <2>1. state'["Server"] \in Early
    BY <1>1, <1>3
  <2>2. Reports'
    BY ReportsStep DEF ResultsInv
  <2> QED
    BY <1>1, <2>1, <2>2 DEF ResultsInv, ServerResultsExact, Early
<1>4. CASE AllConnected(Registered) /\ SetState("Running") /\ Register("Server", Registered)
  <2>1. Registered + 1 = N /\ Registered \in Nat
    BY <1>4, NeededIsNat DEF AllConnected, IndInv, Numbered, N
  <2>2. streams["Server"] = 0 .. Registered - 1
    BY <1>1, <1>2 DEF IndInv, Preparing, Numbered, Ends
  <2>3. streams'["Server"] = streams["Server"] \cup {Registered}
    BY <1>4 DEF Register, IndInv, TypeOK, Ends
  <2>4. Ids \ streams'["Server"] = {}
    BY <2>1, <2>2, <2>3, NeededIsNat DEF Ids, N
  <2>5. state'["Server"] = "Running" /\ Reports'
    BY <1>4, ReportsStep DEF SetState, IndInv, TypeOK, Ends, ResultsInv
  <2> QED
    BY <1>1, <2>4, <2>5 DEF ResultsInv, ServerResultsExact, Early
<1>5. \/ AllConnected(Registered) /\ SetState("Running") /\ Register("Server", Registered)
      \/ state' = state /\ (Leave("Server", "aborted") \/ Register("Server", Registered))
  BY <1>1 DEF RecvCreate
<1>6. Leave("Server", "aborted") => Gone("Server")'
  BY DEF Leave, Gone, Returned, IndInv, TypeOK, Ends
<1> QED
  BY <1>3, <1>4, <1>5, <1>6

\* A stream that is taken from the map has finished and leaves its result; with
\* the last one the server goes on to the exchange.
LEMMA StreamRemoved ==
  ASSUME IndInv, ResultsInv, [Next]_vars, RecvTerminated("Server")
  PROVE  ResultsInv'
<1> DEFINE id == Head(queue["Server"]).id
<1>1. /\ pc["Server"] = "recv" /\ queue["Server"] # <<>> /\ Head(queue["Server"]).kind = "StreamTerminated"
      /\ queue["Server"] \in Seq(Messages) /\ worker' = worker /\ state["Server"] \in States
  BY DEF RecvTerminated, IndInv, TypeOK, Ends
<1>2. 1 \in 1 .. Len(queue["Server"]) /\ Head(queue["Server"]) = queue["Server"][1]
  BY <1>1
<1>3. id \in Ids /\ worker["Server"][id] \in Finished
  <2>1. queue["Server"][1] \in Messages
    BY <1>1, <1>2
  <2>2. id \in Ids
    BY <2>1, <1>2 DEF Messages
  <2> QED
    BY <1>1, <1>2, <2>2 DEF ResultsInv, Reports
<1>4. ~ Gone("Server") /\ state["Server"] = "Running"
  <2>1. ~ Gone("Server")
    BY <1>1 DEF Gone, Returned
  <2>2. state["Server"] \notin Early
    BY <1>1, <1>2, <2>1 DEF IndInv, Preparing, Ends
  <2>3. state["Server"] # "ExchangeResults"
    BY <1>1 DEF IndInv, Whereabouts, Ends
  <2> QED
    BY <1>1, <2>1, <2>2, <2>3 DEF States, Early
<1>5. streams'["Server"] = streams["Server"] \ {id}
  BY DEF RecvTerminated, IndInv, TypeOK, Ends
<1>6. results'["Server"] = IF id \in streams["Server"] /\ worker["Server"][id] = "ok"
                           THEN results["Server"] \cup {id} ELSE results["Server"]
  BY DEF RecvTerminated, IndInv, TypeOK, Ends
<1> HIDE DEF id
<1>7. /\ \A i \in Ids \ streams["Server"] : worker["Server"][i] \in Finished
      /\ results["Server"] = {i \in Ids \ streams["Server"] : worker["Server"][i] = "ok"}
  BY <1>4 DEF ResultsInv
<1>8. /\ \A i \in Ids \ streams'["Server"] : worker["Server"][i] \in Finished
      /\ results'["Server"] = {i \in Ids \ streams'["Server"] : worker["Server"][i] = "ok"}
  BY <1>3, <1>5, <1>6, <1>7
<1>9. Reports'
  BY ReportsStep DEF ResultsInv
<1>10. CASE state'["Server"] = state["Server"]
  BY <1>1, <1>4, <1>8, <1>9, <1>10 DEF ResultsInv, ServerResultsExact, Early
<1>11. CASE streams["Server"] \subseteq {id} /\ SetState("ExchangeResults")
  <2>1. Ids \ streams'["Server"] = Ids
    BY <1>5, <1>11
  <2>2. state'["Server"] = "ExchangeResults"
    BY <1>11 DEF SetState, IndInv, TypeOK, Ends
  <2> QED
    BY <1>1, <1>8, <1>9, <2>1, <2>2 DEF ResultsInv, ServerResultsExact, Early
<1>12. \/ state' = state
       \/ streams["Server"] \subseteq {id} /\ SetState("ExchangeResults")
  BY DEF RecvTerminated, NoStreamLeft, id
<1> QED
  BY <1>10, <1>11, <1>12

\* In the exchange there is nothing left to collect.
LEMMA NothingToCollect ==
  ASSUME IndInv, ResultsInv, [Next]_vars, NEW i \in Ids, CollectJoin("Server", i)
  PROVE  ResultsInv'
<1>1. /\ pc["Server"] = "collect" /\ state' = state /\ worker' = worker
      /\ results'["Server"] = IF worker["Server"][i] = "ok"
                              THEN results["Server"] \cup {i} ELSE results["Server"]
  BY DEF CollectJoin, IndInv, TypeOK, Ends
<1>2. state["Server"] = "ExchangeResults"
  BY <1>1 DEF IndInv, Whereabouts, Ends
<1>3. results'["Server"] = results["Server"]
  BY <1>1, <1>2 DEF ResultsInv, ServerResultsExact
<1>4. Reports'
  BY ReportsStep DEF ResultsInv
<1> QED
  BY <1>1, <1>2, <1>3, <1>4 DEF ResultsInv, ServerResultsExact, Early

\* Every step keeps the invariant of the results.
LEMMA ResultsStep ==
  ASSUME IndInv, ResultsInv, [Next]_vars
  PROVE  ResultsInv'
<1>1. ASSUME results' = results, state'["Server"] = state["Server"],
             UNCHANGED <<pc, streams>>
      PROVE  ResultsInv'
  BY <1>1, ResultsKept DEF Gone
<1>2. ASSUME results' = results, state'["Server"] = state["Server"],
             NEW e \in Ends, NEW how \in Returned, Leave(e, how)
      PROVE  ResultsInv'
  <2>1. /\ pc' = [pc EXCEPT ![e] = how] /\ streams' = [streams EXCEPT ![e] = {}]
        /\ pc \in [Ends -> Suspended \cup Returned] /\ streams \in [Ends -> SUBSET Ids]
    BY <1>2 DEF Leave, IndInv, TypeOK
  <2>2. ~ Gone("Server")' => ~ Gone("Server") /\ streams'["Server"] = streams["Server"]
    BY <2>1 DEF Gone, Ends
  <2> QED
    BY <1>2, <2>2, ResultsKept
<1>3. ASSUME results'["Server"] = results["Server"], state'["Server"] = state["Server"],
             pc["Server"] \in Suspended, streams'["Server"] = streams["Server"]
      PROVE  ResultsInv'
  <2>1. ~ Gone("Server")
    BY <1>3 DEF Gone, Suspended, Returned
  <2> QED
    BY <1>3, <2>1, ResultsKept
<1>4. ASSUME results'["Server"] = results["Server"], state'["Server"] = state["Server"],
             pc'["Server"] = pc["Server"], streams'["Server"] = streams["Server"]
      PROVE  ResultsInv'
  BY <1>4, ResultsKept DEF Gone
<1>5. /\ pc \in [Ends -> Suspended \cup Returned] /\ streams \in [Ends -> SUBSET Ids]
      /\ results \in [Ends -> SUBSET Ids] /\ state \in [Ends -> States]
  BY DEF IndInv, TypeOK
<1>6. ASSUME NEW e \in Ends, Control(e)
      PROVE  ResultsInv'
  <2>1. CASE Wait(e) \/ StartLoad(e) \/ Finalise(e)
    <3>1. /\ results' = results /\ state' = state /\ streams' = streams
          /\ pc[e] = "top" /\ \E p : pc' = [pc EXCEPT ![e] = p]
      BY <2>1 DEF Wait, StartLoad, Finalise
    <3>2. e = "Server" => pc["Server"] \in Suspended
      BY <3>1 DEF Suspended
    <3>3. e # "Server" => pc'["Server"] = pc["Server"]
      BY <1>5, <3>1 DEF Ends
    <3> QED
      BY <3>1, <3>2, <3>3, <1>3, <1>4
  <2>2. CASE e = "Server" /\ RecvTerminated(e)
    BY <2>2, StreamRemoved
  <2>3. CASE e = "Server" /\ \E i \in Ids : CollectJoin(e, i)
    BY <2>3, NothingToCollect
  <2>4. CASE e = "Server" /\ \E i \in Ids : CollectTimeout(e, i)
    <3>1. PICK i \in Ids : CollectTimeout("Server", i)
      BY <2>4
    <3>2. state["Server"] = "ExchangeResults" /\ state' = state /\ results' = results
          /\ worker' = worker /\ queue' = queue
      BY <3>1 DEF CollectTimeout, IndInv, Whereabouts, Ends
    <3>3. Reports'
      BY ReportsStep DEF ResultsInv
    <3> QED
      BY <3>2, <3>3 DEF ResultsInv, ServerResultsExact, Early
  <2>5. CASE e = "Client" /\ (RecvTerminated(e)
                              \/ \E i \in Ids : CollectJoin(e, i) \/ CollectTimeout(e, i))
    <3>1. /\ results'["Server"] = results["Server"] /\ state' = state
          /\ streams'["Server"] = streams["Server"] /\ pc'["Server"] = pc["Server"]
      BY <2>5, <1>5 DEF RecvTerminated, CollectJoin, CollectTimeout, Ends
    <3> QED
      BY <3>1, <1>4
  <2>6. CASE CollectDone(e)
    <3>1. CASE Leave(e, "aborted")
      BY <2>6, <3>1, <1>2 DEF CollectDone, Returned
    <3>2. CASE streams' = streams /\ pc' = [pc EXCEPT ![e] = "exchange"] /\ pc[e] = "collect"
      <4>1. e = "Server" => pc["Server"] \in Suspended
        BY <3>2 DEF Suspended
      <4>2. e # "Server" => pc'["Server"] = pc["Server"]
        BY <1>5, <3>2 DEF Ends
      <4>3. results' = results /\ state' = state
        BY <2>6 DEF CollectDone
      <4> QED
        BY <3>2, <4>1, <4>2, <4>3, <1>3, <1>4
    <3> QED
      BY <2>6, <3>1, <3>2 DEF CollectDone
  <2> QED
    BY <1>6, <2>1, <2>2, <2>3, <2>4, <2>5, <2>6 DEF Control, Ends
<1>7. CASE ServerControl
  <2>1. CASE ServerStart
    <3>1. /\ state["Server"] \in Early /\ state'["Server"] \in Early
          /\ UNCHANGED <<results, streams, pc>>
      BY <2>1, <1>5 DEF ServerStart, SetState, Early, Ends
    <3> QED
      BY <3>1, ResultsKept DEF Gone
  <2>2. CASE ServerStartFails \/ SrvReadFails
    BY <2>2, <1>2 DEF ServerStartFails, SrvReadFails, Ends, Returned
  <2>3. CASE SrvExchange
    BY <2>3, <1>2 DEF SrvExchange, Ends, Returned
  <2>4. CASE RecvCreate
    BY <2>4, LastRegistered
  <2> QED
    BY <1>7, <2>1, <2>2, <2>3, <2>4 DEF ServerControl
<1>8. CASE ClientControl
  <2>1. CASE CreateStreams \/ CliConnect \/ CliHello \/ CliReadFrame \/ CliWelcome
    <3>1. /\ results' = results /\ state'["Server"] = state["Server"]
          /\ streams'["Server"] = streams["Server"] /\ pc'["Server"] = pc["Server"]
      BY <2>1, <1>5 DEF CreateStreams, CliConnect, CliHello, CliReadFrame, CliWelcome, Register, Ends
    <3> QED
      BY <3>1, <1>4
  <2>2. CASE CliDialFails \/ CliReadFails
    BY <2>2, <1>2 DEF CliDialFails, CliReadFails, Ends, Returned
  <2>3. CASE CliExchange
    BY <2>3, <1>2 DEF CliExchange, Ends, Returned
  <2> QED
    BY <1>8, <2>1, <2>2, <2>3 DEF ClientControl
<1>9. CASE Acceptor
  BY <1>9, <1>1, <1>2 DEF Acceptor, AccAccept, AccAdmit, AccFail, Ends, Returned
<1>10. CASE CliReadPart \/ CliReadsGarbage
  BY <1>10, <1>1, <1>2 DEF CliReadPart, CliReadsGarbage, Ends, Returned
<1>11. ASSUME NEW e \in Ends, Crash(e)
       PROVE  ResultsInv'
  BY <1>11, <1>2 DEF Crash, Returned
<1>12. ASSUME NEW e \in Ends, NEW i \in Ids, Work(e, i)
       PROVE  ResultsInv'
  BY <1>12, <1>1, WorkMoves
<1>13. CASE Terminating \/ UNCHANGED vars
  BY <1>13, <1>1 DEF Terminating, vars
<1> QED
  BY <1>6, <1>7, <1>8, <1>9, <1>10, <1>11, <1>12, <1>13 DEF Next

\* Where the results are, in every reachable state.
LEMMA ResultsInvariance == Spec => []ResultsInv
<1>1. Init => ResultsInv
  <2> SUFFICES ASSUME Init
               PROVE  ResultsInv
    OBVIOUS
  <2>1. 1 .. Len(<<>>) = {}
    OBVIOUS
  <2>2. queue["Server"] = <<>> /\ results["Server"] = {} /\ state["Server"] = "TestStart"
    BY DEF Init, Ends
  <2> QED
    BY <2>1, <2>2 DEF ResultsInv, Reports, ServerResultsExact
<1>2. IndInv /\ ResultsInv /\ [Next]_vars => ResultsInv'
  BY ResultsStep
<1> QED
  BY <1>1, <1>2, Invariance, PTL DEF Spec

\* When the server asks for the exchange, because its map of streams is empty,
\* no worker of its is running and no result is still on its way to it.
THEOREM ResultsExact == Spec => []ServerResultsExact
<1>1. ResultsInv => ServerResultsExact
  BY DEF ResultsInv
<1> QED
  BY <1>1, ResultsInvariance, PTL

----------------------------------------------------------------------------

(* ImplementsStreams.                                                      *)

\* The id of a stream tells which end sends, and only that end does.
LEMMA SenderIs ==
  ASSUME NEW e \in Ends, NEW i \in Ids
  PROVE  /\ SendingEnd(i) \in Ends /\ Peer(SendingEnd(i)) \in Ends
         /\ IsSending(Par, e, i) => e = SendingEnd(i) /\ Peer(e) = Peer(SendingEnd(i))
         /\ ~ IsSending(Par, e, i) => e = Peer(SendingEnd(i)) /\ Peer(e) = SendingEnd(i)
<1>1. i \in Nat /\ i < Requested(Par)
  <2>1. i \in Nat /\ i < N /\ N \in Nat /\ Requested(Par) \in Nat
    BY NeededIsNat, RequestedIsNat DEF Ids, N
  <2> QED
    BY <2>1, NeededAtMostRequested
<1>2. IsSending(Par, "Server", i) <=> ~ IsSending(Par, "Client", i)
  <2>1. Par.direction \in Directions /\ Par.parallel \in Nat
    <3>1. U16 \in Nat \ {0}
      BY DEF U16
    <3> QED
      BY <3>1, SessionAssumption DEF TestParameters
  <2> QED
    BY <1>1, <2>1 DEF IsSending, Requested, NumSend, NumReceive, ClientSends, ClientReceives,
       Peer, Directions
<1>3. CASE IsSending(Par, "Server", i)
  <2>1. SendingEnd(i) = "Server" /\ Peer("Server") = "Client" /\ Peer("Client") = "Server"
    BY <1>3 DEF SendingEnd, Peer
  <2> QED
    BY <1>2, <1>3, <2>1 DEF Ends
<1>4. CASE ~ IsSending(Par, "Server", i)
  <2>1. SendingEnd(i) = "Client" /\ Peer("Server") = "Client" /\ Peer("Client") = "Server"
    BY <1>4 DEF SendingEnd, Peer
  <2>2. IsSending(Par, "Client", i)
    BY <1>2, <1>4
  <2> QED
    BY <1>4, <2>1, <2>2 DEF Ends
<1> QED
  BY <1>3, <1>4

\* What becomes of stream i in a step.
Live(i) == StreamLife(i)!LifeNext \/ UNCHANGED Fate(i)

Lives == LivesInv' /\ \A i \in Ids : Live(i)

\* Nothing, in the steps that neither touch a worker nor end a process.
LEMMA FateSame ==
  ASSUME LivesInv, worker' = worker, \A e \in Ends : Down(e)' = Down(e)
  PROVE  Lives
BY DEF Lives, LivesInv, Live, Fate

\* A worker of one stream moves on at one end.
LEMMA FateChanges ==
  ASSUME IndInv, LivesInv, NEW e \in Ends, NEW n \in Ids, NEW w \in WorkerStates \ {"absent"},
         worker' = [worker EXCEPT ![e][n] = w], \A f \in Ends : Down(f)' = Down(f),
         ~ Down(e) \/ w \notin Tasks, w = "drain" => ~ IsSending(Par, e, n),
         Fate(n)' = [Fate(n) EXCEPT ![e] = w] => StreamLife(n)!LifeNext
  PROVE  Lives
<1>1. worker \in [Ends -> [Ids -> WorkerStates]]
  BY DEF IndInv, TypeOK
<1>2. LivesInv'
  BY <1>1 DEF LivesInv
<1>3. Fate(n)' = [Fate(n) EXCEPT ![e] = w]
  BY <1>1 DEF Fate
<1>4. \A i \in Ids : i # n => Fate(i)' = Fate(i)
  BY <1>1 DEF Fate
<1> QED
  BY <1>2, <1>3, <1>4 DEF Lives, Live

\* A process that ends takes its workers with it; a controller of the server
\* that returns does not.
LEMMA FateEnds ==
  ASSUME IndInv, LivesInv, NEW e \in Ends, NEW how \in Returned, Leave(e, how),
         pc[e] \in Suspended \/ how = "killed"
  PROVE  Lives
<1>1. /\ worker \in [Ends -> [Ids -> WorkerStates]]
      /\ pc \in [Ends -> Suspended \cup Returned] /\ pc' = [pc EXCEPT ![e] = how]
  BY DEF IndInv, TypeOK, Leave
<1>2. \A f \in Ends : f # e => Down(f)' = Down(f)
  BY <1>1 DEF Down, Gone
<1>3. CASE e = "Client" \/ how = "killed"
  <2>1. Down(e)'
    BY <1>1, <1>3 DEF Down, Gone, Returned
  <2>2. worker' = Cut(e)
    BY <1>3 DEF Leave
  <2>3. \A i \in Ids :
          worker'[e][i] = IF worker[e][i] \in Tasks THEN "gone" ELSE worker[e][i]
    BY <1>1, <2>2 DEF Cut
  <2>4. \A f \in Ends : f # e => worker'[f] = worker[f]
    BY <1>1, <2>2 DEF Cut
  <2>5. LivesInv'
    BY <1>2, <2>3, <2>4 DEF LivesInv, Tasks, Loading
  <2>6. ASSUME NEW i \in Ids
        PROVE  Live(i)
    <3>1. e \in {SendingEnd(i), Peer(SendingEnd(i))}
      BY SenderIs
    <3>2. CASE Fate(i)[e] \in {"absent"} \cup Tasks
      <4>1. Fate(i)' = [Fate(i) EXCEPT ![e] = "gone"]
        BY <1>2, <2>1, <2>3, <2>4, <3>2 DEF Fate
      <4>2. StreamLife(i)!Dies(e)
        BY <3>2, <4>1 DEF StreamLife!Dies, StreamLife!Becomes, StreamLife!Tasks, Tasks, Loading
      <4> QED
        BY <3>1, <4>2 DEF Live, StreamLife!LifeNext
    <3>3. CASE Fate(i)[e] \notin {"absent"} \cup Tasks
      <4>1. worker[e][i] \notin Tasks
        BY <3>3 DEF Fate, Tasks, Loading
      <4>2. Fate(i)' = Fate(i)
        BY <1>2, <2>1, <2>3, <2>4, <3>3, <4>1 DEF Fate
      <4> QED
        BY <4>2 DEF Live
    <3> QED
      BY <3>2, <3>3
  <2> QED
    BY <2>5, <2>6 DEF Lives
<1>4. CASE ~ (e = "Client" \/ how = "killed")
  <2>1. worker' = worker
    BY <1>4 DEF Leave
  <2>2. ~ Down(e) /\ ~ Down(e)'
    BY <1>1, <1>4 DEF Down, Suspended
  <2>3. \A f \in Ends : Down(f)' = Down(f)
    BY <1>1, <1>2, <1>4 DEF Down, Gone, Suspended, Returned
  <2> QED
    BY <2>1, <2>3, FateSame
<1> QED
  BY <1>3, <1>4

\* An end registers its next stream.
LEMMA FateBegins ==
  ASSUME IndInv, LivesInv, NEW e \in Ends, NEW n \in Ids, worker[e][n] = "absent", Register(e, n),
         ~ Down(e), \A f \in Ends : Down(f)' = Down(f)
  PROVE  Lives
<1>1. worker' = [worker EXCEPT ![e][n] = "wait"]
  BY DEF Register
<1>2. Fate(n)' = [Fate(n) EXCEPT ![e] = "wait"] => StreamLife(n)!LifeNext
  <2>1. e \in {SendingEnd(n), Peer(SendingEnd(n))}
    BY SenderIs
  <2>2. Fate(n)[e] = "absent"
    BY DEF Fate
  <2> QED
    BY <2>1, <2>2 DEF StreamLife!LifeNext, StreamLife!Register, StreamLife!Becomes
<1>3. "wait" \in WorkerStates \ {"absent"}
  BY DEF WorkerStates
<1> QED
  BY <1>1, <1>2, <1>3, FateChanges

\* An end of a connection that finds the other one closed is right: nobody
\* holds the same stream there any more.
LEMMA PeerLetGo ==
  ASSUME IndInv, LivesInv, NEW e \in Ends, NEW i \in Ids, worker[e][i] \in Tasks, PeerClosed(e, i)
  PROVE  Fate(i)[Peer(e)] \in {"ok", "err", "gone"}
<1>1. Peer(e) \in Ends /\ worker \in [Ends -> [Ids -> WorkerStates]]
  BY DEF IndInv, TypeOK, Peer, Ends
<1>2. CASE Down(Peer(e))
  <2>1. worker[Peer(e)][i] \notin Tasks
    BY <1>1, <1>2 DEF LivesInv
  <2> QED
    BY <1>1, <1>2, <2>1 DEF Fate, WorkerStates, Tasks, Finished
<1>3. ASSUME NEW j \in Ids, SameConnection(e, i, j), worker[Peer(e)][j] \in Finished \cup {"gone"}
      PROVE  j = i
  <2>1. \A k \in Ids : worker["Server"][k] # "absent" => conn[k] = k
    BY DEF IndInv, Numbered, Made
  <2>2. worker[e][i] # "absent" /\ worker[Peer(e)][j] # "absent"
    BY <1>3 DEF Tasks, Loading, Finished
  <2> QED
    BY <1>3, <2>1, <2>2 DEF SameConnection, Peer, Ends
<1>4. CASE \E j \in Ids : SameConnection(e, i, j) /\ worker[Peer(e)][j] \in Finished \cup {"gone"}
  <2>1. worker[Peer(e)][i] \in Finished \cup {"gone"}
    BY <1>3, <1>4
  <2> QED
    BY <1>1, <2>1 DEF Fate, Finished
<1> QED
  BY <1>2, <1>4 DEF PeerClosed

\* What run_worker does is what is promised, step by step.
LEMMA FateWorks ==
  ASSUME IndInv, LivesInv, NEW e \in Ends, NEW i \in Ids, Work(e, i)
  PROVE  Lives
<1>1. /\ worker \in [Ends -> [Ids -> WorkerStates]] /\ worker[e][i] \in Tasks
      /\ \A f \in Ends : Down(f)' = Down(f)
  BY WorkMoves DEF IndInv, TypeOK, Down, Gone
<1>2. ~ Down(e) /\ Fate(i)[e] = worker[e][i]
  BY <1>1 DEF LivesInv, Fate, Tasks, Loading
<1>3. ASSUME NEW w \in WorkerStates \ {"absent"}, worker' = [worker EXCEPT ![e][i] = w],
             w = "drain" => ~ IsSending(Par, e, i),
             Fate(i)' = [Fate(i) EXCEPT ![e] = w] => StreamLife(i)!LifeNext
      PROVE  Lives
  BY <1>1, <1>2, <1>3, FateChanges
<1>4. e \in {SendingEnd(i), Peer(SendingEnd(i))}
  BY SenderIs
<1> DEFINE Turns(w) == Fate(i)' = [Fate(i) EXCEPT ![e] = w]
<1> USE DEF StreamLife!Becomes
<1>5. CASE WorkerStart(e, i)
  <2>1. Turns("load") => StreamLife(i)!StartLoad(e)
    BY <1>2, <1>5 DEF WorkerStart, StreamLife!StartLoad
  <2>2. Turns("load") => StreamLife(i)!LifeNext
    BY <1>4, <2>1 DEF StreamLife!LifeNext
  <2>3. "load" \in WorkerStates \ {"absent"} /\ worker' = [worker EXCEPT ![e][i] = "load"]
    BY <1>5 DEF WorkerStart, WorkerStates, Loading
  <2> QED
    BY <1>3, <2>2, <2>3
<1>6. CASE WorkerBail(e, i)
  <2>1. Turns("err") => StreamLife(i)!Bail(e)
    BY <1>2, <1>6 DEF WorkerBail, StreamLife!Bail
  <2>2. Turns("err") => StreamLife(i)!LifeNext
    BY <1>4, <2>1 DEF StreamLife!LifeNext
  <2>3. "err" \in WorkerStates \ {"absent"} /\ worker' = [worker EXCEPT ![e][i] = "err"]
    BY <1>6 DEF WorkerBail, Finish, WorkerStates, Finished
  <2> QED
    BY <1>3, <2>2, <2>3
<1>7. CASE WorkerStop(e, i) /\ IsSending(Par, e, i)
  <2>1. Turns("ok") => StreamLife(i)!SenderStops
    BY <1>2, <1>7, SenderIs DEF WorkerStop, StreamLife!SenderStops
  <2>2. Turns("ok") => StreamLife(i)!LifeNext
    BY <2>1 DEF StreamLife!LifeNext
  <2> QED
    BY <1>3, <1>7, <2>2 DEF WorkerStop, Finish, WorkerStates, Finished
<1>8. CASE WorkerStop(e, i) /\ ~ IsSending(Par, e, i)
  <2>1. Turns("drain") => StreamLife(i)!ReceiverStops
    BY <1>2, <1>8, SenderIs DEF WorkerStop, StreamLife!ReceiverStops
  <2>2. Turns("drain") => StreamLife(i)!LifeNext
    BY <2>1 DEF StreamLife!LifeNext
  <2> QED
    BY <1>3, <1>8, <2>2 DEF WorkerStop, WorkerStates, Loading
<1>9. CASE WorkerDrained(e, i)
  <2>1. worker[e][i] = "drain" /\ PeerClosed(e, i) /\ ~ IsSending(Par, e, i)
    BY <1>9 DEF WorkerDrained, LivesInv
  <2>2. StreamLife(i)!LetGo(SendingEnd(i)) /\ e = Peer(SendingEnd(i))
    BY <1>1, <2>1, PeerLetGo, SenderIs DEF StreamLife!LetGo
  <2>3. Turns("ok") => StreamLife(i)!ReceiverDrained
    BY <1>2, <2>1, <2>2 DEF StreamLife!ReceiverDrained
  <2>4. Turns("ok") => StreamLife(i)!LifeNext
    BY <2>3 DEF StreamLife!LifeNext
  <2>5. "ok" \in WorkerStates \ {"absent"} /\ worker' = [worker EXCEPT ![e][i] = "ok"]
    BY <1>9 DEF WorkerDrained, Finish, WorkerStates, Finished
  <2> QED
    BY <1>3, <2>4, <2>5
<1>10. CASE WorkerError(e, i)
  <2>1. worker[e][i] \in {"load", "drain"} /\ PeerClosed(e, i)
    BY <1>10 DEF WorkerError, PeerClosed, Loading
  <2>2. Fate(i)[Peer(e)] \in {"ok", "err", "gone"}
    BY <1>1, <2>1, PeerLetGo
  <2>3. StreamLife(i)!Other(e) = Peer(e)
    BY SenderIs DEF StreamLife!Other, Peer, Ends
  <2>4. Turns("err") => StreamLife(i)!Fails(e)
    BY <1>2, <2>1, <2>2, <2>3 DEF StreamLife!Fails, StreamLife!LetGo
  <2>5. Turns("err") => StreamLife(i)!LifeNext
    BY <1>4, <2>4 DEF StreamLife!LifeNext
  <2>6. "err" \in WorkerStates \ {"absent"} /\ worker' = [worker EXCEPT ![e][i] = "err"]
    BY <1>10 DEF WorkerError, Finish, WorkerStates, Finished
  <2> QED
    BY <1>3, <2>5, <2>6
<1> QED
  BY <1>5, <1>6, <1>7, <1>8, <1>9, <1>10 DEF Work

\* Every step of the session is, for each stream, one of its life or none.
LEMMA LivesStep ==
  ASSUME IndInv, LivesInv, [Next]_vars
  PROVE  Lives
<1>1. ASSUME worker' = worker, pc' = pc
      PROVE  Lives
  BY <1>1, FateSame DEF Down, Gone
<1>2. ASSUME NEW e \in Ends, NEW how \in Returned, Leave(e, how),
             pc[e] \in Suspended \/ how = "killed"
      PROVE  Lives
  BY <1>2, FateEnds
<1>3. pc \in [Ends -> Suspended \cup Returned]
  BY DEF IndInv, TypeOK
<1>4. ASSUME NEW e \in Ends, pc[e] \in Suspended, NEW p \in Suspended,
             pc' = [pc EXCEPT ![e] = p]
      PROVE  \A f \in Ends : Down(f)' = Down(f)
  BY <1>3, <1>4 DEF Down, Gone, Suspended, Returned
<1>5. ASSUME worker' = worker, NEW e \in Ends, pc[e] \in Suspended, NEW p \in Suspended,
             pc' = [pc EXCEPT ![e] = p]
      PROVE  Lives
  BY <1>4, <1>5, FateSame
<1>6. ASSUME NEW e \in Ends, Control(e)
      PROVE  Lives
  <2>1. CASE Wait(e) \/ StartLoad(e) \/ Finalise(e) \/ RecvTerminated(e)
    BY <1>5, <2>1 DEF Wait, StartLoad, Finalise, RecvTerminated, Suspended
  <2>2. CASE \E i \in Ids : CollectJoin(e, i) \/ CollectTimeout(e, i)
    BY <1>1, <2>2 DEF CollectJoin, CollectTimeout
  <2>3. CASE CollectDone(e)
    BY <1>2, <1>5, <2>3 DEF CollectDone, Suspended, Returned
  <2> QED
    BY <1>6, <2>1, <2>2, <2>3 DEF Control
<1>7. CASE ServerControl
  <2>1. CASE RecvCreate
    <3>1. pc["Server"] = "recv" /\ ~ Down("Server")
      BY <2>1 DEF RecvCreate, Down
    <3>2. CASE Leave("Server", "aborted")
      BY <1>2, <3>1, <3>2 DEF Ends, Suspended, Returned
    <3>3. CASE Register("Server", Registered) /\ pc' = [pc EXCEPT !["Server"] = "top"]
      <4>1. \A f \in Ends : Down(f)' = Down(f)
        BY <1>4, <3>1, <3>3 DEF Ends, Suspended
      <4> QED
        BY <2>1, <3>1, <3>3, <4>1, ServerNextId, FateBegins DEF Ends
    <3> QED
      BY <2>1, <3>2, <3>3, ServerNextId DEF RecvCreate
  <2>2. CASE ServerStart
    BY <1>1, <2>2 DEF ServerStart
  <2>3. CASE ServerStartFails \/ SrvReadFails
    BY <1>2, <2>3 DEF ServerStartFails, SrvReadFails, Ends, Suspended, Returned
  <2>4. CASE SrvExchange
    BY <1>2, <2>4 DEF SrvExchange, Ends, Suspended, Returned
  <2> QED
    BY <1>7, <2>1, <2>2, <2>3, <2>4 DEF ServerControl
<1>8. CASE ClientControl
  <2>1. CASE CliWelcome
    <3> DEFINE id == Cardinality(streams["Client"])
    <3>1. /\ pc["Client"] = "dial" /\ Register("Client", id)
          /\ \E p \in Suspended : pc' = [pc EXCEPT !["Client"] = p]
      BY <2>1 DEF CliWelcome, Suspended
    <3>2. id \in Ids /\ worker["Client"][id] = "absent"
      BY <2>1, ClientNextId
    <3>3. ~ Down("Client") /\ \A f \in Ends : Down(f)' = Down(f)
      BY <1>4, <3>1 DEF Ends, Suspended, Down, Gone, Returned
    <3> HIDE DEF id
    <3> QED
      BY <3>1, <3>2, <3>3, FateBegins DEF Ends
  <2>2. CASE CliConnect \/ CliHello
    BY <1>1, <2>2 DEF CliConnect, CliHello
  <2>3. CASE CreateStreams \/ CliReadFrame
    BY <1>5, <2>3 DEF CreateStreams, CliReadFrame, Ends, Suspended
  <2>4. CASE CliDialFails \/ CliReadFails
    BY <1>2, <2>4 DEF CliDialFails, CliReadFails, Ends, Suspended, Returned
  <2>5. CASE CliExchange
    BY <1>2, <2>5 DEF CliExchange, Ends, Suspended, Returned
  <2> QED
    BY <1>8, <2>1, <2>2, <2>3, <2>4, <2>5 DEF ClientControl
<1>9. CASE Acceptor
  BY <1>1, <1>2, <1>9 DEF Acceptor, AccAccept, AccAdmit, AccFail, Ends, Returned
<1>10. CASE CliReadPart \/ CliReadsGarbage
  BY <1>1, <1>2, <1>10 DEF CliReadPart, CliReadsGarbage, Ends, Suspended, Returned
<1>11. ASSUME NEW e \in Ends, Crash(e)
       PROVE  Lives
  BY <1>2, <1>11 DEF Crash, Returned
<1>12. ASSUME NEW e \in Ends, NEW i \in Ids, Work(e, i)
       PROVE  Lives
  BY <1>12, FateWorks
<1>13. CASE Terminating \/ UNCHANGED vars
  BY <1>1, <1>13 DEF Terminating, vars
<1> QED
  BY <1>6, <1>7, <1>8, <1>9, <1>10, <1>11, <1>12, <1>13 DEF Next

\* No task outlives its process and only receivers drain, in every reachable state.
LEMMA LivesInvariance == Spec => []LivesInv
<1>1. Init => LivesInv
  BY DEF Init, LivesInv, Down, Gone, Returned, Tasks, Loading
<1>2. IndInv /\ LivesInv /\ [Next]_vars => LivesInv'
  BY LivesStep DEF Lives
<1> QED
  BY <1>1, <1>2, Invariance, PTL DEF Spec

\* Whatever the controllers, the other streams and the crashes do, the two ends
\* of each stream keep their promises: a receiver lets go of its connection only
\* after the sender, and neither end fails under load while the other is there.
THEOREM StreamsImplemented == Spec => ImplementsStreams
<1>1. Init => \A i \in Ids : StreamLife(i)!LifeInit
  <2> SUFFICES ASSUME Init
               PROVE  \A i \in Ids : StreamLife(i)!LifeInit
    OBVIOUS
  <2>1. \A e \in Ends : ~ Down(e) /\ \A i \in Ids : worker[e][i] = "absent"
    BY DEF Init, Down, Gone, Returned
  <2>2. \A i \in Ids : {SendingEnd(i), Peer(SendingEnd(i))} = Ends
    BY DEF SendingEnd, Peer, Ends
  <2>3. \A i \in Ids : Fate(i) \in [Ends -> {"absent", "wait"}]
    BY <2>1 DEF Fate
  <2> QED
    BY <2>2, <2>3 DEF StreamLife!LifeInit
<1>2. IndInv /\ LivesInv /\ [Next]_vars
        => \A i \in Ids : StreamLife(i)!LifeNext \/ UNCHANGED Fate(i)
  BY LivesStep DEF Lives, Live
<1> QED
  BY <1>1, <1>2, Invariance, LivesInvariance, PTL DEF Spec, ImplementsStreams

=============================================================================
