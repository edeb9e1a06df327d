---------------------------- MODULE SessionDrains ----------------------------
(***************************************************************************)
(* Why no worker of an undisturbed test ends in error, for every direction *)
(* and number of streams: a worker finds StartLoad in its channel or is    *)
(* about to, and a connection is closed by its sender first.               *)
(***************************************************************************)
EXTENDS SessionStreams

Undisturbed == \A e \in Ends : pc[e] \notin {"aborted", "killed"}

\* Every controller passes through the start of the load on its way to the
\* exchange, with all its streams there and waiting.
LoadComesFirst ==
  \A e \in Ends :
    /\ pc[e] = "recv" /\ state[e] = "Running" => old_state[e] = "Running"
    /\ state[e] = "ExchangeResults" => old_state[e] = "Running"
    /\ old_state[e] # "Running" =>
         /\ streams[e] = Made(e)
         /\ \A i \in Ids : worker[e][i] \in {"absent", "wait"}
    /\ old_state[e] = "Running" =>
         \A i \in Ids : worker[e][i] = "wait"
                          => mail[e][i] # <<>> /\ Head(mail[e][i]) = "StartLoad"

\* Only a client that is done takes workers with it, and no receiver is done
\* before its sender.
SendersFirst ==
  \A e \in Ends, i \in Ids :
    /\ worker[e][i] # "err"
    /\ worker[e][i] = "gone" => e = "Client" /\ pc["Client"] = "done"
    /\ worker[e][i] = "ok" /\ ~ IsSending(Par, e, i) => worker[Peer(e)][i] \in {"ok", "gone"}

DrainsInv == Undisturbed => LoadComesFirst /\ SendersFirst

----------------------------------------------------------------------------

\* Who has failed stays so, and who is done stays done.
LEMMA Undisturbing ==
  ASSUME IndInv, [Next]_vars, Undisturbed'
  PROVE  Undisturbed /\ \A e \in Ends : pc[e] = "done" => pc'[e] = "done"
<1>1. [Lifecycle!LifeNext]_(Lifecycle!lifeVars)
  BY StepSimulation
<1>2. \A e \in Ends : Over[e] # "no" => Over'[e] = Over[e]
  BY <1>1 DEF Lifecycle!LifeNext, Lifecycle!lifeVars, Lifecycle!Advance, Lifecycle!Follow,
     Lifecycle!ServerDone, Lifecycle!ClientDone, Lifecycle!Fail, Over, Ends
<1>3. \A e \in Ends : /\ Over[e] = "done" <=> pc[e] = "done"
                      /\ Over[e] = "failed" <=> pc[e] \in {"aborted", "killed"}
                      /\ Over'[e] = "done" <=> pc'[e] = "done"
                      /\ Over'[e] = "failed" <=> pc'[e] \in {"aborted", "killed"}
  BY DEF Over
<1> QED
  BY <1>2, <1>3 DEF Undisturbed

\* A controller that returns from an undisturbed test is done.
LEMMA LeavesDone ==
  ASSUME IndInv, Undisturbed', NEW e \in Ends, NEW how \in Returned, Leave(e, how)
  PROVE  how = "done"
<1>1. pc'[e] = how
  BY DEF Leave, IndInv, TypeOK
<1> QED
  BY <1>1 DEF Undisturbed, Returned

\* By the time the client is done the server's workers have ended.
LEMMA ServerAtRest ==
  ASSUME IndInv, ResultsInv, pc["Client"] = "done", NEW i \in Ids
  PROVE  worker["Server"][i] \in Finished \cup {"gone"}
<1>1. state["Client"] = "ExchangeResults" /\ state["Server"] \in States
  BY DEF IndInv, Whereabouts, TypeOK, Ends
<1>2. Rank(state["Client"]) = 3 /\ Rank(state["Client"]) <= Rank(state["Server"])
  BY <1>1 DEF IndInv, FramesInOrder, Rank
<1>3. state["Server"] = "ExchangeResults"
  BY <1>1, <1>2 DEF Rank, States
<1> QED
  BY <1>3 DEF ResultsInv, ServerResultsExact

\* A worker under load that finds its connection closed drains it, and its
\* sender has ended well.
LEMMA ClosedBySender ==
  ASSUME IndInv, ResultsInv, LivesInv, Undisturbed, SendersFirst,
         NEW e \in Ends, NEW i \in Ids, worker[e][i] \in Loading, PeerClosed(e, i)
  PROVE  worker[Peer(e)][i] = "ok" /\ ~ IsSending(Par, e, i) /\ ~ Down(Peer(e))
<1>1. Peer(e) \in Ends /\ Peer(Peer(e)) = e /\ (e = "Server" <=> Peer(e) = "Client")
  BY DEF Peer, Ends
<1>2. ~ (e = "Server" /\ pc["Client"] = "done")
  BY ServerAtRest DEF Loading, Finished
<1>3. ~ Down(Peer(e))
  BY <1>1, <1>2 DEF Down, Gone, Returned, Undisturbed, Ends
<1>4. worker[Peer(e)][i] \in {"ok", "err", "gone"}
  <2>1. Fate(i)[Peer(e)] \in {"ok", "err", "gone"}
    BY PeerLetGo DEF Tasks
  <2> QED
    BY <1>1, <1>3, <2>1 DEF Fate
<1>5. worker[Peer(e)][i] = "ok"
  BY <1>1, <1>2, <1>4 DEF SendersFirst
<1>6. ASSUME IsSending(Par, e, i)
      PROVE  FALSE
  <2>1. ~ IsSending(Par, Peer(e), i)
    <3>1. e = SendingEnd(i) /\ Peer(e) # e
      BY <1>6, SenderIs DEF Peer
    <3>2. IsSending(Par, Peer(e), i) => Peer(e) = SendingEnd(i)
      BY <1>1, SenderIs
    <3> QED
      BY <3>1, <3>2
  <2>2. worker[e][i] \in {"ok", "gone"}
    BY <1>1, <1>5, <2>1 DEF SendersFirst
  <2> QED
    BY <2>2 DEF Loading
<1> QED
  BY <1>3, <1>5, <1>6

\* Workers start to work with the load, find StartLoad and do not fail.
LEMMA WorksWell ==
  ASSUME IndInv, StartsInv, ResultsInv, LivesInv, Undisturbed, LoadComesFirst, SendersFirst,
         NEW e \in Ends, NEW i \in Ids, Work(e, i)
  PROVE  /\ old_state[e] = "Running"
         /\ \/ WorkerStart(e, i)
            \/ WorkerStop(e, i)
            \/ WorkerDrained(e, i) /\ worker[Peer(e)][i] = "ok"
<1>1. CASE WorkerStart(e, i)
  <2>1. mail[e][i] # <<>> /\ Head(mail[e][i]) = "StartLoad"
    BY <1>1 DEF WorkerStart
  <2>2. old_state[e] # "Running" => mail[e][i] = <<>>
    BY DEF StartsInv, LoadComesFirst
  <2> QED
    BY <1>1, <2>1, <2>2
<1>2. CASE WorkerBail(e, i)
  <2>1. /\ worker[e][i] = "wait"
        /\ IF mail[e][i] = <<>> THEN i \notin streams[e] ELSE Head(mail[e][i]) # "StartLoad"
    BY <1>2 DEF WorkerBail
  <2>2. old_state[e] # "Running"
    BY <2>1 DEF LoadComesFirst
  <2>3. mail[e][i] = <<>>
    BY <2>2 DEF StartsInv, LoadComesFirst
  <2>4. i \in streams[e]
    BY <2>1, <2>2 DEF LoadComesFirst, Made
  <2> QED
    BY <2>1, <2>3, <2>4
<1>3. CASE WorkerStop(e, i) \/ WorkerDrained(e, i) \/ WorkerError(e, i)
  <2>1. worker[e][i] \in Loading
    BY <1>3 DEF WorkerStop, WorkerDrained, WorkerError, Loading
  <2>2. old_state[e] = "Running"
    BY <2>1 DEF StartsInv
  <2>3. CASE WorkerError(e, i)
    <3>1. PeerClosed(e, i) /\ (IsSending(Par, e, i) \/ Down(Peer(e)))
      BY <2>3 DEF WorkerError, PeerClosed
    <3> QED
      BY <2>1, <3>1, ClosedBySender
  <2>4. CASE WorkerDrained(e, i)
    BY <2>1, <2>2, <2>4, ClosedBySender DEF WorkerDrained
  <2> QED
    BY <1>3, <2>2, <2>3, <2>4
<1> QED
  BY <1>1, <1>2, <1>3 DEF Work

----------------------------------------------------------------------------
(* LoadComesFirst.                                                         *)

\* Steps that neither look at the state nor give an end another stream.
LEMMA LoadKept ==
  ASSUME LoadComesFirst, old_state' = old_state,
         \A e \in Ends :
           /\ pc'[e] = "recv" /\ state'[e] = "Running" => old_state[e] = "Running"
           /\ state'[e] = "ExchangeResults" => old_state[e] = "Running"
           /\ old_state[e] # "Running" => streams'[e] = streams[e] /\ worker'[e] = worker[e]
           /\ \A i \in Ids :
                old_state[e] = "Running" /\ worker'[e][i] = "wait" =>
                  /\ worker[e][i] = "wait"
                  /\ mail'[e][i] = mail[e][i]
                       \/ (mail'[e][i] # <<>> /\ Head(mail'[e][i]) = "StartLoad")
  PROVE  LoadComesFirst'
BY DEF LoadComesFirst, Made

\* An end registers its next stream before its load.
LEMMA LoadAwaited ==
  ASSUME IndInv, StartsInv, LoadComesFirst, NEW e \in Ends, NEW n \in Ids, Register(e, n),
         state[e] \in Early, UNCHANGED <<old_state, mail>>,
         \A f \in Ends : f # e => pc'[f] = pc[f] /\ state'[f] = state[f],
         state'[e] # "ExchangeResults", ~ (pc'[e] = "recv" /\ state'[e] = "Running")
  PROVE  LoadComesFirst'
<1>1. /\ worker' = [worker EXCEPT ![e][n] = "wait"] /\ streams' = [streams EXCEPT ![e] = @ \cup {n}]
      /\ worker \in [Ends -> [Ids -> WorkerStates]] /\ streams \in [Ends -> SUBSET Ids]
  BY DEF Register, IndInv, TypeOK
<1>2. old_state[e] # "Running"
  BY DEF StartsInv
<1>3. \A f \in Ends : f # e => worker'[f] = worker[f] /\ streams'[f] = streams[f] /\ Made(f)' = Made(f)
  BY <1>1 DEF Made
<1>4. /\ streams[e] = Made(e)
      /\ \A i \in Ids : worker[e][i] \in {"absent", "wait"}
  BY <1>2 DEF LoadComesFirst
<1>5. /\ streams'[e] = Made(e)'
      /\ \A i \in Ids : worker'[e][i] \in {"absent", "wait"}
  BY <1>1, <1>4 DEF Made
<1> SUFFICES ASSUME NEW f \in Ends
             PROVE  (/\ pc[f] = "recv" /\ state[f] = "Running" => old_state[f] = "Running"
                     /\ state[f] = "ExchangeResults" => old_state[f] = "Running"
                     /\ old_state[f] # "Running" =>
                          /\ streams[f] = Made(f)
                          /\ \A i \in Ids : worker[f][i] \in {"absent", "wait"}
                     /\ old_state[f] = "Running" =>
                          \A i \in Ids : worker[f][i] = "wait"
                                           => mail[f][i] # <<>> /\ Head(mail[f][i]) = "StartLoad")'
  BY DEF LoadComesFirst
<1>6. CASE f = e
  BY <1>2, <1>5, <1>6
<1>7. CASE f # e
  BY <1>3, <1>7 DEF LoadComesFirst
<1> QED
  BY <1>6, <1>7

\* A controller that looks at its state notes what it finds.
LEMMA LoadNoted ==
  ASSUME IndInv, StartsInv, LoadComesFirst, NEW e \in Ends,
         old_state' = [old_state EXCEPT ![e] = state[e]],
         state[e] = "Running" <=> old_state[e] = "Running", state[e] # "ExchangeResults",
         UNCHANGED <<state, streams, worker, mail>>, \A f \in Ends : f # e => pc'[f] = pc[f]
  PROVE  LoadComesFirst'
<1>1. old_state'[e] = state[e] /\ \A f \in Ends : f # e => old_state'[f] = old_state[f]
  BY DEF IndInv, TypeOK
<1>2. \A f \in Ends : old_state'[f] = "Running" <=> old_state[f] = "Running"
  BY <1>1
<1> QED
  BY <1>1, <1>2 DEF LoadComesFirst, Made

\* The transition to Running tells every worker to start.
LEMMA LoadTold ==
  ASSUME IndInv, StartsInv, LoadComesFirst, NEW e \in Ends, StartLoad(e)
  PROVE  LoadComesFirst'
<1>1. /\ state[e] = "Running" /\ old_state[e] # "Running"
      /\ old_state' = [old_state EXCEPT ![e] = "Running"] /\ pc' = [pc EXCEPT ![e] = "recv"]
      /\ UNCHANGED <<state, streams, worker>>
      /\ old_state \in [Ends -> States] /\ pc \in [Ends -> Suspended \cup Returned]
      /\ mail \in [Ends -> [Ids -> Seq({"StartLoad", "Terminate"})]]
  BY DEF StartLoad, Transition, IndInv, TypeOK
<1>2. \A f \in Ends : f # e => mail'[f] = mail[f] /\ old_state'[f] = old_state[f] /\ pc'[f] = pc[f]
  BY <1>1 DEF StartLoad, Broadcast
<1>3. ASSUME NEW i \in Ids, worker[e][i] = "wait"
      PROVE  mail'[e][i] # <<>> /\ Head(mail'[e][i]) = "StartLoad"
  <2>1. i \in streams[e] /\ mail[e][i] = <<>>
    BY <1>1, <1>3 DEF LoadComesFirst, Made, StartsInv
  <2>2. mail'[e][i] = Append(mail[e][i], "StartLoad")
    BY <1>1, <1>3, <2>1 DEF StartLoad, Broadcast
  <2>3. Append(<<>>, "StartLoad") = <<"StartLoad">>
    OBVIOUS
  <2> QED
    BY <2>1, <2>2, <2>3
<1>4. old_state'[e] = "Running"
  BY <1>1
<1> QED
  BY <1>1, <1>2, <1>3, <1>4 DEF LoadComesFirst, Made

\* In the exchange the workers that still wait find StartLoad first.
LEMMA LoadToldBefore ==
  ASSUME IndInv, LoadComesFirst, NEW e \in Ends, Finalise(e)
  PROVE  LoadComesFirst'
<1>1. /\ state[e] = "ExchangeResults" /\ pc' = [pc EXCEPT ![e] = "collect"]
      /\ UNCHANGED <<state, old_state, streams, worker>> /\ pc \in [Ends -> Suspended \cup Returned]
      /\ mail \in [Ends -> [Ids -> Seq({"StartLoad", "Terminate"})]]
  BY DEF Finalise, IndInv, TypeOK
<1>2. old_state[e] = "Running"
  BY <1>1 DEF LoadComesFirst
<1>3. \A f \in Ends : f # e => mail'[f] = mail[f] /\ pc'[f] = pc[f]
  BY <1>1 DEF Finalise, Broadcast
<1>4. ASSUME NEW i \in Ids, worker[e][i] = "wait"
      PROVE  mail'[e][i] # <<>> /\ Head(mail'[e][i]) = "StartLoad"
  <2> DEFINE m == mail[e][i]
  <2>1. m \in Seq({"StartLoad", "Terminate"}) /\ m # <<>> /\ Head(m) = "StartLoad"
    BY <1>1, <1>2, <1>4 DEF LoadComesFirst
  <2>2. mail'[e][i] = m \/ mail'[e][i] = Append(m, "Terminate")
    BY <1>1 DEF Finalise, Broadcast
  <2> HIDE DEF m
  <2>3. Append(m, "Terminate") # <<>> /\ Head(Append(m, "Terminate")) = Head(m)
    BY <2>1
  <2> QED
    BY <2>1, <2>2, <2>3
<1>5. pc'[e] # "recv"
  BY <1>1
<1> QED
  BY <1>1, <1>2, <1>3, <1>4, <1>5, LoadKept DEF LoadComesFirst

\* A worker at work waits no longer.
LEMMA LoadTaken ==
  ASSUME IndInv, LoadComesFirst, NEW e \in Ends, NEW i \in Ids, Work(e, i), old_state[e] = "Running"
  PROVE  LoadComesFirst'
<1>1. /\ UNCHANGED <<state, old_state, pc, streams>>
      /\ \E w \in Loading \cup Finished : worker' = [worker EXCEPT ![e][i] = w]
  BY WorkMoves DEF Work, WorkerStart, WorkerBail, WorkerStop, WorkerDrained, WorkerError, outside
<1>2. \E m : mail' = [mail EXCEPT ![e][i] = m]
  BY DEF Work, WorkerStart, WorkerBail, WorkerStop, WorkerDrained, WorkerError, Finish
<1>3. /\ worker \in [Ends -> [Ids -> WorkerStates]]
      /\ mail \in [Ends -> [Ids -> Seq({"StartLoad", "Terminate"})]]
  BY DEF IndInv, TypeOK
<1>4. \A f \in Ends : f # e => worker'[f] = worker[f] /\ mail'[f] = mail[f]
  BY <1>1, <1>2, <1>3
<1>5. \A j \in Ids : j # i => worker'[e][j] = worker[e][j] /\ mail'[e][j] = mail[e][j]
  BY <1>1, <1>2, <1>3
<1>6. worker'[e][i] # "wait"
  BY <1>1, <1>3 DEF Loading, Finished
<1>7. \A j \in Ids : worker'[e][j] = "wait" => worker[e][j] = "wait" /\ mail'[e][j] = mail[e][j]
  BY <1>5, <1>6
<1> QED
  BY <1>1, <1>4, <1>7 DEF LoadComesFirst, Made

\* An end that returns from an undisturbed test has been through its load.
LEMMA LoadLeft ==
  ASSUME IndInv, LoadComesFirst, NEW e \in Ends, Leave(e, "done"), state[e] = "ExchangeResults",
         UNCHANGED <<state, old_state, mail>>
  PROVE  LoadComesFirst'
<1>1. /\ pc' = [pc EXCEPT ![e] = "done"] /\ streams' = [streams EXCEPT ![e] = {}]
      /\ worker' = worker \/ worker' = Cut(e)
      /\ pc \in [Ends -> Suspended \cup Returned] /\ streams \in [Ends -> SUBSET Ids]
      /\ worker \in [Ends -> [Ids -> WorkerStates]]
  BY DEF Leave, IndInv, TypeOK
<1>2. old_state[e] = "Running" /\ pc'[e] = "done"
  BY <1>1 DEF LoadComesFirst
<1>3. \A f \in Ends : f # e => /\ worker'[f] = worker[f] /\ streams'[f] = streams[f]
                               /\ pc'[f] = pc[f]
  BY <1>1 DEF Cut
<1>4. \A i \in Ids : worker'[e][i] = "wait" => worker[e][i] = "wait"
  BY <1>1 DEF Cut
<1> QED
  BY <1>2, <1>3, <1>4 DEF LoadComesFirst, Made

\* In an undisturbed test every step keeps the load first.
LEMMA LoadFirstStep ==
  ASSUME IndInv, StartsInv, ResultsInv, LivesInv, [Next]_vars, Undisturbed', Undisturbed,
         LoadComesFirst, SendersFirst
  PROVE  LoadComesFirst'
<1>1. /\ pc \in [Ends -> Suspended \cup Returned] /\ streams \in [Ends -> SUBSET Ids]
      /\ state \in [Ends -> States] /\ worker \in [Ends -> [Ids -> WorkerStates]]
  BY DEF IndInv, TypeOK
<1>2. ASSUME UNCHANGED <<state, old_state, streams, worker, mail>>,
             \A f \in Ends : pc'[f] = "recv" => pc[f] = "recv"
      PROVE  LoadComesFirst'
  BY <1>2, LoadKept DEF LoadComesFirst
<1>3. \A e \in Ends : ~ Leave(e, "aborted") /\ ~ Leave(e, "killed")
  BY LeavesDone DEF Returned
<1>4. ASSUME NEW e \in Ends, Control(e)
      PROVE  LoadComesFirst'
  <2>1. CASE Wait(e)
    <3>1. /\ old_state' = [old_state EXCEPT ![e] = state[e]]
          /\ UNCHANGED <<state, streams, worker, mail>> /\ pc' = [pc EXCEPT ![e] = "recv"]
          /\ state[e] # "ExchangeResults" /\ (state[e] = "Running" => old_state[e] = "Running")
      BY <2>1 DEF Wait
    <3>2. old_state[e] = "Running" => state[e] = "Running"
      BY <1>1, <3>1 DEF StartsInv, States, Early
    <3>3. \A f \in Ends : f # e => pc'[f] = pc[f]
      BY <3>1, <1>1
    <3> QED
      BY <3>1, <3>2, <3>3, LoadNoted
  <2>2. CASE StartLoad(e)
    BY <2>2, LoadTold
  <2>3. CASE Finalise(e)
    BY <2>3, LoadToldBefore
  <2>4. CASE RecvTerminated(e)
    <3>1. /\ pc[e] = "recv" /\ queue[e] # <<>> /\ Head(queue[e]).kind = "StreamTerminated"
          /\ queue[e] \in Seq(Messages) /\ pc' = [pc EXCEPT ![e] = "top"]
          /\ UNCHANGED <<old_state, worker, mail>>
          /\ \E s : streams' = [streams EXCEPT ![e] = s]
          /\ state' = state \/ (e = "Server" /\ SetState("ExchangeResults"))
      BY <2>4 DEF RecvTerminated, IndInv, TypeOK
    <3>2. 1 \in 1 .. Len(queue[e]) /\ Head(queue[e]) = queue[e][1]
      BY <3>1
    <3>3. state[e] \notin Early /\ state[e] # "ExchangeResults"
      BY <3>1, <3>2 DEF IndInv, Preparing, Whereabouts, Gone, Returned
    <3>4. old_state[e] = "Running"
      BY <1>1, <3>1, <3>3 DEF LoadComesFirst, States, Early
    <3>5. \A f \in Ends : f # e => /\ pc'[f] = pc[f] /\ streams'[f] = streams[f]
                                   /\ state'[f] = state[f]
      BY <1>1, <3>1 DEF SetState
    <3>6. pc'[e] = "top"
      BY <1>1, <3>1
    <3> QED
      BY <3>1, <3>4, <3>5, <3>6, LoadKept DEF LoadComesFirst
  <2>5. CASE \E i \in Ids : CollectJoin(e, i) \/ CollectTimeout(e, i)
    <3>1. /\ pc[e] = "collect" /\ UNCHANGED <<state, old_state, pc, worker, mail>>
          /\ \E s : streams' = [streams EXCEPT ![e] = s]
      BY <2>5 DEF CollectJoin, CollectTimeout
    <3>2. old_state[e] = "Running"
      BY <3>1 DEF IndInv, Whereabouts, LoadComesFirst
    <3>3. \A f \in Ends : f # e => streams'[f] = streams[f]
      BY <1>1, <3>1
    <3> QED
      BY <3>1, <3>2, <3>3, LoadKept DEF LoadComesFirst
  <2>6. CASE CollectDone(e)
    <3>1. /\ pc' = [pc EXCEPT ![e] = "exchange"]
          /\ UNCHANGED <<state, old_state, streams, worker, mail>>
      BY <2>6, <1>3 DEF CollectDone
    <3>2. \A f \in Ends : pc'[f] = "recv" => pc[f] = "recv"
      BY <1>1, <3>1
    <3> QED
      BY <3>1, <3>2, <1>2
  <2> QED
    BY <1>4, <2>1, <2>2, <2>3, <2>4, <2>5, <2>6 DEF Control
<1>5. CASE ServerControl
  <2>1. CASE RecvCreate
    <3>1. /\ pc["Server"] = "recv" /\ UNCHANGED <<old_state, mail>>
          /\ Register("Server", Registered) /\ pc' = [pc EXCEPT !["Server"] = "top"]
          /\ state' = state \/ SetState("Running")
      BY <2>1, <1>3, ServerNextId DEF RecvCreate, Ends
    <3>2. state["Server"] = "CreateStreams" /\ Registered \in Ids
      BY <2>1, ServerNextId
    <3>3. /\ pc'["Server"] = "top" /\ pc'["Client"] = pc["Client"]
          /\ state'["Server"] # "ExchangeResults" /\ state'["Client"] = state["Client"]
      BY <1>1, <3>1, <3>2 DEF SetState, Ends
    <3> QED
      BY <3>1, <3>2, <3>3, LoadAwaited DEF Ends, Early
  <2>2. CASE ServerStart
    <3>1. /\ UNCHANGED <<old_state, pc, streams, worker, mail>>
          /\ state'["Server"] = "CreateStreams" /\ state'["Client"] = state["Client"]
      BY <2>2, <1>1 DEF ServerStart, SetState, Ends
    <3> QED
      BY <3>1, LoadKept DEF LoadComesFirst, Ends
  <2>3. CASE ServerStartFails \/ SrvReadFails
    BY <2>3, <1>3 DEF ServerStartFails, SrvReadFails, Ends
  <2>4. CASE SrvExchange
    <3>1. Leave("Server", "done") /\ pc["Server"] = "exchange" /\ UNCHANGED <<state, old_state, mail>>
      BY <2>4, <1>3 DEF SrvExchange, Ends
    <3>2. state["Server"] = "ExchangeResults"
      BY <3>1 DEF IndInv, Whereabouts, Ends
    <3> QED
      BY <3>1, <3>2, LoadLeft DEF Ends
  <2> QED
    BY <1>5, <2>1, <2>2, <2>3, <2>4 DEF ServerControl
<1>6. CASE ClientControl
  <2>1. CASE CliWelcome
    <3> DEFINE id == Cardinality(streams["Client"])
    <3>1. /\ pc["Client"] = "dial" /\ UNCHANGED <<state, old_state, mail>> /\ Register("Client", id)
          /\ \E p : pc' = [pc EXCEPT !["Client"] = p]
      BY <2>1 DEF CliWelcome
    <3>2. state["Client"] = "CreateStreams" /\ id \in Ids
      BY <2>1, <3>1, ClientNextId DEF IndInv, ClientOpens
    <3>3. pc'["Server"] = pc["Server"]
      BY <1>1, <3>1 DEF Ends
    <3> HIDE DEF id
    <3> QED
      BY <3>1, <3>2, <3>3, LoadAwaited DEF Ends, Early
  <2>2. CASE CliConnect \/ CliHello
    BY <1>2, <2>2 DEF CliConnect, CliHello
  <2>3. CASE CreateStreams
    <3>1. /\ old_state' = [old_state EXCEPT !["Client"] = state["Client"]]
          /\ UNCHANGED <<state, streams, worker, mail>> /\ pc' = [pc EXCEPT !["Client"] = "dial"]
          /\ state["Client"] = "CreateStreams"
      BY <2>3 DEF CreateStreams
    <3>2. old_state["Client"] # "Running" /\ "Client" \in Ends
      BY <3>1 DEF StartsInv, Early, Ends
    <3>3. \A f \in Ends : f # "Client" => pc'[f] = pc[f]
      BY <3>1, <1>1
    <3> QED
      BY <3>1, <3>2, <3>3, LoadNoted
  <2>4. CASE CliReadFrame
    <3>1. /\ pc["Client"] = "recv" /\ pc' = [pc EXCEPT !["Client"] = "top"]
          /\ UNCHANGED <<old_state, streams, worker, mail>> /\ state'["Server"] = state["Server"]
          /\ toClient # <<>> /\ toClient \in Seq(Frames)
          /\ state'["Client"] \in {state["Client"], Head(toClient)}
      BY <2>4, <1>1 DEF CliReadFrame, IndInv, TypeOK, Ends
    <3>2. state'["Client"] = "ExchangeResults" => old_state["Client"] = "Running"
      <4>1. 1 \in 1 .. Len(toClient) /\ Head(toClient) = toClient[1]
        BY <3>1
      <4>2. /\ Rank(Head(toClient)) = Rank(state["Client"]) + 1
            /\ state["Client"] \in States /\ state["Client"] # "ExchangeResults"
        BY <1>1, <3>1, <4>1 DEF IndInv, FramesInOrder, Whereabouts, Gone, Returned, Ends
      <4>3. Head(toClient) = "ExchangeResults" => state["Client"] = "Running"
        BY <4>2 DEF Rank, States
      <4> QED
        BY <3>1, <4>2, <4>3 DEF LoadComesFirst, Ends
    <3>3. pc'["Client"] = "top" /\ pc'["Server"] = pc["Server"]
      BY <1>1, <3>1 DEF Ends
    <3> QED
      BY <3>1, <3>2, <3>3, LoadKept DEF LoadComesFirst, Ends
  <2>5. CASE CliDialFails \/ CliReadFails
    BY <2>5, <1>3 DEF CliDialFails, CliReadFails, Ends
  <2>6. CASE CliExchange
    <3>1. Leave("Client", "done") /\ pc["Client"] = "exchange" /\ UNCHANGED <<state, old_state, mail>>
      BY <2>6, <1>3 DEF CliExchange, Ends
    <3>2. state["Client"] = "ExchangeResults"
      BY <3>1 DEF IndInv, Whereabouts, Ends
    <3> QED
      BY <3>1, <3>2, LoadLeft DEF Ends
  <2> QED
    BY <1>6, <2>1, <2>2, <2>3, <2>4, <2>5, <2>6 DEF ClientControl
<1>7. CASE Acceptor \/ CliReadPart \/ CliReadsGarbage
  BY <1>2, <1>3, <1>7 DEF Acceptor, AccAccept, AccAdmit, AccFail, CliReadPart, CliReadsGarbage, Ends
<1>8. ASSUME NEW e \in Ends, Crash(e)
      PROVE  LoadComesFirst'
  BY <1>3, <1>8 DEF Crash
<1>9. ASSUME NEW e \in Ends, NEW i \in Ids, Work(e, i)
      PROVE  LoadComesFirst'
  BY <1>9, WorksWell, LoadTaken
<1>10. CASE Terminating \/ UNCHANGED vars
  BY <1>2, <1>10 DEF Terminating, vars
<1> QED
  BY <1>4, <1>5, <1>6, <1>7, <1>8, <1>9, <1>10 DEF Next

----------------------------------------------------------------------------
(* SendersFirst.                                                           *)

\* A client that is done takes its workers with it; nobody loses an "ok".
LEMMA SendersLeft ==
  ASSUME IndInv, SendersFirst, NEW e \in Ends, Leave(e, "done"),
         pc["Client"] = "done" => pc'["Client"] = "done"
  PROVE  SendersFirst'
<1>1. /\ worker \in [Ends -> [Ids -> WorkerStates]] /\ pc' = [pc EXCEPT ![e] = "done"]
      /\ pc \in [Ends -> Suspended \cup Returned]
      /\ worker' = IF e = "Client" THEN Cut(e) ELSE worker
  BY DEF Leave, IndInv, TypeOK
<1>2. CASE e = "Server"
  <2>1. worker' = worker
    BY <1>1, <1>2
  <2> QED
    BY <2>1 DEF SendersFirst
<1>3. CASE e = "Client"
  <2>1. /\ pc'["Client"] = "done" /\ worker'["Server"] = worker["Server"]
        /\ \A i \in Ids : worker'["Client"][i]
                            = IF worker["Client"][i] \in Tasks THEN "gone" ELSE worker["Client"][i]
    BY <1>1, <1>3 DEF Cut, Ends
  <2>2. \A f \in Ends, i \in Ids :
          /\ worker'[f][i] \in {"ok", "err"} => worker[f][i] = worker'[f][i]
          /\ worker[f][i] \in {"ok", "gone"} => worker'[f][i] = worker[f][i]
          /\ f # "Client" => worker'[f][i] = worker[f][i]
    BY <2>1 DEF Tasks, Loading, Ends
  <2>3. \A f \in Ends : Peer(f) \in Ends
    BY DEF Peer, Ends
  <2> QED
    BY <2>1, <2>2, <2>3 DEF SendersFirst
<1> QED
  BY <1>2, <1>3 DEF Ends

\* A worker moves on that had neither ended nor gone.
LEMMA SendersMove ==
  ASSUME IndInv, SendersFirst, NEW e \in Ends, NEW i \in Ids, NEW w \in WorkerStates \ {"err", "gone"},
         worker' = [worker EXCEPT ![e][i] = w], worker[e][i] \notin {"ok", "gone"},
         w = "ok" /\ ~ IsSending(Par, e, i) => worker[Peer(e)][i] \in {"ok", "gone"},
         pc["Client"] = "done" => pc'["Client"] = "done"
  PROVE  SendersFirst'
<1>1. worker \in [Ends -> [Ids -> WorkerStates]] /\ \A f \in Ends : Peer(f) \in Ends /\ Peer(f) # f
  BY DEF IndInv, TypeOK, Peer, Ends
<1>2. worker'[e][i] = w /\ \A f \in Ends, j \in Ids : f # e \/ j # i => worker'[f][j] = worker[f][j]
  BY <1>1
<1> SUFFICES ASSUME NEW f \in Ends, NEW j \in Ids
             PROVE  (/\ worker[f][j] # "err"
                     /\ worker[f][j] = "gone" => f = "Client" /\ pc["Client"] = "done"
                     /\ worker[f][j] = "ok" /\ ~ IsSending(Par, f, j)
                          => worker[Peer(f)][j] \in {"ok", "gone"})'
  BY DEF SendersFirst
<1>3. CASE f = e /\ j = i
  <2>1. worker'[Peer(e)][i] = worker[Peer(e)][i]
    BY <1>1, <1>2
  <2>2. w # "err" /\ w # "gone"
    OBVIOUS
  <2> QED
    BY <1>2, <1>3, <2>1, <2>2 DEF IsSending
<1>4. CASE f # e \/ j # i
  <2>1. worker'[f][j] = worker[f][j]
    BY <1>2, <1>4
  <2>2. worker[Peer(f)][j] \in {"ok", "gone"} => worker'[Peer(f)][j] = worker[Peer(f)][j]
    BY <1>1, <1>2
  <2>3. IsSending(Par, f, j)' <=> IsSending(Par, f, j)
    BY DEF IsSending
  <2> QED
    BY <2>1, <2>2, <2>3 DEF SendersFirst
<1> QED
  BY <1>3, <1>4

\* In an undisturbed test every step keeps the senders first.
LEMMA SendersFirstStep ==
  ASSUME IndInv, StartsInv, ResultsInv, LivesInv, [Next]_vars, Undisturbed', Undisturbed,
         LoadComesFirst, SendersFirst
  PROVE  SendersFirst'
<1>1. pc["Client"] = "done" => pc'["Client"] = "done"
  BY Undisturbing DEF Ends
<1>2. ASSUME worker' = worker
      PROVE  SendersFirst'
  BY <1>1, <1>2 DEF SendersFirst
<1>3. \A e \in Ends : ~ Leave(e, "aborted") /\ ~ Leave(e, "killed")
  BY LeavesDone DEF Returned
<1>4. ASSUME NEW e \in Ends, Control(e)
      PROVE  SendersFirst'
  BY <1>2, <1>3, <1>4 DEF Control, Wait, StartLoad, Finalise, RecvTerminated, CollectJoin,
     CollectTimeout, CollectDone
<1>5. ASSUME NEW e \in Ends, NEW n \in Ids, Register(e, n), worker[e][n] = "absent"
      PROVE  SendersFirst'
  <2>1. worker' = [worker EXCEPT ![e][n] = "wait"] /\ "wait" \in WorkerStates \ {"err", "gone"}
    BY <1>5 DEF Register, WorkerStates
  <2> QED
    BY <1>1, <1>5, <2>1, SendersMove
<1>6. CASE ServerControl
  <2>1. CASE RecvCreate
    <3>1. Register("Server", Registered)
      BY <2>1, <1>3, ServerNextId DEF RecvCreate, Ends
    <3> QED
      BY <2>1, <3>1, <1>5, ServerNextId DEF Ends
  <2>2. CASE ServerStart
    BY <2>2, <1>2 DEF ServerStart
  <2>3. CASE ServerStartFails \/ SrvReadFails
    BY <2>3, <1>3 DEF ServerStartFails, SrvReadFails, Ends
  <2>4. CASE SrvExchange
    BY <1>1, <1>3, <2>4, SendersLeft DEF SrvExchange, Ends
  <2> QED
    BY <1>6, <2>1, <2>2, <2>3, <2>4 DEF ServerControl
<1>7. CASE ClientControl
  <2>1. CASE CliWelcome
    BY <2>1, <1>5, ClientNextId DEF CliWelcome, Ends
  <2>2. CASE CreateStreams \/ CliConnect \/ CliHello \/ CliReadFrame
    BY <2>2, <1>2 DEF CreateStreams, CliConnect, CliHello, CliReadFrame
  <2>3. CASE CliDialFails \/ CliReadFails
    BY <2>3, <1>3 DEF CliDialFails, CliReadFails, Ends
  <2>4. CASE CliExchange
    BY <1>1, <1>3, <2>4, SendersLeft DEF CliExchange, Ends
  <2> QED
    BY <1>7, <2>1, <2>2, <2>3, <2>4 DEF ClientControl
<1>8. CASE Acceptor \/ CliReadPart \/ CliReadsGarbage
  BY <1>2, <1>3, <1>8 DEF Acceptor, AccAccept, AccAdmit, AccFail, CliReadPart, CliReadsGarbage, Ends
<1>9. ASSUME NEW e \in Ends, Crash(e)
      PROVE  SendersFirst'
  BY <1>3, <1>9 DEF Crash
<1>10. ASSUME NEW e \in Ends, NEW i \in Ids, Work(e, i)
       PROVE  SendersFirst'
  <2>1. worker[e][i] \notin {"ok", "gone"}
    BY <1>10, WorkMoves DEF Tasks, Loading
  <2>2. CASE WorkerStart(e, i)
    <3>1. worker' = [worker EXCEPT ![e][i] = "load"] /\ "load" \in WorkerStates \ {"err", "gone"}
      BY <2>2 DEF WorkerStart, WorkerStates, Loading
    <3> QED
      BY <1>1, <2>1, <3>1, SendersMove
  <2>3. CASE WorkerStop(e, i) /\ IsSending(Par, e, i)
    <3>1. worker' = [worker EXCEPT ![e][i] = "ok"] /\ "ok" \in WorkerStates \ {"err", "gone"}
      BY <2>3 DEF WorkerStop, Finish, WorkerStates, Finished
    <3> QED
      BY <1>1, <2>1, <2>3, <3>1, SendersMove
  <2>4. CASE WorkerStop(e, i) /\ ~ IsSending(Par, e, i)
    <3>1. worker' = [worker EXCEPT ![e][i] = "drain"] /\ "drain" \in WorkerStates \ {"err", "gone"}
      BY <2>4 DEF WorkerStop, WorkerStates, Loading
    <3> QED
      BY <1>1, <2>1, <3>1, SendersMove
  <2>5. CASE WorkerDrained(e, i) /\ worker[Peer(e)][i] = "ok"
    <3>1. worker' = [worker EXCEPT ![e][i] = "ok"] /\ "ok" \in WorkerStates \ {"err", "gone"}
      BY <2>5 DEF WorkerDrained, Finish, WorkerStates, Finished
    <3> QED
      BY <1>1, <2>1, <2>5, <3>1, SendersMove
  <2> QED
    BY <1>10, <2>2, <2>3, <2>4, <2>5, WorksWell
<1>11. CASE Terminating \/ UNCHANGED vars
  BY <1>2, <1>11 DEF Terminating, vars
<1> QED
  BY <1>4, <1>6, <1>7, <1>8, <1>9, <1>10, <1>11 DEF Next

\* While no process dies and no controller gives up no worker ends in error, in
\* whatever order the two ends meet their deadlines: a receiver drains until its
\* sender has closed, and every worker is told to start before anything else.
THEOREM SendersSafe == Spec => []SendersNeverFail
<1>1. Init => DrainsInv
  <2> SUFFICES ASSUME Init
               PROVE  LoadComesFirst /\ SendersFirst
    BY DEF DrainsInv
  <2>1. \A e \in Ends : /\ state[e] = "TestStart" /\ old_state[e] = "TestStart"
                        /\ pc[e] = "top" /\ streams[e] = {}
                        /\ \A i \in Ids : worker[e][i] = "absent"
    BY DEF Init
  <2>2. \A e \in Ends : Made(e) = {}
    BY <2>1 DEF Made
  <2> QED
    BY <2>1, <2>2 DEF LoadComesFirst, SendersFirst
<1>2. IndInv /\ StartsInv /\ ResultsInv /\ LivesInv /\ DrainsInv /\ [Next]_vars => DrainsInv'
  <2> SUFFICES ASSUME IndInv, StartsInv, ResultsInv, LivesInv, DrainsInv, [Next]_vars, Undisturbed'
               PROVE  LoadComesFirst' /\ SendersFirst'
    BY DEF DrainsInv
  <2>1. Undisturbed
    BY Undisturbing
  <2>2. LoadComesFirst /\ SendersFirst
    BY <2>1 DEF DrainsInv
  <2> QED
    BY <2>1, <2>2, LoadFirstStep, SendersFirstStep
<1>3. DrainsInv => SendersNeverFail
  BY DEF DrainsInv, SendersNeverFail, Undisturbed, SendersFirst
<1> QED
  BY <1>1, <1>2, <1>3, Invariance, StartsInvariance, ResultsInvariance, LivesInvariance, PTL DEF Spec

=============================================================================
