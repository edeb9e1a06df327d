--------------------------- MODULE SessionProofs ---------------------------
(***************************************************************************)
(* What holds of a session for every direction and number of streams,      *)
(* every capacity of the channels, with frames split or whole and whoever  *)
(* crashes.                                                                *)
(***************************************************************************)
EXTENDS SessionInvariant, FiniteSetTheorems, TLAPS

----------------------------------------------------------------------------
(* Counting.                                                               *)

\* The number of streams is a natural number (the sum of two u16 counts, in u16).
LEMMA NeededIsNat == N \in Nat
<1>1. U16 \in Nat \ {0}
  BY DEF U16
<1>2. Par.parallel \in Nat
  BY <1>1, SessionAssumption DEF TestParameters
<1>3. ClientSends(Par) \in Nat /\ ClientReceives(Par) \in Nat
  BY <1>2 DEF ClientSends, ClientReceives
<1>4. N = (ClientSends(Par) + ClientReceives(Par)) % U16
  BY DEF N, Needed, NumSend, NumReceive, Peer
<1> QED
  BY <1>1, <1>3, <1>4

\* The size of an initial segment of the ids.
LEMMA SegmentSize ==
  ASSUME NEW n \in Nat
  PROVE  Cardinality(0 .. n - 1) = n
<1>1. CASE n = 0
  <2>1. 0 .. n - 1 = {}
    BY <1>1
  <2> QED
    BY <2>1, <1>1, FS_EmptySet
<1>2. CASE n > 0
  BY <1>2, FS_Interval
<1> QED
  BY <1>1, <1>2

\* A step that neither creates nor forgets a worker leaves the counts alone.
LEMMA SameCounts ==
  ASSUME \A e \in Ends, i \in Ids : (worker[e][i] = "absent") <=> (worker'[e][i] = "absent")
  PROVE  /\ Dialled' = Dialled
         /\ Registered' = Registered
         /\ \A e \in Ends : Made(e)' = Made(e)
<1>1. \A e \in Ends : Made(e)' = Made(e)
  BY DEF Made, Ends, Ids
<1>2. Made("Client")' = Made("Client") /\ Made("Server")' = Made("Server")
  BY <1>1 DEF Ends
<1>3. Dialled' = Dialled
  BY <1>2 DEF Made, Dialled
<1> QED
  BY <1>1, <1>2, <1>3 DEF Registered

----------------------------------------------------------------------------
(* The inductive invariant holds at the start.                             *)

\* Two controllers that have just been spawned, PerfTest::new.
LEMMA InitInv == Init => IndInv
<1> SUFFICES ASSUME Init PROVE IndInv
  OBVIOUS
<1> USE NeededIsNat DEF Init
<1>1. TypeOK
  <2>1. /\ queue \in [Ends -> Seq(Messages)]
        /\ mail \in [Ends -> [Ids -> Seq({"StartLoad", "Terminate"})]]
        /\ toClient \in Seq(Frames)
    OBVIOUS
  <2>2. /\ worker \in [Ends -> [Ids -> WorkerStates]]
        /\ conn \in [Ids -> Ids \cup {Nobody}]
    BY DEF WorkerStates
  <2> QED
    BY <2>1, <2>2 DEF TypeOK, States, Suspended
<1>2. /\ \A e \in Ends : Made(e) = {}
      /\ Dialled = 0 /\ Registered = 0
  BY FS_EmptySet DEF Made, Dialled, Registered, Ends
<1>3. Numbered
  BY <1>2 DEF Numbered, Ends
<1>4. Preparing
  BY <1>2 DEF Preparing, Early, Ends, Loading
<1>5. ClientOpens /\ ServerRegisters
  BY <1>2 DEF ClientOpens, ServerRegisters, Early, Ends, Welcomed
<1>6. FramesInOrder /\ Whereabouts
  BY DEF FramesInOrder, Whereabouts, Rank, Ends
<1> QED
  BY <1>1, <1>3, <1>4, <1>5, <1>6 DEF IndInv

----------------------------------------------------------------------------
(* Every step preserves it.                                                *)

\* Until the load starts the map of streams holds every stream ever made.
LEMMA EarlyCounts ==
  ASSUME IndInv, NEW e \in Ends, state[e] \in Early, ~ Gone(e)
  PROVE  /\ e = "Client" => Cardinality(streams[e]) = Dialled
         /\ e = "Server" => Cardinality(streams[e]) = Registered
<1>1. streams[e] = Made(e)
  BY DEF IndInv, Preparing
<1>2. Dialled \in Nat /\ Registered \in Nat
  BY NeededIsNat DEF IndInv, Numbered
<1> QED
  BY <1>1, <1>2, SegmentSize DEF IndInv, Numbered

\* The server tells the client of the state it moves to.
LEMMA SetStateInOrder ==
  ASSUME TypeOK, FramesInOrder, NEW s \in States, SetState(s),
         Rank(s) = Rank(state["Server"]) + 1,
         pc["Server"] # "done", pc'["Server"] # "done",
         state["Client"] \in States, Gone("Client")' <=> Gone("Client")
  PROVE  FramesInOrder'
<1>1. \A f \in States : Rank(f) \in Int
  BY DEF Rank, States
<1>2. /\ state'["Server"] = s
      /\ state'["Client"] = state["Client"]
  BY DEF SetState, TypeOK, Ends
<1>3. CASE Gone("Client")
  BY <1>1, <1>2, <1>3 DEF FramesInOrder, TypeOK, Ends
<1>4. CASE ~ Gone("Client")
  <2>1. toClient' = Append(toClient, s)
    BY <1>4 DEF SetState, SendToClient
  <2>2. Len(toClient) \in Nat /\ Rank(state["Client"]) \in Int /\ Rank(state["Server"]) \in Int
    BY <1>1 DEF TypeOK, Ends
  <2>3. Rank(s) = Rank(state["Client"]) + Len(toClient) + 1
    BY <2>2, <1>4 DEF FramesInOrder
  <2>4. Len(toClient') = Len(toClient) + 1
    BY <2>1 DEF TypeOK
  <2>5. \A k \in 1 .. Len(toClient') : Rank(toClient'[k]) = Rank(state["Client"]) + k
    <3> SUFFICES ASSUME NEW k \in 1 .. Len(toClient')
                 PROVE  Rank(toClient'[k]) = Rank(state["Client"]) + k
      OBVIOUS
    <3>1. CASE k = Len(toClient) + 1
      <4>1. toClient'[k] = s
        BY <3>1, <2>1 DEF TypeOK
      <4> QED
        BY <4>1, <3>1, <2>2, <2>3
    <3>2. CASE k \in 1 .. Len(toClient)
      <4>1. toClient'[k] = toClient[k]
        BY <3>2, <2>1 DEF TypeOK
      <4> QED
        BY <4>1, <3>2, <1>4 DEF FramesInOrder
    <3> QED
      BY <3>1, <3>2, <2>4, <2>2
  <2>6. Rank(state["Client"]) <= Rank(s)
    BY <2>2, <2>3
  <2>7. Rank(state["Client"]) + Len(toClient') = Rank(s) + 0
    BY <2>2, <2>3, <2>4
  <2> QED
    BY <1>2, <2>5, <2>6, <2>7 DEF FramesInOrder
<1> QED
  BY <1>3, <1>4

\* run_controller has nothing to do but wait: no stream is made or lost, and a
\* client waits in CreateStreams only with all its streams open.
LEMMA WaitStep ==
  ASSUME IndInv, NEW e \in Ends, Wait(e)
  PROVE  IndInv'
<1> USE DEF IndInv, Wait
<1>1. TypeOK'
  BY DEF TypeOK, control, dialling, Suspended
<1>2. /\ Dialled' = Dialled /\ Registered' = Registered
      /\ \A f \in Ends : Made(f)' = Made(f)
  BY SameCounts
<1>3. Numbered'
  BY <1>2 DEF Numbered, dialling, Ends
<1>4. Preparing'
  BY <1>2 DEF Preparing, Gone, Returned, TypeOK
<1>5. ClientOpens'
  <2>1. e = "Client" /\ state[e] = "CreateStreams" => Dialled = N
    BY EarlyCounts, NeededIsNat DEF Numbered, N, Early, Gone, Returned
  <2> QED
    BY <2>1, <1>2 DEF ClientOpens, TypeOK
<1>6. ServerRegisters'
  BY <1>2 DEF ServerRegisters, Welcomed, Gone, Returned, TypeOK, dialling
<1>7. FramesInOrder' 
  BY DEF FramesInOrder, Gone, Returned, TypeOK, control
<1>8. Whereabouts'
  BY DEF Whereabouts, TypeOK, control
<1> QED
  BY <1>1, <1>3, <1>4, <1>5, <1>6, <1>7, <1>8

\* run_controller on the server leaves TestStart and tells the client.
LEMMA ServerStartStep ==
  ASSUME IndInv, ServerStart
  PROVE  IndInv'
<1> USE DEF IndInv, ServerStart, SetState, SendToClient
<1>1. TypeOK'
  BY DEF TypeOK, control, dialling, Suspended, States, Frames, Ends
<1>2. /\ Dialled' = Dialled /\ Registered' = Registered
      /\ \A f \in Ends : Made(f)' = Made(f)
  BY SameCounts
<1>3. Numbered'
  BY <1>2 DEF Numbered, dialling, Ends
<1>4. Preparing'
  BY <1>2 DEF Preparing, Gone, Returned, TypeOK, Early, Ends
<1>5. ClientOpens'
  BY <1>2 DEF ClientOpens, TypeOK, Ends
<1>6. ServerRegisters'
  BY <1>2 DEF ServerRegisters, Welcomed, Gone, Returned, TypeOK, dialling, Ends, Early
<1>7. FramesInOrder'
  BY SetStateInOrder DEF States, Rank, TypeOK, Ends, Gone, Returned
<1>8. Whereabouts'
  BY DEF Whereabouts, TypeOK, control, Ends
<1> QED
  BY <1>1, <1>3, <1>4, <1>5, <1>6, <1>7, <1>8

\* run_controller on the client enters create_streams short of streams.
LEMMA CreateStreamsStep ==
  ASSUME IndInv, CreateStreams
  PROVE  IndInv'
<1> USE DEF IndInv, CreateStreams
<1>1. TypeOK'
  BY DEF TypeOK, control, dialling, Suspended
<1>2. /\ Dialled' = Dialled /\ Registered' = Registered
      /\ \A f \in Ends : Made(f)' = Made(f)
  BY SameCounts
<1>3. Numbered'
  BY <1>2 DEF Numbered, dialling, Ends
<1>4. Preparing'
  BY <1>2 DEF Preparing, Gone, Returned, TypeOK
<1>5. ClientOpens'
  <2>1. Dialled < N
    BY EarlyCounts, NeededIsNat DEF Numbered, N, Early, Gone, Returned, Ends
  <2> QED
    BY <2>1, <1>2 DEF ClientOpens, TypeOK, Ends
<1>6. ServerRegisters'
  BY <1>2 DEF ServerRegisters, Welcomed, Gone, Returned, TypeOK, dialling, Ends
<1>7. FramesInOrder'
  BY DEF FramesInOrder, Gone, Returned, TypeOK, control, Ends
<1>8. Whereabouts'
  BY DEF Whereabouts, TypeOK, control, Ends
<1> QED
  BY <1>1, <1>3, <1>4, <1>5, <1>6, <1>7, <1>8

\* broadcast_to_streams(StartLoad), in Running.
LEMMA StartLoadStep ==
  ASSUME IndInv, NEW e \in Ends, StartLoad(e)
  PROVE  IndInv'
<1> USE DEF IndInv, StartLoad, Broadcast
<1>1. TypeOK'
  BY DEF TypeOK, control, dialling, Suspended, States, Frames, Ends
<1>2. /\ Dialled' = Dialled /\ Registered' = Registered
      /\ \A f \in Ends : Made(f)' = Made(f)
  BY SameCounts
<1>3. Numbered'
  BY <1>2 DEF Numbered, dialling, Ends
<1>4. Preparing'
  BY <1>2 DEF Preparing, Gone, Returned, TypeOK, Early, Ends
<1>5. ClientOpens'
  BY <1>2 DEF ClientOpens, TypeOK, Ends
<1>6. ServerRegisters'
  BY <1>2 DEF ServerRegisters, Welcomed, Gone, Returned, TypeOK, dialling, Ends
<1>7. FramesInOrder'
  BY DEF FramesInOrder, Gone, Returned, TypeOK, control, Ends
<1>8. Whereabouts'
  BY DEF Whereabouts, TypeOK, control, Ends
<1> QED
  BY <1>1, <1>3, <1>4, <1>5, <1>6, <1>7, <1>8

\* broadcast_to_streams(Terminate), in ExchangeResults.
LEMMA FinaliseStep ==
  ASSUME IndInv, NEW e \in Ends, Finalise(e)
  PROVE  IndInv'
<1> USE DEF IndInv, Finalise, Broadcast
<1>1. TypeOK'
  BY DEF TypeOK, control, dialling, Suspended, States, Frames, Ends
<1>2. /\ Dialled' = Dialled /\ Registered' = Registered
      /\ \A f \in Ends : Made(f)' = Made(f)
  BY SameCounts
<1>3. Numbered'
  BY <1>2 DEF Numbered, dialling, Ends
<1>4. Preparing'
  <2>1. state'[e] \notin Early /\ state' = state
    BY DEF Early
  <2>2. \A f \in Ends, i \in Ids : f # e => mail'[f][i] = mail[f][i] /\ pc'[f] = pc[f]
    BY DEF TypeOK
  <2> QED
    BY <1>2, <2>1, <2>2 DEF Preparing, Gone
<1>5. ClientOpens'
  BY <1>2 DEF ClientOpens, TypeOK, Ends
<1>6. ServerRegisters'
  BY <1>2 DEF ServerRegisters, Welcomed, Gone, Returned, TypeOK, dialling, Ends
<1>7. FramesInOrder'
  BY DEF FramesInOrder, Gone, Returned, TypeOK, control, Ends
<1>8. Whereabouts'
  BY DEF Whereabouts, TypeOK, control, Ends
<1> QED
  BY <1>1, <1>3, <1>4, <1>5, <1>6, <1>7, <1>8

\* connect_data_stream opens a connection, so one stream is missing.
LEMMA CliConnectStep ==
  ASSUME IndInv, CliConnect
  PROVE  IndInv'
<1> USE DEF IndInv, CliConnect
<1>1. TypeOK'
  BY DEF TypeOK, control, dialling, Suspended
<1>2. /\ Dialled' = Dialled /\ Registered' = Registered
      /\ \A f \in Ends : Made(f)' = Made(f)
  BY SameCounts
<1>3. Numbered'
  BY <1>2 DEF Numbered, ClientOpens, dialling, Ends
<1>4. Preparing'
  BY <1>2 DEF Preparing, Gone, Returned, TypeOK
<1>5. ClientOpens'
  BY <1>2 DEF ClientOpens, TypeOK, Ends
<1>6. ServerRegisters'
  BY <1>2 DEF ServerRegisters, Welcomed, Gone, Returned, TypeOK, dialling, Ends
<1>7. FramesInOrder'
  BY DEF FramesInOrder, Gone, Returned, TypeOK, control, Ends
<1>8. Whereabouts'
  BY DEF Whereabouts, TypeOK, control, Ends
<1> QED
  BY <1>1, <1>3, <1>4, <1>5, <1>6, <1>7, <1>8

\* connect_data_stream sends the cookie.
LEMMA CliHelloStep ==
  ASSUME IndInv, CliHello
  PROVE  IndInv'
<1> USE DEF IndInv, CliHello
<1>1. TypeOK'
  BY DEF TypeOK, control, dialling, Suspended
<1>2. /\ Dialled' = Dialled /\ Registered' = Registered
      /\ \A f \in Ends : Made(f)' = Made(f)
  BY SameCounts
<1>3. Numbered'
  BY <1>2 DEF Numbered, dialling, Ends
<1>4. Preparing'
  BY <1>2 DEF Preparing, Gone, Returned, TypeOK
<1>5. ClientOpens'
  BY <1>2 DEF ClientOpens, TypeOK, Ends
<1>6. ServerRegisters'
  BY <1>2 DEF ServerRegisters, Welcomed, Gone, Returned, TypeOK, dialling, Ends
<1>7. FramesInOrder'
  BY DEF FramesInOrder, Gone, Returned, TypeOK, control, Ends
<1>8. Whereabouts'
  BY DEF Whereabouts, TypeOK, control, Ends
<1> QED
  BY <1>1, <1>3, <1>4, <1>5, <1>6, <1>7, <1>8

\* run_server takes a connection while the test is in flight.
LEMMA AccAcceptStep ==
  ASSUME IndInv, AccAccept
  PROVE  IndInv'
<1> USE DEF IndInv, AccAccept
<1>1. TypeOK'
  BY DEF TypeOK, control, dialling, Suspended
<1>2. /\ Dialled' = Dialled /\ Registered' = Registered
      /\ \A f \in Ends : Made(f)' = Made(f)
  BY SameCounts
<1>3. Numbered'
  BY <1>2 DEF Numbered, dialling, Ends
<1>4. Preparing'
  BY <1>2 DEF Preparing, Gone, Returned, TypeOK
<1>5. ClientOpens'
  BY <1>2 DEF ClientOpens, TypeOK, Ends
<1>6. ServerRegisters'
  BY <1>2 DEF ServerRegisters, Welcomed, Gone, Returned, TypeOK, dialling, Ends
<1>7. FramesInOrder'
  BY DEF FramesInOrder, Gone, Returned, TypeOK, control, Ends
<1>8. Whereabouts'
  BY DEF Whereabouts, TypeOK, control, Ends
<1> QED
  BY <1>1, <1>3, <1>4, <1>5, <1>6, <1>7, <1>8

\* run_server hands a connection to the controller: its place in the queue is
\* the id the client is about to give it.
LEMMA AccAdmitStep ==
  ASSUME IndInv, AccAdmit
  PROVE  IndInv'
<1> USE DEF IndInv, AccAdmit
<1>1. TypeOK'
  <2>1. [kind |-> "CreateStream", id |-> Dialled] \in Messages
    BY NeededIsNat DEF Messages, Numbered, Ids, N
  <2>2. Append(queue["Server"], [kind |-> "CreateStream", id |-> Dialled]) \in Seq(Messages)
    BY <2>1 DEF TypeOK, Ends
  <2>3. queue' \in [Ends -> Seq(Messages)]
    BY <2>2 DEF TypeOK
  <2> QED
    BY <2>3 DEF TypeOK, control
<1>2. /\ Dialled' = Dialled /\ Registered' = Registered
      /\ \A f \in Ends : Made(f)' = Made(f)
  BY SameCounts
<1>3. Numbered'
  BY <1>2 DEF Numbered, dialling, Ends
<1>4. Preparing'
  BY <1>2 DEF Preparing, Gone, Returned, TypeOK
<1>5. ClientOpens'
  BY <1>2 DEF ClientOpens, TypeOK, Ends
<1>6. ServerRegisters'
  <2>1. state["Server"] = "CreateStreams"
    BY DEF ServerRegisters
  <2>2. /\ Len(queue["Server"]) \in Nat /\ Registered \in Nat /\ Dialled \in Nat
        /\ Registered + Len(queue["Server"]) = Dialled
    BY <2>1, NeededIsNat DEF ServerRegisters, Numbered, TypeOK, Ends, Early, Welcomed
  <2>3. queue'["Server"] = Append(queue["Server"], [kind |-> "CreateStream", id |-> Dialled])
    BY DEF TypeOK, Ends
  <2>4. Len(queue'["Server"]) = Len(queue["Server"]) + 1
    BY <2>3 DEF TypeOK, Ends
  <2>5. \A k \in 1 .. Len(queue'["Server"]) : queue'["Server"][k].id = Registered + k - 1
    <3> SUFFICES ASSUME NEW k \in 1 .. Len(queue'["Server"])
                 PROVE  queue'["Server"][k].id = Registered + k - 1
      OBVIOUS
    <3>1. CASE k = Len(queue["Server"]) + 1
      <4>1. queue'["Server"][k] = [kind |-> "CreateStream", id |-> Dialled]
        BY <3>1, <2>3 DEF TypeOK, Ends
      <4> QED
        BY <4>1, <3>1, <2>2
    <3>2. CASE k \in 1 .. Len(queue["Server"])
      <4>1. queue'["Server"][k] = queue["Server"][k]
        BY <3>2, <2>3 DEF TypeOK, Ends
      <4> QED
        BY <4>1, <3>2, <2>1 DEF ServerRegisters, Early
    <3> QED
      BY <3>1, <3>2, <2>4, <2>2
  <2> QED
    BY <1>2, <2>1, <2>2, <2>4, <2>5 DEF ServerRegisters, Early, Welcomed
<1>7. FramesInOrder'
  BY DEF FramesInOrder, Gone, Returned, TypeOK, control, Ends
<1>8. Whereabouts'
  BY DEF Whereabouts, TypeOK, control, Ends
<1> QED
  BY <1>1, <1>3, <1>4, <1>5, <1>6, <1>7, <1>8

\* client_read_message has read a part of a frame.
LEMMA CliReadPartStep ==
  ASSUME IndInv, CliReadPart
  PROVE  IndInv'
<1> USE DEF IndInv, CliReadPart
<1>1. TypeOK'
  BY DEF TypeOK, control, dialling, Suspended
<1>2. /\ Dialled' = Dialled /\ Registered' = Registered
      /\ \A f \in Ends : Made(f)' = Made(f)
  BY SameCounts
<1>3. Numbered'
  BY <1>2 DEF Numbered, dialling, Ends
<1>4. Preparing'
  BY <1>2 DEF Preparing, Gone, Returned, TypeOK
<1>5. ClientOpens'
  BY <1>2 DEF ClientOpens, TypeOK, Ends
<1>6. ServerRegisters'
  BY <1>2 DEF ServerRegisters, Welcomed, Gone, Returned, TypeOK, dialling, Ends
<1>7. FramesInOrder'
  BY DEF FramesInOrder, Gone, Returned, TypeOK, control, Ends
<1>8. Whereabouts'
  BY DEF Whereabouts, TypeOK, control, Ends
<1> QED
  BY <1>1, <1>3, <1>4, <1>5, <1>6, <1>7, <1>8

\* process_server_message: the frame is the state after the client's own.
LEMMA CliReadFrameStep ==
  ASSUME IndInv, CliReadFrame
  PROVE  IndInv'
<1> USE DEF IndInv, CliReadFrame
<1>10. /\ toClient \in Seq(Frames) /\ toClient # <<>>
      /\ Len(toClient) \in Nat \ {0} /\ Head(toClient) = toClient[1]
  BY DEF TypeOK
<1>11. Rank(toClient[1]) = Rank(state["Client"]) + 1
  BY <1>10 DEF FramesInOrder, Gone, Returned
<1>12. /\ toClient[1] \in States
      /\ state' = [state EXCEPT !["Client"] = toClient[1]]
  BY <1>10, <1>11 DEF TypeOK, Frames, States, Rank, Whereabouts, Ends
<1>1. TypeOK'
  BY DEF TypeOK, control, dialling, Suspended, States, Frames, Ends
<1>2. /\ Dialled' = Dialled /\ Registered' = Registered
      /\ \A f \in Ends : Made(f)' = Made(f)
  BY SameCounts
<1>3. Numbered'
  BY <1>2 DEF Numbered, dialling, Ends
<1>4. Preparing'
  BY <1>2, <1>11, <1>12 DEF Preparing, Gone, Returned, TypeOK, Ends, Early, Rank, States
<1>5. ClientOpens'
  BY <1>2, <1>11, <1>12 DEF ClientOpens, TypeOK, Ends, Early, Rank, States
<1>6. ServerRegisters'
  BY <1>2 DEF ServerRegisters, Welcomed, Gone, Returned, TypeOK, dialling, Ends
<1>7. FramesInOrder'
  <2>1. /\ state'["Client"] = toClient[1] /\ state'["Server"] = state["Server"]
        /\ toClient' = Tail(toClient) /\ Len(toClient') = Len(toClient) - 1
    BY <1>10, <1>12 DEF TypeOK, Ends
  <2>2. /\ Rank(state["Client"]) \in Nat /\ Rank(state["Server"]) \in Nat
        /\ Rank(state["Client"]) + Len(toClient)
             = Rank(state["Server"]) + (IF pc["Server"] = "done" THEN 1 ELSE 0)
    BY DEF FramesInOrder, Gone, Returned, Rank
  <2>3. Rank(toClient[1]) <= Rank(state["Server"])
    BY <1>10, <1>11, <1>12, <2>2 DEF Rank, States, TypeOK, Ends, Whereabouts
  <2>4. \A k \in 1 .. Len(toClient') : Rank(toClient'[k]) = Rank(toClient[1]) + k
    <3> SUFFICES ASSUME NEW k \in 1 .. Len(toClient')
                 PROVE  Rank(toClient'[k]) = Rank(toClient[1]) + k
      OBVIOUS
    <3>1. toClient'[k] = toClient[k + 1] /\ k + 1 \in 1 .. Len(toClient)
      BY <2>1, <1>10
    <3>2. Rank(toClient[k + 1]) = Rank(state["Client"]) + (k + 1)
      BY <3>1 DEF FramesInOrder, Gone, Returned
    <3> QED
      BY <3>1, <3>2, <1>11, <2>2
  <2>5. pc'["Server"] = pc["Server"]
    BY DEF TypeOK, Ends
  <2> QED
    BY <1>10, <1>11, <2>1, <2>2, <2>3, <2>4, <2>5 DEF FramesInOrder
<1>8. Whereabouts'
  BY <1>12 DEF Whereabouts, TypeOK, control, Ends
<1> QED
  BY <1>1, <1>3, <1>4, <1>5, <1>6, <1>7, <1>8

\* collect_test_result joins a stream.
LEMMA CollectJoinStep ==
  ASSUME IndInv, NEW e \in Ends, NEW i \in Ids, CollectJoin(e, i)
  PROVE  IndInv'
<1> USE DEF IndInv, CollectJoin
<1>1. TypeOK'
  BY DEF TypeOK, control, dialling, Suspended
<1>2. /\ Dialled' = Dialled /\ Registered' = Registered
      /\ \A f \in Ends : Made(f)' = Made(f)
  BY SameCounts
<1>3. Numbered'
  BY <1>2 DEF Numbered, dialling, Ends
<1>4. Preparing'
  BY <1>2 DEF Preparing, Gone, Returned, TypeOK, Early, Ends, Whereabouts
<1>5. ClientOpens'
  BY <1>2 DEF ClientOpens, TypeOK, Ends
<1>6. ServerRegisters'
  BY <1>2 DEF ServerRegisters, Welcomed, Gone, Returned, TypeOK, dialling, Ends
<1>7. FramesInOrder'
  BY DEF FramesInOrder, Gone, Returned, TypeOK, control, Ends
<1>8. Whereabouts'
  BY DEF Whereabouts, TypeOK, control, Ends
<1> QED
  BY <1>1, <1>3, <1>4, <1>5, <1>6, <1>7, <1>8

\* collect_test_result gives up on a stream.
LEMMA CollectTimeoutStep ==
  ASSUME IndInv, NEW e \in Ends, NEW i \in Ids, CollectTimeout(e, i)
  PROVE  IndInv'
<1> USE DEF IndInv, CollectTimeout
<1>1. TypeOK'
  BY DEF TypeOK, control, dialling, Suspended
<1>2. /\ Dialled' = Dialled /\ Registered' = Registered
      /\ \A f \in Ends : Made(f)' = Made(f)
  BY SameCounts
<1>3. Numbered'
  BY <1>2 DEF Numbered, dialling, Ends
<1>4. Preparing'
  BY <1>2 DEF Preparing, Gone, Returned, TypeOK, Early, Ends, Whereabouts
<1>5. ClientOpens'
  BY <1>2 DEF ClientOpens, TypeOK, Ends
<1>6. ServerRegisters'
  BY <1>2 DEF ServerRegisters, Welcomed, Gone, Returned, TypeOK, dialling, Ends
<1>7. FramesInOrder'
  BY DEF FramesInOrder, Gone, Returned, TypeOK, control, Ends
<1>8. Whereabouts'
  BY DEF Whereabouts, TypeOK, control, Ends
<1> QED
  BY <1>1, <1>3, <1>4, <1>5, <1>6, <1>7, <1>8

\* process_internal_message(StreamTerminated): only after the load has started.
LEMMA RecvTerminatedStep ==
  ASSUME IndInv, NEW e \in Ends, RecvTerminated(e)
  PROVE  IndInv'
<1> USE DEF IndInv, RecvTerminated
<1>10. /\ queue[e] \in Seq(Messages) /\ queue[e] # <<>>
      /\ Tail(queue[e]) \in Seq(Messages)
      /\ 1 \in 1 .. Len(queue[e]) /\ Head(queue[e]) = queue[e][1]
      /\ Len(Tail(queue[e])) = Len(queue[e]) - 1
      /\ \A k \in 1 .. Len(Tail(queue[e])) :
           k + 1 \in 1 .. Len(queue[e]) /\ Tail(queue[e])[k] = queue[e][k + 1]
  BY DEF TypeOK
<1>11. state[e] \notin Early /\ ~ Gone(e)
  BY <1>10 DEF Preparing, Gone, Returned
<1>12. \/ state' = state /\ toClient' = toClient
      \/ /\ e = "Server" /\ state["Server"] = "Running"
         /\ SetState("ExchangeResults")
         /\ state' = [state EXCEPT !["Server"] = "ExchangeResults"]
  BY <1>11 DEF SetState, Whereabouts, TypeOK, States, Early
<1>1. TypeOK'
  <2>1. queue' \in [Ends -> Seq(Messages)]
    BY DEF TypeOK
  <2>2. "ExchangeResults" \in States /\ "ExchangeResults" \in Frames
    BY DEF States, Frames
  <2>3. Append(toClient, "ExchangeResults") \in Seq(Frames) /\ toClient \in Seq(Frames)
    BY <2>2 DEF TypeOK
  <2>5. toClient' \in Seq(Frames)
    BY <1>12, <2>3 DEF SetState, SendToClient
  <2>4. state' \in [Ends -> States]
    BY <1>12, <2>2 DEF TypeOK
  <2> QED
    BY <2>1, <2>5, <2>4 DEF TypeOK, dialling, Suspended
<1>2. /\ Dialled' = Dialled /\ Registered' = Registered
      /\ \A f \in Ends : Made(f)' = Made(f)
  BY SameCounts
<1>3. Numbered'
  BY <1>2 DEF Numbered, dialling, Ends
<1>4. Preparing'
  BY <1>2, <1>11, <1>12 DEF Preparing, Gone, Returned, TypeOK, Early, Ends
<1>5. ClientOpens'
  BY <1>2, <1>10, <1>11, <1>12 DEF ClientOpens, TypeOK, Ends, Early
<1>6. ServerRegisters'
  BY <1>2, <1>10, <1>11, <1>12 DEF ServerRegisters, Welcomed, Gone, Returned, TypeOK, dialling, Ends, Early, SetState, Unlocked
<1>7. FramesInOrder'
  <2>1. CASE state' = state /\ toClient' = toClient
    BY <2>1 DEF FramesInOrder, Gone, Returned, TypeOK, Ends
  <2>2. CASE /\ e = "Server" /\ state["Server"] = "Running"
             /\ SetState("ExchangeResults")
    BY <2>2, SetStateInOrder DEF States, Rank, TypeOK, Ends, Gone, Returned
  <2> QED
    BY <1>12, <2>1, <2>2
<1>8. Whereabouts'
  BY <1>12 DEF Whereabouts, TypeOK, control, Ends
<1> QED
  BY <1>1, <1>3, <1>4, <1>5, <1>6, <1>7, <1>8

\* A worker that ends leaves at most a report behind.
LEMMA FinishStep ==
  ASSUME IndInv, NEW e \in Ends, NEW i \in Ids, NEW how \in Finished,
         worker[e][i] \in Tasks, Finish(e, i, how), UNCHANGED outside,
         state[e] \in Early => Gone(e) /\ how = "err"
  PROVE  IndInv'
<1> USE DEF IndInv, outside
<1>1. /\ worker' = [worker EXCEPT ![e][i] = how]
      /\ mail' = [mail EXCEPT ![e][i] = <<>>]
      /\ how \in WorkerStates /\ how # "absent"
      /\ worker[e][i] # "absent"
  BY DEF Finish, WorkerStates, Finished, Tasks, Loading
<1>2. \/ queue' = queue
      \/ /\ queue' = [queue EXCEPT ![e] = Append(@, [kind |-> "StreamTerminated", id |-> i])]
         /\ ~ Gone(e)
  BY DEF Finish
<1>3. /\ worker' \in [Ends -> [Ids -> WorkerStates]]
      /\ mail' \in [Ends -> [Ids -> Seq({"StartLoad", "Terminate"})]]
  BY <1>1 DEF TypeOK
<1>4. queue' \in [Ends -> Seq(Messages)]
  <2>1. [kind |-> "StreamTerminated", id |-> i] \in Messages
    BY DEF Messages
  <2>2. queue \in [Ends -> Seq(Messages)] /\ queue[e] \in Seq(Messages)
    BY DEF TypeOK
  <2>3. Append(queue[e], [kind |-> "StreamTerminated", id |-> i]) \in Seq(Messages)
    BY <2>1, <2>2
  <2> QED
    BY <1>2, <2>2, <2>3
<1>5. TypeOK'
  BY <1>3, <1>4 DEF TypeOK, control, dialling
<1>6. \A f \in Ends : Gone(f)' = Gone(f)
  BY DEF Gone
<1>7. \A f \in Ends : state[f] \in Early /\ ~ Gone(f) => queue'[f] = queue[f]
  BY <1>2 DEF TypeOK
<1>8. \A f \in Ends :
        (\A k \in 1 .. Len(queue[f]) : queue[f][k].kind = "StreamTerminated")
          => \A k \in 1 .. Len(queue'[f]) : queue'[f][k].kind = "StreamTerminated"
  <2> SUFFICES ASSUME queue' = [queue EXCEPT ![e] =
                                 Append(@, [kind |-> "StreamTerminated", id |-> i])],
                      \A k \in 1 .. Len(queue[e]) : queue[e][k].kind = "StreamTerminated",
                      NEW k \in 1 .. Len(queue'[e])
               PROVE  queue'[e][k].kind = "StreamTerminated"
    BY <1>2 DEF TypeOK
  <2>1. /\ queue[e] \in Seq(Messages)
        /\ queue'[e] = Append(queue[e], [kind |-> "StreamTerminated", id |-> i])
    BY DEF TypeOK
  <2>2. k \in 1 .. Len(queue[e]) \/ k = Len(queue[e]) + 1
    BY <2>1
  <2> QED
    BY <2>1, <2>2
<1>9. /\ Dialled' = Dialled /\ Registered' = Registered
      /\ \A f \in Ends : Made(f)' = Made(f)
  BY <1>1, SameCounts DEF TypeOK
<1>10. Numbered'
  BY <1>9 DEF Numbered, dialling, Ends
<1>11. Preparing'
  <2> SUFFICES ASSUME NEW f \in Ends, state[f] \in Early
               PROVE  /\ \A j \in Ids : /\ mail'[f][j] = <<>>
                                        /\ worker'[f][j] \notin Loading \cup {"ok"}
                      /\ ~ Gone(f) =>
                           /\ streams'[f] = Made(f)
                           /\ \A j \in Ids : worker'[f][j] \in {"absent", "wait"}
                           /\ \A k \in 1 .. Len(queue'[f]) : queue'[f][k].kind = "CreateStream"
    BY <1>6, <1>9 DEF Preparing
  <2>1. CASE f = e
    BY <2>1, <1>1 DEF Preparing, TypeOK, Loading
  <2>2. CASE f # e
    BY <2>2, <1>1, <1>7 DEF Preparing, TypeOK
  <2> QED
    BY <2>1, <2>2
<1>12. ClientOpens'
  BY <1>2, <1>8, <1>9 DEF ClientOpens, TypeOK, Ends
<1>13. ServerRegisters'
  BY <1>6, <1>7, <1>8, <1>9 DEF ServerRegisters, Welcomed, dialling, Ends
<1>14. FramesInOrder'
  BY <1>6 DEF FramesInOrder, control, Ends
<1>15. Whereabouts'
  BY DEF Whereabouts, control
<1> QED
  BY <1>5, <1>10, <1>11, <1>12, <1>13, <1>14, <1>15

\* A worker that goes on under load has heard from a controller in Running.
LEMMA LoadStep ==
  ASSUME IndInv, NEW e \in Ends, NEW i \in Ids, NEW w \in Loading,
         worker[e][i] \in Tasks, state[e] \notin Early,
         NEW m \in Seq({"StartLoad", "Terminate"}),
         worker' = [worker EXCEPT ![e][i] = w],
         mail' = [mail EXCEPT ![e][i] = m],
         UNCHANGED <<queue, outside>>
  PROVE  IndInv'
<1> USE DEF IndInv, outside
<1>1. w \in WorkerStates /\ w # "absent" /\ worker[e][i] # "absent"
  BY DEF WorkerStates, Tasks, Loading
<1>2. TypeOK'
  BY <1>1 DEF TypeOK, control, dialling
<1>3. \A f \in Ends : Gone(f)' = Gone(f)
  BY DEF Gone
<1>4. /\ Dialled' = Dialled /\ Registered' = Registered
      /\ \A f \in Ends : Made(f)' = Made(f)
  BY <1>1, SameCounts DEF TypeOK
<1>5. Numbered'
  BY <1>4 DEF Numbered, dialling, Ends
<1>6. Preparing'
  BY <1>3, <1>4 DEF Preparing, TypeOK
<1>7. ClientOpens' /\ ServerRegisters'
  BY <1>3, <1>4 DEF ClientOpens, ServerRegisters, Welcomed, dialling, Ends
<1>8. FramesInOrder' /\ Whereabouts'
  BY <1>3 DEF FramesInOrder, Whereabouts, control, Ends
<1> QED
  BY <1>2, <1>5, <1>6, <1>7, <1>8

\* Every step of run_worker, and the report at its end.
LEMMA WorkStep ==
  ASSUME IndInv, NEW e \in Ends, NEW i \in Ids, Work(e, i)
  PROVE  IndInv'
<1>1. CASE WorkerStart(e, i)
  <2>1. state[e] \notin Early
    BY <1>1 DEF WorkerStart, IndInv, Preparing
  <2>2. Tail(mail[e][i]) \in Seq({"StartLoad", "Terminate"})
    BY <1>1 DEF WorkerStart, IndInv, TypeOK
  <2>3. mail' = [mail EXCEPT ![e][i] = Tail(mail[e][i])]
    BY <1>1 DEF WorkerStart
  <2> QED
    BY <1>1, <2>1, <2>2, <2>3, LoadStep DEF WorkerStart, Loading, Tasks
<1>2. CASE WorkerBail(e, i)
  <2>1. state[e] \in Early => Gone(e)
    BY <1>2 DEF WorkerBail, IndInv, Preparing, Made
  <2> QED
    BY <1>2, <2>1, FinishStep DEF WorkerBail, Finished, Tasks
<1>3. CASE WorkerStop(e, i)
  <2>1. worker[e][i] \in Loading /\ state[e] \notin Early
    BY <1>3 DEF WorkerStop, IndInv, Preparing, Loading
  <2>2. CASE IsSending(Par, e, i)
    BY <1>3, <2>1, <2>2, FinishStep DEF WorkerStop, Finished, Tasks
  <2>3. CASE ~ IsSending(Par, e, i)
    <3>1. <<>> \in Seq({"StartLoad", "Terminate"})
      OBVIOUS
    <3> QED
      BY <1>3, <2>1, <2>3, <3>1, LoadStep DEF WorkerStop, Loading, Tasks
  <2> QED
    BY <2>2, <2>3
<1>4. CASE WorkerDrained(e, i)
  <2>1. worker[e][i] \in Loading /\ state[e] \notin Early
    BY <1>4 DEF WorkerDrained, IndInv, Preparing, Loading
  <2> QED
    BY <1>4, <2>1, FinishStep DEF WorkerDrained, Finished, Tasks
<1>5. CASE WorkerError(e, i)
  <2>1. worker[e][i] \in Loading /\ state[e] \notin Early
    BY <1>5 DEF WorkerError, IndInv, Preparing, Loading
  <2> QED
    BY <1>5, <2>1, FinishStep DEF WorkerError, Finished, Tasks
<1> QED
  BY <1>1, <1>2, <1>3, <1>4, <1>5 DEF Work

\* A controller that returns, its process perhaps with it, promises no more.
LEMMA LeaveInv ==
  ASSUME IndInv, NEW e \in Ends, NEW how \in Returned, Leave(e, how),
         how = "done" => state[e] = "ExchangeResults",
         UNCHANGED <<state, old_state, results, mail, head, dial>>,
         conn' \in [Ids -> Ids \cup {Nobody}], \A i \in Made("Server") : conn'[i] = conn[i],
         toServer' \in BOOLEAN, toServer' => toServer,
         acceptor' \in {acceptor, "down"},
         toClient' \in Seq(Frames), FramesInOrder'
  PROVE  IndInv'
<1> USE DEF IndInv
<1>1. /\ pc' = [pc EXCEPT ![e] = how]
      /\ streams' = [streams EXCEPT ![e] = {}]
      /\ queue' = [queue EXCEPT ![e] = <<>>]
  BY DEF Leave
<1>2. /\ worker' \in [Ends -> [Ids -> WorkerStates]]
      /\ \A f \in Ends, i \in Ids : \/ worker'[f][i] = worker[f][i]
                                      \/ /\ worker[f][i] \in Tasks
                                         /\ worker'[f][i] = "gone"
      /\ \A f \in Ends, i \in Ids : f # e => worker'[f][i] = worker[f][i]
  <2>1. worker \in [Ends -> [Ids -> WorkerStates]]
    BY DEF TypeOK
  <2>2. CASE worker' = worker
    BY <2>1, <2>2
  <2>3. CASE worker' = Cut(e)
    <3>1. "gone" \in WorkerStates
      BY DEF WorkerStates
    <3>2. worker' \in [Ends -> [Ids -> WorkerStates]]
      BY <2>1, <2>3, <3>1 DEF Cut
    <3>3. \A f \in Ends, i \in Ids :
            worker'[f][i] = IF f = e /\ worker[f][i] \in Tasks THEN "gone" ELSE worker[f][i]
      BY <2>1, <2>3 DEF Cut
    <3> QED
      BY <3>2, <3>3
  <2> QED
    BY <2>2, <2>3 DEF Leave
<1>3. TypeOK'
  <2>1. queue' \in [Ends -> Seq(Messages)]
    BY <1>1 DEF TypeOK
  <2>2. pc' \in [Ends -> Suspended \cup Returned] /\ streams' \in [Ends -> SUBSET Ids]
    BY <1>1 DEF TypeOK
  <2> QED
    BY <1>2, <2>1, <2>2 DEF TypeOK
<1>4. /\ Dialled' = Dialled /\ Registered' = Registered
      /\ \A f \in Ends : Made(f)' = Made(f)
  BY <1>2, SameCounts DEF Tasks, Loading
<1>5. \A f \in Ends : /\ Gone(f)' <=> (Gone(f) \/ f = e)
                      /\ f # e => streams'[f] = streams[f] /\ queue'[f] = queue[f]
                      /\ f = e => streams'[f] = {} /\ queue'[f] = <<>>
  BY <1>1 DEF Gone, TypeOK
<1>6. Numbered'
  BY <1>4, <1>5 DEF Numbered, Ends
<1>7. Preparing'
  <2> SUFFICES ASSUME NEW f \in Ends, state[f] \in Early
               PROVE  /\ \A j \in Ids : /\ mail[f][j] = <<>>
                                        /\ worker'[f][j] \notin Loading \cup {"ok"}
                      /\ ~ Gone(f)' =>
                           /\ streams'[f] = Made(f)
                           /\ \A j \in Ids : worker'[f][j] \in {"absent", "wait"}
                           /\ \A k \in 1 .. Len(queue'[f]) : queue'[f][k].kind = "CreateStream"
    BY <1>4 DEF Preparing
  <2>1. \A j \in Ids : mail[f][j] = <<>> /\ worker'[f][j] \notin Loading \cup {"ok"}
    BY <1>2 DEF Preparing, Loading
  <2> QED
    BY <2>1, <1>2, <1>5 DEF Preparing
<1>8. ClientOpens'
  BY <1>1, <1>4, <1>5 DEF ClientOpens, Ends, TypeOK, Returned
<1>9. ServerRegisters'
  BY <1>4, <1>5 DEF ServerRegisters, Welcomed, Ends
<1>10. Whereabouts'
  BY <1>1 DEF Whereabouts, TypeOK, Ends, Returned
<1> QED
  BY <1>3, <1>6, <1>7, <1>8, <1>9, <1>10

\* Frames stay in order when somebody leaves in the middle of them.
LEMMA LeaveInOrder ==
  ASSUME IndInv, NEW e \in Ends, NEW how \in Returned, Leave(e, how),
         e = "Client" \/ (how # "done" /\ pc["Server"] # "done"),
         state' = state, e = "Client" \/ toClient' = toClient
  PROVE  FramesInOrder'
<1>1. \A f \in Ends : f # e => pc'[f] = pc[f]
  BY DEF Leave, IndInv, TypeOK
<1>2. pc'[e] = how
  BY DEF Leave, IndInv, TypeOK
<1>3. CASE e = "Client"
  BY <1>2, <1>3 DEF Gone, FramesInOrder, IndInv
<1>4. CASE e = "Server"
  BY <1>1, <1>2, <1>4 DEF Gone, FramesInOrder, IndInv, Ends
<1> QED
  BY <1>3, <1>4 DEF Ends

\* Every step in which a controller returns and does nothing else of note.
LEMMA FailureStep ==
  ASSUME IndInv,
         \/ ServerStartFails \/ CliDialFails \/ AccFail \/ CliReadsGarbage
         \/ CliReadFails \/ SrvReadFails \/ \E e \in Ends : Crash(e)
  PROVE  IndInv'
<1> USE DEF IndInv, control, dialling
<1>1. PICK e \in Ends, how \in {"aborted", "killed"} :
        /\ Leave(e, how)
        /\ e = "Client" \/ pc["Server"] # "done"
        /\ UNCHANGED <<state, old_state, results, mail, head, dial, conn, toServer, toClient>>
        /\ acceptor' \in {acceptor, "down"}
  <2>1. CASE ServerStartFails
    BY <2>1 DEF ServerStartFails, Ends
  <2>2. CASE CliDialFails
    BY <2>2 DEF CliDialFails, Ends
  <2>3. CASE AccFail
    <3>1. pc["Server"] # "done"
      BY <2>3 DEF AccFail, ServerRegisters, Whereabouts, Ends
    <3> QED
      BY <2>3, <3>1 DEF AccFail, Ends
  <2>4. CASE CliReadsGarbage
    BY <2>4 DEF CliReadsGarbage, Ends
  <2>5. CASE CliReadFails
    BY <2>5 DEF CliReadFails, Ends
  <2>6. CASE SrvReadFails
    BY <2>6 DEF SrvReadFails, Ends
  <2>7. CASE \E f \in Ends : Crash(f)
    <3>1. PICK f \in Ends : Crash(f)
      BY <2>7
    <3>2. f = "Client" \/ pc["Server"] # "done"
      BY <3>1 DEF Crash, Gone, Returned, Ends
    <3> QED
      BY <3>1, <3>2 DEF Crash
  <2> QED
    BY <2>1, <2>2, <2>3, <2>4, <2>5, <2>6, <2>7
<1>2. how \in Returned
  BY DEF Returned
<1>3. FramesInOrder'
  BY <1>1, <1>2, LeaveInOrder
<1>4. /\ conn' \in [Ids -> Ids \cup {Nobody}] /\ toServer' \in BOOLEAN
      /\ toClient' \in Seq(Frames)
  BY <1>1 DEF TypeOK
<1> QED
  BY <1>1, <1>2, <1>3, <1>4, LeaveInv

\* The last step of the client: the frame it reads is gone, and so is it.
LEMMA CliExchangeStep ==
  ASSUME IndInv, CliExchange
  PROVE  IndInv'
<1> USE DEF IndInv, dialling
<1> DEFINE how == IF Head(toClient) = "SendResults" THEN "done" ELSE "aborted"
<1>1. Leave("Client", how) /\ how \in Returned /\ state["Client"] = "ExchangeResults"
  BY DEF CliExchange, Returned, Whereabouts, Ends
<1>2. /\ toClient' \in Seq(Frames) /\ toServer' \in BOOLEAN
      /\ conn' \in [Ids -> Ids \cup {Nobody}]
  BY DEF CliExchange, TypeOK
<1>3. FramesInOrder'
  BY <1>1, LeaveInOrder DEF CliExchange, Ends
<1> HIDE DEF how
<1> QED
  BY <1>1, <1>2, <1>3, LeaveInv DEF CliExchange, Ends

\* The last step of the server: its results follow the frames of every state.
LEMMA SrvExchangeStep ==
  ASSUME IndInv, SrvExchange
  PROVE  IndInv'
<1> USE DEF IndInv, dialling
<1>1. /\ pc["Server"] = "exchange" /\ state["Server"] = "ExchangeResults"
      /\ toServer' = FALSE
      /\ UNCHANGED <<state, old_state, results, mail, head, dial, conn, acceptor>>
      /\ conn' \in [Ids -> Ids \cup {Nobody}]
  BY DEF SrvExchange, Whereabouts, Ends, TypeOK
<1>2. CASE Leave("Server", "aborted") /\ UNCHANGED toClient
  <2>1. FramesInOrder'
    BY <1>1, <1>2, LeaveInOrder DEF Ends, Returned
  <2>2. toClient' \in Seq(Frames)
    BY <1>2 DEF TypeOK
  <2> QED
    BY <1>1, <1>2, <2>1, <2>2, LeaveInv DEF Ends, Returned
<1>3. CASE SendToClient("SendResults") /\ Leave("Server", "done")
  <2>1. /\ toClient' = IF Gone("Client") THEN toClient ELSE Append(toClient, "SendResults")
        /\ pc' = [pc EXCEPT !["Server"] = "done"]
    BY <1>3 DEF SendToClient, Leave
  <2>2. toClient' \in Seq(Frames)
    BY <2>1 DEF TypeOK, Frames
  <2>3. Gone("Client")' = Gone("Client") /\ pc'["Server"] = "done"
    BY <2>1 DEF Gone, TypeOK, Ends
  <2>4. FramesInOrder'
    <3>1. CASE Gone("Client")
      BY <3>1, <1>1, <2>3 DEF FramesInOrder
    <3>2. CASE ~ Gone("Client")
      <4>1. /\ toClient' = Append(toClient, "SendResults") /\ toClient \in Seq(Frames)
            /\ Len(toClient) \in Nat
        BY <2>1, <3>2 DEF TypeOK
      <4>2. /\ Rank(state["Client"]) \in Nat /\ Rank(state["Server"]) = 3
            /\ Rank(state["Client"]) + Len(toClient) = 3
            /\ Rank("SendResults") = 4
        BY <1>1, <3>2, <4>1 DEF FramesInOrder, Rank
      <4>3. Len(toClient') = Len(toClient) + 1
        BY <4>1
      <4>4. \A k \in 1 .. Len(toClient') : Rank(toClient'[k]) = Rank(state["Client"]) + k
        <5> SUFFICES ASSUME NEW k \in 1 .. Len(toClient')
                     PROVE  Rank(toClient'[k]) = Rank(state["Client"]) + k
          OBVIOUS
        <5>1. CASE k = Len(toClient) + 1
          <6>1. toClient'[k] = "SendResults"
            BY <5>1, <4>1
          <6> QED
            BY <6>1, <5>1, <4>1, <4>2
        <5>2. CASE k \in 1 .. Len(toClient)
          <6>1. toClient'[k] = toClient[k]
            BY <5>2, <4>1
          <6> QED
            BY <6>1, <5>2, <3>2 DEF FramesInOrder
        <5> QED
          BY <5>1, <5>2, <4>1, <4>3
      <4>5. Rank(state["Client"]) + Len(toClient') = Rank(state["Server"]) + 1
        BY <4>1, <4>2, <4>3
      <4> QED
        BY <1>1, <2>3, <4>4, <4>5 DEF FramesInOrder
    <3> QED
      BY <3>1, <3>2
  <2> QED
    BY <1>1, <1>3, <2>2, <2>4, LeaveInv DEF Ends, Returned
<1> QED
  BY <1>2, <1>3 DEF SrvExchange

\* A new stream takes the next number.
LEMMA RegisterCounts ==
  ASSUME IndInv, NEW e \in Ends, NEW id,
         id = (IF e = "Client" THEN Dialled ELSE Registered), id < N, Register(e, id)
  PROVE  /\ id \in Ids
         /\ worker' \in [Ends -> [Ids -> WorkerStates]]
         /\ streams' \in [Ends -> SUBSET Ids]
         /\ \A f \in Ends, i \in Ids :
              worker'[f][i] = IF f = e /\ i = id THEN "wait" ELSE worker[f][i]
         /\ \A f \in Ends : streams'[f] = IF f = e THEN streams[f] \cup {id} ELSE streams[f]
         /\ \A f \in Ends : Made(f)' = IF f = e THEN Made(f) \cup {id} ELSE Made(f)
         /\ e = "Client" => /\ Dialled' = Dialled + 1 /\ Registered' = Registered
                            /\ Made("Client")' = 0 .. Dialled' - 1
         /\ e = "Server" => /\ Registered' = Registered + 1 /\ Dialled' = Dialled
                            /\ Made("Server")' = 0 .. Registered' - 1
<1> USE DEF IndInv
<1>1. Dialled \in Nat /\ Registered \in Nat /\ id \in Nat /\ id \in Ids
  BY NeededIsNat DEF Numbered, Ids, N
<1>2. worker \in [Ends -> [Ids -> WorkerStates]] /\ streams \in [Ends -> SUBSET Ids]
  BY DEF TypeOK
<1>3. worker' \in [Ends -> [Ids -> WorkerStates]]
  <2>1. "wait" \in WorkerStates
    BY DEF WorkerStates
  <2> QED
    BY <2>1, <1>1, <1>2 DEF Register
<1>4. streams' \in [Ends -> SUBSET Ids]
  BY <1>1, <1>2 DEF Register
<1>5. \A f \in Ends, i \in Ids :
        worker'[f][i] = IF f = e /\ i = id THEN "wait" ELSE worker[f][i]
  BY <1>1, <1>2 DEF Register
<1>6. \A f \in Ends : streams'[f] = IF f = e THEN streams[f] \cup {id} ELSE streams[f]
  BY <1>2 DEF Register
<1>7. \A f \in Ends : Made(f)' = IF f = e THEN Made(f) \cup {id} ELSE Made(f)
  BY <1>1, <1>5 DEF Made
<1>8. Made(e) = 0 .. id - 1
  BY DEF Numbered, Ends
<1>9. Made(e)' = 0 .. id /\ Cardinality(Made(e)') = id + 1
  <2>1. Made(e)' = 0 .. (id + 1) - 1
    <3>1. (0 .. id - 1) \cup {id} = 0 .. (id + 1) - 1
      BY <1>1
    <3> QED
      BY <3>1, <1>7, <1>8
  <2>2. id + 1 \in Nat
    BY <1>1
  <2>3. Cardinality(0 .. (id + 1) - 1) = id + 1
    BY <2>2, SegmentSize
  <2>4. (id + 1) - 1 = id
    BY <1>1
  <2> QED
    BY <2>1, <2>3, <2>4
<1>10. CASE e = "Client"
  <2>1. Dialled' = Dialled + 1
    BY <1>9, <1>10 DEF Made, Dialled
  <2>2. Registered' = Registered
    BY <1>7, <1>10 DEF Registered, Ends
  <2>3. Dialled' - 1 = id
    BY <2>1, <1>1, <1>10
  <2> QED
    BY <1>1, <1>3, <1>4, <1>5, <1>6, <1>7, <1>9, <1>10, <2>1, <2>2, <2>3
<1>11. CASE e = "Server"
  <2>1. Registered' = Registered + 1
    BY <1>9, <1>11 DEF Registered
  <2>2. Made("Client")' = Made("Client")
    BY <1>7, <1>11 DEF Ends
  <2>3. Dialled' = Dialled
    BY <2>2 DEF Dialled, Made
  <2>4. Registered' - 1 = id
    BY <2>1, <1>1, <1>11
  <2> QED
    BY <1>1, <1>3, <1>4, <1>5, <1>6, <1>7, <1>9, <1>11, <2>1, <2>3, <2>4
<1> QED
  BY <1>10, <1>11 DEF Ends

\* The client's next connection is a stream of its own.
LEMMA CliWelcomeStep ==
  ASSUME IndInv, CliWelcome
  PROVE  IndInv'
<1> USE DEF IndInv
<1>1. state["Client"] = "CreateStreams" /\ Dialled < N /\ ~ Gone("Client")
  BY DEF CliWelcome, ClientOpens, Gone, Returned
<1>2. Cardinality(streams["Client"]) = Dialled
  BY <1>1, EarlyCounts DEF Early, Ends
<1>3. /\ Register("Client", Dialled)
      /\ pc' = [pc EXCEPT !["Client"] = IF Dialled + 1 < N THEN "dial" ELSE "recv"]
      /\ dial = "welcome" /\ dial' = "idle"
      /\ UNCHANGED <<state, old_state, results, queue, mail, control, conn, acceptor>>
  BY <1>2 DEF CliWelcome, N
<1> HIDE DEF IndInv
<1>4. /\ Dialled \in Ids
      /\ worker' \in [Ends -> [Ids -> WorkerStates]]
      /\ streams' \in [Ends -> SUBSET Ids]
      /\ \A f \in Ends, i \in Ids :
           worker'[f][i] = IF f = "Client" /\ i = Dialled THEN "wait" ELSE worker[f][i]
      /\ streams'["Client"] = streams["Client"] \cup {Dialled}
      /\ streams'["Server"] = streams["Server"]
      /\ Made("Client")' = Made("Client") \cup {Dialled}
      /\ Made("Server")' = Made("Server")
      /\ Dialled' = Dialled + 1 /\ Registered' = Registered
      /\ Made("Client")' = 0 .. Dialled' - 1
  BY <1>1, <1>3, RegisterCounts DEF Ends
<1> USE DEF IndInv
<1>5. Dialled \in Nat /\ Registered \in Nat /\ N \in Nat
  BY NeededIsNat DEF Numbered
<1>6. TypeOK'
  BY <1>3, <1>4 DEF TypeOK, control, Suspended
<1>7. /\ pc'["Server"] = pc["Server"] /\ pc'["Client"] \in {"dial", "recv"}
      /\ pc'["Client"] = "recv" => Dialled' = N
      /\ pc'["Client"] = "dial" => Dialled' < N
      /\ ~ Gone("Client")' /\ (Gone("Server")' <=> Gone("Server"))
  BY <1>1, <1>3, <1>4, <1>5 DEF TypeOK, Ends, Gone, Returned
<1>8. Numbered'
  BY <1>1, <1>3, <1>4, <1>5 DEF Numbered, Ends
<1>9. Preparing'
  <2> SUFFICES ASSUME NEW f \in Ends, state[f] \in Early
               PROVE  /\ \A j \in Ids : /\ mail[f][j] = <<>>
                                        /\ worker'[f][j] \notin Loading \cup {"ok"}
                      /\ ~ Gone(f)' =>
                           /\ streams'[f] = Made(f)'
                           /\ \A j \in Ids : worker'[f][j] \in {"absent", "wait"}
                           /\ \A k \in 1 .. Len(queue[f]) : queue[f][k].kind = "CreateStream"
    BY <1>3 DEF Preparing
  <2>1. CASE f = "Client"
    BY <2>1, <1>1, <1>4 DEF Preparing, Loading, Ends
  <2>2. CASE f = "Server"
    BY <2>2, <1>4, <1>7 DEF Preparing, Ends
  <2> QED
    BY <2>1, <2>2 DEF Ends
<1>10. ClientOpens'
  BY <1>1, <1>3, <1>4, <1>5, <1>7 DEF ClientOpens, Early
<1>11. ServerRegisters'
  BY <1>3, <1>4, <1>5, <1>7 DEF ServerRegisters, Welcomed, TypeOK, Ends
<1>12. FramesInOrder'
  BY <1>1, <1>3, <1>7 DEF FramesInOrder, control
<1>13. Whereabouts'
  BY <1>1, <1>3, <1>7 DEF Whereabouts, control, Ends
<1> QED
  BY <1>6, <1>8, <1>9, <1>10, <1>11, <1>12, <1>13

\* Taking a message from the queue and counting it as a stream.
LEMMA MoveOne ==
  \A r, l \in Int : (r + 1) + (l - 1) = r + l
  OBVIOUS

\* The server registers the connection at the head of its queue, and with the
\* last one starts the load.
LEMMA RecvCreateStep ==
  ASSUME IndInv, RecvCreate
  PROVE  IndInv'
<1> USE DEF IndInv
<1>1. /\ queue["Server"] \in Seq(Messages) /\ queue["Server"] # <<>>
      /\ Len(queue["Server"]) \in Nat \ {0}
      /\ Head(queue["Server"]) = queue["Server"][1]
      /\ queue["Server"][1].kind = "CreateStream"
      /\ pc["Server"] = "recv" /\ ~ Gone("Server")
  BY DEF RecvCreate, TypeOK, Ends, Gone, Returned
<1>2. state["Server"] = "CreateStreams"
  BY <1>1 DEF ServerRegisters, Whereabouts, Early
<1>3. /\ Registered \in Nat /\ Dialled \in Nat /\ N \in Nat
      /\ Registered + Len(queue["Server"]) = Dialled + Welcomed
      /\ Registered < N
      /\ Head(queue["Server"]).id = Registered
  <2>1. /\ Registered \in Nat /\ Dialled \in 0 .. N /\ N \in Nat
        /\ Registered + Len(queue["Server"]) = Dialled + Welcomed
    BY <1>1, <1>2, NeededIsNat DEF ServerRegisters, Numbered, Early
  <2>2. Dialled + Welcomed <= N
    BY <2>1 DEF Welcomed, Numbered
  <2>3. queue["Server"][1].id = Registered + 1 - 1
    BY <1>1, <1>2 DEF ServerRegisters, Early
  <2> QED
    BY <1>1, <2>1, <2>2, <2>3
<1>4. Cardinality(streams["Server"]) = Registered
  BY <1>1, <1>2, EarlyCounts DEF Early, Ends
<1>5. /\ Registered \in Ids /\ Registered \notin Made("Server")
      /\ streams["Server"] = Made("Server")
  BY <1>1, <1>2, <1>3 DEF Ids, N, Numbered, Preparing, Early, Ends
<1>6. /\ conn' = [conn EXCEPT ![Registered] = Registered]
      /\ UNCHANGED <<old_state, results, mail, head, toServer, dial, acceptor>>
  BY <1>3, <1>4 DEF RecvCreate
<1>7. /\ conn' \in [Ids -> Ids \cup {Nobody}]
      /\ \A i \in Made("Server") : conn'[i] = conn[i]
      /\ \A i \in Made("Server") \cup {Registered} : conn'[i] = i
  BY <1>5, <1>6 DEF TypeOK, Numbered, Made
<1>8. CASE Gone("Client") /\ Leave("Server", "aborted") /\ UNCHANGED <<state, toClient>>
  <2>1. FramesInOrder'
    BY <1>1, <1>8, LeaveInOrder DEF Ends, Returned
  <2>2. toClient' \in Seq(Frames) /\ toServer' \in BOOLEAN
    BY <1>6, <1>8 DEF TypeOK
  <2> QED
    BY <1>6, <1>7, <1>8, <2>1, <2>2, LeaveInv DEF Ends, Returned
<1>9. CASE /\ Register("Server", Registered)
           /\ pc' = [pc EXCEPT !["Server"] = "top"]
           /\ queue' = [queue EXCEPT !["Server"] = Tail(@)]
           /\ \/ Registered + 1 = N /\ SetState("Running")
              \/ Registered + 1 # N /\ UNCHANGED <<state, toClient>>
  <2> HIDE DEF IndInv
  <2>1. /\ worker' \in [Ends -> [Ids -> WorkerStates]]
        /\ streams' \in [Ends -> SUBSET Ids]
        /\ \A f \in Ends, i \in Ids :
             worker'[f][i] = IF f = "Server" /\ i = Registered THEN "wait" ELSE worker[f][i]
        /\ \A f \in Ends : streams'[f] = IF f = "Server" THEN streams[f] \cup {Registered}
                                                         ELSE streams[f]
        /\ \A f \in Ends : Made(f)' = IF f = "Server" THEN Made(f) \cup {Registered}
                                                      ELSE Made(f)
        /\ streams'["Server"] = streams["Server"] \cup {Registered}
        /\ streams'["Client"] = streams["Client"]
        /\ Made("Server")' = Made("Server") \cup {Registered}
        /\ Made("Client")' = Made("Client")
        /\ Registered' = Registered + 1 /\ Dialled' = Dialled
        /\ Made("Server")' = 0 .. Registered' - 1
    BY <1>3, <1>9, RegisterCounts DEF Ends
  <2> USE DEF IndInv
  <2>2. /\ queue'["Server"] = Tail(queue["Server"]) /\ queue'["Client"] = queue["Client"]
        /\ queue' \in [Ends -> Seq(Messages)]
        /\ Len(queue'["Server"]) = Len(queue["Server"]) - 1
        /\ \A k \in 1 .. Len(queue'["Server"]) :
             /\ k + 1 \in 1 .. Len(queue["Server"])
             /\ queue'["Server"][k] = queue["Server"][k + 1]
    <3>1. queue'["Server"] = Tail(queue["Server"]) /\ queue'["Client"] = queue["Client"]
      BY <1>9 DEF TypeOK, Ends
    <3>2. Tail(queue["Server"]) \in Seq(Messages)
      BY <1>1
    <3>3. queue' \in [Ends -> Seq(Messages)]
      BY <1>9, <3>2 DEF TypeOK
    <3> QED
      BY <1>1, <3>1, <3>3
  <2>13. /\ Registered' = Registered + 1 /\ Dialled' = Dialled
        /\ Len(queue'["Server"]) = Len(queue["Server"]) - 1
        /\ Len(queue["Server"]) \in Nat \ {0}
    BY <1>1, <2>1, <2>2
  <2>14. Registered' + Len(queue'["Server"]) = Registered + Len(queue["Server"])
    <3>1. Registered \in Int /\ Len(queue["Server"]) \in Int
      BY <1>3, <2>13
    <3>2. (Registered + 1) + (Len(queue["Server"]) - 1) = Registered + Len(queue["Server"])
      BY <3>1, MoveOne
    <3>3. Registered' + Len(queue'["Server"]) = (Registered + 1) + (Len(queue["Server"]) - 1)
      BY <2>13
    <3> QED
      BY <3>2, <3>3
  <2>3. /\ pc'["Server"] = "top" /\ pc'["Client"] = pc["Client"]
        /\ ~ Gone("Server")' /\ (Gone("Client")' <=> Gone("Client"))
        /\ \A f \in Ends : Gone(f)' <=> Gone(f)
    BY <1>1, <1>9 DEF TypeOK, Ends, Gone, Returned
  <2>4. /\ state'["Client"] = state["Client"]
        /\ \/ state'["Server"] = "Running" /\ Registered' = N
           \/ state'["Server"] = "CreateStreams"
        /\ state' \in [Ends -> States]
    BY <1>2, <1>9, <2>1 DEF SetState, TypeOK, States, Ends
  <2>5. toClient' \in Seq(Frames)
    <3>1. Append(toClient, "Running") \in Seq(Frames) /\ toClient \in Seq(Frames)
      BY DEF TypeOK, Frames, States
    <3> QED
      BY <1>9, <3>1 DEF SetState, SendToClient
  <2>6. TypeOK'
    BY <1>6, <1>7, <1>9, <2>1, <2>2, <2>4, <2>5 DEF TypeOK, Suspended
  <2>7. Numbered'
    <3>1. Dialled' \in 0 .. N /\ Made("Client")' = 0 .. Dialled' - 1
      BY <2>1 DEF Numbered
    <3>2. Registered' \in 0 .. N /\ Made("Server")' = 0 .. Registered' - 1
      BY <1>3, <2>1
    <3>3. \A f \in Ends : streams'[f] \subseteq Made(f)'
      BY <2>1 DEF Numbered
    <3>4. \A i \in Made("Server")' : conn'[i] = i
      BY <1>7, <2>1
    <3>5. dial' # "idle" => Dialled' < N
      BY <1>6, <2>1 DEF Numbered
    <3> QED
      BY <3>1, <3>2, <3>3, <3>4, <3>5 DEF Numbered
  <2>8. Preparing'
    <3> SUFFICES ASSUME NEW f \in Ends, state'[f] \in Early
                 PROVE  /\ \A j \in Ids : /\ mail[f][j] = <<>>
                                          /\ worker'[f][j] \notin Loading \cup {"ok"}
                        /\ ~ Gone(f)' =>
                             /\ streams'[f] = Made(f)'
                             /\ \A j \in Ids : worker'[f][j] \in {"absent", "wait"}
                             /\ \A k \in 1 .. Len(queue'[f]) : queue'[f][k].kind = "CreateStream"
      BY <1>6 DEF Preparing
    <3>1. CASE f = "Client"
      <4>1. queue'[f] = queue[f] /\ state[f] \in Early
        BY <3>1, <2>2, <2>4
      <4> QED
        BY <3>1, <4>1, <2>1, <2>3 DEF Preparing
    <3>2. CASE f = "Server"
      <4>1. state[f] \in Early /\ ~ Gone(f)
        BY <3>2, <1>1, <1>2 DEF Early
      <4>2. \A k \in 1 .. Len(queue'[f]) : queue'[f][k].kind = "CreateStream"
        BY <3>2, <4>1, <2>2 DEF Preparing
      <4>3. \A j \in Ids : worker'[f][j] \in {"absent", "wait"}
        BY <4>1, <2>1 DEF Preparing
      <4>4. \A j \in Ids : mail[f][j] = <<>> /\ worker'[f][j] \notin Loading \cup {"ok"}
        BY <4>1, <4>3 DEF Preparing, Loading
      <4>5. streams[f] = Made(f)
        BY <4>1 DEF Preparing
      <4>6. streams'[f] = streams[f] \cup {Registered} /\ Made(f)' = Made(f) \cup {Registered}
        BY <3>2, <2>1
      <4> QED
        BY <4>2, <4>3, <4>4, <4>5, <4>6
    <3> QED
      BY <3>1, <3>2 DEF Ends
  <2>9. ClientOpens'
    BY <2>1, <2>2, <2>3, <2>4 DEF ClientOpens
  <2>10. ServerRegisters'
    <3>1. CASE state'["Server"] = "CreateStreams"
      <4>1. \A k \in 1 .. Len(queue'["Server"]) : queue'["Server"][k].id = Registered' + k - 1
        <5> SUFFICES ASSUME NEW k \in 1 .. Len(queue'["Server"])
                     PROVE  queue'["Server"][k].id = Registered' + k - 1
          OBVIOUS
        <5>1. k + 1 \in 1 .. Len(queue["Server"]) /\ queue'["Server"][k] = queue["Server"][k + 1]
          BY <2>2
        <5>2. queue["Server"][k + 1].id = Registered + (k + 1) - 1
          BY <5>1, <1>1, <1>2 DEF ServerRegisters, Early
        <5>3. k \in Int /\ Registered \in Int /\ Registered' = Registered + 1
          BY <1>3, <2>13
        <5>4. Registered + (k + 1) - 1 = (Registered + 1) + k - 1
          <6> HIDE DEF IndInv, Registered
          <6> QED
            BY <5>3
        <5> QED
          BY <5>1, <5>2, <5>3, <5>4
      <4> QED
        <5>1. Welcomed' = Welcomed
          BY <1>6 DEF Welcomed
        <5>2. Registered' + Len(queue'["Server"]) = Dialled' + Welcomed'
          BY <5>1, <1>3, <2>13, <2>14
        <5> QED
          BY <3>1, <4>1, <5>2, <1>6 DEF ServerRegisters, Early
    <3>2. CASE state'["Server"] = "Running" /\ Registered' = N
      <4>1. queue'["Server"] = <<>>
        <5>1. Dialled + Welcomed <= N /\ Welcomed \in {0, 1}
          BY <1>3 DEF Numbered, Welcomed
        <5>2. Registered' + Len(queue'["Server"]) <= N
          BY <5>1, <1>3, <2>14
        <5>3. Len(queue'["Server"]) \in Nat /\ N \in Nat
          BY <2>2, <1>3 DEF Ends
        <5>4. Len(queue'["Server"]) = 0
          BY <5>2, <5>3, <3>2
        <5> QED
          BY <5>4, <2>2 DEF Ends
      <4>2. acceptor # "cookie"
        BY <1>2, <1>9, <3>2 DEF SetState, Unlocked, TypeOK, Ends
      <4> QED
        BY <3>2, <4>1, <4>2, <1>6 DEF ServerRegisters, Early
    <3> QED
      BY <3>1, <3>2, <2>4
  <2>11. FramesInOrder'
    <3>1. CASE UNCHANGED <<state, toClient>>
      BY <3>1, <1>1, <2>3 DEF FramesInOrder
    <3>2. CASE SetState("Running")
      BY <3>2, <1>1, <1>2, <2>3, SetStateInOrder DEF States, Rank, TypeOK, Ends
    <3> QED
      BY <3>1, <3>2, <1>9
  <2>12. Whereabouts'
    BY <1>2, <1>6, <2>3, <2>4 DEF Whereabouts, Ends
  <2> QED
    BY <2>6, <2>7, <2>8, <2>9, <2>10, <2>11, <2>12
<1> QED
  BY <1>3, <1>4, <1>8, <1>9 DEF RecvCreate, AllConnected, N

\* A controller is through with collect_test_result and goes on to exchange.
LEMMA CollectDoneStep ==
  ASSUME IndInv, NEW e \in Ends, CollectDone(e)
  PROVE  IndInv'
<1> USE DEF IndInv
<1>1. /\ pc[e] = "collect" /\ state[e] = "ExchangeResults" /\ state[e] \notin Early
      /\ ~ Gone(e)
      /\ UNCHANGED <<state, old_state, results, mail, toClient, head, dial, conn, acceptor>>
      /\ toServer' \in BOOLEAN
      /\ toServer' => toServer \/ e = "Client"
  BY DEF CollectDone, Whereabouts, Gone, Returned, Early, dialling, TypeOK
<1>2. CASE e = "Client" /\ Leave(e, "aborted") /\ UNCHANGED toServer
  <2>1. FramesInOrder'
    BY <1>1, <1>2, LeaveInOrder DEF Returned
  <2>2. toClient' \in Seq(Frames) /\ conn' \in [Ids -> Ids \cup {Nobody}]
    BY <1>1 DEF TypeOK
  <2> QED
    BY <1>1, <1>2, <2>1, <2>2, LeaveInv DEF Returned
<1>3. CASE pc' = [pc EXCEPT ![e] = "exchange"] /\ UNCHANGED <<streams, queue, worker>>
  <2>1. \A f \in Ends : Gone(f)' <=> Gone(f)
    BY <1>1, <1>3 DEF Gone, Returned, TypeOK
  <2>2. /\ Dialled' = Dialled /\ Registered' = Registered
        /\ \A f \in Ends : Made(f)' = Made(f)
    BY <1>3, SameCounts
  <2>3. TypeOK'
    BY <1>1, <1>3 DEF TypeOK, Suspended
  <2>4. Numbered' /\ Preparing'
    BY <1>1, <1>3, <2>1, <2>2 DEF Numbered, Preparing, Ends
  <2>5. ClientOpens'
    BY <1>1, <1>3, <2>2 DEF ClientOpens, TypeOK, Ends
  <2>6. ServerRegisters'
    BY <1>1, <1>3, <2>1, <2>2 DEF ServerRegisters, Welcomed, Ends
  <2>7. FramesInOrder'
    BY <1>1, <1>3, <2>1 DEF FramesInOrder, TypeOK, Ends
  <2>8. Whereabouts'
    BY <1>1, <1>3 DEF Whereabouts, TypeOK, Ends
  <2> QED
    BY <2>3, <2>4, <2>5, <2>6, <2>7, <2>8
<1> QED
  BY <1>2, <1>3 DEF CollectDone

\* Nothing happens.
LEMMA StutterStep ==
  ASSUME IndInv, UNCHANGED vars
  PROVE  IndInv'
<1> USE DEF IndInv, vars, control, dialling
<1>1. TypeOK'
  BY DEF TypeOK
<1>2. \A e \in Ends : Gone(e)' <=> Gone(e)
  BY DEF Gone
<1>3. /\ Dialled' = Dialled /\ Registered' = Registered
      /\ \A e \in Ends : Made(e)' = Made(e)
  BY SameCounts
<1>4. Numbered' /\ Preparing'
  BY <1>2, <1>3 DEF Numbered, Preparing, Ends
<1>5. ClientOpens' /\ ServerRegisters'
  BY <1>2, <1>3 DEF ClientOpens, ServerRegisters, Welcomed, Ends
<1>6. FramesInOrder' /\ Whereabouts'
  BY <1>2 DEF FramesInOrder, Whereabouts, Ends
<1> QED
  BY <1>1, <1>4, <1>5, <1>6

\* Every step of either controller, of the accept loop and of any worker preserves
\* the inductive invariant.
LEMMA NextInv == IndInv /\ [Next]_vars => IndInv'
<1> SUFFICES ASSUME IndInv, [Next]_vars
             PROVE  IndInv'
  OBVIOUS
<1>1. ASSUME NEW e \in Ends, Control(e)
      PROVE  IndInv'
  BY <1>1, WaitStep, StartLoadStep, FinaliseStep, RecvTerminatedStep, CollectJoinStep,
     CollectTimeoutStep, CollectDoneStep DEF Control
<1>2. CASE ServerControl
  BY <1>2, ServerStartStep, FailureStep, RecvCreateStep, SrvExchangeStep DEF ServerControl
<1>3. CASE ClientControl
  BY <1>3, CreateStreamsStep, CliConnectStep, CliHelloStep, CliWelcomeStep, FailureStep,
     CliReadFrameStep, CliExchangeStep DEF ClientControl
<1>4. CASE Acceptor
  BY <1>4, AccAcceptStep, AccAdmitStep, FailureStep DEF Acceptor
<1>5. CASE CliReadPart \/ CliReadsGarbage
  BY <1>5, CliReadPartStep, FailureStep
<1>6. CASE \E e \in Ends : Crash(e)
  BY <1>6, FailureStep
<1>7. CASE \E e \in Ends, i \in Ids : Work(e, i)
  BY <1>7, WorkStep
<1>8. CASE Terminating \/ UNCHANGED vars
  BY <1>8, StutterStep DEF Terminating
<1> QED
  BY <1>1, <1>2, <1>3, <1>4, <1>5, <1>6, <1>7, <1>8 DEF Next

----------------------------------------------------------------------------
(* What follows.                                                           *)

\* run_controller at both ends, their workers and the accept loop keep the
\* inductive invariant: streams are numbered alike, nobody starts early, and
\* the frames lie between the client's state and the server's.
THEOREM Invariance == Spec => []IndInv
<1>1. Init => IndInv
  BY InitInv
<1>2. IndInv /\ [Next]_vars => IndInv'
  BY NextInv
<1> QED
  BY <1>1, <1>2, PTL DEF Spec

\* Every variable keeps its type; in particular no stream gets an id beyond the
\* number the test needs, although ids are sizes of a map that also shrinks.
THEOREM TypeCorrect == Spec => []TypeOK
<1>1. IndInv => TypeOK
  BY DEF IndInv
<1> QED
  BY <1>1, Invariance, PTL

\* For each id within the number of streams asked for, exactly one end sends
\* (create_and_register_stream_worker with the swapped counts of PerfTest::new).
LEMMA OneSender ==
  ASSUME NEW i \in Nat, i < Requested(Par)
  PROVE  IsSending(Par, "Server", i) # IsSending(Par, "Client", i)
<1>1. Par.direction \in Directions /\ Par.parallel \in Nat
  <2>1. U16 \in Nat \ {0}
    BY DEF U16
  <2> QED
    BY <2>1, SessionAssumption DEF TestParameters
<1> QED
  BY <1>1 DEF IsSending, Requested, NumSend, NumReceive, ClientSends, ClientReceives,
     Peer, Directions

\* The number of streams asked for is a natural number.
LEMMA RequestedIsNat == Requested(Par) \in Nat
<1>1. U16 \in Nat \ {0}
  BY DEF U16
<1> QED
  BY <1>1, SessionAssumption DEF TestParameters, Requested, ClientSends, ClientReceives

\* The sum wraps in u16, but never to more than was asked for.
LEMMA NeededAtMostRequested == N <= Requested(Par)
<1>1. U16 \in Nat \ {0}
  BY DEF U16
<1>3. \A m \in Nat, n \in Nat \ {0} : m % n <= m
  OBVIOUS
<1>4. N = Requested(Par) % U16 /\ Requested(Par) \in Nat
  BY RequestedIsNat DEF N, Needed, Requested, NumSend, NumReceive, Peer
<1> QED
  BY <1>1, <1>3, <1>4

\* Whatever the direction and the number of streams, both ends give a
\* connection the same id and agree which of them sends on it.
THEOREM ConnectionsPaired == Spec => []StreamsPaired
<1>1. IndInv => StreamsPaired
  <2> SUFFICES ASSUME IndInv, NEW i \in streams["Server"]
               PROVE  conn[i] = i /\ (IsSending(Par, "Server", i) # IsSending(Par, "Client", i))
    BY DEF StreamsPaired
  <2>1. i \in Made("Server") /\ i \in Ids
    BY DEF IndInv, Numbered, Made, Ends
  <2>2. i \in Nat /\ i < N
    BY <2>1, NeededIsNat DEF Ids, N
  <2>3. i < Requested(Par)
    <3>1. Requested(Par) \in Int /\ N \in Int
      BY NeededIsNat, RequestedIsNat
    <3> QED
      BY <2>2, <3>1, NeededAtMostRequested
  <2> QED
    BY <2>1, <2>2, <2>3, OneSender DEF IndInv, Numbered
<1> QED
  BY <1>1, Invariance, PTL

\* However the two controllers, the accept loop and the workers interleave, and
\* whoever crashes, load starts only once every connection is in place.
THEOREM LoadWaits == Spec => []LoadAfterAllConnected
<1>1. IndInv => LoadAfterAllConnected
  <2> SUFFICES ASSUME IndInv
               PROVE  LoadAfterAllConnected
    OBVIOUS
  <2>1. \A e \in Ends : UnderLoad(e) => state[e] \notin Early
    BY DEF IndInv, Preparing, UnderLoad
  <2>2. state["Client"] \notin Early => state["Server"] \notin Early
    BY DEF IndInv, FramesInOrder, Rank, Early, TypeOK, States, Ends
  <2>3. state["Server"] \notin Early => Made("Server") = Ids
    BY DEF IndInv, ServerRegisters, Numbered, Ids, N
  <2>4. state["Client"] \notin Early => Made("Client") = Ids
    BY DEF IndInv, ClientOpens, Numbered, Ids, N
  <2> QED
    BY <2>1, <2>2, <2>3, <2>4 DEF LoadAfterAllConnected, Made, Ends
<1> QED
  BY <1>1, Invariance, PTL

----------------------------------------------------------------------------
(* The two controllers, their workers, the accept loop and the connection  *)
(* between them implement the lifecycle of a test.                         *)

\* Most steps of the session are none of the lifecycle: the states stay, and
\* nobody who was still taking part returns.
LEMMA Quiet ==
  ASSUME state' = state,
         \A e \in Ends : pc'[e] = pc[e] \/ (pc[e] \in Suspended /\ pc'[e] \in Suspended)
  PROVE  UNCHANGED Lifecycle!lifeVars
<1>1. Over' = Over
  BY DEF Over, Suspended
<1> QED
  BY <1>1 DEF Lifecycle!lifeVars

\* A controller that returns with an error, or is killed, fails its part.
LEMMA Failing ==
  ASSUME TypeOK, NEW e \in Ends, NEW how \in {"aborted", "killed"}, Leave(e, how),
         pc[e] # "done", state' = state
  PROVE  [Lifecycle!LifeNext]_(Lifecycle!lifeVars)
<1>1. pc' = [pc EXCEPT ![e] = how] /\ pc \in [Ends -> Suspended \cup Returned]
  BY DEF Leave, TypeOK
<1>2. CASE pc[e] \in Suspended
  <2>1. Over[e] = "no"
    BY <1>2 DEF Over, Suspended
  <2>2. Over' = [Over EXCEPT ![e] = "failed"]
    BY <1>1 DEF Over
  <2>3. Lifecycle!Fail(e)
    BY <2>1, <2>2 DEF Lifecycle!Fail
  <2> QED
    BY <2>3 DEF Lifecycle!LifeNext, Lifecycle!Ends, Ends
<1>3. CASE pc[e] \in {"aborted", "killed"}
  <2>1. Over' = Over
    BY <1>1, <1>3 DEF Over
  <2> QED
    BY <2>1 DEF Lifecycle!lifeVars
<1> QED
  BY <1>1, <1>2, <1>3 DEF Returned

\* set_state on the server is the one step from a state to the next.
LEMMA Advancing ==
  ASSUME TypeOK, NEW s, state' = [state EXCEPT !["Server"] = s],
         s = Lifecycle!After(state["Server"]), state["Server"] # "ExchangeResults",
         pc["Server"] \in Suspended,
         \A e \in Ends : pc'[e] = pc[e] \/ (pc[e] \in Suspended /\ pc'[e] \in Suspended)
  PROVE  [Lifecycle!LifeNext]_(Lifecycle!lifeVars)
<1>1. Over' = Over
  BY DEF Over, Suspended
<1>2. Over["Server"] = "no"
  BY DEF Over, Suspended, Ends
<1>3. state'["Server"] = s /\ state'["Client"] = state["Client"]
  BY DEF TypeOK, Ends
<1> QED
  BY <1>1, <1>2, <1>3 DEF Lifecycle!LifeNext, Lifecycle!Advance

\* The client takes one frame, and with it one step towards the server's state.
LEMMA Following ==
  ASSUME IndInv, CliReadFrame
  PROVE  [Lifecycle!LifeNext]_(Lifecycle!lifeVars)
<1> USE DEF IndInv
<1>1. /\ pc["Client"] = "recv" /\ pc' = [pc EXCEPT !["Client"] = "top"]
      /\ toClient \in Seq(Frames) /\ toClient # <<>>
      /\ Len(toClient) \in Nat \ {0} /\ Head(toClient) = toClient[1]
      /\ state \in [Ends -> States] /\ pc \in [Ends -> Suspended \cup Returned]
  BY DEF CliReadFrame, TypeOK
<1>2. /\ Rank(toClient[1]) = Rank(state["Client"]) + 1
      /\ Rank(state["Client"]) + Len(toClient)
           = Rank(state["Server"]) + (IF pc["Server"] = "done" THEN 1 ELSE 0)
  BY <1>1 DEF FramesInOrder, Gone, Returned
<1>3. /\ state["Client"] # "ExchangeResults" /\ state["Client"] \in States
      /\ toClient[1] \in Frames
  BY <1>1 DEF Whereabouts, Ends
<1>4. toClient[1] = Lifecycle!After(state["Client"]) /\ toClient[1] \in States
  BY <1>2, <1>3 DEF Lifecycle!After, Rank, States, Frames
<1>5. state["Client"] # state["Server"]
  <2> SUFFICES ASSUME state["Client"] = state["Server"]
               PROVE  FALSE
    OBVIOUS
  <2>1. pc["Server"] # "done"
    BY <1>3 DEF Whereabouts, Ends
  <2>2. Rank(state["Client"]) \in Nat
    BY DEF Rank
  <2> QED
    BY <1>1, <1>2, <2>1, <2>2
<1>6. /\ state'["Client"] = toClient[1]
      /\ state'["Server"] = state["Server"]
  BY <1>1, <1>4 DEF CliReadFrame, Ends
<1>7. Over' = Over /\ Over["Client"] = "no"
  BY <1>1 DEF Over, Ends
<1> QED
  BY <1>4, <1>5, <1>6, <1>7 DEF Lifecycle!LifeNext, Lifecycle!Follow

\* The server finishes in the exchange, with the client's results in hand.
LEMMA ServerFinishing ==
  ASSUME IndInv, SrvExchange
  PROVE  [Lifecycle!LifeNext]_(Lifecycle!lifeVars)
<1> USE DEF IndInv
<1>1. /\ pc["Server"] = "exchange" /\ state' = state
      /\ state["Server"] = "ExchangeResults" /\ state["Client"] = "ExchangeResults"
  BY DEF SrvExchange, Whereabouts, Ends, ClientResultsIn
<1>2. CASE Leave("Server", "aborted")
  BY <1>1, <1>2, Failing DEF Ends
<1>3. CASE Leave("Server", "done")
  <2>1. pc' = [pc EXCEPT !["Server"] = "done"] /\ pc \in [Ends -> Suspended \cup Returned]
    BY <1>3 DEF Leave, TypeOK
  <2>2. Over' = [Over EXCEPT !["Server"] = "done"]
    BY <2>1 DEF Over
  <2>3. Over["Server"] = "no"
    BY <1>1 DEF Over, Ends
  <2> QED
    BY <1>1, <2>2, <2>3 DEF Lifecycle!LifeNext, Lifecycle!ServerDone
<1> QED
  BY <1>2, <1>3 DEF SrvExchange

\* The client finishes with the server's results, which a server that is done
\* has sent.
LEMMA ClientFinishing ==
  ASSUME IndInv, CliExchange
  PROVE  [Lifecycle!LifeNext]_(Lifecycle!lifeVars)
<1> USE DEF IndInv
<1>1. /\ pc["Client"] = "exchange" /\ state' = state
      /\ state["Client"] = "ExchangeResults" /\ toClient # <<>>
      /\ toClient \in Seq(Frames)
  BY DEF CliExchange, Whereabouts, Ends, TypeOK
<1>2. CASE Leave("Client", "aborted")
  BY <1>1, <1>2, Failing DEF Ends
<1>3. CASE Leave("Client", "done")
  <2>1. pc["Server"] = "done"
    <3>1. /\ Rank(state["Client"]) = 3
          /\ Rank(state["Server"]) \in 0 .. 3
          /\ Len(toClient) \in Nat \ {0}
      BY <1>1 DEF Rank, TypeOK, States, Ends
    <3>2. Rank(state["Client"]) + Len(toClient)
            = Rank(state["Server"]) + (IF pc["Server"] = "done" THEN 1 ELSE 0)
      BY <1>1 DEF FramesInOrder, Gone, Returned
    <3> QED
      BY <3>1, <3>2
  <2>2. pc' = [pc EXCEPT !["Client"] = "done"] /\ pc \in [Ends -> Suspended \cup Returned]
    BY <1>3 DEF Leave, TypeOK
  <2>3. Over' = [Over EXCEPT !["Client"] = "done"]
    BY <2>2 DEF Over
  <2>4. Over["Client"] = "no" /\ Over["Server"] = "done"
    BY <1>1, <2>1 DEF Over, Ends
  <2> QED
    BY <1>1, <2>3, <2>4 DEF Lifecycle!LifeNext, Lifecycle!ClientDone
<1> QED
  BY <1>2, <1>3 DEF CliExchange

\* A stream that ends moves the server on, or nothing but the queue changes.
LEMMA StreamEnding ==
  ASSUME IndInv, NEW e \in Ends, RecvTerminated(e)
  PROVE  [Lifecycle!LifeNext]_(Lifecycle!lifeVars)
<1> USE DEF IndInv
<1>1. /\ pc[e] = "recv" /\ pc' = [pc EXCEPT ![e] = "top"]
      /\ pc \in [Ends -> Suspended \cup Returned]
  BY DEF RecvTerminated, TypeOK
<1>2. \A f \in Ends : pc'[f] = pc[f] \/ (pc[f] \in Suspended /\ pc'[f] \in Suspended)
  BY <1>1 DEF Suspended
<1>3. CASE state' = state
  BY <1>2, <1>3, Quiet
<1>4. CASE e = "Server" /\ SetState("ExchangeResults")
  <2>1. queue[e][1].kind = "StreamTerminated" /\ 1 \in 1 .. Len(queue[e])
    BY DEF RecvTerminated, TypeOK
  <2>2. state["Server"] \notin Early
    BY <2>1, <1>1, <1>4 DEF Preparing, Gone, Returned
  <2>3. state["Server"] = "Running"
    BY <1>1, <1>4, <2>2 DEF Whereabouts, TypeOK, States, Early, Ends
  <2>4. "ExchangeResults" = Lifecycle!After(state["Server"])
    BY <2>3 DEF Lifecycle!After
  <2>5. /\ state' = [state EXCEPT !["Server"] = "ExchangeResults"]
        /\ pc["Server"] \in Suspended
    BY <1>1, <1>4 DEF SetState, Suspended
  <2> QED
    BY <1>2, <2>3, <2>4, <2>5, Advancing
<1> QED
  BY <1>3, <1>4 DEF RecvTerminated

\* A new stream moves the server on when it is the last.
LEMMA StreamArriving ==
  ASSUME IndInv, RecvCreate
  PROVE  [Lifecycle!LifeNext]_(Lifecycle!lifeVars)
<1> USE DEF IndInv
<1>1. pc["Server"] = "recv" /\ pc \in [Ends -> Suspended \cup Returned]
  BY DEF RecvCreate, TypeOK
<1>2. CASE Leave("Server", "aborted") /\ state' = state
  BY <1>1, <1>2, Failing DEF Ends
<1>3. CASE pc' = [pc EXCEPT !["Server"] = "top"] /\ (state' = state \/ SetState("Running"))
  <2>1. \A f \in Ends : pc'[f] = pc[f] \/ (pc[f] \in Suspended /\ pc'[f] \in Suspended)
    BY <1>1, <1>3 DEF Suspended
  <2>2. CASE state' = state
    BY <2>1, <2>2, Quiet
  <2>3. CASE SetState("Running")
    <3>1. queue["Server"][1].kind = "CreateStream" /\ 1 \in 1 .. Len(queue["Server"])
      BY DEF RecvCreate, TypeOK, Ends
    <3>2. state["Server"] = "CreateStreams"
      BY <3>1, <1>1 DEF ServerRegisters, Whereabouts, Early
    <3>3. "Running" = Lifecycle!After(state["Server"])
      BY <3>2 DEF Lifecycle!After
    <3>4. /\ state' = [state EXCEPT !["Server"] = "Running"]
          /\ pc["Server"] \in Suspended
      BY <1>1, <2>3 DEF SetState, Suspended
    <3> QED
      BY <2>1, <3>2, <3>3, <3>4, Advancing
  <2> QED
    BY <1>3, <2>2, <2>3
<1> QED
  BY <1>2, <1>3 DEF RecvCreate

\* Every step of the session is a step of the lifecycle, or none.
LEMMA StepSimulation ==
  ASSUME IndInv, [Next]_vars
  PROVE  [Lifecycle!LifeNext]_(Lifecycle!lifeVars)
<1> DEFINE Goal == [Lifecycle!LifeNext]_(Lifecycle!lifeVars)
<1>1. TypeOK /\ pc \in [Ends -> Suspended \cup Returned]
  BY DEF IndInv, TypeOK
<1>2. ASSUME state' = state,
             \A e \in Ends : pc'[e] = pc[e] \/ (pc[e] \in Suspended /\ pc'[e] \in Suspended)
      PROVE  Goal
  BY <1>2, Quiet
<1>3. ASSUME state' = state, pc' = pc
      PROVE  Goal
  BY <1>3, <1>2
<1>4. ASSUME state' = state, NEW e \in Ends, pc[e] \in Suspended,
             NEW p \in Suspended, pc' = [pc EXCEPT ![e] = p]
      PROVE  Goal
  BY <1>1, <1>2, <1>4
<1>5. ASSUME state' = state, NEW e \in Ends, NEW how \in {"aborted", "killed"},
             Leave(e, how), pc[e] # "done"
      PROVE  Goal
  BY <1>1, <1>5, Failing
<1> HIDE DEF Goal
<1>6. ASSUME NEW e \in Ends, Control(e)
      PROVE  Goal
  <2>1. CASE RecvTerminated(e)
    BY <2>1, StreamEnding DEF Goal
  <2>2. CASE Wait(e) \/ StartLoad(e) \/ Finalise(e)
    BY <2>2, <1>4 DEF Wait, StartLoad, Finalise, Suspended
  <2>3. CASE \E i \in Ids : CollectJoin(e, i) \/ CollectTimeout(e, i)
    BY <2>3, <1>3 DEF CollectJoin, CollectTimeout
  <2>4. CASE CollectDone(e)
    <3>1. pc[e] = "collect" /\ pc[e] \in Suspended /\ "exchange" \in Suspended
          /\ pc[e] # "done" /\ state' = state
      BY <2>4 DEF CollectDone, Suspended
    <3> QED
      BY <3>1, <2>4, <1>4, <1>5 DEF CollectDone
  <2> QED
    BY <1>6, <2>1, <2>2, <2>3, <2>4 DEF Control
<1>7. ASSUME ServerControl
      PROVE  Goal
  <2>1. CASE ServerStart
    <3>1. /\ state["Server"] = "TestStart" /\ pc["Server"] \in Suspended
          /\ state' = [state EXCEPT !["Server"] = "CreateStreams"] /\ pc' = pc
      BY <2>1 DEF ServerStart, SetState, Suspended
    <3>2. "CreateStreams" = Lifecycle!After(state["Server"])
      BY <3>1 DEF Lifecycle!After
    <3> QED
      BY <1>1, <3>1, <3>2, Advancing DEF Goal
  <2>2. CASE ServerStartFails
    BY <2>2, <1>5 DEF ServerStartFails, Ends
  <2>3. CASE RecvCreate
    BY <2>3, StreamArriving DEF Goal
  <2>4. CASE SrvExchange
    BY <2>4, ServerFinishing DEF Goal
  <2>5. CASE SrvReadFails
    BY <2>5, <1>5 DEF SrvReadFails, Ends
  <2> QED
    BY <1>7, <2>1, <2>2, <2>3, <2>4, <2>5 DEF ServerControl
<1>8. ASSUME ClientControl
      PROVE  Goal
  <2>1. CASE CreateStreams
    BY <2>1, <1>4 DEF CreateStreams, Suspended, Ends
  <2>2. CASE CliConnect \/ CliHello
    BY <2>2, <1>3 DEF CliConnect, CliHello
  <2>3. CASE CliWelcome
    <3>1. PICK p \in Suspended : pc' = [pc EXCEPT !["Client"] = p]
      BY <2>3 DEF CliWelcome, Suspended
    <3> QED
      BY <2>3, <3>1, <1>4 DEF CliWelcome, Suspended, Ends
  <2>4. CASE CliDialFails
    BY <2>4, <1>5 DEF CliDialFails, Ends
  <2>5. CASE CliReadFrame
    BY <2>5, Following DEF Goal
  <2>6. CASE CliReadFails
    BY <2>6, <1>5 DEF CliReadFails, Ends
  <2>7. CASE CliExchange
    BY <2>7, ClientFinishing DEF Goal
  <2> QED
    BY <1>8, <2>1, <2>2, <2>3, <2>4, <2>5, <2>6, <2>7 DEF ClientControl
<1>9. ASSUME Acceptor
      PROVE  Goal
  <2>1. CASE AccAccept \/ AccAdmit
    BY <2>1, <1>3 DEF AccAccept, AccAdmit
  <2>2. CASE AccFail
    <3>1. pc["Server"] # "done"
      BY <2>2 DEF AccFail, IndInv, ServerRegisters, Whereabouts, Ends
    <3> QED
      BY <2>2, <3>1, <1>5 DEF AccFail, Ends
  <2> QED
    BY <1>9, <2>1, <2>2 DEF Acceptor
<1>10. ASSUME CliReadPart
      PROVE  Goal
  BY <1>10, <1>3 DEF CliReadPart
<1>11. ASSUME CliReadsGarbage
      PROVE  Goal
  BY <1>11, <1>5 DEF CliReadsGarbage, Ends
<1>12. ASSUME NEW e \in Ends, Crash(e)
       PROVE  Goal
  BY <1>12, <1>5 DEF Crash, Gone, Returned
<1>13. ASSUME NEW e \in Ends, NEW i \in Ids, Work(e, i)
       PROVE  Goal
  <2>1. state' = state /\ pc' = pc
    BY <1>13 DEF Work, WorkerStart, WorkerBail, WorkerStop, WorkerDrained, WorkerError, outside
  <2> QED
    BY <2>1, <1>3
<1>14. ASSUME Terminating \/ UNCHANGED vars
      PROVE  Goal
  BY <1>14, <1>3 DEF Terminating, vars
<1>15. Goal
  BY <1>6, <1>7, <1>8, <1>9, <1>10, <1>11, <1>12, <1>13, <1>14 DEF Next
<1> QED
  BY <1>15 DEF Goal

\* run_controller at both ends implements the lifecycle: the client never gets
\* ahead of the server or skips a state, neither finishes before the other has
\* reached the exchange, and the client's success implies the server's.
THEOREM Refinement == Spec => ImplementsLifecycle
<1>1. Init => Lifecycle!LifeInit
  BY DEF Init, Lifecycle!LifeInit, Over, Lifecycle!Ends, Ends
<1>2. IndInv /\ [Next]_vars => [Lifecycle!LifeNext]_(Lifecycle!lifeVars)
  BY StepSimulation
<1> QED
  BY <1>1, <1>2, Invariance, PTL DEF Spec, ImplementsLifecycle, Lifecycle!LifeSpec

============================================================================
