------------------------------ MODULE Session ------------------------------
(***************************************************************************)
(* One p2 test, from the moment both controllers are spawned until both    *)
(* have returned: run_controller of either role (controller.rs), the       *)
(* worker task of every data stream at both ends (stream_worker.rs), the   *)
(* server's accept loop as far as it serves this test's data connections   *)
(* (server.rs), and the control connection between the two.                *)
(*                                                                         *)
(* Each process runs its tasks on one thread, so a step here is what a     *)
(* task does from one suspension point to the next.  Data bytes, clocks    *)
(* and statistics are left out: a worker in its loop may reach its         *)
(* deadline at any time, and a stream's result is the stream's id.         *)
(***************************************************************************)
EXTENDS StreamRoles, Sequences, FiniteSets

CONSTANTS Par,         \* the TestParameters of the test
          ProtBuffer,  \* INTERNAL_PROT_BUFFER (consts.rs), 5 in the code
          CanSplit,    \* may the bytes of a control frame arrive apart?
          MayCrash     \* the ends whose process may be killed

ASSUME SessionAssumption ==
  /\ Par \in TestParameters
  /\ ProtBuffer \in Nat \ {0}
  /\ CanSplit \in BOOLEAN
  /\ MayCrash \subseteq Ends

\* A stream's id is its key in PerfTest.streams.
Ids == 0 .. Needed(Par) - 1

\* The client id of a connection the server has not registered.
Nobody == -1

States == {"TestStart", "CreateStreams", "Running", "ExchangeResults"}

VARIABLES
  state,      \* PerfTest.state of each end
  old_state,  \* the local of run_controller
  pc,         \* where each end's controller is suspended
  streams,    \* the keys of PerfTest.streams
  results,    \* the keys of stream_results
  queue,      \* each controller's mpsc channel, oldest message first
  worker,     \* the task of each stream
  mail,       \* each worker's mpsc channel
  conn,       \* server's stream id -> client's id of the same connection
  toClient,   \* control frames the client has not read
  head,       \* how much of the first of them a read has consumed
  toServer,   \* has the client's SendResults frame been sent and not read?
  dial,       \* the data connection the client is opening
  acceptor    \* where the server's accept loop is

control == <<toClient, head, toServer>>
dialling == <<conn, dial, acceptor>>
vars == <<state, old_state, pc, streams, results, queue, worker, mail,
          control, dialling>>

\* "recv" is the select! on the client; "dial" is inside create_streams.
Suspended == {"top", "recv", "dial", "collect", "exchange"}
Returned == {"done", "aborted", "killed"}

Loading == {"load", "drain"}
Finished == {"ok", "err"}
WorkerStates == {"absent", "wait", "gone"} \cup Loading \cup Finished

\* A ControllerMessage.
Messages == [kind : {"CreateStream", "StreamTerminated"}, id : Ids]

\* SetState(s) is written s.
Frames == States \cup {"SendResults"}

TypeOK ==
  /\ state \in [Ends -> States]
  /\ old_state \in [Ends -> States]
  /\ pc \in [Ends -> Suspended \cup Returned]
  /\ streams \in [Ends -> SUBSET Ids]
  /\ results \in [Ends -> SUBSET Ids]
  /\ queue \in [Ends -> Seq(Messages)]
  /\ worker \in [Ends -> [Ids -> WorkerStates]]
  /\ mail \in [Ends -> [Ids -> Seq({"StartLoad", "Terminate"})]]
  /\ conn \in [Ids -> Ids \cup {Nobody}]
  /\ toClient \in Seq(Frames)
  /\ head \in {"intact", "half", "torn"}
  /\ toServer \in BOOLEAN
  /\ dial \in {"idle", "opened", "hello", "welcome", "denied"}
  /\ acceptor \in {"accept", "cookie", "down"}

Init ==
  /\ state = [e \in Ends |-> "TestStart"]
  /\ old_state = [e \in Ends |-> "TestStart"]
  /\ pc = [e \in Ends |-> "top"]
  /\ streams = [e \in Ends |-> {}]
  /\ results = [e \in Ends |-> {}]
  /\ queue = [e \in Ends |-> <<>>]
  /\ worker = [e \in Ends |-> [i \in Ids |-> "absent"]]
  /\ mail = [e \in Ends |-> [i \in Ids |-> <<>>]]
  /\ conn = [i \in Ids |-> Nobody]
  /\ toClient = <<>>
  /\ head = "intact"
  /\ toServer = FALSE
  /\ dial = "idle"
  /\ acceptor = "accept"

----------------------------------------------------------------------------
(* What several handlers share.                                            *)

Gone(e) == pc[e] \in Returned

\* The accept loop keeps the mutex of the state while it waits for a cookie,
\* so a server controller that wants it is suspended; the client has no rival.
Unlocked(e) == e = "Client" \/ acceptor # "cookie"

\* The process of e no longer exists; its sockets are closed.
Down(e) == Gone(e) /\ (e = "Client" \/ pc[e] = "killed")

Tasks == {"wait"} \cup Loading

Cut(e) == [worker EXCEPT ![e] = [i \in Ids |-> IF @[i] \in Tasks THEN "gone" ELSE @[i]]]

\* A controller returns and drops its channel and its map of streams.  With a
\* client, or when the process is killed, the workers go too.
Leave(e, how) ==
  /\ pc' = [pc EXCEPT ![e] = how]
  /\ streams' = [streams EXCEPT ![e] = {}]
  /\ queue' = [queue EXCEPT ![e] = <<>>]
  /\ worker' = IF e = "Client" \/ how = "killed" THEN Cut(e) ELSE worker

\* A control frame the server writes to a client that has gone is lost.
SendToClient(f) ==
  toClient' = IF Gone("Client") THEN toClient ELSE Append(toClient, f)

\* set_state on the server: first the frame, then the state.
SetState(s) ==
  /\ Unlocked("Server")
  /\ SendToClient(s)
  /\ state' = [state EXCEPT !["Server"] = s]

\* broadcast_to_streams: try_send to every registered worker still receiving.
\* At most two messages are ever sent, so the channel has room.
Broadcast(e, m) ==
  mail' = [mail EXCEPT ![e] =
             [i \in Ids |-> IF i \in streams[e] /\ worker[e][i] \in {"wait", "load"}
                            THEN Append(@[i], m)
                            ELSE @[i]]]

\* create_and_register_stream_worker: the id is the size of the map.
Register(e, id) ==
  /\ streams' = [streams EXCEPT ![e] = @ \cup {id}]
  /\ worker' = [worker EXCEPT ![e][id] = "wait"]

\* The two ends of one data connection, and whether the far end has closed it.
SameConnection(e, i, j) == IF e = "Server" THEN conn[i] = j ELSE conn[j] = i

PeerClosed(e, i) ==
  \/ Down(Peer(e))
  \/ \E j \in Ids : SameConnection(e, i, j) /\ worker[Peer(e)][j] \in Finished \cup {"gone"}

----------------------------------------------------------------------------
(* The head of run_controller's loop: what to do about the state.          *)

\* The server leaves TestStart at once and looks at its state again.
ServerStart ==
  /\ pc["Server"] = "top"
  /\ state["Server"] = "TestStart"
  /\ SetState("CreateStreams")
  /\ UNCHANGED <<old_state, pc, streams, results, queue, worker, mail, head,
                 toServer, dialling>>

\* The frame could not be written, because the client has gone: `?` returns.
ServerStartFails ==
  /\ pc["Server"] = "top"
  /\ state["Server"] = "TestStart"
  /\ Gone("Client")
  /\ Leave("Server", "aborted")
  /\ UNCHANGED <<state, old_state, results, mail, control, dialling>>

\* Nothing to do in this state but to wait for a message.
Wait(e) ==
  /\ pc[e] = "top"
  /\ Unlocked(e)
  /\ \/ state[e] = "TestStart" /\ e = "Client"
     \/ state[e] = "CreateStreams" /\ e = "Server"
     \/ state[e] = "CreateStreams" /\ Cardinality(streams[e]) >= Needed(Par)
     \/ state[e] = "Running" /\ old_state[e] = "Running"
  /\ pc' = [pc EXCEPT ![e] = "recv"]
  /\ old_state' = [old_state EXCEPT ![e] = state[e]]
  /\ UNCHANGED <<state, streams, results, queue, worker, mail, control, dialling>>

\* The client enters create_streams.
CreateStreams ==
  /\ pc["Client"] = "top"
  /\ state["Client"] = "CreateStreams"
  /\ Cardinality(streams["Client"]) < Needed(Par)
  /\ pc' = [pc EXCEPT !["Client"] = "dial"]
  /\ old_state' = [old_state EXCEPT !["Client"] = "CreateStreams"]
  /\ UNCHANGED <<state, streams, results, queue, worker, mail, control, dialling>>

\* A faulty variant: any pass through Running will do.
AnyPass(e) == TRUE

Transition(e) == old_state[e] # "Running"

\* On the transition to Running, and only then, start the load.
StartLoad(e) ==
  /\ pc[e] = "top"
  /\ Unlocked(e)
  /\ state[e] = "Running"
  /\ Transition(e)
  /\ Broadcast(e, "StartLoad")
  /\ pc' = [pc EXCEPT ![e] = "recv"]
  /\ old_state' = [old_state EXCEPT ![e] = "Running"]
  /\ UNCHANGED <<state, streams, results, queue, worker, control, dialling>>

\* Ask the workers to stop, then collect what they return.
Finalise(e) ==
  /\ pc[e] = "top"
  /\ Unlocked(e)
  /\ state[e] = "ExchangeResults"
  /\ Broadcast(e, "Terminate")
  /\ pc' = [pc EXCEPT ![e] = "collect"]
  /\ UNCHANGED <<state, old_state, streams, results, queue, worker, control, dialling>>

----------------------------------------------------------------------------
(* The client opens its data streams one after the other, inside           *)
(* create_streams, and reads nothing else meanwhile.                       *)

\* A faulty variant: counted from one.
DialledFromOne == Cardinality({i \in Ids : worker["Client"][i] # "absent"}) + 1

\* The id the client will give the connection it is opening.
Dialled == Cardinality({i \in Ids : worker["Client"][i] # "absent"})

CliConnect ==
  /\ pc["Client"] = "dial"
  /\ dial = "idle"
  /\ acceptor # "down"
  /\ dial' = "opened"
  /\ UNCHANGED <<state, old_state, pc, streams, results, queue, worker, mail,
                 control, conn, acceptor>>

CliHello ==
  /\ pc["Client"] = "dial"
  /\ dial = "opened"
  /\ dial' = "hello"
  /\ UNCHANGED <<state, old_state, pc, streams, results, queue, worker, mail,
                 control, conn, acceptor>>

\* The welcome makes it a data stream; the last one ends create_streams.
CliWelcome ==
  /\ pc["Client"] = "dial"
  /\ dial = "welcome"
  /\ LET id == Cardinality(streams["Client"])
     IN /\ Register("Client", id)
        /\ pc' = [pc EXCEPT !["Client"] = IF id + 1 < Needed(Par) THEN "dial" ELSE "recv"]
  /\ dial' = "idle"
  /\ UNCHANGED <<state, old_state, results, queue, mail, control, conn, acceptor>>

\* A faulty variant: a connection that is never answered is waited for.
CliDialDenied ==
  /\ pc["Client"] = "dial"
  /\ dial = "denied"
  /\ Leave("Client", "aborted")
  /\ UNCHANGED <<state, old_state, results, mail, control, dialling>>

\* Refused, or nobody is listening any more: `?` ends the client.
CliDialFails ==
  /\ pc["Client"] = "dial"
  /\ dial = "denied" \/ acceptor = "down"
  /\ Leave("Client", "aborted")
  /\ UNCHANGED <<state, old_state, results, mail, control, dialling>>

----------------------------------------------------------------------------
(* The server's accept loop, while this test is in flight.                 *)

\* It takes the mutex and looks at the state.  In CreateStreams it keeps the
\* mutex and waits for the cookie; in any other state it turns the client away.
AccAccept ==
  /\ acceptor = "accept"
  /\ dial \in {"opened", "hello"}
  /\ ~ Gone("Server")
  /\ IF state["Server"] = "CreateStreams"
     THEN acceptor' = "cookie" /\ UNCHANGED dial
     ELSE dial' = "denied" /\ UNCHANGED acceptor
  /\ UNCHANGED <<state, old_state, pc, streams, results, queue, worker, mail,
                 control, conn>>

\* The cookie is right: welcome the client, hand the socket to the controller.
AccAdmit ==
  /\ acceptor = "cookie"
  /\ dial = "hello"
  /\ ~ Gone("Server")
  /\ Len(queue["Server"]) < ProtBuffer
  /\ queue' = [queue EXCEPT !["Server"] =
                 Append(@, [kind |-> "CreateStream", id |-> Dialled])]
  /\ dial' = "welcome"
  /\ acceptor' = "accept"
  /\ UNCHANGED <<state, old_state, pc, streams, results, worker, mail, control, conn>>

\* Three `?` in run_server, each ends the process: no Hello before the end of
\* the stream, no way to write the Welcome, no room in the channel.
AccFail ==
  /\ acceptor = "cookie"
  /\ \/ Gone("Client")
     \/ dial = "hello" /\ (Gone("Server") \/ Len(queue["Server"]) >= ProtBuffer)
  /\ acceptor' = "down"
  /\ Leave("Server", "killed")
  /\ UNCHANGED <<state, old_state, results, mail, control, conn, dial>>

----------------------------------------------------------------------------
(* What a controller does with the messages of its channel.                *)

\* A faulty variant: compared before the stream is counted.
AllConnectedEarly(id) == id + 2 >= Needed(Par)

AllConnected(id) == id + 1 = Needed(Par)

\* accept_stream: register the stream; the last one starts the load.
RecvCreate ==
  /\ pc["Server"] = "recv"
  /\ queue["Server"] # <<>>
  /\ Head(queue["Server"]).kind = "CreateStream"
  /\ LET id == Cardinality(streams["Server"])
         far == Head(queue["Server"]).id
     IN /\ conn' = [conn EXCEPT ![id] = far]
        /\ IF AllConnected(id)
           THEN \/ /\ SetState("Running")
                   /\ Register("Server", id)
                   /\ pc' = [pc EXCEPT !["Server"] = "top"]
                   /\ queue' = [queue EXCEPT !["Server"] = Tail(@)]
                \/ /\ Gone("Client")
                   /\ Leave("Server", "aborted")
                   /\ UNCHANGED <<state, toClient>>
           ELSE /\ Register("Server", id)
                /\ pc' = [pc EXCEPT !["Server"] = "top"]
                /\ queue' = [queue EXCEPT !["Server"] = Tail(@)]
                /\ UNCHANGED <<state, toClient>>
  /\ UNCHANGED <<old_state, results, mail, head, toServer, dial, acceptor>>

\* A faulty variant: the first stream to finish ends the test.
AnyStreamEnds(e, id) == TRUE

NoStreamLeft(e, id) == streams[e] \subseteq {id}

\* StreamTerminated: keep the result; a server left without streams moves on,
\* unless the frame cannot be written, which it ignores.  On the client the
\* select! drops the read of the control socket, and what it had consumed.
RecvTerminated(e) ==
  /\ pc[e] = "recv"
  /\ queue[e] # <<>>
  /\ Head(queue[e]).kind = "StreamTerminated"
  /\ LET id == Head(queue[e]).id
     IN /\ streams' = [streams EXCEPT ![e] = @ \ {id}]
        /\ results' = [results EXCEPT ![e] =
                         IF id \in streams[e] /\ worker[e][id] = "ok" THEN @ \cup {id} ELSE @]
        /\ IF e = "Server" /\ NoStreamLeft(e, id)
           THEN \/ SetState("ExchangeResults")
                \/ Gone("Client") /\ UNCHANGED <<state, toClient>>
           ELSE UNCHANGED <<state, toClient>>
  /\ queue' = [queue EXCEPT ![e] = Tail(@)]
  /\ pc' = [pc EXCEPT ![e] = "top"]
  /\ head' = IF e = "Client" /\ head = "half" THEN "torn" ELSE head
  /\ UNCHANGED <<old_state, worker, mail, toServer, dialling>>

----------------------------------------------------------------------------
(* The control connection.                                                 *)

\* client_read_message has consumed a part of the next frame.
CliReadPart ==
  /\ CanSplit
  /\ pc["Client"] = "recv"
  /\ toClient # <<>>
  /\ head = "intact"
  /\ head' = "half"
  /\ UNCHANGED <<state, old_state, pc, streams, results, queue, worker, mail,
                 toClient, toServer, dialling>>

\* process_server_message takes a SetState and ignores anything else.
CliReadFrame ==
  /\ pc["Client"] = "recv"
  /\ toClient # <<>>
  /\ head # "torn"
  /\ state' = IF Head(toClient) \in States
              THEN [state EXCEPT !["Client"] = Head(toClient)]
              ELSE state
  /\ toClient' = Tail(toClient)
  /\ head' = "intact"
  /\ pc' = [pc EXCEPT !["Client"] = "top"]
  /\ UNCHANGED <<old_state, streams, results, queue, worker, mail, toServer, dialling>>

\* What is left of a torn frame starts with no length the reader accepts.
CliReadsGarbage ==
  /\ pc["Client"] = "recv"
  /\ head = "torn"
  /\ Leave("Client", "aborted")
  /\ UNCHANGED <<state, old_state, results, mail, control, dialling>>

\* The server closed the connection; a killed one may take unread frames along.
CliReadFails ==
  /\ pc["Client"] \in {"recv", "exchange"}
  /\ Gone("Server")
  /\ toClient = <<>> \/ head = "torn" \/ pc["Server"] = "killed"
  /\ Leave("Client", "aborted")
  /\ UNCHANGED <<state, old_state, results, mail, control, dialling>>

\* collect_test_result: a stream that has finished is joined, one that has not
\* is given up after five seconds; HashMap::drain fixes no order.
CollectJoin(e, i) ==
  /\ pc[e] = "collect"
  /\ i \in streams[e]
  /\ worker[e][i] \in Finished
  /\ streams' = [streams EXCEPT ![e] = @ \ {i}]
  /\ results' = [results EXCEPT ![e] = IF worker[e][i] = "ok" THEN @ \cup {i} ELSE @]
  /\ UNCHANGED <<state, old_state, pc, queue, worker, mail, control, dialling>>

CollectTimeout(e, i) ==
  /\ pc[e] = "collect"
  /\ i \in streams[e]
  /\ worker[e][i] \notin Finished
  /\ streams' = [streams EXCEPT ![e] = @ \ {i}]
  /\ UNCHANGED <<state, old_state, pc, results, queue, worker, mail, control, dialling>>

\* exchange_results: the client sends its results first.
CollectDone(e) ==
  /\ pc[e] = "collect"
  /\ streams[e] = {}
  /\ \/ /\ pc' = [pc EXCEPT ![e] = "exchange"]
        /\ toServer' = (toServer \/ e = "Client")
        /\ UNCHANGED <<streams, queue, worker>>
     \/ /\ e = "Client" /\ Gone("Server")
        /\ Leave(e, "aborted")
        /\ UNCHANGED toServer
  /\ UNCHANGED <<state, old_state, results, mail, toClient, head, dialling>>

\* A faulty variant: the server does not wait for the client's results.
NothingAwaited == TRUE

ClientResultsIn == toServer

\* The server reads the client's results, then sends its own and returns.
SrvExchange ==
  /\ pc["Server"] = "exchange"
  /\ ClientResultsIn
  /\ toServer' = FALSE
  /\ \/ SendToClient("SendResults") /\ Leave("Server", "done")
     \/ Gone("Client") /\ Leave("Server", "aborted") /\ UNCHANGED toClient
  /\ UNCHANGED <<state, old_state, results, mail, head, dialling>>

\* A faulty variant: the end of the stream is no reason to give up.
SrvReadsOn == FALSE

\* The client has gone; its results may be lost with it.
SrvReadFails ==
  /\ pc["Server"] = "exchange"
  /\ Gone("Client")
  /\ ~ toServer \/ pc["Client"] = "killed"
  /\ Leave("Server", "aborted")
  /\ UNCHANGED <<state, old_state, results, mail, control, dialling>>

\* The client reads the server's results; any other frame is an error.
CliExchange ==
  /\ pc["Client"] = "exchange"
  /\ toClient # <<>>
  /\ toClient' = Tail(toClient)
  /\ Leave("Client", IF Head(toClient) = "SendResults" THEN "done" ELSE "aborted")
  /\ UNCHANGED <<state, old_state, results, mail, head, toServer, dialling>>

\* The process of e ends while the test is in flight: it is killed or, the
\* server, leaves its loop because accept() reports an error.
Crash(e) ==
  /\ e \in MayCrash
  /\ ~ Gone(e)
  /\ Leave(e, "killed")
  /\ acceptor' = IF e = "Server" THEN "down" ELSE acceptor
  /\ UNCHANGED <<state, old_state, results, mail, control, conn, dial>>

----------------------------------------------------------------------------
(* The task of stream i at end e: run_worker, then the report to the       *)
(* controller, which is dropped when the channel is full or closed.        *)

\* A faulty variant: one place of the channel is never used.
RoomButOne(e) == Len(queue[e]) + 1 < ProtBuffer

Room(e) == Len(queue[e]) < ProtBuffer

Finish(e, i, how) ==
  /\ worker' = [worker EXCEPT ![e][i] = how]
  /\ mail' = [mail EXCEPT ![e][i] = <<>>]
  /\ queue' = IF Gone(e) \/ ~ Room(e)
              THEN queue
              ELSE [queue EXCEPT ![e] = Append(@, [kind |-> "StreamTerminated", id |-> i])]

outside == <<state, old_state, pc, streams, results, control, dialling>>

WorkerStart(e, i) ==
  /\ worker[e][i] = "wait"
  /\ mail[e][i] # <<>> /\ Head(mail[e][i]) = "StartLoad"
  /\ worker' = [worker EXCEPT ![e][i] = "load"]
  /\ mail' = [mail EXCEPT ![e][i] = Tail(@)]
  /\ UNCHANGED <<queue, outside>>

\* The first message is not StartLoad, or the controller dropped the channel.
WorkerBail(e, i) ==
  /\ worker[e][i] = "wait"
  /\ IF mail[e][i] = <<>> THEN i \notin streams[e] ELSE Head(mail[e][i]) # "StartLoad"
  /\ Finish(e, i, "err")
  /\ UNCHANGED outside

\* A faulty variant: the receiver closes its socket at the deadline.
WorkerStopAtOnce(e, i) ==
  /\ worker[e][i] = "load"
  /\ Finish(e, i, "ok")
  /\ UNCHANGED outside

\* The loop ends: the deadline, a Terminate, a dropped channel or, for the
\* receiver, the end of the data.  A receiver then drains its socket.
WorkerStop(e, i) ==
  /\ worker[e][i] = "load"
  /\ IF IsSending(Par, e, i)
     THEN Finish(e, i, "ok")
     ELSE /\ worker' = [worker EXCEPT ![e][i] = "drain"]
          /\ mail' = [mail EXCEPT ![e][i] = <<>>]
          /\ UNCHANGED queue
  /\ UNCHANGED outside

WorkerDrained(e, i) ==
  /\ worker[e][i] = "drain"
  /\ PeerClosed(e, i)
  /\ Finish(e, i, "ok")
  /\ UNCHANGED outside

\* A write to a closed connection, or a read from one that was reset.
WorkerError(e, i) ==
  /\ IF IsSending(Par, e, i)
     THEN worker[e][i] = "load" /\ PeerClosed(e, i)
     ELSE worker[e][i] \in Loading /\ Down(Peer(e))
  /\ Finish(e, i, "err")
  /\ UNCHANGED outside

----------------------------------------------------------------------------
\* Nothing is left to do once both controllers and all the workers are through.
Terminating ==
  /\ \A e \in Ends : Gone(e) /\ \A i \in Ids : worker[e][i] \notin Tasks
  /\ UNCHANGED vars

Control(e) ==
  \/ Wait(e) \/ StartLoad(e) \/ Finalise(e)
  \/ RecvTerminated(e)
  \/ \E i \in Ids : CollectJoin(e, i) \/ CollectTimeout(e, i)
  \/ CollectDone(e)

ServerControl ==
  ServerStart \/ ServerStartFails \/ RecvCreate \/ SrvExchange \/ SrvReadFails

ClientControl ==
  \/ CreateStreams \/ CliConnect \/ CliHello \/ CliWelcome \/ CliDialFails
  \/ CliReadFrame \/ CliReadFails \/ CliExchange

Acceptor == AccAccept \/ AccAdmit \/ AccFail

Work(e, i) ==
  \/ WorkerStart(e, i) \/ WorkerBail(e, i) \/ WorkerStop(e, i)
  \/ WorkerDrained(e, i) \/ WorkerError(e, i)

Next ==
  \/ \E e \in Ends : Control(e) \/ Crash(e) \/ \E i \in Ids : Work(e, i)
  \/ ServerControl \/ ClientControl \/ Acceptor
  \/ CliReadPart \/ CliReadsGarbage
  \/ Terminating

Spec == Init /\ [][Next]_vars

\* The runtime polls every task it has woken, a socket that has something to
\* read reports it, and every timer fires; nobody has to crash.
Fairness ==
  /\ WF_vars(Control("Server") \/ ServerControl)
  /\ WF_vars(Control("Client") \/ ClientControl)
  /\ WF_vars(Acceptor)
  /\ \A e \in Ends, i \in Ids : WF_vars(Work(e, i))

FairSpec == Spec /\ Fairness

----------------------------------------------------------------------------
(* Properties.                                                             *)

\* Nothing on a data connection says which end sends.  Each end works it out
\* from the order in which it registers connections, so every connection must
\* have the same id at both ends and exactly one sender.
StreamsPaired ==
  \A i \in streams["Server"] :
    conn[i] = i /\ (IsSending(Par, "Server", i) # IsSending(Par, "Client", i))

\* stream_worker.rs: "The StartLoad signal comes in after the server receives
\* all the expected data stream connections".  When a stream carries load every
\* connection has its worker on the server, and when a stream of the client
\* does, on the client too.  (The server may start while the client has yet to
\* read the last Welcome.)
UnderLoad(e) == \E i \in Ids : worker[e][i] \in Loading \cup {"ok"}

LoadAfterAllConnected ==
  /\ UnderLoad("Client") \/ UnderLoad("Server") => \A i \in Ids : worker["Server"][i] # "absent"
  /\ UnderLoad("Client") => \A i \in Ids : worker["Client"][i] # "absent"

\* A worker under load is never sent a second StartLoad, although controllers
\* come back to the state Running with every message they handle.
StartLoadOnce ==
  \A e \in Ends, i \in Ids :
    worker[e][i] \in Loading => \A k \in 1 .. Len(mail[e][i]) : mail[e][i][k] # "StartLoad"

\* By the time the server asks for the exchange none of its streams is running
\* and it holds the result of every stream that ended well.
ServerResultsExact ==
  state["Server"] = "ExchangeResults" =>
    /\ \A i \in Ids : worker["Server"][i] \in Finished \cup {"gone"}
    /\ results["Server"] = {i \in Ids : worker["Server"][i] = "ok"}

\* stream_worker.rs: a receiver drains its socket "to avoid failing the sender
\* stream that might still be sending data".  Unless a process dies no worker
\* ends in error, in whatever order the two ends reach their deadlines.
SendersNeverFail ==
  (\A e \in Ends : pc[e] \notin {"killed", "aborted"})
    => \A e \in Ends, i \in Ids : worker[e][i] # "err"

\* The two controllers, the frames between them and all that goes wrong with
\* them amount to the lifecycle of a test.
Over == [e \in Ends |-> CASE pc[e] = "done"                   -> "done"
                          [] pc[e] \in {"aborted", "killed"} -> "failed"
                          [] OTHER                           -> "no"]

Lifecycle == INSTANCE TestLifecycle
               WITH phase <- state["Server"], seen <- state["Client"], over <- Over

ImplementsLifecycle == Lifecycle!LifeSpec

\* Each stream by itself, whatever the controllers, the other streams and the
\* crashes do, keeps what its two ends promise each other: a receiver lets go
\* only after its sender, and neither fails while the other one is there.
SendingEnd(i) == IF IsSending(Par, "Server", i) THEN "Server" ELSE "Client"

Fate(i) == [e \in Ends |-> IF worker[e][i] = "absent" /\ Down(e) THEN "gone" ELSE worker[e][i]]

StreamLife(i) == INSTANCE StreamLifecycle
                   WITH Sender <- SendingEnd(i), Receiver <- Peer(SendingEnd(i)), life <- Fate(i)

\* StreamLife(i)!StreamSpec for every stream i, as TLC reads it.
ImplementsStreams ==
  /\ \A i \in Ids : StreamLife(i)!LifeInit
  /\ [][\A i \in Ids : StreamLife(i)!LifeNext \/ UNCHANGED Fate(i)]_vars

\* Undisturbed, a test that needs no more streams than a controller's channel
\* holds messages ends well at both ends.
TestCompletes == <>(\A e \in Ends : pc[e] = "done")

\* A client never outlives the server's part of the test for good.
ClientEnds == Gone("Server") ~> Gone("Client")

\* A server that has reached the exchange gets out of it, whatever happens to
\* the client, unless that has lost its place in the control connection.
ExchangeEnds ==
  (state["Server"] = "ExchangeResults") ~> (Gone("Server") \/ head = "torn")

\* net_utils.rs: "The next read should find the LENGTH as the first 4 bytes."
FramingInSync == head # "torn"

\* controller.rs: "No more active streams, let's exchange results and finalise
\* test."  A server whose streams have all ended reaches the exchange.
FinalisesWhenIdle ==
  (/\ state["Server"] = "Running"
   /\ \A i \in Ids : worker["Server"][i] \in Finished)
    ~> (state["Server"] = "ExchangeResults" \/ Gone("Server"))

\* controller.rs: create_streams "Establishes N connections to the server
\* according to the exchanged `TestParameters`", and then the load starts.
EstablishesAllStreams ==
  (state["Client"] = "CreateStreams" /\ Requested(Par) > 0)
    ~> (state["Client"] = "Running" \/ Gone("Client"))

============================================================================
