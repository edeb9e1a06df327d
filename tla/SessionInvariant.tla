-------------------------- MODULE SessionInvariant --------------------------
(***************************************************************************)
(* Why connections keep their ids and why load waits for all of them: the  *)
(* inductive invariant behind StreamsPaired and LoadAfterAllConnected.     *)
(* Until the load starts both ends only add streams, in the order of the   *)
(* client's connections, and a connection the client has opened is either  *)
(* welcomed and not yet read, queued for the server's controller, or       *)
(* registered; the frames the client has not read are the states between   *)
(* its own and the server's.                                               *)
(***************************************************************************)
EXTENDS Session

N == Needed(Par)

\* The streams end e has ever registered; Dialled counts the client's.
Made(e) == {i \in Ids : worker[e][i] # "absent"}
Registered == Cardinality(Made("Server"))

Early == {"TestStart", "CreateStreams"}

\* How far along a frame or a state is.
Rank(s) == CASE s = "TestStart"       -> 0
             [] s = "CreateStreams"   -> 1
             [] s = "Running"         -> 2
             [] s = "ExchangeResults" -> 3
             [] OTHER                 -> 4

Welcomed == IF dial = "welcome" THEN 1 ELSE 0

\* Both ends number their streams from 0, and the ids of a connection agree.
Numbered ==
  /\ Dialled \in 0 .. N /\ Made("Client") = 0 .. Dialled - 1
  /\ Registered \in 0 .. N /\ Made("Server") = 0 .. Registered - 1
  /\ \A e \in Ends : streams[e] \subseteq Made(e)
  /\ \A i \in Made("Server") : conn[i] = i
  /\ dial # "idle" => Dialled < N

\* Before its load starts an end has lost no stream and told its workers nothing.
Preparing ==
  \A e \in Ends :
    state[e] \in Early =>
      /\ \A i \in Ids : /\ mail[e][i] = <<>>
                        /\ worker[e][i] \notin Loading \cup {"ok"}
      /\ ~ Gone(e) =>
           /\ streams[e] = Made(e)
           /\ \A i \in Ids : worker[e][i] \in {"absent", "wait"}
           /\ \A k \in 1 .. Len(queue[e]) : queue[e][k].kind = "CreateStream"

\* The client opens connections in CreateStreams only, and leaves that state
\* with all of them open.
ClientOpens ==
  /\ pc["Client"] = "dial" => state["Client"] = "CreateStreams" /\ Dialled < N
  /\ pc["Client"] = "recv" /\ state["Client"] = "CreateStreams" => Dialled = N
  /\ state["Client"] \notin Early => Dialled = N
  /\ queue["Client"] # <<>> => state["Client"] \notin Early
  /\ \A k \in 1 .. Len(queue["Client"]) : queue["Client"][k].kind = "StreamTerminated"

\* The server registers every connection it has welcomed, in order, and leaves
\* CreateStreams with all of them registered.
ServerRegisters ==
  /\ state["Server"] \in Early /\ ~ Gone("Server") =>
       /\ Registered + Len(queue["Server"]) = Dialled + Welcomed
       /\ \A k \in 1 .. Len(queue["Server"]) : queue["Server"][k].id = Registered + k - 1
  /\ state["Server"] \notin Early =>
       /\ Registered = N
       /\ \A k \in 1 .. Len(queue["Server"]) : queue["Server"][k].kind = "StreamTerminated"
  /\ acceptor = "cookie" => state["Server"] = "CreateStreams"

\* The frames on their way take the client through every state of the server.
FramesInOrder ==
  /\ Rank(state["Client"]) <= Rank(state["Server"])
  /\ ~ Gone("Client") =>
       /\ \A k \in 1 .. Len(toClient) : Rank(toClient[k]) = Rank(state["Client"]) + k
       /\ Rank(state["Client"]) + Len(toClient)
            = Rank(state["Server"]) + (IF pc["Server"] = "done" THEN 1 ELSE 0)

\* Where the controllers are suspended in which state.
Whereabouts ==
  /\ pc["Server"] # "dial"
  /\ pc["Server"] = "recv" => state["Server"] # "TestStart"
  /\ \A e \in Ends :
       /\ pc[e] \in {"collect", "exchange", "done"} => state[e] = "ExchangeResults"
       /\ pc[e] \in {"recv", "dial"} => state[e] # "ExchangeResults"
  /\ toServer => state["Client"] = "ExchangeResults"

IndInv ==
  /\ TypeOK
  /\ Numbered
  /\ Preparing
  /\ ClientOpens
  /\ ServerRegisters
  /\ FramesInOrder
  /\ Whereabouts

=============================================================================
