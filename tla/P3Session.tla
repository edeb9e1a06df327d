----------------------------- MODULE P3Session -----------------------------
(***************************************************************************)
(* One run of the p3 server (lib.rs of netperf-p3) and the clients that    *)
(* connect to it.  The server serves one test and exits.  It takes the     *)
(* first connection for the control connection and the next `parallel`     *)
(* ones, whoever made them, for the data connections of that test; a data  *)
(* connection is of the test if its first bytes are the test's cookie.     *)
(*                                                                         *)
(* A client stands for its cookie.  A connection is a pair of its client   *)
(* and its place in the order in which the client made its connections; 0  *)
(* is the control connection.  The bytes of either direction are counted,  *)
(* first those of the cookie (or, on a control connection, of the          *)
(* parameters), then those of the data.                                    *)
(***************************************************************************)
EXTENDS Integers, SequencesExt

CONSTANTS
  Clients,
  Parallel,    \* o.parallel of each client
  Directions,  \* the directions each client may ask for
  MayDie,      \* the clients whose process may be killed
  CookieLen,   \* COOKIE_LEN, 8 in the code
  Capacity,    \* bytes the sockets of a connection hold in one direction
  MaxData      \* bound: data bytes sent on a connection in one direction

ASSUME P3Assumption ==
  /\ Parallel \in [Clients -> Nat]
  /\ Directions \in [Clients -> SUBSET {"forward", "reverse", "bidir"}]
  /\ MayDie \subseteq Clients
  /\ CookieLen \in Nat \ {0} /\ Capacity \in Nat /\ Capacity >= CookieLen
  /\ MaxData \in Nat

Conns == UNION {{<<c, n>> : n \in 0 .. Parallel[c]} : c \in Clients}

\* roles: does the client send, does the server?
ClientSends(d) == d \in {"forward", "bidir"}
ServerSends(d) == d \in {"reverse", "bidir"}

VARIABLES
  dir,       \* the direction each client asks for
  cli,       \* where each client is
  dialled,   \* how many connections it has opened
  remote,    \* the results it got from the server
  srv,       \* where the server is
  owner,     \* the client at the other end of the control connection
  backlog,   \* connections not yet accepted, oldest first
  datas,     \* the data connections, in the order they were accepted
  reply,     \* the results the server sent
  up, upRead, upTx, upRx,          \* client to server: bytes written and read,
  down, downRead, downTx, downRx,  \* server to client: and the two ends
  total      \* what read_data of the server has counted

client == <<dir, cli, dialled, remote>>
server == <<srv, owner, backlog, datas, reply>>
upward == <<up, upRead, upTx, upRx, total>>
downward == <<down, downRead, downTx, downRx>>
vars == <<client, server, upward, downward>>

Nobody == "nobody"
Nothing == <<>>

\* A row of a report: whose connection, which half of it, how many bytes.
Rows == [conn : Conns, sender : BOOLEAN, bytes : 0 .. MaxData]

TypeOK ==
  /\ \A c \in Clients : dir[c] \in Directions[c]
  /\ cli \in [Clients -> {"dial", "stream", "report", "done", "failed", "killed"}]
  /\ dialled \in [Clients -> Nat] /\ \A c \in Clients : dialled[c] <= Parallel[c] + 1
  /\ remote \in [Clients -> Seq(Rows)]
  /\ srv \in {"listen", "params", "accept", "stream", "report", "gone"}
  /\ owner \in Clients \cup {Nobody}
  /\ backlog \in Seq(Conns) /\ datas \in Seq(Conns) /\ reply \in Seq(Rows)
  /\ up \in [Conns -> 0 .. CookieLen + MaxData] /\ down \in [Conns -> 0 .. MaxData]
  /\ upRead \in [Conns -> Nat] /\ downRead \in [Conns -> Nat] /\ total \in [Conns -> Nat]
  /\ \A k \in Conns : upRead[k] <= up[k] /\ downRead[k] <= down[k]
  /\ upTx \in [Conns -> {"new", "send", "write", "hold", "end"}]
  /\ upRx \in [Conns -> {"new", "cookie", "read", "end", "dropped"}]
  /\ downTx \in [Conns -> {"new", "send", "write", "end"}]
  /\ downRx \in [Conns -> {"new", "read", "end"}]

Init ==
  /\ dir \in {d \in [Clients -> {"forward", "reverse", "bidir"}] :
               \A c \in Clients : d[c] \in Directions[c]}
  /\ cli = [c \in Clients |-> "dial"] /\ dialled = [c \in Clients |-> 0]
  /\ remote = [c \in Clients |-> Nothing]
  /\ srv = "listen" /\ owner = Nobody /\ backlog = <<>> /\ datas = <<>>
  /\ reply = Nothing
  /\ up = [k \in Conns |-> 0] /\ upRead = up /\ total = up
  /\ down = up /\ downRead = up
  /\ upTx = [k \in Conns |-> "new"] /\ upRx = upTx /\ downTx = upTx /\ downRx = upTx

Here(c) == cli[c] \in {"dial", "stream", "report"}

----------------------------------------------------------------------------
(* The client: one connection after the other, then all streams at once.   *)

\* The control connection comes first, with the parameters; the sending half
\* of it is closed after them.
Dial(c) ==
  /\ cli[c] = "dial" /\ srv # "gone"
  /\ dialled[c] <= Parallel[c]
  /\ dialled[c] > 0 => up[<<c, 0>>] > 0
  /\ backlog' = Append(backlog, <<c, dialled[c]>>)
  /\ dialled' = [dialled EXCEPT ![c] = @ + 1]
  /\ UNCHANGED <<dir, cli, remote, srv, owner, datas, reply, upward, downward>>

SendParams(c) ==
  /\ cli[c] = "dial" /\ dialled[c] = 1 /\ up[<<c, 0>>] = 0
  /\ up' = [up EXCEPT ![<<c, 0>>] = CookieLen]
  /\ upTx' = [upTx EXCEPT ![<<c, 0>>] = "end"]
  /\ UNCHANGED <<client, server, upRead, upRx, total, downward>>

\* connect fails, and `?` ends the process.
DialFails(c) ==
  /\ cli[c] = "dial" /\ srv = "gone" /\ dialled[c] <= Parallel[c]
  /\ cli' = [cli EXCEPT ![c] = "failed"]
  /\ UNCHANGED <<dir, dialled, remote, server, upward, downward>>

Streams(c) == {<<c, n>> : n \in 1 .. Parallel[c]}

RunStreams(c) ==
  /\ cli[c] = "dial" /\ dialled[c] = Parallel[c] + 1 /\ up[<<c, 0>>] > 0
  /\ cli' = [cli EXCEPT ![c] = "stream"]
  /\ downRx' = [k \in Conns |->
                  IF k \in Streams(c) /\ ServerSends(dir[c]) THEN "read" ELSE downRx[k]]
  /\ UNCHANGED <<dir, dialled, remote, server, upward, down, downRead, downTx>>

\* client_conn: the cookie goes first, whoever sends the data.
CliCookie(k) ==
  /\ cli[k[1]] = "stream" /\ k[2] > 0 /\ upTx[k] = "new"
  /\ up' = [up EXCEPT ![k] = CookieLen]
  /\ upTx' = [upTx EXCEPT ![k] = IF ClientSends(dir[k[1]]) THEN "send" ELSE "hold"]
  /\ UNCHANGED <<client, server, upRead, upRx, total, downward>>

\* write_data looks at the time between two writes only.
CliStops(k) ==
  /\ cli[k[1]] = "stream" /\ upTx[k] = "send"
  /\ upTx' = [upTx EXCEPT ![k] = "end"]
  /\ UNCHANGED <<client, server, up, upRead, upRx, total, downward>>

CliBegins(k) ==
  /\ cli[k[1]] = "stream" /\ upTx[k] = "send" /\ up[k] < CookieLen + MaxData
  /\ upTx' = [upTx EXCEPT ![k] = "write"]
  /\ UNCHANGED <<client, server, up, upRead, upRx, total, downward>>

\* A write waits for room, also when the server has dropped its reader of this
\* connection: it keeps the socket until it exits, and then the write fails.
CliWrites(k) ==
  /\ cli[k[1]] = "stream" /\ upTx[k] = "write"
  /\ \/ /\ up[k] - upRead[k] < Capacity
        /\ up' = [up EXCEPT ![k] = @ + 1]
        /\ upTx' = [upTx EXCEPT ![k] = "send"]
     \/ /\ srv = "gone"
        /\ upTx' = [upTx EXCEPT ![k] = "end"]
        /\ UNCHANGED up
  /\ UNCHANGED <<client, server, upRead, upRx, total, downward>>

CliReads(k) ==
  /\ cli[k[1]] = "stream" /\ downRx[k] = "read"
  /\ \E n \in 1 .. down[k] - downRead[k] : downRead' = [downRead EXCEPT ![k] = @ + n]
  /\ UNCHANGED <<client, server, upward, down, downTx, downRx>>

\* The server has closed its half; a client that only received lets go of its own.
CliReadEnds(k) ==
  /\ cli[k[1]] = "stream" /\ downRx[k] = "read"
  /\ downTx[k] = "end" \/ srv = "gone"
  /\ downRead[k] = down[k]
  /\ downRx' = [downRx EXCEPT ![k] = "end"]
  /\ upTx' = [upTx EXCEPT ![k] = IF ClientSends(dir[k[1]]) THEN @ ELSE "end"]
  /\ UNCHANGED <<client, server, up, upRead, upRx, total, down, downRead, downTx>>

StreamsEnd(c) ==
  /\ cli[c] = "stream"
  /\ \A k \in Streams(c) : upTx[k] = "end" /\ downRx[k] # "read"
  /\ cli' = [cli EXCEPT ![c] = "report"]
  /\ UNCHANGED <<dir, dialled, remote, server, upward, downward>>

\* A faulty variant: the results are asked for once, and not waited for.
ReportAtOnce(c) ==
  /\ cli[c] = "report"
  /\ cli' = [cli EXCEPT ![c] = "done"]
  /\ remote' = [remote EXCEPT ![c] = IF c = owner THEN reply ELSE Nothing]
  /\ UNCHANGED <<dir, dialled, server, upward, downward>>

\* A faulty variant: a client whose test was not served waits on.
ReportServed(c) ==
  /\ cli[c] = "report" /\ srv = "gone" /\ c = owner
  /\ cli' = [cli EXCEPT ![c] = "done"]
  /\ remote' = [remote EXCEPT ![c] = reply]
  /\ UNCHANGED <<dir, dialled, server, upward, downward>>

\* recv_msg(&ctrl).await.unwrap_or_default(): no results if the server is gone.
Report(c) ==
  /\ cli[c] = "report" /\ srv = "gone"
  /\ cli' = [cli EXCEPT ![c] = "done"]
  /\ remote' = [remote EXCEPT ![c] = IF c = owner THEN reply ELSE Nothing]
  /\ UNCHANGED <<dir, dialled, server, upward, downward>>

Dies(c) ==
  /\ c \in MayDie /\ Here(c)
  /\ cli' = [cli EXCEPT ![c] = "killed"]
  /\ UNCHANGED <<dir, dialled, remote, server, upward, downward>>

----------------------------------------------------------------------------
(* The server.                                                             *)

\* `conns.next()` waits for as long as it takes: the stream of connections stays
\* open while the host works (sockets.wit, listen).
AcceptControl ==
  /\ srv = "listen" /\ backlog # <<>>
  /\ owner' = Head(backlog)[1]
  /\ backlog' = Tail(backlog)
  /\ srv' = "params"
  /\ UNCHANGED <<client, datas, reply, upward, downward>>

\* The parameters, or the end of a connection that brought none.
RecvParams ==
  /\ srv = "params"
  /\ \/ /\ up[<<owner, 0>>] > 0
        /\ srv' = "accept"
     \/ ~ Here(owner) /\ srv' = "gone"
  /\ UNCHANGED <<client, owner, backlog, datas, reply, upward, downward>>

Enough == Len(datas) >= Parallel[owner]

\* A faulty variant: the newest connection goes first.
AcceptInFront ==
  /\ srv = "accept" /\ ~ Enough /\ backlog # <<>>
  /\ datas' = <<Head(backlog)>> \o datas
  /\ backlog' = Tail(backlog)
  /\ UNCHANGED <<client, srv, owner, reply, upward, downward>>

AcceptData ==
  /\ srv = "accept" /\ ~ Enough /\ backlog # <<>>
  /\ datas' = Append(datas, Head(backlog))
  /\ backlog' = Tail(backlog)
  /\ UNCHANGED <<client, srv, owner, reply, upward, downward>>

Accepted == {datas[i] : i \in 1 .. Len(datas)}

StartStreams ==
  /\ srv = "accept" /\ Enough
  /\ srv' = "stream"
  /\ upRx' = [k \in Conns |-> IF k \in Accepted THEN "cookie" ELSE upRx[k]]
  /\ UNCHANGED <<client, owner, backlog, datas, reply, up, upRead, upTx, total, downward>>

\* A faulty variant: any eight bytes will do.
AnyCookie(k) == TRUE

CookieMatches(k) == k[1] = owner /\ k[2] > 0

\* A faulty variant: what came with the cookie is forgotten.
NoLeftover(n) == 0

\* A faulty variant: the cookie is taken off twice.
CookieTwice(n) == n - 2 * CookieLen

Leftover(n) == n - CookieLen

\* server_conn collects the cookie; what came with it is data.
SrvCookie(k) ==
  /\ srv = "stream" /\ upRx[k] = "cookie"
  /\ \E n \in 1 .. up[k] - upRead[k] :
       LET read == upRead[k] + n
       IN /\ upRead' = [upRead EXCEPT ![k] = read]
          /\ IF read < CookieLen
             THEN UNCHANGED <<upRx, total, downTx>>
             ELSE IF CookieMatches(k)
             THEN /\ upRx' = [upRx EXCEPT ![k] = IF ClientSends(dir[owner]) THEN "read" ELSE "end"]
                  /\ downTx' = [downTx EXCEPT ![k] = IF ServerSends(dir[owner]) THEN "send" ELSE "end"]
                  /\ total' = [total EXCEPT ![k] = Leftover(read)]
             ELSE /\ upRx' = [upRx EXCEPT ![k] = "dropped"]
                  /\ UNCHANGED <<total, downTx>>
  /\ UNCHANGED <<client, server, up, upTx, down, downRead, downRx>>

\* A faulty variant: the end is taken for a pause.
Endless(k) == FALSE

\* A faulty variant: a pause is taken for the end.
PauseEnds(k) == ~ Here(k[1]) \/ upRead[k] = up[k]

\* A reader finds the end of the stream after all that was written; what a
\* killed client wrote may be lost.
UpEnds(k) == ~ Here(k[1]) \/ (upTx[k] = "end" /\ upRead[k] = up[k])

SrvCookieEnds(k) ==
  /\ srv = "stream" /\ upRx[k] = "cookie" /\ UpEnds(k)
  /\ upRx' = [upRx EXCEPT ![k] = "dropped"]
  /\ UNCHANGED <<client, server, up, upRead, upTx, total, downward>>

SrvReads(k) ==
  /\ srv = "stream" /\ upRx[k] = "read"
  /\ \E n \in 1 .. up[k] - upRead[k] :
       /\ upRead' = [upRead EXCEPT ![k] = @ + n]
       /\ total' = [total EXCEPT ![k] = @ + n]
  /\ UNCHANGED <<client, server, up, upTx, upRx, downward>>

SrvReadEnds(k) ==
  /\ srv = "stream" /\ upRx[k] = "read" /\ UpEnds(k)
  /\ upRx' = [upRx EXCEPT ![k] = "end"]
  /\ UNCHANGED <<client, server, up, upRead, upTx, total, downward>>

SrvStops(k) ==
  /\ srv = "stream" /\ downTx[k] = "send"
  /\ downTx' = [downTx EXCEPT ![k] = "end"]
  /\ UNCHANGED <<client, server, upward, down, downRead, downRx>>

SrvBegins(k) ==
  /\ srv = "stream" /\ downTx[k] = "send" /\ down[k] < MaxData
  /\ downTx' = [downTx EXCEPT ![k] = "write"]
  /\ UNCHANGED <<client, server, upward, down, downRead, downRx>>

SrvWrites(k) ==
  /\ srv = "stream" /\ downTx[k] = "write"
  /\ \/ /\ down[k] - downRead[k] < Capacity
        /\ down' = [down EXCEPT ![k] = @ + 1]
        /\ downTx' = [downTx EXCEPT ![k] = "send"]
     \/ /\ ~ Here(k[1])
        /\ downTx' = [downTx EXCEPT ![k] = "end"]
        /\ UNCHANGED down
  /\ UNCHANGED <<client, server, upward, downRead, downRx>>

Row(k, sender, n) == [conn |-> k, sender |-> sender, bytes |-> n]

\* What server_conn and client_conn return, in this order; to_results gives the
\* rows of all connections, one after the other, their numbers.
ServerRows(k) ==
  IF upRx[k] = "dropped" THEN <<>>
  ELSE (IF ServerSends(dir[owner]) THEN <<Row(k, TRUE, down[k])>> ELSE <<>>)
       \o (IF ClientSends(dir[owner]) THEN <<Row(k, FALSE, total[k])>> ELSE <<>>)

ClientRows(k) ==
  (IF ClientSends(dir[k[1]]) THEN <<Row(k, TRUE, up[k] - CookieLen)>> ELSE <<>>)
  \o (IF ServerSends(dir[k[1]]) THEN <<Row(k, FALSE, downRead[k])>> ELSE <<>>)

LocalRows(c) == FlattenSeq([n \in 1 .. Parallel[c] |-> ClientRows(<<c, n>>)])

\* join_all: every connection has come to its end.
SrvStreamsEnd ==
  /\ srv = "stream"
  /\ \A k \in Accepted :
       upRx[k] = "dropped" \/ (upRx[k] = "end" /\ downTx[k] = "end")
  /\ srv' = "report"
  /\ UNCHANGED <<client, owner, backlog, datas, reply, upward, downward>>

\* The results go out, whether anyone reads them or not, and the server exits.
SendResults ==
  /\ srv = "report"
  /\ reply' = FlattenSeq([i \in 1 .. Len(datas) |-> ServerRows(datas[i])])
  /\ srv' = "gone"
  /\ UNCHANGED <<client, owner, backlog, datas, upward, downward>>

\* Nothing is left to do; or the server waits for connections of a client that
\* died, and those it would serve next wait for the server.
Ended ==
  /\ \/ srv = "gone" /\ \A c \in Clients : ~ Here(c)
     \/ srv \in {"listen", "accept"} /\ backlog = <<>> /\ \A c \in Clients : cli[c] # "dial"
  /\ UNCHANGED vars

----------------------------------------------------------------------------

ClientStep(c) ==
  Dial(c) \/ SendParams(c) \/ DialFails(c) \/ RunStreams(c) \/ StreamsEnd(c) \/ Report(c)

\* The two futures of a connection, at either end.
Sending(k) == CliCookie(k) \/ CliStops(k) \/ CliBegins(k) \/ CliWrites(k)
Receiving(k) == CliReads(k) \/ CliReadEnds(k)
ServerReceiving(k) == SrvCookie(k) \/ SrvCookieEnds(k) \/ SrvReads(k) \/ SrvReadEnds(k)
ServerSending(k) == SrvStops(k) \/ SrvBegins(k) \/ SrvWrites(k)

ServerStep ==
  AcceptControl \/ RecvParams \/ AcceptData \/ StartStreams \/ SrvStreamsEnd \/ SendResults

Next ==
  \/ \E c \in Clients : ClientStep(c) \/ Dies(c)
  \/ \E k \in Conns : Sending(k) \/ Receiving(k) \/ ServerReceiving(k) \/ ServerSending(k)
  \/ ServerStep
  \/ Ended

Spec == Init /\ [][Next]_vars

\* Every future that was woken is polled, and a writer's time runs out.
Fairness ==
  /\ \A c \in Clients : WF_vars(ClientStep(c))
  /\ \A k \in Conns :
       /\ WF_vars(Sending(k)) /\ WF_vars(Receiving(k))
       /\ WF_vars(ServerReceiving(k)) /\ WF_vars(ServerSending(k))
  /\ WF_vars(ServerStep)

FairSpec == Spec /\ Fairness

----------------------------------------------------------------------------
(* Properties.                                                             *)

Lived == \A c \in Clients : cli[c] # "killed"

\* lib.rs: "each data connection must present it before transfer".  Neither
\* direction of a connection carries data of the test unless the client of the
\* test made it for data, and all of the cookie has come.
OnlyOwnData ==
  \A k \in Conns :
    total[k] > 0 \/ down[k] > 0 => k \in Streams(owner) /\ upRead[k] >= CookieLen

\* However the cookie and the data after it were cut up, the receiver of a
\* stream has counted what the sender sent, no byte of the cookie among it.
CountsAgree ==
  \A k \in Conns :
    /\ upRx[k] = "end" /\ Lived => total[k] = up[k] - CookieLen
    /\ downRx[k] = "end" => downRead[k] = down[k]

\* print_summary pairs rows of both ends by their number, which are not sent.  A
\* connection of another client among those the server accepted takes the place
\* of one of the test; since it gets no row, those that are left keep the numbers
\* they have at the client, and only the last are missing.
RowsPair ==
  owner # Nobody /\ cli[owner] = "done" =>
    LET local == LocalRows(owner)
    IN \A i \in 1 .. Len(reply) :
         /\ reply[i].conn = local[i].conn
         /\ dir[owner] # "bidir" => reply[i].sender = ~ local[i].sender
                                    /\ (Lived => reply[i].bytes = local[i].bytes)

\* A client whose test the server served, which nothing kills, prints the
\* server's results and never the empty default instead: there is a row for each
\* of its connections that the server took for one of the test.
ResultsArrive ==
  \A c \in Clients : cli[c] = "done" /\ c = owner =>
    \A k \in Accepted \cap Streams(c) :
      \E i \in 1 .. Len(remote[c]) : remote[c][i].conn = k

\* What the two ends of a stream are to ByteStream.  A killed client is lost to
\* the server; a server that is gone has closed everything.
SenderIs == [new |-> "wait", send |-> "open", write |-> "open", hold |-> "open", end |-> "closed"]
ReceiverIs ==
  [new |-> "wait", cookie |-> "wait", read |-> "open", end |-> "ended", dropped |-> "away"]

UpData(k) == IF up[k] > CookieLen THEN up[k] - CookieLen ELSE 0
UpFrom(k) == IF cli[k[1]] = "killed" THEN "lost" ELSE SenderIs[upTx[k]]
UpTo(k) == ReceiverIs[upRx[k]]
DownFrom(k) == IF srv = "gone" THEN "closed" ELSE SenderIs[downTx[k]]
DownTo(k) == IF cli[k[1]] = "killed" THEN "away" ELSE ReceiverIs[downRx[k]]

Upward(k) == INSTANCE ByteStream
  WITH sent <- UpData(k), counted <- total[k], from <- UpFrom(k), to <- UpTo(k)
Downward(k) == INSTANCE ByteStream
  WITH sent <- down[k], counted <- downRead[k], from <- DownFrom(k), to <- DownTo(k)

\* StreamSpec for each direction in which data is sent, as TLC reads it: the two
\* ends of each stream keep the promises of ByteStream about its data, the cookie
\* left out, whatever the other connections, other clients and crashes do.
ImplementsByteStreams ==
  /\ \A c \in Clients : \A k \in Streams(c) : Upward(k)!StreamInit /\ Downward(k)!StreamInit
  /\ [][\A c \in Clients : \A k \in Streams(c) :
          /\ ClientSends(dir[c]) => [Upward(k)!StreamNext]_(Upward(k)!streamVars)
          /\ ServerSends(dir[c]) => [Downward(k)!StreamNext]_(Downward(k)!streamVars)]_vars

\* A test that has all its connections comes to an end even if clients die; and
\* it gets them, if none does.
ServerEnds ==
  /\ srv = "stream" ~> srv = "gone"
  /\ <>(srv = "gone" \/ ~ Lived)

\* Nobody is left waiting for a server that is gone, the clients whose test it
\* did not serve included.
ClientsEnd == srv = "gone" ~> \A c \in Clients : ~ Here(c)

============================================================================
