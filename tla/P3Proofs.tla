------------------------------ MODULE P3Proofs ------------------------------
(***************************************************************************)
(* The p3 build with any number of clients and connections, however the    *)
(* bytes are cut up and whichever clients die.  P3Inv is about one         *)
(* connection at a time: only data of the test is counted or sent, and the *)
(* two ends of a stream count the same.  RowsInv is about the order of     *)
(* connections and what becomes of each: which rows the server has, and    *)
(* that they pair with the client's.  From both follows that each stream   *)
(* is a ByteStream.                                                        *)
(*                                                                         *)
(* What FlattenSeq and MapThenSumSet return is shown without an induction  *)
(* rule that takes a predicate: a set that holds 0 and with every number   *)
(* the next is all of Nat, since < is well-founded (SetInduction); and a   *)
(* set of subsets likewise (FiniteInduction).                              *)
(***************************************************************************)
EXTENDS P3Report, SequenceTheorems, FiniteSetTheorems, WellFoundedInduction, TLAPS

Types ==
  /\ \A c \in Clients : dir[c] \in {"forward", "reverse", "bidir"}
  /\ cli \in [Clients -> {"dial", "stream", "report", "done", "failed", "killed"}]
  /\ srv \in {"listen", "params", "accept", "stream", "report", "gone"}
  /\ up \in [Conns -> Nat] /\ upRead \in [Conns -> Nat] /\ total \in [Conns -> Nat]
  /\ down \in [Conns -> Nat] /\ downRead \in [Conns -> Nat]
  /\ upTx \in [Conns -> {"new", "send", "write", "hold", "end"}]
  /\ upRx \in [Conns -> {"new", "cookie", "read", "end", "dropped"}]
  /\ downTx \in [Conns -> {"new", "send", "write", "end"}]
  /\ downRx \in [Conns -> {"new", "read", "end"}]

\* Clients leave on their own account only after the server.
Left == \A c \in Clients : cli[c] \in {"done", "failed"} => srv = "gone"

\* Nothing is read or sent before the server has its connections; and then only
\* on a connection whose cookie was the right one.
Authentic(k) ==
  /\ srv \in {"listen", "params", "accept"} => upRead[k] = 0 /\ upRx[k] = "new"
  /\ upRx[k] \in {"read", "end"} => /\ CookieMatches(k) /\ upRead[k] >= CookieLen
                                    /\ total[k] = upRead[k] - CookieLen
  /\ upRx[k] \in {"new", "cookie", "dropped"} => total[k] = 0 /\ downTx[k] = "new"
  /\ downTx[k] = "new" => down[k] = 0

Alive(k) == cli[k[1]] # "killed"

\* What is read was written; and once an end has been read, nothing is written.
Balanced(k) ==
  /\ upRead[k] <= up[k] /\ downRead[k] <= down[k]
  /\ upTx[k] = "new" /\ k[2] > 0 => up[k] = 0
  /\ k[2] > 0 /\ ~ ClientSends(dir[k[1]]) =>
       upTx[k] \notin {"send", "write"} /\ up[k] <= CookieLen
  /\ Alive(k) /\ upRx[k] = "end" /\ ClientSends(dir[k[1]]) =>
       upTx[k] = "end" /\ upRead[k] = up[k]
  /\ downRx[k] = "end" => downRead[k] = down[k] /\ (downTx[k] = "end" \/ srv = "gone")

P3Inv == Types /\ Left /\ \A k \in Conns : Authentic(k) /\ Balanced(k)

----------------------------------------------------------------------------
(* Connections.                                                            *)

LEMMA ConnFacts ==
  ASSUME NEW k \in Conns
  PROVE  k[1] \in Clients /\ k[2] \in Nat /\ k = <<k[1], k[2]>> /\ k[2] <= Parallel[k[1]]
BY P3Assumption, SMT DEF Conns, P3Assumption

LEMMA ControlConn ==
  ASSUME NEW c \in Clients
  PROVE  <<c, 0>> \in Conns
BY P3Assumption, SMT DEF Conns, P3Assumption

LEMMA OwnConn ==
  ASSUME NEW k \in Conns, CookieMatches(k)
  PROVE  k \in Streams(owner)
BY ConnFacts, P3Assumption, SMT DEF CookieMatches, Streams, P3Assumption

\* An invariant of a connection is kept by what leaves the connection alone.
LEMMA Untouched ==
  ASSUME NEW k \in Conns, Authentic(k), Balanced(k),
         up'[k] = up[k], upRead'[k] = upRead[k], total'[k] = total[k],
         down'[k] = down[k], downRead'[k] = downRead[k],
         upTx'[k] = upTx[k], upRx'[k] = upRx[k],
         downTx'[k] = downTx[k], downRx'[k] = downRx[k],
         dir' = dir, owner' = owner \/ upRx[k] = "new",
         \A c \in Clients : cli[c] = "killed" => cli'[c] = "killed",
         srv' \in {"listen", "params", "accept"} => srv \in {"listen", "params", "accept"},
         srv = "gone" => srv' = "gone"
  PROVE  Authentic(k)' /\ Balanced(k)'
<1>1. Authentic(k)'
  BY Zenon DEF Authentic, CookieMatches
<1>2. Balanced(k)'
  BY ConnFacts, Zenon DEF Balanced, Alive
<1> QED
  BY <1>1, <1>2

\* A client moves on, and no connection with it.
LEMMA ClientMoves ==
  ASSUME P3Inv, NEW c \in Clients, NEW s \in {"stream", "report", "done", "failed", "killed"},
         cli[c] # "killed",
         cli' = [cli EXCEPT ![c] = s],
         s \in {"done", "failed"} => srv = "gone",
         UNCHANGED <<dir, srv, owner, upward, downward>>
  PROVE  P3Inv'
<1> USE DEF upward, downward
<1>1. cli \in [Clients -> {"dial", "stream", "report", "done", "failed", "killed"}]
  BY DEF P3Inv, Types
<1>2. cli' \in [Clients -> {"dial", "stream", "report", "done", "failed", "killed"}]
  BY <1>1, SMT
<1>3. Types'
  BY <1>2, Zenon DEF P3Inv, Types
<1>4. Left'
  BY <1>1, SMT DEF P3Inv, Left
<1>5. \A e \in Clients : cli[e] = "killed" => cli'[e] = "killed"
  BY <1>1, SMT
<1>6. ASSUME NEW k \in Conns PROVE Authentic(k)' /\ Balanced(k)'
  BY <1>5, Untouched, Zenon DEF P3Inv
<1> QED
  BY <1>3, <1>4, <1>6 DEF P3Inv

\* The server moves on, and no connection with it.
LEMMA ServerMoves ==
  ASSUME P3Inv,
         srv' \in {"listen", "params", "accept", "stream", "report", "gone"},
         srv # "gone" \/ srv' = "gone",
         srv' \in {"listen", "params", "accept"} => srv \in {"listen", "params", "accept"},
         owner' = owner \/ srv = "listen",
         UNCHANGED <<dir, cli, upward, downward>>
  PROVE  P3Inv'
<1> USE DEF upward, downward
<1>1. Types'
  BY Zenon DEF P3Inv, Types
<1>2. Left'
  BY Zenon DEF P3Inv, Left
<1>3. \A e \in Clients : cli[e] = "killed" => cli'[e] = "killed"
  BY Zenon
<1>4. ASSUME NEW k \in Conns PROVE Authentic(k)' /\ Balanced(k)'
  <2>1. Authentic(k) /\ Balanced(k)
    BY DEF P3Inv
  <2>2. owner' = owner \/ upRx[k] = "new"
    BY <2>1, Zenon DEF Authentic
  <2> QED
    BY <1>3, <2>1, <2>2, Untouched, Zenon
<1> QED
  BY <1>1, <1>2, <1>4 DEF P3Inv

\* One connection moves on, and no other.
LEMMA OneMoves ==
  ASSUME P3Inv, NEW k \in Conns, Types', Authentic(k)', Balanced(k)',
         \A j \in Conns \ {k} :
           /\ up'[j] = up[j] /\ upRead'[j] = upRead[j] /\ total'[j] = total[j]
           /\ down'[j] = down[j] /\ downRead'[j] = downRead[j]
           /\ upTx'[j] = upTx[j] /\ upRx'[j] = upRx[j]
           /\ downTx'[j] = downTx[j] /\ downRx'[j] = downRx[j],
         UNCHANGED <<dir, cli, srv, owner>>
  PROVE  P3Inv'
<1>1. Left'
  BY Zenon DEF P3Inv, Left
<1>2. \A e \in Clients : cli[e] = "killed" => cli'[e] = "killed"
  BY Zenon
<1>3. ASSUME NEW j \in Conns, j # k PROVE Authentic(j)' /\ Balanced(j)'
  <2>1. Authentic(j) /\ Balanced(j)
    BY DEF P3Inv
  <2> QED
    BY <1>2, <1>3, <2>1, Untouched
<1> QED
  BY <1>1, <1>3 DEF P3Inv

----------------------------------------------------------------------------
(* The client's half of a connection.                                      *)

\* What the invariant says of the values of one connection.
LEMMA Values ==
  ASSUME P3Inv, NEW k \in Conns
  PROVE  /\ up[k] \in Nat /\ upRead[k] \in Nat /\ total[k] \in Nat
         /\ down[k] \in Nat /\ downRead[k] \in Nat
         /\ Authentic(k) /\ Balanced(k)
         /\ CookieLen \in Nat \ {0}
         /\ k[2] \in Nat
BY ConnFacts, P3Assumption, Zenon DEF P3Inv, Types, P3Assumption

LEMMA SendParamsInv ==
  ASSUME P3Inv, NEW c \in Clients, SendParams(c)
  PROVE  P3Inv'
<1> DEFINE k == <<c, 0>>
<1>1. k \in Conns /\ k[2] = 0
  BY ControlConn
<1> HIDE DEF k
<1>2. /\ up' = [up EXCEPT ![k] = CookieLen] /\ up[k] = 0
      /\ upTx' = [upTx EXCEPT ![k] = "end"]
      /\ UNCHANGED <<dir, cli, srv, owner, upRead, upRx, total, downward>>
  BY Zenon DEF SendParams, client, server, k
<1>3. Types'
  BY <1>1, <1>2, P3Assumption, SMT DEF P3Inv, Types, downward, P3Assumption
<1>4. up'[k] = CookieLen /\ upTx'[k] = "end"
  BY <1>1, <1>2, SMT DEF P3Inv, Types
<1>5. Authentic(k)'
  BY <1>1, <1>2, Values, Zenon DEF Authentic, CookieMatches, downward
<1>6. Balanced(k)'
  BY <1>1, <1>2, <1>4, Values, SMT DEF Authentic, Balanced, CookieMatches, Alive, downward
<1> QED
  BY <1>1, <1>2, <1>3, <1>5, <1>6, OneMoves, SMT DEF P3Inv, Types, downward

LEMMA RunStreamsInv ==
  ASSUME P3Inv, NEW c \in Clients, RunStreams(c)
  PROVE  P3Inv'
<1>1. /\ cli' = [cli EXCEPT ![c] = "stream"] /\ cli[c] = "dial"
      /\ downRx' = [k \in Conns |->
                      IF k \in Streams(c) /\ ServerSends(dir[c]) THEN "read" ELSE downRx[k]]
      /\ UNCHANGED <<dir, srv, owner, upward, down, downRead, downTx>>
  BY DEF RunStreams, server
<1>2. Types'
  <2>1. downRx' \in [Conns -> {"new", "read", "end"}]
    BY <1>1, SMT DEF P3Inv, Types
  <2>2. cli' \in [Clients -> {"dial", "stream", "report", "done", "failed", "killed"}]
    BY <1>1, SMT DEF P3Inv, Types
  <2> QED
    BY <1>1, <2>1, <2>2, Zenon DEF P3Inv, Types, upward
<1>3. Left'
  BY <1>1, SMT DEF P3Inv, Types, Left
<1>4. \A e \in Clients : cli[e] = "killed" => cli'[e] = "killed"
  BY <1>1, SMT DEF P3Inv, Types
<1>5. ASSUME NEW k \in Conns PROVE Authentic(k)' /\ Balanced(k)'
  <2>1. Authentic(k)'
    BY <1>1, Values, Zenon DEF Authentic, CookieMatches, upward
  <2>2. downRx'[k] = "end" => downRx[k] = "end"
    BY <1>1, SMT
  <2>3. Balanced(k)'
    BY <1>1, <1>4, <2>2, ConnFacts, Values, Zenon DEF Balanced, Alive, upward
  <2> QED
    BY <2>1, <2>3
<1> QED
  BY <1>2, <1>3, <1>5 DEF P3Inv

LEMMA CliCookieInv ==
  ASSUME P3Inv, NEW k \in Conns, CliCookie(k)
  PROVE  P3Inv'
<1> USE DEF client, server, upward, downward
<1>1. /\ up' = [up EXCEPT ![k] = CookieLen]
      /\ upTx' = [upTx EXCEPT ![k] = IF ClientSends(dir[k[1]]) THEN "send" ELSE "hold"]
      /\ UNCHANGED <<dir, cli, srv, owner, upRead, total, down, downRead, upRx, downTx, downRx>>
      /\ k[2] > 0 /\ upTx[k] = "new"
  BY Zenon DEF CliCookie
<1>2. /\ up'[k] = CookieLen
      /\ upTx'[k] = IF ClientSends(dir[k[1]]) THEN "send" ELSE "hold"
  BY <1>1, SMT DEF P3Inv, Types
<1>3. Types'
  BY <1>1, P3Assumption, SMT DEF P3Inv, Types, P3Assumption
<1>4. Authentic(k)'
  BY <1>1, <1>2, Values, SMT DEF Authentic, CookieMatches
<1>5. Balanced(k)'
  BY <1>1, <1>2, Values, SMT DEF Authentic, Balanced, CookieMatches, Alive
<1> QED
  BY <1>1, <1>3, <1>4, <1>5, OneMoves, SMT DEF P3Inv, Types

LEMMA CliStopsInv ==
  ASSUME P3Inv, NEW k \in Conns, CliStops(k)
  PROVE  P3Inv'
<1> USE DEF client, server, upward, downward
<1>1. /\ upTx' = [upTx EXCEPT ![k] = "end"]
      /\ UNCHANGED <<dir, cli, srv, owner, up, upRead, total, down, downRead, upRx, downTx, downRx>>
      /\ upTx[k] = "send"
  BY Zenon DEF CliStops
<1>2. /\ upTx'[k] = "end"
  BY <1>1, SMT DEF P3Inv, Types
<1>3. Types'
  BY <1>1, P3Assumption, SMT DEF P3Inv, Types, P3Assumption
<1>4. Authentic(k)'
  BY <1>1, <1>2, Values, SMT DEF Authentic, CookieMatches
<1>5. Balanced(k)'
  BY <1>1, <1>2, Values, SMT DEF Authentic, Balanced, CookieMatches, Alive
<1> QED
  BY <1>1, <1>3, <1>4, <1>5, OneMoves, SMT DEF P3Inv, Types

LEMMA CliBeginsInv ==
  ASSUME P3Inv, NEW k \in Conns, CliBegins(k)
  PROVE  P3Inv'
<1> USE DEF client, server, upward, downward
<1>1. /\ upTx' = [upTx EXCEPT ![k] = "write"]
      /\ UNCHANGED <<dir, cli, srv, owner, up, upRead, total, down, downRead, upRx, downTx, downRx>>
      /\ upTx[k] = "send"
  BY Zenon DEF CliBegins
<1>2. /\ upTx'[k] = "write"
  BY <1>1, SMT DEF P3Inv, Types
<1>3. Types'
  BY <1>1, P3Assumption, SMT DEF P3Inv, Types, P3Assumption
<1>4. Authentic(k)'
  BY <1>1, <1>2, Values, SMT DEF Authentic, CookieMatches
<1>5. Balanced(k)'
  BY <1>1, <1>2, Values, SMT DEF Authentic, Balanced, CookieMatches, Alive
<1> QED
  BY <1>1, <1>3, <1>4, <1>5, OneMoves, SMT DEF P3Inv, Types

LEMMA CliWritesInv ==
  ASSUME P3Inv, NEW k \in Conns, CliWrites(k)
  PROVE  P3Inv'
<1> USE DEF client, server, upward, downward
<1>0. upTx[k] = "write"
  BY DEF CliWrites
<1>1. CASE up' = [up EXCEPT ![k] = @ + 1]
         /\ upTx' = [upTx EXCEPT ![k] = "send"]
  <2>1. /\ up' = [up EXCEPT ![k] = @ + 1]
        /\ upTx' = [upTx EXCEPT ![k] = "send"]
        /\ UNCHANGED <<dir, cli, srv, owner, upRead, total, down, downRead, upRx, downTx, downRx>>
        /\ upTx[k] = "write"
    BY <1>0, <1>1, Zenon DEF CliWrites
  <2>2. /\ up'[k] = up[k] + 1
        /\ upTx'[k] = "send"
    BY <2>1, SMT DEF P3Inv, Types
  <2>3. Types'
    BY <1>0, <2>1, P3Assumption, SMT DEF P3Inv, Types, P3Assumption
  <2>4. Authentic(k)'
    BY <1>0, <2>1, <2>2, Values, SMT DEF Authentic, CookieMatches
  <2>5. Balanced(k)'
    BY <1>0, <2>1, <2>2, Values, SMT DEF Authentic, Balanced, CookieMatches, Alive
  <2> QED
    BY <2>1, <2>3, <2>4, <2>5, OneMoves, SMT DEF P3Inv, Types
<1>2. CASE upTx' = [upTx EXCEPT ![k] = "end"] /\ UNCHANGED up
  <2>1. /\ upTx' = [upTx EXCEPT ![k] = "end"]
        /\ UNCHANGED <<dir, cli, srv, owner, up, upRead, total, down, downRead, upRx, downTx, downRx>>
        /\ upTx[k] = "write"
    BY <1>0, <1>2, Zenon DEF CliWrites
  <2>2. /\ upTx'[k] = "end"
    BY <2>1, SMT DEF P3Inv, Types
  <2>3. Types'
    BY <1>0, <2>1, P3Assumption, SMT DEF P3Inv, Types, P3Assumption
  <2>4. Authentic(k)'
    BY <1>0, <2>1, <2>2, Values, SMT DEF Authentic, CookieMatches
  <2>5. Balanced(k)'
    BY <1>0, <2>1, <2>2, Values, SMT DEF Authentic, Balanced, CookieMatches, Alive
  <2> QED
    BY <2>1, <2>3, <2>4, <2>5, OneMoves, SMT DEF P3Inv, Types
<1> QED
  BY <1>1, <1>2, Zenon DEF CliWrites

LEMMA CliReadsInv ==
  ASSUME P3Inv, NEW k \in Conns, CliReads(k)
  PROVE  P3Inv'
<1> USE DEF client, server, upward, downward
<1>0. PICK n \in 1 .. down[k] - downRead[k] :
        /\ downRead' = [downRead EXCEPT ![k] = @ + n]
  BY DEF CliReads
<1>1. /\ UNCHANGED <<dir, cli, srv, owner, up, upRead, total, down, upTx, upRx, downTx, downRx>>
      /\ downRx[k] = "read"
  BY Zenon DEF CliReads
<1>2. /\ n \in Nat /\ downRead[k] + n <= down[k]
      /\ downRead'[k] = downRead[k] + n
  BY <1>0, <1>1, Values, SMT DEF P3Inv, Types
<1>3. Types'
  BY <1>0, <1>1, <1>2, SMT DEF P3Inv, Types
<1>4. Authentic(k)'
  BY <1>1, <1>2, Values, SMT DEF Authentic, CookieMatches
<1>5. Balanced(k)'
  BY <1>1, <1>2, Values, SMT DEF Authentic, Balanced, CookieMatches, Alive
<1> QED
  BY <1>0, <1>1, <1>3, <1>4, <1>5, OneMoves, SMT DEF P3Inv, Types

LEMMA CliReadEndsInv ==
  ASSUME P3Inv, NEW k \in Conns, CliReadEnds(k)
  PROVE  P3Inv'
<1> USE DEF client, server, upward, downward
<1>1. /\ downRx' = [downRx EXCEPT ![k] = "end"]
      /\ upTx' = [upTx EXCEPT ![k] = IF ClientSends(dir[k[1]]) THEN @ ELSE "end"]
      /\ UNCHANGED <<dir, cli, srv, owner, up, upRead, total, down, downRead, upRx, downTx>>
      /\ downRead[k] = down[k]
      /\ downTx[k] = "end" \/ srv = "gone"
  BY Zenon DEF CliReadEnds
<1>2. /\ downRx'[k] = "end"
      /\ upTx'[k] = IF ClientSends(dir[k[1]]) THEN upTx[k] ELSE "end"
  BY <1>1, SMT DEF P3Inv, Types
<1>3. Types'
  BY <1>1, P3Assumption, SMT DEF P3Inv, Types, P3Assumption
<1>4. Authentic(k)'
  BY <1>1, <1>2, Values, SMT DEF Authentic, CookieMatches
<1>5. Balanced(k)'
  BY <1>1, <1>2, Values, SMT DEF Authentic, Balanced, CookieMatches, Alive
<1> QED
  BY <1>1, <1>3, <1>4, <1>5, OneMoves, SMT DEF P3Inv, Types

----------------------------------------------------------------------------
(* The server's half.                                                      *)

LEMMA SrvCookieInv ==
  ASSUME P3Inv, NEW k \in Conns, SrvCookie(k)
  PROVE  P3Inv'
<1> USE DEF client, server, upward, downward
<1> DEFINE Step(n) ==
      LET read == upRead[k] + n
      IN /\ upRead' = [upRead EXCEPT ![k] = read]
         /\ IF read < CookieLen
            THEN UNCHANGED <<upRx, total, downTx>>
            ELSE IF CookieMatches(k)
            THEN /\ upRx' = [upRx EXCEPT ![k] = IF ClientSends(dir[owner]) THEN "read" ELSE "end"]
                 /\ downTx' = [downTx EXCEPT ![k] = IF ServerSends(dir[owner]) THEN "send" ELSE "end"]
                 /\ total' = [total EXCEPT ![k] = Leftover(read)]
            ELSE /\ upRx' = [upRx EXCEPT ![k] = "dropped"]
                 /\ UNCHANGED <<total, downTx>>
<1>0. PICK n \in 1 .. up[k] - upRead[k] : Step(n)
  BY Zenon DEF SrvCookie
<1>1. /\ upRead' = [upRead EXCEPT ![k] = upRead[k] + n]
      /\ upRx[k] = "cookie" /\ srv = "stream"
      /\ UNCHANGED <<dir, cli, srv, owner, up, upTx, down, downRead, downRx>>
  BY <1>0, Zenon DEF SrvCookie
<1>2. /\ n \in Nat /\ upRead[k] + n \in Nat /\ upRead[k] + n <= up[k]
      /\ upRead'[k] = upRead[k] + n
  BY <1>0, <1>1, Values, SMT DEF P3Inv, Types
<1>3. CASE upRead[k] + n < CookieLen
  <2>1. /\ UNCHANGED <<upRx, total, downTx>>
    BY <1>0, <1>3
  <2>3. Types'
    BY <1>1, <1>2, <2>1, <1>3, P3Assumption, SMT DEF P3Inv, Types, P3Assumption, Leftover
  <2>4. Authentic(k)'
    BY <1>1, <1>2, <1>3, <2>1, Values, SMT DEF Authentic, CookieMatches, Leftover
  <2>5. Balanced(k)'
    BY <1>1, <1>2, <1>3, <2>1, Values, SMT DEF Authentic, Balanced, CookieMatches, Alive
  <2> QED
    BY <1>1, <2>1, <2>3, <2>4, <2>5, OneMoves, SMT DEF P3Inv, Types
<1>4. CASE ~ (upRead[k] + n < CookieLen) /\ CookieMatches(k)
  <2>1. /\ upRx' = [upRx EXCEPT ![k] = IF ClientSends(dir[owner]) THEN "read" ELSE "end"]
        /\ downTx' = [downTx EXCEPT ![k] = IF ServerSends(dir[owner]) THEN "send" ELSE "end"]
        /\ total' = [total EXCEPT ![k] = Leftover(upRead[k] + n)]
    BY <1>0, <1>4
  <2>2. /\ upRx'[k] = IF ClientSends(dir[owner]) THEN "read" ELSE "end"
        /\ downTx'[k] = IF ServerSends(dir[owner]) THEN "send" ELSE "end"
        /\ total'[k] = Leftover(upRead[k] + n)
    BY <2>1, SMT DEF P3Inv, Types
  <2>3. Types'
    BY <1>1, <1>2, <2>1, <2>2, <1>4, P3Assumption, SMT DEF P3Inv, Types, P3Assumption, Leftover
  <2>4. Authentic(k)'
    BY <1>1, <1>2, <1>4, <2>1, <2>2, Values, SMT DEF Authentic, CookieMatches, Leftover
  <2>5. Balanced(k)'
    BY <1>1, <1>2, <1>4, <2>1, <2>2, Values, SMT DEF Authentic, Balanced, CookieMatches, Alive
  <2> QED
    BY <1>1, <2>1, <2>3, <2>4, <2>5, OneMoves, SMT DEF P3Inv, Types
<1>5. CASE ~ (upRead[k] + n < CookieLen) /\ ~ CookieMatches(k)
  <2>1. /\ upRx' = [upRx EXCEPT ![k] = "dropped"]
        /\ UNCHANGED <<total, downTx>>
    BY <1>0, <1>5
  <2>2. /\ upRx'[k] = "dropped"
    BY <2>1, SMT DEF P3Inv, Types
  <2>3. Types'
    BY <1>1, <1>2, <2>1, <2>2, <1>5, P3Assumption, SMT DEF P3Inv, Types, P3Assumption, Leftover
  <2>4. Authentic(k)'
    BY <1>1, <1>2, <1>5, <2>1, <2>2, Values, SMT DEF Authentic, CookieMatches, Leftover
  <2>5. Balanced(k)'
    BY <1>1, <1>2, <1>5, <2>1, <2>2, Values, SMT DEF Authentic, Balanced, CookieMatches, Alive
  <2> QED
    BY <1>1, <2>1, <2>3, <2>4, <2>5, OneMoves, SMT DEF P3Inv, Types
<1> QED
  BY <1>3, <1>4, <1>5

LEMMA SrvCookieEndsInv ==
  ASSUME P3Inv, NEW k \in Conns, SrvCookieEnds(k)
  PROVE  P3Inv'
<1> USE DEF client, server, upward, downward
<1>1. /\ upRx' = [upRx EXCEPT ![k] = "dropped"]
      /\ UNCHANGED <<dir, cli, srv, owner, up, upRead, total, down, downRead, upTx, downTx, downRx>>
      /\ upRx[k] = "cookie"
  BY Zenon DEF SrvCookieEnds
<1>2. /\ upRx'[k] = "dropped"
  BY <1>1, SMT DEF P3Inv, Types
<1>3. Types'
  BY <1>1, P3Assumption, SMT DEF P3Inv, Types, P3Assumption
<1>4. Authentic(k)'
  BY <1>1, <1>2, Values, SMT DEF Authentic, CookieMatches
<1>5. Balanced(k)'
  BY <1>1, <1>2, Values, SMT DEF Authentic, Balanced, CookieMatches, Alive
<1> QED
  BY <1>1, <1>3, <1>4, <1>5, OneMoves, SMT DEF P3Inv, Types

LEMMA SrvReadsInv ==
  ASSUME P3Inv, NEW k \in Conns, SrvReads(k)
  PROVE  P3Inv'
<1> USE DEF client, server, upward, downward
<1>0. PICK n \in 1 .. up[k] - upRead[k] :
        /\ upRead' = [upRead EXCEPT ![k] = @ + n]
        /\ total' = [total EXCEPT ![k] = @ + n]
  BY DEF SrvReads
<1>1. /\ UNCHANGED <<dir, cli, srv, owner, up, down, downRead, upTx, upRx, downTx, downRx>>
      /\ upRx[k] = "read"
  BY Zenon DEF SrvReads
<1>2. /\ n \in Nat /\ upRead[k] + n <= up[k]
      /\ upRead'[k] = upRead[k] + n /\ total'[k] = total[k] + n
  BY <1>0, <1>1, Values, SMT DEF P3Inv, Types
<1>3. Types'
  BY <1>0, <1>1, <1>2, SMT DEF P3Inv, Types
<1>4. Authentic(k)'
  BY <1>1, <1>2, Values, SMT DEF Authentic, CookieMatches
<1>5. Balanced(k)'
  BY <1>1, <1>2, Values, SMT DEF Authentic, Balanced, CookieMatches, Alive
<1> QED
  BY <1>0, <1>1, <1>3, <1>4, <1>5, OneMoves, SMT DEF P3Inv, Types

LEMMA SrvReadEndsInv ==
  ASSUME P3Inv, NEW k \in Conns, SrvReadEnds(k)
  PROVE  P3Inv'
<1> USE DEF client, server, upward, downward
<1>1. /\ upRx' = [upRx EXCEPT ![k] = "end"]
      /\ UNCHANGED <<dir, cli, srv, owner, up, upRead, total, down, downRead, upTx, downTx, downRx>>
      /\ upRx[k] = "read" /\ srv = "stream"
      /\ ~ Here(k[1]) \/ (upTx[k] = "end" /\ upRead[k] = up[k])
  BY Zenon DEF SrvReadEnds, UpEnds
<1>2. /\ upRx'[k] = "end"
  BY <1>1, SMT DEF P3Inv, Types
<1>3. Types'
  BY <1>1, P3Assumption, SMT DEF P3Inv, Types, P3Assumption
<1>4. Authentic(k)'
  BY <1>1, <1>2, Values, SMT DEF Authentic, CookieMatches
<1>6. Alive(k) => Here(k[1])
  BY <1>1, ConnFacts, Zenon DEF P3Inv, Types, Left, Alive, Here
<1>5. Balanced(k)'
  BY <1>6, <1>1, <1>2, Values, SMT DEF Authentic, Balanced, CookieMatches, Alive, Here
<1> QED
  BY <1>1, <1>3, <1>4, <1>5, OneMoves, SMT DEF P3Inv, Types

LEMMA SrvStopsInv ==
  ASSUME P3Inv, NEW k \in Conns, SrvStops(k)
  PROVE  P3Inv'
<1> USE DEF client, server, upward, downward
<1>1. /\ downTx' = [downTx EXCEPT ![k] = "end"]
      /\ UNCHANGED <<dir, cli, srv, owner, up, upRead, total, down, downRead, upTx, upRx, downRx>>
      /\ downTx[k] = "send"
  BY Zenon DEF SrvStops
<1>2. /\ downTx'[k] = "end"
  BY <1>1, SMT DEF P3Inv, Types
<1>3. Types'
  BY <1>1, P3Assumption, SMT DEF P3Inv, Types, P3Assumption
<1>4. Authentic(k)'
  BY <1>1, <1>2, Values, SMT DEF Authentic, CookieMatches
<1>5. Balanced(k)'
  BY <1>1, <1>2, Values, SMT DEF Authentic, Balanced, CookieMatches, Alive
<1> QED
  BY <1>1, <1>3, <1>4, <1>5, OneMoves, SMT DEF P3Inv, Types

LEMMA SrvBeginsInv ==
  ASSUME P3Inv, NEW k \in Conns, SrvBegins(k)
  PROVE  P3Inv'
<1> USE DEF client, server, upward, downward
<1>1. /\ downTx' = [downTx EXCEPT ![k] = "write"]
      /\ UNCHANGED <<dir, cli, srv, owner, up, upRead, total, down, downRead, upTx, upRx, downRx>>
      /\ downTx[k] = "send"
      /\ srv = "stream"
  BY Zenon DEF SrvBegins
<1>2. /\ downTx'[k] = "write"
  BY <1>1, SMT DEF P3Inv, Types
<1>3. Types'
  BY <1>1, P3Assumption, SMT DEF P3Inv, Types, P3Assumption
<1>4. Authentic(k)'
  BY <1>1, <1>2, Values, SMT DEF Authentic, CookieMatches
<1>5. Balanced(k)'
  BY <1>1, <1>2, Values, SMT DEF Authentic, Balanced, CookieMatches, Alive
<1> QED
  BY <1>1, <1>3, <1>4, <1>5, OneMoves, SMT DEF P3Inv, Types

LEMMA SrvWritesInv ==
  ASSUME P3Inv, NEW k \in Conns, SrvWrites(k)
  PROVE  P3Inv'
<1> USE DEF client, server, upward, downward
<1>0. downTx[k] = "write" /\ srv = "stream"
  BY DEF SrvWrites
<1>1. CASE down' = [down EXCEPT ![k] = @ + 1]
         /\ downTx' = [downTx EXCEPT ![k] = "send"]
  <2>1. /\ down' = [down EXCEPT ![k] = @ + 1]
        /\ downTx' = [downTx EXCEPT ![k] = "send"]
        /\ UNCHANGED <<dir, cli, srv, owner, up, upRead, total, downRead, upTx, upRx, downRx>>
    BY <1>1, Zenon DEF SrvWrites
  <2>2. /\ down'[k] = down[k] + 1
        /\ downTx'[k] = "send"
    BY <2>1, SMT DEF P3Inv, Types
  <2>3. Types'
    BY <1>0, <2>1, SMT DEF P3Inv, Types
  <2>4. Authentic(k)'
    BY <1>0, <2>1, <2>2, Values, SMT DEF Authentic, CookieMatches
  <2>5. Balanced(k)'
    BY <1>0, <2>1, <2>2, Values, SMT DEF Authentic, Balanced, CookieMatches, Alive
  <2> QED
    BY <2>1, <2>3, <2>4, <2>5, OneMoves, SMT DEF P3Inv, Types
<1>2. CASE downTx' = [downTx EXCEPT ![k] = "end"] /\ UNCHANGED down
  <2>1. /\ downTx' = [downTx EXCEPT ![k] = "end"]
        /\ UNCHANGED <<dir, cli, srv, owner, up, upRead, total, down, downRead, upTx, upRx, downRx>>
    BY <1>2, Zenon DEF SrvWrites
  <2>2. /\ downTx'[k] = "end"
    BY <2>1, SMT DEF P3Inv, Types
  <2>3. Types'
    BY <1>0, <2>1, SMT DEF P3Inv, Types
  <2>4. Authentic(k)'
    BY <1>0, <2>1, <2>2, Values, SMT DEF Authentic, CookieMatches
  <2>5. Balanced(k)'
    BY <1>0, <2>1, <2>2, Values, SMT DEF Authentic, Balanced, CookieMatches, Alive
  <2> QED
    BY <2>1, <2>3, <2>4, <2>5, OneMoves, SMT DEF P3Inv, Types
<1> QED
  BY <1>1, <1>2, Zenon DEF SrvWrites

LEMMA StartStreamsInv ==
  ASSUME P3Inv, StartStreams
  PROVE  P3Inv'
<1>1. /\ srv = "accept" /\ srv' = "stream"
      /\ upRx' = [k \in Conns |-> IF k \in Accepted THEN "cookie" ELSE upRx[k]]
      /\ UNCHANGED <<dir, cli, owner, up, upRead, upTx, total, downward>>
  BY DEF StartStreams, client
<1>2. Types'
  <2>1. upRx' \in [Conns -> {"new", "cookie", "read", "end", "dropped"}]
    BY <1>1, SMT DEF P3Inv, Types
  <2> QED
    BY <1>1, <2>1, Zenon DEF P3Inv, Types, downward
<1>3. Left'
  BY <1>1, SMT DEF P3Inv, Left
<1>4. ASSUME NEW k \in Conns PROVE Authentic(k)' /\ Balanced(k)'
  <2>1. upRx[k] = "new" /\ upRx'[k] \in {"new", "cookie"}
    BY <1>1, Values, SMT DEF Authentic
  <2>2. Authentic(k)'
    BY <1>1, <2>1, Values, SMT DEF Authentic, CookieMatches, downward
  <2>3. Balanced(k)'
    BY <1>1, <2>1, Values, SMT DEF Balanced, Alive, downward
  <2> QED
    BY <2>2, <2>3
<1> QED
  BY <1>2, <1>3, <1>4 DEF P3Inv

----------------------------------------------------------------------------
(* Induction, and what FlattenSeq returns.                                 *)

Less == {p \in Nat \X Nat : p[1] < p[2]}

LEMMA LessWellFounded == IsWellFoundedOn(Less, Nat)
BY NatLessThanWellFounded, Zenon DEF OpToRel, Less

\* The induction theorems of the library take an operator; this one takes a set.
LEMMA SetInduction ==
  ASSUME NEW S, 0 \in S, \A n \in Nat : n \in S => n + 1 \in S
  PROVE  Nat \subseteq S
<1> DEFINE T == Nat \ S
<1> SUFFICES ASSUME T # {}
             PROVE  FALSE
  OBVIOUS
<1>1. T \subseteq Nat /\ T # {}
  OBVIOUS
<1>2. PICK x \in T : \A y \in T : ~ (<<y, x>> \in Less)
  <2> HIDE DEF T
  <2> QED
    BY <1>1, LessWellFounded, WFMin, Zenon
<1>3. x \in Nat /\ x # 0
  OBVIOUS
<1>4. x - 1 \in Nat /\ (x - 1) + 1 = x
  BY <1>3
<1>5. x - 1 \in T
  BY <1>4
<1>6. <<x - 1, x>> \in Less
  BY <1>3, <1>4, SMT DEF Less
<1> QED
  BY <1>2, <1>5, <1>6

\* G[i] is what the first i of n sequences make, one after the other.
Joins(G, q, n) == G[0] = <<>> /\ \A i \in 1 .. n : G[i] = G[i - 1] \o q[i]

LEMMA JoinsExist ==
  ASSUME NEW S, NEW n \in Nat, NEW q \in [1 .. n -> Seq(S)]
  PROVE  \E G \in [0 .. n -> Seq(S)] : Joins(G, q, n)
<1> DEFINE P == {m \in Nat : m <= n => \E G \in [0 .. m -> Seq(S)] : Joins(G, q, m)}
<1>1. 0 \in P
  <2> DEFINE G == [i \in 0 .. 0 |-> <<>>]
  <2>1. G \in [0 .. 0 -> Seq(S)] /\ Joins(G, q, 0)
    BY DEF Joins
  <2> QED
    BY <2>1
<1>2. ASSUME NEW m \in Nat, m \in P
      PROVE  m + 1 \in P
  <2> SUFFICES ASSUME m + 1 <= n
               PROVE  \E G \in [0 .. m + 1 -> Seq(S)] : Joins(G, q, m + 1)
    OBVIOUS
  <2>1. PICK G \in [0 .. m -> Seq(S)] : Joins(G, q, m)
    BY <1>2
  <2>2. G[m] \in Seq(S) /\ q[m + 1] \in Seq(S)
    OBVIOUS
  <2> DEFINE t == G[m] \o q[m + 1]
             H == [i \in 0 .. m + 1 |-> IF i <= m THEN G[i] ELSE t]
  <2>3. t \in Seq(S)
    BY <2>2
  <2> HIDE DEF t
  <2>4. H \in [0 .. m + 1 -> Seq(S)]
    BY <2>3
  <2>5. \A i \in 0 .. m : H[i] = G[i]
    OBVIOUS
  <2>6. H[m + 1] = t
    OBVIOUS
  <2> HIDE DEF H
  <2>7. ASSUME NEW i \in 1 .. m + 1
        PROVE  H[i] = H[i - 1] \o q[i]
    <3>1. CASE i = m + 1
      <4>1. i - 1 = m /\ m \in 0 .. m
        BY <3>1
      <4> QED
        BY <2>5, <2>6, <3>1, <4>1, Zenon DEF t
    <3>2. CASE i # m + 1
      <4>1. i \in 1 .. m /\ i \in 0 .. m /\ i - 1 \in 0 .. m
        BY <3>2
      <4> QED
        BY <2>1, <2>5, <4>1, Zenon DEF Joins
    <3> QED
      BY <3>1, <3>2
  <2>8. H[0] = <<>>
    BY <2>1, <2>5 DEF Joins
  <2> QED
    BY <2>4, <2>7, <2>8 DEF Joins
<1> HIDE DEF P
<1>3. Nat \subseteq P
  BY <1>1, <1>2, SetInduction
<1> QED
  BY <1>3 DEF P

\* FlattenSeq joins all of them.
LEMMA Flattened ==
  ASSUME NEW S, NEW n \in Nat, NEW q \in [1 .. n -> Seq(S)]
  PROVE  \E G \in [0 .. n -> Seq(S)] : Joins(G, q, n) /\ FlattenSeq(q) = G[n]
<1>1. PICK F \in [0 .. n -> Seq(S)] : Joins(F, q, n)
  BY JoinsExist
<1>2. Len(q) = n
  BY SMT
<1>3. CASE n = 0
  <2>1. q = <<>>
    BY <1>2, <1>3
  <2>2. FlattenSeq(q) = q
    BY <1>2, <1>3 DEF FlattenSeq
  <2> QED
    BY <1>1, <1>3, <2>1, <2>2 DEF Joins
<1>4. CASE n # 0
  <2> DEFINE flatten[i \in 1 .. Len(q)] == IF i = 1 THEN q[i] ELSE flatten[i - 1] \o q[i]
             Is(f) == f = [i \in 1 .. Len(q) |-> IF i = 1 THEN q[i] ELSE f[i - 1] \o q[i]]
  <2>1. FlattenSeq(q) = flatten[n]
    BY <1>2, <1>4, Zenon DEF FlattenSeq
  <2>2. \E f : Is(f)
    <3> DEFINE f == [i \in 1 .. n |-> F[i]]
    <3>1. ASSUME NEW i \in 1 .. n
          PROVE  F[i] = IF i = 1 THEN q[i] ELSE f[i - 1] \o q[i]
      <4>1. CASE i = 1
        <5>1. F[i] = F[0] \o q[i] /\ F[0] = <<>> /\ q[i] \in Seq(S)
          <6>1. F[i] = F[i - 1] \o q[i] /\ F[0] = <<>>
            BY <1>1, Zenon DEF Joins
          <6>2. i - 1 = 0 /\ q[i] \in Seq(S)
            BY <4>1
          <6> QED
            BY <6>1, <6>2, Zenon
        <5>2. <<>> \o q[i] = q[i]
          BY <5>1, SMT
        <5> QED
          BY <4>1, <5>1, <5>2
      <4>2. CASE i # 1
        <5>1. i - 1 \in 1 .. n
          BY <4>2
        <5> QED
          BY <1>1, <4>2, <5>1, Zenon DEF Joins
      <4> QED
        BY <4>1, <4>2
    <3>2. Is(f)
      BY <1>2, <3>1, Zenon
    <3> QED
      BY <3>2
  <2>3. Is(flatten)
    BY <2>2, Zenon
  <2> HIDE DEF flatten
  <2>4. \A i \in 1 .. n : flatten[i] = IF i = 1 THEN q[i] ELSE flatten[i - 1] \o q[i]
    BY <1>2, <2>3, Zenon
  <2> DEFINE P == {i \in Nat : i \in 1 .. n => flatten[i] = F[i]}
  <2>5. 0 \in P
    OBVIOUS
  <2>6. ASSUME NEW i \in Nat, i \in P
        PROVE  i + 1 \in P
    <3> SUFFICES ASSUME i + 1 \in 1 .. n
                 PROVE  flatten[i + 1] = F[i + 1]
      OBVIOUS
    <3>1. (i + 1) - 1 = i /\ F[i + 1] = F[i] \o q[i + 1]
      <4>1. (i + 1) - 1 = i
        OBVIOUS
      <4> QED
        BY <1>1, <4>1, Zenon DEF Joins
    <3>2. CASE i = 0
      <4>1. q[i + 1] \in Seq(S) /\ F[i] = <<>> /\ flatten[i + 1] = q[i + 1]
        <5>1. F[0] = <<>>
          BY <1>1 DEF Joins
        <5>2. i + 1 = 1 /\ i + 1 \in 1 .. n /\ q[i + 1] \in Seq(S)
          BY <3>2
        <5>3. flatten[i + 1] = q[i + 1]
          BY <2>4, <5>2, Zenon
        <5> QED
          BY <3>2, <5>1, <5>2, <5>3, Zenon
      <4>2. <<>> \o q[i + 1] = q[i + 1]
        BY <4>1, SMT
      <4> QED
        BY <3>1, <4>1, <4>2
    <3>3. CASE i # 0
      <4>1. i \in 1 .. n /\ i + 1 # 1
        BY <3>3
      <4>2. flatten[i] = F[i]
        BY <2>6, <4>1
      <4>3. flatten[i + 1] = flatten[i] \o q[i + 1]
        BY <2>4, <3>1, <4>1, Zenon
      <4> QED
        BY <3>1, <4>2, <4>3, Zenon
    <3> QED
      BY <3>2, <3>3
  <2> HIDE DEF P
  <2>7. Nat \subseteq P
    BY <2>5, <2>6, SetInduction
  <2>8. flatten[n] = F[n]
    BY <1>4, <2>7 DEF P
  <2> QED
    BY <1>1, <2>1, <2>8
<1> QED
  BY <1>3, <1>4

\* What was joined stays at the beginning.
LEMMA JoinsGrow ==
  ASSUME NEW S, NEW n \in Nat, NEW q \in [1 .. n -> Seq(S)], NEW G \in [0 .. n -> Seq(S)],
         Joins(G, q, n), NEW m \in 0 .. n
  PROVE  Len(G[m]) <= Len(G[n]) /\ \A l \in 1 .. Len(G[m]) : G[n][l] = G[m][l]
<1> DEFINE Begins(i) == Len(G[m]) <= Len(G[i]) /\ \A l \in 1 .. Len(G[m]) : G[i][l] = G[m][l]
           P == {i \in Nat : m <= i /\ i <= n => Begins(i)}
<1>1. \A i \in 0 .. n : G[i] \in Seq(S) /\ Len(G[i]) \in Nat
  OBVIOUS
<1>2. 0 \in P
  BY <1>1
<1>3. ASSUME NEW i \in Nat, i \in P
      PROVE  i + 1 \in P
  <2> SUFFICES ASSUME m <= i + 1, i + 1 <= n
               PROVE  Begins(i + 1)
    OBVIOUS
  <2>1. CASE m = i + 1
    BY <1>1, <2>1
  <2>2. CASE m # i + 1
    <3>1. i \in 0 .. n /\ Begins(i)
      BY <1>3, <2>2
    <3>2. G[i + 1] = G[i] \o q[i + 1] /\ q[i + 1] \in Seq(S) /\ G[i] \in Seq(S)
      <4>1. i + 1 \in 1 .. n /\ (i + 1) - 1 = i
        OBVIOUS
      <4> QED
        BY <1>1, <3>1, <4>1, Zenon DEF Joins
    <3>3. Len(G[i + 1]) = Len(G[i]) + Len(q[i + 1])
          /\ \A l \in 1 .. Len(G[i]) : G[i + 1][l] = G[i][l]
      <4> DEFINE a == G[i]
                 b == q[i + 1]
      <4>1. a \in Seq(S) /\ b \in Seq(S)
        BY <3>2
      <4> HIDE DEF a, b
      <4>2. Len(a \o b) = Len(a) + Len(b) /\ \A l \in 1 .. Len(a) : (a \o b)[l] = a[l]
        BY <4>1, SMT
      <4> QED
        BY <3>2, <4>2, Zenon DEF a, b
    <3> QED
      BY <1>1, <3>1, <3>2, <3>3
  <2> QED
    BY <2>1, <2>2
<1> HIDE DEF P
<1>4. Nat \subseteq P
  BY <1>2, <1>3, SetInduction
<1> QED
  BY <1>4 DEF P

LEMMA FlattenedElements ==
  ASSUME NEW S, NEW n \in Nat, NEW q \in [1 .. n -> Seq(S)],
         NEW i \in 1 .. n, NEW j \in 1 .. Len(q[i])
  PROVE  FlattenSeq(q) \in Seq(S) /\ q[i][j] \in ToSet(FlattenSeq(q))
<1>1. PICK G \in [0 .. n -> Seq(S)] : Joins(G, q, n) /\ FlattenSeq(q) = G[n]
  BY Flattened
<1>2. i - 1 \in 0 .. n /\ i \in 0 .. n /\ n \in 0 .. n
  OBVIOUS
<1>3. G[i] = G[i - 1] \o q[i]
  BY <1>1, Zenon DEF Joins
<1>4. G[i - 1] \in Seq(S) /\ G[i] \in Seq(S) /\ q[i] \in Seq(S) /\ G[n] \in Seq(S)
  BY <1>2
<1> DEFINE l == Len(G[i - 1]) + j
<1>5. l \in 1 .. Len(G[i]) /\ G[i][l] = q[i][j]
  BY <1>3, <1>4, SMT
<1>6. Len(G[i]) <= Len(G[n]) /\ G[n][l] = G[i][l]
  <2>1. Len(G[i]) <= Len(G[n]) /\ \A e \in 1 .. Len(G[i]) : G[n][e] = G[i][e]
    BY <1>1, <1>2, JoinsGrow, Zenon
  <2> QED
    BY <1>5, <2>1, Zenon
<1>7. l \in 1 .. Len(G[n])
  BY <1>4, <1>5, <1>6
<1>8. l \in DOMAIN G[n]
  BY <1>4, <1>7
<1> HIDE DEF l
<1>9. q[i][j] \in ToSet(G[n])
  BY <1>5, <1>6, <1>8, Zenon DEF ToSet
<1> QED
  BY <1>1, <1>4, <1>9, Zenon

----------------------------------------------------------------------------
(* Induction over finite sets, and what MapThenSumSet returns.             *)

LEMMA FiniteInduction ==
  ASSUME NEW S, IsFiniteSet(S), NEW Q, {} \in Q,
         \A s \in SUBSET S : s # {} /\ (\A x \in s : s \ {x} \in Q) => s \in Q
  PROVE  SUBSET S \subseteq Q
<1> DEFINE P == {n \in Nat : \A s \in SUBSET S : Cardinality(s) <= n => s \in Q}
<1>1. \A s \in SUBSET S : /\ IsFiniteSet(s) /\ Cardinality(s) \in Nat
                          /\ Cardinality(s) <= Cardinality(S)
                          /\ Cardinality(s) = 0 <=> s = {}
                          /\ \A x \in s : Cardinality(s \ {x}) = Cardinality(s) - 1
  BY FS_Subset, FS_CardinalityType, FS_EmptySet, FS_RemoveElement
<1>2. 0 \in P
  <2>1. \A s \in SUBSET S : Cardinality(s) <= 0 => s = {}
    BY <1>1
  <2> QED
    BY <2>1
<1>3. ASSUME NEW n \in Nat, n \in P
      PROVE  n + 1 \in P
  <2> SUFFICES ASSUME NEW s \in SUBSET S, Cardinality(s) <= n + 1
               PROVE  s \in Q
    OBVIOUS
  <2>1. \A x \in s : s \ {x} \in SUBSET S /\ Cardinality(s \ {x}) <= n
    BY <1>1
  <2>2. \A x \in s : s \ {x} \in Q
    BY <1>3, <2>1
  <2> QED
    BY <2>2, Zenon
<1> HIDE DEF P
<1>4. Nat \subseteq P
  BY <1>2, <1>3, SetInduction
<1>5. Cardinality(S) \in Nat
  BY FS_CardinalityType
<1> QED
  BY <1>1, <1>4, <1>5 DEF P

First(s) == CHOOSE y \in s : TRUE

\* I[s] is the sum of f over s, for the subsets s of S.
Adds(S, f, I) ==
  /\ I[{}] = 0
  /\ \A s \in SUBSET S : s # {} => I[s] = f[First(s)] + I[s \ {First(s)}]

Sums(S, f, I) == I \in [SUBSET S -> Int] /\ Adds(S, f, I)

LEMMA SumsExist ==
  ASSUME NEW S, IsFiniteSet(S), NEW f \in [S -> Int]
  PROVE  \E I : Sums(S, f, I)
<1> DEFINE Small(n) == {s \in SUBSET S : Cardinality(s) <= n}
           SumsOf(n, I) == /\ I \in [Small(n) -> Int] /\ I[{}] = 0
                           /\ \A s \in Small(n) : s # {} => I[s] = f[First(s)] + I[s \ {First(s)}]
           P == {n \in Nat : \E I : SumsOf(n, I)}
<1>1. \A s \in SUBSET S : /\ Cardinality(s) \in Nat
                          /\ Cardinality(s) <= Cardinality(S)
                          /\ Cardinality(s) = 0 <=> s = {}
                          /\ \A x \in s : Cardinality(s \ {x}) = Cardinality(s) - 1
  BY FS_Subset, FS_CardinalityType, FS_EmptySet, FS_RemoveElement
<1>2. \A s \in SUBSET S : s # {} => First(s) \in s /\ f[First(s)] \in Int
  BY DEF First
<1>3. 0 \in P
  <2>1. Small(0) = {{}}
    BY <1>1
  <2>2. SumsOf(0, [s \in {{}} |-> 0])
    BY <2>1
  <2> QED
    BY <2>2
<1>4. ASSUME NEW n \in Nat, n \in P
      PROVE  n + 1 \in P
  <2>1. PICK I : SumsOf(n, I)
    BY <1>4
  <2> DEFINE Value(s) == IF s = {} THEN 0 ELSE f[First(s)] + I[s \ {First(s)}]
             J == [s \in Small(n + 1) |-> Value(s)]
  <2>2. \A s \in Small(n + 1) : s # {} => s \ {First(s)} \in Small(n) /\ s \ {First(s)} \in Small(n + 1)
    BY <1>1, <1>2
  <2>3. \A s \in Small(n + 1) : Value(s) \in Int
    BY <1>2, <2>1, <2>2
  <2>4. {} \in Small(n) /\ {} \in Small(n + 1)
    BY <1>1
  <2>5. \A s \in Small(n) : Value(s) = I[s]
    BY <2>1
  <2> HIDE DEF Value, Small
  <2>6. J \in [Small(n + 1) -> Int]
    BY <2>3
  <2>7. \A s \in Small(n + 1) : J[s] = Value(s)
    OBVIOUS
  <2> HIDE DEF J
  <2>8. J[{}] = 0
    BY <2>4, <2>7 DEF Value
  <2>9. ASSUME NEW s \in Small(n + 1), s # {}
        PROVE  J[s] = f[First(s)] + J[s \ {First(s)}]
    <3>1. J[s] = f[First(s)] + I[s \ {First(s)}]
      BY <2>7, <2>9 DEF Value
    <3>2. J[s \ {First(s)}] = I[s \ {First(s)}]
      BY <2>2, <2>5, <2>7, <2>9
    <3> QED
      BY <3>1, <3>2
  <2>10. SumsOf(n + 1, J)
    BY <2>6, <2>8, <2>9
  <2> HIDE DEF SumsOf
  <2> QED
    BY <2>10
<1> HIDE DEF P
<1>5. Nat \subseteq P
  BY <1>3, <1>4, SetInduction
<1>6. Cardinality(S) \in Nat
  BY FS_CardinalityType
<1>7. PICK I : SumsOf(Cardinality(S), I)
  BY <1>5, <1>6 DEF P
<1>8. Small(Cardinality(S)) = SUBSET S
  BY <1>1
<1> QED
  BY <1>7, <1>8 DEF Sums, Adds

\* The elements may be added in any order.
LEMMA AnyOrder ==
  ASSUME NEW S, IsFiniteSet(S), NEW f \in [S -> Int], NEW I, Sums(S, f, I),
         NEW a \in SUBSET S, NEW z \in a
  PROVE  I[a] = f[z] + I[a \ {z}]
<1> DEFINE Q == {s \in SUBSET S : \A x \in s : I[s] = f[x] + I[s \ {x}]}
<1>1. {} \in Q
  OBVIOUS
<1>2. ASSUME NEW s \in SUBSET S, s # {}, \A x \in s : s \ {x} \in Q
      PROVE  s \in Q
  <2> SUFFICES ASSUME NEW x \in s
               PROVE  I[s] = f[x] + I[s \ {x}]
    OBVIOUS
  <2> DEFINE y == First(s)
             t == (s \ {x}) \ {y}
  <2>1. y \in s /\ I[s] = f[y] + I[s \ {y}]
    BY DEF First, Sums, Adds
  <2> HIDE DEF y
  <2>2. CASE x = y
    BY <2>1, <2>2
  <2>3. CASE x # y
    <3>1. x \in s \ {y} /\ y \in s \ {x} /\ (s \ {y}) \ {x} = t
      BY <2>1, <2>3
    <3>2. I[s \ {y}] = f[x] + I[t]
      BY <1>2, <2>1, <3>1
    <3>3. I[s \ {x}] = f[y] + I[t]
      BY <1>2, <3>1
    <3>4. f[x] \in Int /\ f[y] \in Int /\ I[t] \in Int
      BY <2>1 DEF Sums, Adds
    <3> QED
      BY ONLY <2>1, <3>2, <3>3, <3>4
  <2> QED
    BY <2>2, <2>3
<1> HIDE DEF Q
<1>3. SUBSET S \subseteq Q
  BY <1>1, <1>2, FiniteInduction
<1> QED
  BY <1>3 DEF Q

LEMMA SumNotNegative ==
  ASSUME NEW S, IsFiniteSet(S), NEW f \in [S -> Int], NEW I, Sums(S, f, I),
         \A x \in S : f[x] >= 0
  PROVE  \A s \in SUBSET S : I[s] >= 0
<1> DEFINE Q == {s \in SUBSET S : I[s] >= 0}
<1>1. {} \in Q
  BY DEF Sums, Adds
<1>2. ASSUME NEW s \in SUBSET S, s # {}, \A x \in s : s \ {x} \in Q
      PROVE  s \in Q
  <2>1. PICK x : x \in s
    BY <1>2
  <2>2. I[s] = f[x] + I[s \ {x}]
    BY <2>1, AnyOrder
  <2>3. I[s \ {x}] >= 0 /\ I[s \ {x}] \in Int /\ f[x] \in Int /\ f[x] >= 0
    BY <1>2, <2>1 DEF Sums, Adds
  <2>4. I[s] >= 0
    BY ONLY <2>2, <2>3
  <2> QED
    BY <2>4
<1> HIDE DEF Q
<1>3. SUBSET S \subseteq Q
  BY <1>1, <1>2, FiniteInduction
<1> QED
  BY <1>3 DEF Q

\* A sum is at most another if what is not zero of the one has its own place in the
\* other.
LEMMA SumsCompared ==
  ASSUME NEW S, IsFiniteSet(S), NEW f \in [S -> Int], NEW I, Sums(S, f, I),
         NEW T, IsFiniteSet(T), NEW h \in [T -> Int], NEW J, Sums(T, h, J),
         \A t \in T : h[t] >= 0,
         NEW g, \A s \in S : f[s] = 0 \/ (g[s] \in T /\ f[s] <= h[g[s]]),
         \A r, s \in S : f[r] # 0 /\ f[s] # 0 /\ g[r] = g[s] => r = s
  PROVE  I[S] <= J[T]
<1> DEFINE In(a, b) == \A s \in a : f[s] = 0 \/ g[s] \in b
           Q == {a \in SUBSET S : \A b \in SUBSET T : In(a, b) => I[a] <= J[b]}
<1>1. IsFiniteSet(S) /\ f \in [S -> Int] /\ Sums(S, f, I)
  OBVIOUS
<1>2. IsFiniteSet(T) /\ h \in [T -> Int] /\ Sums(T, h, J)
  OBVIOUS
<1>3. {} \in Q
  <2>1. \A b \in SUBSET T : J[b] >= 0
    BY SumNotNegative, Zenon
  <2>2. I[{}] = 0 /\ \A b \in SUBSET T : J[b] \in Int
    BY DEF Sums, Adds
  <2>3. \A b \in SUBSET T : I[{}] <= J[b]
    BY <2>1, <2>2
  <2> QED
    BY <2>3
<1>4. ASSUME NEW a \in SUBSET S, a # {}, \A x \in a : a \ {x} \in Q
      PROVE  a \in Q
  <2> SUFFICES ASSUME NEW b \in SUBSET T, In(a, b)
               PROVE  I[a] <= J[b]
    OBVIOUS
  <2>1. PICK x : x \in a
    BY <1>4
  <2>2. I[a] = f[x] + I[a \ {x}] /\ f[x] \in Int /\ I[a \ {x}] \in Int
    <3>1. a \in SUBSET S /\ x \in a
      BY <2>1
    <3>2. I[a] = f[x] + I[a \ {x}]
      BY <1>1, <3>1, AnyOrder
    <3> QED
      BY <2>1, <3>2 DEF Sums, Adds
  <2>3. CASE f[x] = 0
    <3>1. In(a \ {x}, b)
      OBVIOUS
    <3>2. I[a \ {x}] <= J[b]
      BY <1>4, <2>1, <3>1
    <3> QED
      BY ONLY <2>2, <2>3, <3>2
  <2>4. CASE f[x] # 0
    <3> DEFINE y == g[x]
               d == b \ {y}
    <3>1. y \in b /\ f[x] <= h[y]
      BY <2>1, <2>4
    <3>2. J[b] = h[y] + J[d] /\ h[y] \in Int /\ J[d] \in Int
      <4>1. b \in SUBSET T /\ y \in b
        BY <3>1
      <4> HIDE DEF y
      <4>2. J[b] = h[y] + J[d]
        BY ONLY <1>2, <4>1, AnyOrder
      <4> QED
        BY <4>1, <4>2 DEF Sums, Adds
    <3>3. In(a \ {x}, d)
      BY <2>1, <2>4
    <3>4. I[a \ {x}] <= J[d]
      BY <1>4, <2>1, <3>3
    <3> HIDE DEF y, d
    <3> QED
      BY ONLY <2>2, <3>1, <3>2, <3>4
  <2> QED
    BY <2>3, <2>4
<1> HIDE DEF Q
<1>5. SUBSET S \subseteq Q
  BY <1>3, <1>4, FiniteInduction
<1>6. In(S, T)
  OBVIOUS
<1> QED
  BY <1>5, <1>6 DEF Q

\* The function that MapThenFoldSet declares is such a sum.
LEMMA SumsOnly ==
  ASSUME NEW S, IsFiniteSet(S), NEW f, NEW I, Sums(S, f, I), NEW J,
         Adds(S, f, J)
  PROVE  J[S] = I[S]
<1> DEFINE Q == {s \in SUBSET S : J[s] = I[s]}
<1>1. {} \in Q
  BY DEF Sums, Adds
<1>2. ASSUME NEW s \in SUBSET S, s # {}, \A x \in s : s \ {x} \in Q
      PROVE  s \in Q
  <2>1. First(s) \in s
    BY <1>2 DEF First
  <2>2. J[s \ {First(s)}] = I[s \ {First(s)}]
    BY <1>2, <2>1
  <2>3. J[s] = I[s]
    BY <1>2, <2>2, Zenon DEF Sums, Adds
  <2> QED
    BY <2>3
<1> HIDE DEF Q
<1>3. SUBSET S \subseteq Q
  BY <1>1, <1>2, FiniteInduction
<1> QED
  BY <1>3 DEF Q

\* v is the sum of f over S.
SumIs(S, f, v) == IsFiniteSet(S) /\ f \in [S -> Int] /\ \E I : Sums(S, f, I) /\ v = I[S]

RowBytes(stats, T) == [id \in T |-> stats[id].bytes]

Having(stats, ids, sender) == {id \in ids : stats[id].sender = sender}

LEMMA BytesSum ==
  ASSUME NEW stats, NEW ids, IsFiniteSet(ids), NEW sender,
         \A id \in ids : stats[id].bytes \in Int
  PROVE  LET T == Having(stats, ids, sender)
         IN  SumIs(T, RowBytes(stats, T), Bytes(stats, ids, sender))
<1> DEFINE T == Having(stats, ids, sender)
           f == RowBytes(stats, T)
<1>1. T \subseteq ids /\ IsFiniteSet(T)
  <2>1. T \in SUBSET ids
    BY DEF Having
  <2> QED
    BY <2>1, FS_Subset
<1>2. f \in [T -> Int] /\ \A id \in T : f[id] = stats[id].bytes
  BY <1>1 DEF RowBytes
<1>3. Bytes(stats, ids, sender) = MapThenSumSet(LAMBDA id : stats[id].bytes, T)
  BY Zenon DEF Bytes, Having
<1> HIDE DEF T, f
<1>4. PICK I : Sums(T, f, I)
  BY <1>1, <1>2, SumsExist
<1> DEFINE iter[s \in SUBSET T] ==
             IF s = {} THEN 0
             ELSE LET x == CHOOSE y \in s : TRUE
                  IN  stats[x].bytes + iter[s \ {x}]
           Is(J) == J = [s \in SUBSET T |->
                           IF s = {} THEN 0
                           ELSE LET x == CHOOSE y \in s : TRUE
                                IN  stats[x].bytes + J[s \ {x}]]
<1>5. MapThenSumSet(LAMBDA id : stats[id].bytes, T) = iter[T]
  BY Zenon DEF MapThenSumSet, MapThenFoldSet
<1>6. \A s \in SUBSET T : s # {} => First(s) \in s /\ f[First(s)] = stats[First(s)].bytes
  BY <1>2 DEF First
<1>7. Is(I)
  <2>1. \A s \in SUBSET T : I[s] = IF s = {} THEN 0 ELSE stats[First(s)].bytes + I[s \ {First(s)}]
    BY <1>4, <1>6, Zenon DEF Sums, Adds
  <2>2. I = [s \in SUBSET T |-> I[s]]
    BY <1>4 DEF Sums, Adds
  <2> QED
    BY <2>1, <2>2, Zenon DEF First
<1>8. Is(iter)
  BY <1>7, Zenon
<1> HIDE DEF iter
<1>9. Adds(T, f, iter)
  <2>1. \A s \in SUBSET T :
          iter[s] = IF s = {} THEN 0 ELSE stats[First(s)].bytes + iter[s \ {First(s)}]
    BY <1>8, Zenon DEF First
  <2>2. {} \in SUBSET T
    OBVIOUS
  <2> QED
    BY <1>6, <2>1, <2>2, Zenon DEF Adds
<1>10. iter[T] = I[T]
  BY <1>1, <1>4, <1>9, SumsOnly, Zenon
<1>11. SumIs(T, f, Bytes(stats, ids, sender))
  BY <1>1, <1>2, <1>3, <1>4, <1>5, <1>10, Zenon DEF SumIs
<1> QED
  BY <1>11, Zenon DEF T, f

LEMMA SumIsInt ==
  ASSUME NEW S, NEW f, NEW v, SumIs(S, f, v)
  PROVE  v \in Int /\ (S = {} => v = 0)
BY DEF SumIs, Sums, Adds

LEMMA SumIsCompared ==
  ASSUME NEW S, NEW f, NEW v, SumIs(S, f, v), NEW T, NEW h, NEW w, SumIs(T, h, w),
         \A t \in T : h[t] >= 0,
         NEW g, \A s \in S : f[s] = 0 \/ (g[s] \in T /\ f[s] <= h[g[s]]),
         \A r, s \in S : f[r] # 0 /\ f[s] # 0 /\ g[r] = g[s] => r = s
  PROVE  v <= w
<1>1. PICK I : Sums(S, f, I) /\ v = I[S]
  BY DEF SumIs
<1>2. PICK J : Sums(T, h, J) /\ w = J[T]
  BY DEF SumIs
<1>3. IsFiniteSet(S) /\ f \in [S -> Int] /\ IsFiniteSet(T) /\ h \in [T -> Int]
  BY DEF SumIs
<1>4. I[S] <= J[T]
  BY <1>1, <1>2, <1>3, SumsCompared
<1> QED
  BY <1>1, <1>2, <1>4

----------------------------------------------------------------------------
(* The theorems.                                                           *)

LEMMA InitInv == Init => P3Inv
<1> SUFFICES ASSUME Init PROVE P3Inv
  OBVIOUS
<1>1. Types
  BY P3Assumption, SMT DEF Init, Types, P3Assumption
<1>2. Left
  BY SMT DEF Init, Left
<1>3. ASSUME NEW k \in Conns PROVE Authentic(k) /\ Balanced(k)
  BY P3Assumption, SMT DEF Init, Authentic, Balanced, P3Assumption
<1> QED
  BY <1>1, <1>2, <1>3 DEF P3Inv

LEMMA StepInv == P3Inv /\ [Next]_vars => P3Inv'
<1> SUFFICES ASSUME P3Inv, [Next]_vars PROVE P3Inv'
  OBVIOUS
<1> USE DEF client, server
<1>1. CASE UNCHANGED vars
  BY <1>1, ServerMoves, Zenon DEF P3Inv, Types, vars
<1>2. ASSUME NEW c \in Clients, Dial(c) PROVE P3Inv'
  BY <1>2, ServerMoves, Zenon DEF P3Inv, Types, Dial
<1>3. ASSUME NEW c \in Clients, DialFails(c) PROVE P3Inv'
  <2>1. /\ cli[c] # "killed" /\ cli' = [cli EXCEPT ![c] = "failed"]
        /\ srv = "gone"
        /\ UNCHANGED <<dir, srv, owner, upward, downward>>
    BY <1>3, SMT DEF DialFails
  <2> QED
    BY <2>1, ClientMoves, Zenon
<1>4. ASSUME NEW c \in Clients, StreamsEnd(c) PROVE P3Inv'
  <2>1. /\ cli[c] # "killed" /\ cli' = [cli EXCEPT ![c] = "report"]
        /\ UNCHANGED <<dir, srv, owner, upward, downward>>
    BY <1>4, SMT DEF StreamsEnd
  <2> QED
    BY <2>1, ClientMoves, Zenon
<1>5. ASSUME NEW c \in Clients, Report(c) PROVE P3Inv'
  <2>1. /\ cli[c] # "killed" /\ cli' = [cli EXCEPT ![c] = "done"]
        /\ srv = "gone"
        /\ UNCHANGED <<dir, srv, owner, upward, downward>>
    BY <1>5, SMT DEF Report
  <2> QED
    BY <2>1, ClientMoves, Zenon
<1>6. ASSUME NEW c \in Clients, Dies(c) PROVE P3Inv'
  <2>1. /\ cli[c] # "killed" /\ cli' = [cli EXCEPT ![c] = "killed"]
        /\ UNCHANGED <<dir, srv, owner, upward, downward>>
    BY <1>6, SMT DEF Dies, Here
  <2> QED
    BY <2>1, ClientMoves, Zenon
<1>7. ASSUME NEW c \in Clients, ClientStep(c) PROVE P3Inv'
  BY <1>2, <1>3, <1>4, <1>5, <1>7, SendParamsInv, RunStreamsInv DEF ClientStep
<1>8. ASSUME NEW k \in Conns, Sending(k) \/ Receiving(k) PROVE P3Inv'
  BY <1>8, CliCookieInv, CliStopsInv, CliBeginsInv, CliWritesInv, CliReadsInv, CliReadEndsInv
  DEF Sending, Receiving
<1>9. ASSUME NEW k \in Conns, ServerReceiving(k) \/ ServerSending(k) PROVE P3Inv'
  BY <1>9, SrvCookieInv, SrvCookieEndsInv, SrvReadsInv, SrvReadEndsInv, SrvStopsInv,
     SrvBeginsInv, SrvWritesInv
  DEF ServerReceiving, ServerSending
<1>10. CASE ServerStep
  <2>1. AcceptControl => P3Inv'
    BY ServerMoves, SMT DEF AcceptControl
  <2>2. RecvParams => P3Inv'
    BY ServerMoves, SMT DEF RecvParams
  <2>3. AcceptData => P3Inv'
    BY ServerMoves, SMT DEF AcceptData
  <2>4. SrvStreamsEnd => P3Inv'
    BY ServerMoves, SMT DEF SrvStreamsEnd
  <2>5. SendResults => P3Inv'
    BY ServerMoves, SMT DEF SendResults
  <2> QED
    BY <1>10, <2>1, <2>2, <2>3, <2>4, <2>5, StartStreamsInv DEF ServerStep
<1>11. CASE Ended
  BY <1>1, <1>11 DEF Ended
<1> QED
  BY <1>1, <1>6, <1>7, <1>8, <1>9, <1>10, <1>11 DEF Next

\* No byte is counted or sent on a connection whose client did not present the
\* cookie of the test (server_conn), with any number of clients.
THEOREM OnlyOwnDataHolds == Spec => []OnlyOwnData
<1>1. P3Inv => OnlyOwnData
  <2> SUFFICES ASSUME P3Inv, NEW k \in Conns, total[k] > 0 \/ down[k] > 0
               PROVE  k \in Streams(owner) /\ upRead[k] >= CookieLen
    BY DEF OnlyOwnData
  <2>1. CookieMatches(k) /\ upRead[k] >= CookieLen
    BY Values, SMT DEF Authentic, P3Inv, Types
  <2> QED
    BY <2>1, OwnConn
<1> QED
  BY <1>1, InitInv, StepInv, PTL DEF Spec

\* What came with the cookie is counted once, and the cookie never: read_data's
\* init_total makes both ends of a stream count the same.
THEOREM CountsAgreeHolds == Spec => []CountsAgree
<1>1. P3Inv => CountsAgree
  <2> SUFFICES ASSUME P3Inv, NEW k \in Conns
               PROVE  /\ upRx[k] = "end" /\ Lived => total[k] = up[k] - CookieLen
                      /\ downRx[k] = "end" => downRead[k] = down[k]
    BY DEF CountsAgree
  <2> QED
    <3>1. Lived => Alive(k)
      BY ConnFacts DEF Lived, Alive
    <3> QED
      BY <3>1, Values, SMT DEF Authentic, Balanced, CookieMatches
<1> QED
  BY <1>1, InitInv, StepInv, PTL DEF Spec

----------------------------------------------------------------------------
(* The rows of the two ends: which connections the server has, and whose   *)
(* rows are missing.                                                       *)

\* The connections the server took for data or has still to take.
Line == datas \o backlog

IsControl(k) == srv # "listen" /\ k = <<owner, 0>>

\* Connections stand in line in the order in which their clients made them, each
\* once, and none is missing.
InLine ==
  /\ datas \in Seq(Conns) /\ backlog \in Seq(Conns)
  /\ srv # "listen" => owner \in Clients /\ dialled[owner] > 0
  /\ \A i \in 1 .. Len(Line) : Line[i][2] < dialled[Line[i][1]] /\ ~ IsControl(Line[i])
  /\ \A i, j \in 1 .. Len(Line) : Line[i] = Line[j] => i = j
  /\ \A i \in 1 .. Len(Line) : Line[i][2] > 0 =>
       \/ IsControl(<<Line[i][1], Line[i][2] - 1>>)
       \/ \E j \in 1 .. i - 1 : Line[j] = <<Line[i][1], Line[i][2] - 1>>
  /\ \A c \in Clients : \A n \in 0 .. dialled[c] - 1 :
       IsControl(<<c, n>>) \/ \E i \in 1 .. Len(Line) : Line[i] = <<c, n>>

ServerReply == FlattenSeq([i \in 1 .. Len(datas) |-> ServerRows(datas[i])])

\* What the server has, and has sent, in each phase.
Served ==
  /\ srv = "listen" => owner = Nobody
  /\ srv \in {"listen", "params"} => datas = <<>>
  /\ srv \in {"report", "gone"} =>
       \A k \in Accepted : upRx[k] = "dropped" \/ (upRx[k] = "end" /\ downTx[k] = "end")
  /\ reply = IF srv = "gone" THEN ServerReply ELSE Nothing

\* A client that is done has what the server sent to it.
Replied ==
  /\ remote \in [Clients -> {reply, Nothing}]
  /\ \A c \in Clients : cli[c] = "done" =>
       remote[c] = IF c = owner THEN reply ELSE Nothing

\* Nothing is read from a connection that was not accepted.
OnlyAccepted == \A k \in Conns : upRx[k] # "new" => k \in Accepted

\* A writer that is about to write has room for a byte.
Bounded ==
  /\ dialled \in [Clients -> Nat] /\ \A c \in Clients : dialled[c] <= Parallel[c] + 1
  /\ \A k \in Conns :
       /\ up[k] <= CookieLen + MaxData /\ (upTx[k] = "write" => up[k] < CookieLen + MaxData)
       /\ down[k] <= MaxData /\ (downTx[k] = "write" => down[k] < MaxData)

\* The cookie of a connection of the test is not missed while its client lives.
Presented ==
  \A k \in Conns :
    /\ upRx[k] = "cookie" => upRead[k] < CookieLen
    /\ upTx[k] # "new" /\ k[2] > 0 =>
         \/ up[k] >= CookieLen
         \/ ~ ClientSends(dir[k[1]]) /\ (downTx[k] = "end" \/ srv = "gone")
    /\ upRx[k] = "dropped" /\ CookieMatches(k) => cli[owner] = "killed"

\* A client reads what the server sends it to the end, and its own writers come
\* to theirs.
Listening ==
  \A c \in Clients : \A k \in Streams(c) :
    /\ ServerSends(dir[c]) =>
         /\ cli[c] \in {"stream", "report", "done"} => downRx[k] \in {"read", "end"}
         /\ cli[c] \in {"report", "done"} => downRx[k] = "end"
    /\ cli[c] \in {"report", "done"} => upTx[k] = "end"
    /\ cli[c] = "dial" => downRx[k] = "new"

RowsInv ==
  InLine /\ Served /\ Replied /\ OnlyAccepted /\ Bounded /\ Presented /\ Listening

LEMMA LineFacts ==
  ASSUME InLine
  PROVE  /\ Line \in Seq(Conns) /\ Len(Line) \in Nat
         /\ \A i \in 1 .. Len(Line) : Line[i] \in Conns
BY SMT DEF InLine, Line

LEMMA SameLine ==
  ASSUME InLine, UNCHANGED <<dialled, backlog, datas, owner>>, (srv' = "listen") = (srv = "listen")
  PROVE  InLine'
<1>1. Line' = Line
  BY DEF Line
<1>2. \A k : IsControl(k)' = IsControl(k)
  BY DEF IsControl
<1> QED
  BY <1>1, <1>2, Zenon DEF InLine

LEMMA DialInLine ==
  ASSUME InLine, Bounded, NEW c \in Clients, Dial(c)
  PROVE  InLine'
<1> DEFINE x == <<c, dialled[c]>>
           n == Len(Line)
           L == Line
<1>1. /\ backlog' = Append(backlog, x) /\ dialled' = [dialled EXCEPT ![c] = @ + 1]
      /\ dialled[c] <= Parallel[c] /\ UNCHANGED <<datas, srv, owner>>
  BY DEF Dial
<1>2. x \in Conns /\ dialled[c] \in Nat /\ x[1] = c /\ x[2] = dialled[c]
  BY <1>1, P3Assumption DEF Bounded, Conns, P3Assumption
<1>3. datas \in Seq(Conns) /\ backlog \in Seq(Conns) /\ L \in Seq(Conns) /\ n \in Nat
      /\ \A i \in 1 .. n : L[i] \in Conns
  BY LineFacts DEF InLine
<1> HIDE DEF x
<1>4. Line' = Append(L, x)
  <2>1. datas \o Append(backlog, x) = Append(datas \o backlog, x)
    BY <1>2, <1>3, SMT
  <2> QED
    BY <1>1, <2>1, Zenon DEF Line
<1> HIDE DEF L, n
<1>5. /\ Len(Line') = n + 1 /\ Line'[n + 1] = x
      /\ \A i \in 1 .. n : Line'[i] = L[i]
  BY <1>2, <1>3, <1>4, AppendProperties DEF n, L
<1>6. \A k : IsControl(k)' <=> IsControl(k)
  BY <1>1 DEF IsControl
<1>7. /\ \A e \in Clients : dialled[e] \in Nat /\ dialled'[e] \in Nat /\ dialled[e] <= dialled'[e]
      /\ dialled'[c] = dialled[c] + 1 /\ \A e \in Clients : e # c => dialled'[e] = dialled[e]
  BY <1>1 DEF Bounded
<1>8. /\ \A i \in 1 .. n : L[i][2] < dialled[L[i][1]] /\ ~ IsControl(L[i])
      /\ \A i, j \in 1 .. n : L[i] = L[j] => i = j
      /\ \A i \in 1 .. n : L[i][2] > 0 =>
            \/ IsControl(<<L[i][1], L[i][2] - 1>>)
            \/ \E j \in 1 .. i - 1 : L[j] = <<L[i][1], L[i][2] - 1>>
      /\ \A e \in Clients : \A m \in 0 .. dialled[e] - 1 :
            IsControl(<<e, m>>) \/ \E i \in 1 .. n : L[i] = <<e, m>>
      /\ srv # "listen" => owner \in Clients /\ dialled[owner] > 0
  BY DEF InLine, L, n
<1>9. \A i \in 1 .. n + 1 : i \in 1 .. n \/ i = n + 1
  BY <1>3
<1>10. backlog' \in Seq(Conns)
  BY <1>1, <1>2, <1>3
<1>11. srv' # "listen" => owner' \in Clients /\ dialled'[owner'] > 0
  BY <1>1, <1>7, <1>8
<1>12. ~ IsControl(x)
  BY <1>2, <1>8 DEF IsControl, x
<1>13. \A i \in 1 .. n : L[i] # x
  BY <1>2, <1>8
<1>14. ASSUME NEW i \in 1 .. n + 1
       PROVE  Line'[i][2] < dialled'[Line'[i][1]] /\ ~ IsControl(Line'[i])
  <2>1. CASE i \in 1 .. n
    <3>1. L[i][1] \in Clients /\ L[i][2] \in Nat
      BY <1>3, <2>1, ConnFacts
    <3> QED
      BY <1>5, <1>7, <1>8, <2>1, <3>1, SMTT(30)
  <2>2. CASE i = n + 1
    BY <1>2, <1>5, <1>7, <1>12, <2>2
  <2> QED
    BY <1>9, <2>1, <2>2
<1>15. \A i, j \in 1 .. n + 1 : Line'[i] = Line'[j] => i = j
  BY <1>5, <1>8, <1>9, <1>13
<1>16. ASSUME NEW i \in 1 .. n + 1, Line'[i][2] > 0
       PROVE  \/ IsControl(<<Line'[i][1], Line'[i][2] - 1>>)
              \/ \E j \in 1 .. i - 1 : Line'[j] = <<Line'[i][1], Line'[i][2] - 1>>
  <2>1. CASE i \in 1 .. n
    <3>1. \A j \in 1 .. i - 1 : j \in 1 .. n
      BY <1>3, <2>1
    <3> QED
      BY <1>5, <1>8, <1>16, <2>1, <3>1
  <2>2. CASE i = n + 1
    <3>1. dialled[c] - 1 \in 0 .. dialled[c] - 1
      BY <1>2, <1>5, <1>16, <2>2
    <3>2. IsControl(<<c, dialled[c] - 1>>) \/ \E j \in 1 .. n : L[j] = <<c, dialled[c] - 1>>
      BY <1>8, <3>1
    <3>3. (n + 1) - 1 = n
      BY <1>3
    <3> QED
      BY <1>2, <1>5, <2>2, <3>2, <3>3
  <2> QED
    BY <1>9, <2>1, <2>2
<1>17. ASSUME NEW e \in Clients, NEW m \in 0 .. dialled'[e] - 1
       PROVE  IsControl(<<e, m>>) \/ \E i \in 1 .. n + 1 : Line'[i] = <<e, m>>
  <2>1. CASE m \in 0 .. dialled[e] - 1
    <3>1. \A i \in 1 .. n : i \in 1 .. n + 1
      BY <1>3
    <3> QED
      BY <1>5, <1>8, <2>1, <3>1
  <2>2. CASE m \notin 0 .. dialled[e] - 1
    <3>1. e = c /\ m = dialled[c]
      BY <1>2, <1>7, <2>2
    <3>2. n + 1 \in 1 .. n + 1
      BY <1>3
    <3> QED
      BY <1>5, <3>1, <3>2 DEF x
  <2> QED
    BY <2>1, <2>2
<1> QED
  BY <1>1, <1>3, <1>5, <1>6, <1>10, <1>11, <1>14, <1>15, <1>16, <1>17, ZenonT(40) DEF InLine

\* The first connection of all is a control connection.
LEMMA ControlInLine ==
  ASSUME InLine, Served, Bounded, AcceptControl
  PROVE  InLine'
<1> DEFINE n == Len(backlog)
           L == backlog
           c == backlog[1][1]
<1>1. /\ srv = "listen" /\ srv' = "params" /\ L # <<>> /\ datas = <<>>
      /\ owner' = c /\ backlog' = Tail(L) /\ datas' = datas /\ dialled' = dialled
  BY DEF AcceptControl, Served, client
<1>2. L \in Seq(Conns) /\ n \in Nat /\ n >= 1
  BY <1>1 DEF InLine
<1>3. Line = L /\ Line' = Tail(L)
  <2>1. <<>> \o L = L /\ <<>> \o Tail(L) = Tail(L)
    BY <1>1, <1>2, SMT
  <2> QED
    BY <1>1, <2>1, Zenon DEF Line
<1>4. /\ Tail(L) \in Seq(Conns) /\ Len(Tail(L)) = n - 1
      /\ \A i \in 1 .. n - 1 : Tail(L)[i] = L[i + 1]
  BY <1>1, <1>2, HeadTailProperties, SMT
<1>5. \A k : ~ IsControl(k)
  BY <1>1 DEF IsControl
<1> HIDE DEF L, n
<1>6. /\ \A i \in 1 .. n : L[i][2] < dialled[L[i][1]]
      /\ \A i, j \in 1 .. n : L[i] = L[j] => i = j
      /\ \A i \in 1 .. n : L[i][2] > 0 =>
            \E j \in 1 .. i - 1 : L[j] = <<L[i][1], L[i][2] - 1>>
      /\ \A e \in Clients : \A m \in 0 .. dialled[e] - 1 :
            \E i \in 1 .. n : L[i] = <<e, m>>
  BY <1>3, <1>5, Zenon DEF InLine, n, L
<1>7. \A i \in 1 .. n : L[i] \in Conns
  BY <1>2 DEF n, L
<1>8. 1 \in 1 .. n
  BY <1>2
<1>9. L[1] = <<c, 0>> /\ c \in Clients
  <2>1. L[1][1] \in Clients /\ L[1][2] \in Nat /\ L[1] = <<L[1][1], L[1][2]>>
    BY <1>7, <1>8, ConnFacts
  <2>2. ~ (L[1][2] > 0)
    BY <1>6, <1>8
  <2> QED
    BY <2>1, <2>2 DEF L
<1>10. dialled[c] > 0
  BY <1>6, <1>8, <1>9 DEF Bounded
<1> HIDE DEF c
<1>11. \A k : IsControl(k)' <=> k = <<c, 0>>
  BY <1>1 DEF IsControl
<1>12. \A i \in 1 .. n - 1 : i + 1 \in 1 .. n /\ Line'[i] = L[i + 1]
  BY <1>2, <1>3, <1>4
<1>13. ASSUME NEW i \in 1 .. n - 1
       PROVE  Line'[i][2] < dialled[Line'[i][1]] /\ Line'[i] # <<c, 0>>
  <2>1. i + 1 # 1
    BY <1>2
  <2> QED
    BY <1>6, <1>8, <1>9, <1>12, <2>1
<1>14. \A i, j \in 1 .. n - 1 : Line'[i] = Line'[j] => i = j
  BY <1>6, <1>12
<1>15. ASSUME NEW i \in 1 .. n - 1, Line'[i][2] > 0
       PROVE  \/ <<Line'[i][1], Line'[i][2] - 1>> = <<c, 0>>
              \/ \E j \in 1 .. i - 1 : Line'[j] = <<Line'[i][1], Line'[i][2] - 1>>
  <2>1. PICK j \in 1 .. (i + 1) - 1 : L[j] = <<Line'[i][1], Line'[i][2] - 1>>
    <3>1. i + 1 \in 1 .. n /\ L[i + 1] = Line'[i] /\ L[i + 1][2] > 0
      BY <1>12, <1>15
    <3> QED
      BY <1>6, <3>1
  <2>2. CASE j = 1
    BY <1>9, <2>1, <2>2
  <2>3. CASE j # 1
    <3>1. j - 1 \in 1 .. i - 1 /\ j - 1 \in 1 .. n - 1 /\ (j - 1) + 1 = j
      BY <1>2, <2>3
    <3> QED
      BY <1>12, <2>1, <3>1
  <2> QED
    BY <2>2, <2>3
<1>16. ASSUME NEW e \in Clients, NEW m \in 0 .. dialled[e] - 1
       PROVE  <<e, m>> = <<c, 0>> \/ \E i \in 1 .. n - 1 : Line'[i] = <<e, m>>
  <2>1. PICK i \in 1 .. n : L[i] = <<e, m>>
    BY <1>6, Zenon
  <2>2. CASE i = 1
    BY <1>9, <2>1, <2>2
  <2>3. CASE i # 1
    <3>1. i - 1 \in 1 .. n - 1 /\ (i - 1) + 1 = i
      BY <1>2, <2>3
    <3> QED
      BY <1>12, <2>1, <3>1
  <2> QED
    BY <2>2, <2>3
<1>17. Len(Line') = n - 1 /\ datas' \in Seq(Conns) /\ backlog' \in Seq(Conns)
  BY <1>1, <1>3, <1>4 DEF InLine
<1>18. owner' \in Clients /\ dialled'[owner'] > 0
  BY <1>1, <1>9, <1>10
<1> QED
  BY <1>1, <1>11, <1>13, <1>14, <1>15, <1>16, <1>17, <1>18, Zenon DEF InLine

\* Those that are accepted keep their places.
LEMMA AcceptInLine ==
  ASSUME InLine, AcceptData
  PROVE  InLine'
<1>1. /\ backlog # <<>> /\ datas' = Append(datas, Head(backlog)) /\ backlog' = Tail(backlog)
      /\ UNCHANGED <<dialled, srv, owner>>
  BY DEF AcceptData, client
<1>2. datas \in Seq(Conns) /\ backlog \in Seq(Conns)
  BY DEF InLine
<1>3. /\ Head(backlog) \in Conns /\ Tail(backlog) \in Seq(Conns)
      /\ backlog = <<Head(backlog)>> \o Tail(backlog)
      /\ datas' \in Seq(Conns)
  BY <1>1, <1>2, HeadTailProperties
<1>4. Line' = Line
  <2> DEFINE h == Head(backlog)
             t == Tail(backlog)
  <2>1. h \in Conns /\ t \in Seq(Conns) /\ backlog = <<h>> \o t
    BY <1>3
  <2> HIDE DEF h, t
  <2>2. Append(datas, h) \o t = datas \o (<<h>> \o t)
    BY <1>2, <2>1, SMT
  <2> QED
    BY <1>1, <2>1, <2>2, Zenon DEF Line, h, t
<1>5. \A k : IsControl(k)' = IsControl(k)
  BY <1>1 DEF IsControl
<1> QED
  BY <1>1, <1>3, <1>4, <1>5, Zenon DEF InLine

LEMMA InLineStep ==
  ASSUME InLine, Served, Bounded, [Next]_vars
  PROVE  InLine'
<1> USE DEF client, server
<1>1. ASSUME NEW c \in Clients, ClientStep(c) \/ Dies(c)
      PROVE  InLine'
  <2>1. CASE Dial(c)
    BY <2>1, DialInLine
  <2>2. CASE SendParams(c) \/ DialFails(c) \/ RunStreams(c) \/ StreamsEnd(c) \/ Report(c) \/ Dies(c)
    <3>1. UNCHANGED <<dialled, backlog, datas, owner, srv>>
      BY <2>2, Zenon DEF SendParams, DialFails, RunStreams, StreamsEnd, Report, Dies
    <3> QED
      BY <3>1, SameLine
  <2> QED
    BY <1>1, <2>1, <2>2 DEF ClientStep
<1>2. ASSUME NEW k \in Conns,
             Sending(k) \/ Receiving(k) \/ ServerReceiving(k) \/ ServerSending(k)
      PROVE  InLine'
  <2>1. UNCHANGED <<dialled, backlog, datas, owner, srv>>
    BY <1>2, Zenon DEF Sending, Receiving, ServerReceiving, ServerSending, CliCookie, CliStops,
       CliBegins, CliWrites, CliReads, CliReadEnds, SrvCookie, SrvCookieEnds, SrvReads,
       SrvReadEnds, SrvStops, SrvBegins, SrvWrites
  <2> QED
    BY <2>1, SameLine
<1>3. CASE RecvParams \/ StartStreams \/ SrvStreamsEnd \/ SendResults
  <2>1. UNCHANGED <<dialled, backlog, datas, owner>> /\ srv # "listen" /\ srv' # "listen"
    BY <1>3, SMT DEF RecvParams, StartStreams, SrvStreamsEnd, SendResults
  <2> QED
    BY <2>1, SameLine
<1>4. CASE Ended \/ UNCHANGED vars
  BY <1>4, SameLine DEF Ended, vars
<1> QED
  BY <1>1, <1>2, <1>3, <1>4, ControlInLine, AcceptInLine DEF Next, ServerStep

----------------------------------------------------------------------------
(* How much is written.                                                    *)

Room(k) ==
  /\ up[k] <= CookieLen + MaxData /\ (upTx[k] = "write" => up[k] < CookieLen + MaxData)
  /\ down[k] <= MaxData /\ (downTx[k] = "write" => down[k] < MaxData)

LEMMA BoundedStep ==
  ASSUME P3Inv, Bounded, [Next]_vars
  PROVE  Bounded'
<1> USE DEF client, server, upward, downward
<1>1. CookieLen \in Nat \ {0} /\ MaxData \in Nat /\ Parallel \in [Clients -> Nat]
  BY P3Assumption DEF P3Assumption
<1>2. /\ dialled \in [Clients -> Nat] /\ \A c \in Clients : dialled[c] <= Parallel[c] + 1
      /\ \A k \in Conns : Room(k)
  BY DEF Bounded, Room
<1> SUFFICES /\ dialled' \in [Clients -> Nat] /\ \A c \in Clients : dialled'[c] <= Parallel[c] + 1
             /\ \A k \in Conns : Room(k)'
  BY Zenon DEF Bounded, Room
<1>3. ASSUME UNCHANGED dialled, UNCHANGED <<up, down>>,
             \A k \in Conns : upTx'[k] = "write" => upTx[k] = "write",
             \A k \in Conns : downTx'[k] = "write" => downTx[k] = "write"
      PROVE  /\ dialled' \in [Clients -> Nat] /\ \A c \in Clients : dialled'[c] <= Parallel[c] + 1
             /\ \A k \in Conns : Room(k)'
  BY <1>2, <1>3, Zenon DEF Room
<1>4. ASSUME NEW c \in Clients, Dial(c)
      PROVE  /\ dialled' \in [Clients -> Nat] /\ \A e \in Clients : dialled'[e] <= Parallel[e] + 1
             /\ \A k \in Conns : Room(k)'
  <2>1. dialled' = [dialled EXCEPT ![c] = @ + 1] /\ dialled[c] <= Parallel[c]
        /\ UNCHANGED <<up, upTx, down, downTx>>
    BY <1>4 DEF Dial
  <2> QED
    BY <1>1, <1>2, <2>1 DEF Room
<1> DEFINE Goal == /\ dialled' \in [Clients -> Nat]
                   /\ \A e \in Clients : dialled'[e] <= Parallel[e] + 1
                   /\ \A k \in Conns : Room(k)'
<1>5. ASSUME NEW c \in Clients, SendParams(c)
      PROVE  Goal
  <2> DEFINE k == <<c, 0>>
  <2>1. /\ up' = [up EXCEPT ![k] = CookieLen] /\ upTx' = [upTx EXCEPT ![k] = "end"]
        /\ UNCHANGED <<dialled, down, downTx>>
    BY <1>5, Zenon DEF SendParams
  <2>2. k \in Conns
    BY ControlConn
  <2> HIDE DEF k
  <2> QED
    BY <1>1, <1>2, <2>1, <2>2, SMT DEF Room, P3Inv, Types
<1>6. ASSUME NEW c \in Clients,
             DialFails(c) \/ RunStreams(c) \/ StreamsEnd(c) \/ Report(c) \/ Dies(c)
      PROVE  Goal
  BY <1>3, <1>6, Zenon DEF DialFails, RunStreams, StreamsEnd, Report, Dies
<1>7. ASSUME NEW k \in Conns, Sending(k)
      PROVE  Goal
  <2>1. CASE CliCookie(k)
    BY <1>1, <1>2, <2>1, SMT DEF CliCookie, Room, P3Inv, Types
  <2>2. CASE CliStops(k)
    BY <1>1, <1>2, <2>2, SMT DEF CliStops, Room, P3Inv, Types
  <2>3. CASE CliBegins(k)
    BY <1>1, <1>2, <2>3, SMT DEF CliBegins, Room, P3Inv, Types
  <2>4. CASE CliWrites(k)
    BY <1>1, <1>2, <2>4, SMT DEF CliWrites, Room, P3Inv, Types
  <2> QED
    BY <1>7, <2>1, <2>2, <2>3, <2>4 DEF Sending
<1>8. ASSUME NEW k \in Conns, Receiving(k)
      PROVE  Goal
  <2>1. CASE CliReads(k)
    BY <1>3, <2>1, Zenon DEF CliReads
  <2>2. CASE CliReadEnds(k)
    BY <1>2, <2>2, SMT DEF CliReadEnds, Room, P3Inv, Types
  <2> QED
    BY <1>8, <2>1, <2>2 DEF Receiving
<1>9. ASSUME NEW k \in Conns, ServerReceiving(k)
      PROVE  Goal
  <2>1. UNCHANGED <<dialled, up, upTx, down>>
    BY <1>9, Zenon DEF ServerReceiving, SrvCookie, SrvCookieEnds, SrvReads, SrvReadEnds
  <2>2. \A j \in Conns : downTx'[j] = "write" => downTx[j] = "write"
    BY <1>9, SMT DEF ServerReceiving, SrvCookie, SrvCookieEnds, SrvReads, SrvReadEnds, P3Inv, Types
  <2> QED
    BY <1>3, <2>1, <2>2
<1>10. ASSUME NEW k \in Conns, ServerSending(k)
       PROVE  Goal
  <2>1. CASE SrvStops(k)
    BY <1>1, <1>2, <2>1, SMT DEF SrvStops, Room, P3Inv, Types
  <2>2. CASE SrvBegins(k)
    BY <1>1, <1>2, <2>2, SMT DEF SrvBegins, Room, P3Inv, Types
  <2>3. CASE SrvWrites(k)
    BY <1>1, <1>2, <2>3, SMT DEF SrvWrites, Room, P3Inv, Types
  <2> QED
    BY <1>10, <2>1, <2>2, <2>3 DEF ServerSending
<1>11. CASE ServerStep \/ Ended \/ UNCHANGED vars
  BY <1>3, <1>11, Zenon DEF ServerStep, AcceptControl, RecvParams, AcceptData, StartStreams,
     SrvStreamsEnd, SendResults, Ended, vars
<1> QED
  BY <1>4, <1>5, <1>6, <1>7, <1>8, <1>9, <1>10, <1>11, Zenon DEF Next, ClientStep

----------------------------------------------------------------------------
(* Whose connections are dropped, and what is read to the end.             *)

PresentedAt(k) ==
  /\ upRx[k] = "cookie" => upRead[k] < CookieLen
  /\ upTx[k] # "new" /\ k[2] > 0 =>
       \/ up[k] >= CookieLen
       \/ ~ ClientSends(dir[k[1]]) /\ (downTx[k] = "end" \/ srv = "gone")
  /\ upRx[k] = "dropped" /\ CookieMatches(k) => cli[owner] = "killed"

\* A killed client stays killed, and a server that is gone stays gone.
LEMMA NoReturn ==
  ASSUME P3Inv, [Next]_vars
  PROVE  /\ \A c \in Clients : cli[c] = "killed" => cli'[c] = "killed"
         /\ srv = "gone" => srv' = "gone"
         /\ srv # "listen" => owner' = owner /\ srv' # "listen"
         /\ dir' = dir
<1> USE DEF client, server
<1>1. cli \in [Clients -> {"dial", "stream", "report", "done", "failed", "killed"}]
  BY DEF P3Inv, Types
<1>2. ASSUME NEW c \in Clients, ClientStep(c) \/ Dies(c)
      PROVE  /\ \A e \in Clients : cli[e] = "killed" => cli'[e] = "killed"
             /\ UNCHANGED <<srv, owner, dir>>
  BY <1>1, <1>2, SMT DEF ClientStep, Dial, SendParams, DialFails, RunStreams, StreamsEnd, Report,
     Dies, Here
<1>3. ASSUME NEW k \in Conns,
             Sending(k) \/ Receiving(k) \/ ServerReceiving(k) \/ ServerSending(k)
      PROVE  UNCHANGED <<cli, srv, owner, dir>>
  BY <1>3, Zenon DEF Sending, Receiving, ServerReceiving, ServerSending, CliCookie, CliStops,
     CliBegins, CliWrites, CliReads, CliReadEnds, SrvCookie, SrvCookieEnds, SrvReads,
     SrvReadEnds, SrvStops, SrvBegins, SrvWrites
<1>4. ASSUME ServerStep
      PROVE  /\ UNCHANGED <<cli, dir>> /\ srv # "gone" /\ srv' # "listen"
             /\ srv = "listen" \/ owner' = owner
  BY <1>4, SMT DEF ServerStep, AcceptControl, RecvParams, AcceptData, StartStreams,
     SrvStreamsEnd, SendResults
<1> QED
  BY <1>2, <1>3, <1>4 DEF Next, Ended, vars

LEMMA PresentedStep ==
  ASSUME P3Inv, P3Inv', Presented, Served, [Next]_vars
  PROVE  Presented'
<1> USE DEF client, server, upward, downward
<1>1. \A k \in Conns : PresentedAt(k)
  BY DEF Presented, PresentedAt
<1> SUFFICES \A k \in Conns : PresentedAt(k)'
  BY DEF Presented, PresentedAt
<1>2. \A k \in Conns : upRx[k] = "dropped" /\ CookieMatches(k)' => cli'[owner'] = "killed"
  <2> SUFFICES ASSUME NEW k \in Conns, upRx[k] = "dropped", CookieMatches(k)'
               PROVE  cli'[owner'] = "killed"
    OBVIOUS
  <2>1. srv # "listen"
    BY Values DEF Authentic
  <2>2. owner' = owner /\ CookieMatches(k) /\ owner \in Clients
    BY <2>1, NoReturn, ConnFacts DEF CookieMatches
  <2>3. cli[owner] = "killed"
    BY <1>1, <2>2 DEF PresentedAt
  <2> QED
    BY <2>2, <2>3, NoReturn
<1> DEFINE Kept(k) ==
      /\ upRx'[k] = "cookie" => upRx[k] = "cookie" /\ upRead'[k] = upRead[k]
      /\ upTx'[k] # "new" => upTx[k] # "new"
      /\ up'[k] = up[k]
      /\ downTx[k] = "end" => downTx'[k] = "end"
      /\ upRx'[k] = "dropped" => upRx[k] = "dropped"
<1>3. ASSUME NEW k \in Conns, Kept(k)
      PROVE  PresentedAt(k)'
  BY <1>1, <1>2, <1>3, NoReturn DEF PresentedAt
<1>4. ASSUME NEW c \in Clients, ClientStep(c) \/ Dies(c), NEW k \in Conns
      PROVE  PresentedAt(k)'
  <2>1. CASE SendParams(c)
    <3>1. CASE k = <<c, 0>>
      BY <1>1, <1>2, <2>1, <3>1, Values, SMT DEF SendParams, PresentedAt
    <3>2. CASE k # <<c, 0>>
      <4>1. Kept(k)
        BY <2>1, <3>2, ControlConn, SMT DEF SendParams, P3Inv, Types
      <4> QED
        BY <1>3, <4>1
    <3> QED
      BY <3>1, <3>2
  <2>2. CASE Dial(c) \/ DialFails(c) \/ RunStreams(c) \/ StreamsEnd(c) \/ Report(c) \/ Dies(c)
    <3>1. Kept(k)
      BY <2>2, Zenon DEF Dial, DialFails, RunStreams, StreamsEnd, Report, Dies
    <3> QED
      BY <1>3, <3>1
  <2> QED
    BY <1>4, <2>1, <2>2 DEF ClientStep
<1>5. ASSUME NEW j \in Conns, NEW k \in Conns, k # j,
             Sending(j) \/ Receiving(j) \/ ServerReceiving(j) \/ ServerSending(j)
      PROVE  PresentedAt(k)'
  <2>1. Kept(k)
    BY <1>5, SMT DEF Sending, Receiving, ServerReceiving, ServerSending, CliCookie, CliStops,
       CliBegins, CliWrites, CliReads, CliReadEnds, SrvCookie, SrvCookieEnds, SrvReads,
       SrvReadEnds, SrvStops, SrvBegins, SrvWrites, P3Inv, Types
  <2> QED
    BY <1>3, <2>1
<1>6. ASSUME NEW k \in Conns, Sending(k)
      PROVE  PresentedAt(k)'
  <2>1. CASE CliCookie(k)
    BY <1>1, <1>2, <2>1, Values, SMT DEF CliCookie, PresentedAt, P3Inv, Types
  <2>2. CASE CliStops(k) \/ CliBegins(k) \/ CliWrites(k)
    BY <1>1, <1>2, <2>2, Values, SMT DEF CliStops, CliBegins, CliWrites, PresentedAt, P3Inv, Types
  <2> QED
    BY <1>6, <2>1, <2>2 DEF Sending
<1>7. ASSUME NEW k \in Conns, Receiving(k)
      PROVE  PresentedAt(k)'
  <2>1. CASE CliReads(k)
    BY <1>3, <2>1 DEF CliReads
  <2>2. CASE CliReadEnds(k)
    BY <1>1, <1>2, <2>2, Values, SMT DEF CliReadEnds, PresentedAt, P3Inv, Types
  <2> QED
    BY <1>7, <2>1, <2>2 DEF Receiving
<1>8. ASSUME NEW k \in Conns, ServerSending(k)
      PROVE  PresentedAt(k)'
  <2>1. Kept(k)
    BY <1>8, SMT DEF ServerSending, SrvStops, SrvBegins, SrvWrites, P3Inv, Types
  <2> QED
    BY <1>3, <2>1
<1>9. ASSUME NEW k \in Conns, ServerReceiving(k)
      PROVE  PresentedAt(k)'
  <2>1. srv = "stream" /\ UNCHANGED <<cli, srv, owner, up, upTx>>
    BY <1>9, Zenon DEF ServerReceiving, SrvCookie, SrvCookieEnds, SrvReads, SrvReadEnds
  <2>2. CASE SrvCookie(k)
    <3>1. upRx[k] = "cookie" /\ downTx[k] = "new"
      BY <2>2, Values DEF SrvCookie, Authentic
    <3>2. upRx'[k] = "cookie" => upRead'[k] < CookieLen
      BY <2>2, Values, SMT DEF SrvCookie, P3Inv, Types
    <3>3. upRx'[k] = "dropped" => ~ CookieMatches(k)
      BY <2>2, <3>1, SMT DEF SrvCookie, P3Inv, Types
    <3> QED
      BY <1>1, <2>1, <3>1, <3>2, <3>3 DEF PresentedAt, CookieMatches
  <2>3. CASE SrvCookieEnds(k)
    <3>1. upRx[k] = "cookie" /\ downTx[k] = "new" /\ upRx'[k] = "dropped" /\ downTx' = downTx
      BY <2>3, Values, SMT DEF SrvCookieEnds, Authentic, P3Inv, Types
    <3>2. CookieMatches(k) => cli[owner] = "killed"
      <4> SUFFICES ASSUME CookieMatches(k)
                   PROVE  cli[owner] = "killed"
        OBVIOUS
      <4>1. k[1] = owner /\ k[2] > 0 /\ owner \in Clients
        BY ConnFacts DEF CookieMatches
      <4>2. CASE ~ Here(owner)
        BY <2>1, <4>1, <4>2, SMT DEF Here, P3Inv, Types, Left
      <4>3. CASE upTx[k] = "end" /\ upRead[k] = up[k]
        BY <1>1, <2>1, <3>1, <4>1, <4>3, Values, SMT DEF PresentedAt
      <4> QED
        BY <2>3, <4>1, <4>2, <4>3 DEF SrvCookieEnds, UpEnds
    <3> QED
      BY <1>1, <2>1, <3>1, <3>2 DEF PresentedAt, CookieMatches
  <2>4. CASE SrvReads(k) \/ SrvReadEnds(k)
    <3>1. Kept(k)
      BY <2>4, SMT DEF SrvReads, SrvReadEnds, P3Inv, Types
    <3> QED
      BY <1>3, <3>1
  <2> QED
    BY <1>9, <2>2, <2>3, <2>4 DEF ServerReceiving
<1>10. CASE StartStreams
  <2> TAKE k \in Conns
  <2>1. upRx'[k] \in {"new", "cookie"} /\ upRead'[k] = 0 /\ UNCHANGED <<up, upTx, downTx>>
    BY <1>10, Values, SMT DEF StartStreams, Authentic
  <2> QED
    BY <1>1, <1>10, <2>1, Values DEF PresentedAt, StartStreams
<1>11. ASSUME NEW k \in Conns,
              AcceptControl \/ RecvParams \/ AcceptData \/ SrvStreamsEnd \/ SendResults
              \/ Ended \/ UNCHANGED vars
       PROVE  PresentedAt(k)'
  <2>1. Kept(k)
    BY <1>11, Zenon DEF AcceptControl, RecvParams, AcceptData, SrvStreamsEnd, SendResults, Ended,
       vars
  <2> QED
    BY <1>3, <2>1
<1> QED
  BY <1>4, <1>5, <1>6, <1>7, <1>8, <1>9, <1>10, <1>11 DEF Next, ServerStep

LEMMA StreamConn ==
  ASSUME NEW c \in Clients, NEW k \in Streams(c)
  PROVE  k \in Conns /\ k[1] = c /\ k[2] > 0
BY P3Assumption, SMT DEF Streams, Conns, P3Assumption

ListeningAt(c, k) ==
  /\ ServerSends(dir[c]) =>
       /\ cli[c] \in {"stream", "report", "done"} => downRx[k] \in {"read", "end"}
       /\ cli[c] \in {"report", "done"} => downRx[k] = "end"
  /\ cli[c] \in {"report", "done"} => upTx[k] = "end"
  /\ cli[c] = "dial" => downRx[k] = "new"

LEMMA ListeningStep ==
  ASSUME P3Inv, Listening, [Next]_vars
  PROVE  Listening'
<1> USE DEF client, server, upward, downward
<1>1. \A c \in Clients : \A k \in Streams(c) : ListeningAt(c, k)
  BY DEF Listening, ListeningAt
<1>2. /\ cli \in [Clients -> {"dial", "stream", "report", "done", "failed", "killed"}]
      /\ downRx \in [Conns -> {"new", "read", "end"}]
      /\ upTx \in [Conns -> {"new", "send", "write", "hold", "end"}]
  BY DEF P3Inv, Types
<1>3. dir' = dir
  BY NoReturn
<1> SUFFICES ASSUME NEW c \in Clients, NEW k \in Streams(c)
             PROVE  ListeningAt(c, k)'
  BY DEF Listening, ListeningAt
<1>4. k \in Conns /\ k[1] = c /\ k[2] > 0
  BY StreamConn
<1>5. ASSUME UNCHANGED downRx, upTx'[k] = upTx[k] \/ upTx'[k] = "end",
             cli'[c] = cli[c] \/ cli'[c] \in {"failed", "killed"}
      PROVE  ListeningAt(c, k)'
  BY <1>1, <1>3, <1>5 DEF ListeningAt
<1>6. ASSUME NEW e \in Clients, RunStreams(e)
      PROVE  ListeningAt(c, k)'
  <2>1. e # c => k \notin Streams(e)
    BY <1>4, StreamConn
  <2> QED
    BY <1>1, <1>2, <1>3, <1>4, <1>6, <2>1, SMT DEF RunStreams, ListeningAt
<1>7. ASSUME NEW e \in Clients, StreamsEnd(e)
      PROVE  ListeningAt(c, k)'
  BY <1>1, <1>2, <1>3, <1>4, <1>7, SMT DEF StreamsEnd, ListeningAt
<1>8. ASSUME NEW e \in Clients, Report(e)
      PROVE  ListeningAt(c, k)'
  BY <1>1, <1>2, <1>3, <1>4, <1>8, SMT DEF Report, ListeningAt
<1>9. ASSUME NEW e \in Clients, Dial(e) \/ SendParams(e) \/ DialFails(e) \/ Dies(e)
      PROVE  ListeningAt(c, k)'
  BY <1>2, <1>4, <1>5, <1>9, SMT DEF Dial, SendParams, DialFails, Dies
<1>10. ASSUME NEW j \in Conns, CliReadEnds(j)
       PROVE  ListeningAt(c, k)'
  BY <1>1, <1>2, <1>3, <1>4, <1>10, SMT DEF CliReadEnds, ListeningAt
<1>11. ASSUME NEW j \in Conns, CliReads(j) \/ ServerReceiving(j) \/ ServerSending(j)
       PROVE  ListeningAt(c, k)'
  <2>1. UNCHANGED <<cli, downRx, upTx>>
    BY <1>11, Zenon DEF ServerReceiving, ServerSending, CliReads, SrvCookie, SrvCookieEnds,
       SrvReads, SrvReadEnds, SrvStops, SrvBegins, SrvWrites
  <2> QED
    BY <1>5, <2>1
<1>12. ASSUME NEW j \in Conns, Sending(j)
       PROVE  ListeningAt(c, k)'
  <2>1. /\ UNCHANGED <<cli, downRx>> /\ cli[j[1]] = "stream"
        /\ j # k => upTx'[k] = upTx[k]
    BY <1>2, <1>4, <1>12, SMT DEF Sending, CliCookie, CliStops, CliBegins, CliWrites
  <2> QED
    BY <1>1, <1>3, <1>4, <2>1 DEF ListeningAt
<1>13. CASE ServerStep \/ Ended \/ UNCHANGED vars
  BY <1>5, <1>13, Zenon DEF ServerStep, AcceptControl, RecvParams, AcceptData, StartStreams,
     SrvStreamsEnd, SendResults, Ended, vars
<1> QED
  BY <1>6, <1>7, <1>8, <1>9, <1>10, <1>11, <1>12, <1>13 DEF Next, ClientStep, Receiving

----------------------------------------------------------------------------
(* The server's answer.                                                    *)

\* Once the server has its streams' ends, their rows do not change.
LEMMA SameServed ==
  ASSUME Served, UNCHANGED <<srv, datas, reply, owner>>,
         srv = "gone" => UNCHANGED <<dir, down, total>>,
         srv \in {"report", "gone"} => UNCHANGED <<upRx, downTx>>
  PROVE  Served'
<1>1. Accepted' = Accepted
  BY DEF Accepted
<1>2. srv = "gone" => ServerReply' = ServerReply
  BY DEF ServerReply, ServerRows
<1> QED
  BY <1>1, <1>2, Zenon DEF Served

LEMMA ServedStep ==
  ASSUME P3Inv, Served, [Next]_vars
  PROVE  Served'
<1> USE DEF client, server, upward, downward
<1>1. ASSUME NEW c \in Clients, ClientStep(c) \/ Dies(c)
      PROVE  Served'
  <2>1. UNCHANGED <<srv, datas, reply, owner, dir, down, total, upRx, downTx>>
    BY <1>1, Zenon DEF ClientStep, Dial, SendParams, DialFails, RunStreams, StreamsEnd, Report, Dies
  <2> QED
    BY <2>1, SameServed, Zenon
<1>2. ASSUME NEW k \in Conns, Sending(k) \/ Receiving(k)
      PROVE  Served'
  <2>1. UNCHANGED <<srv, datas, reply, owner, dir, down, total, upRx, downTx>>
    BY <1>2, Zenon DEF Sending, Receiving, CliCookie, CliStops, CliBegins, CliWrites, CliReads,
       CliReadEnds
  <2> QED
    BY <2>1, SameServed, Zenon
<1>3. ASSUME NEW k \in Conns, ServerReceiving(k) \/ ServerSending(k)
      PROVE  Served'
  <2>1. srv = "stream" /\ UNCHANGED <<srv, datas, reply, owner>>
    BY <1>3, Zenon DEF ServerReceiving, ServerSending, SrvCookie, SrvCookieEnds, SrvReads,
       SrvReadEnds, SrvStops, SrvBegins, SrvWrites
  <2> QED
    BY <2>1, SameServed
<1>4. CASE AcceptControl \/ AcceptData \/ StartStreams
  BY <1>4, SMT DEF AcceptControl, AcceptData, StartStreams, Served
<1>5. CASE RecvParams
  <2>1. srv = "params" /\ datas = <<>> /\ datas' = <<>> /\ reply' = reply /\ reply = Nothing
    BY <1>5 DEF RecvParams, Served
  <2>2. srv' = "accept" \/ srv' = "gone"
    BY <1>5 DEF RecvParams
  <2>3. Len(<<>>) = 0
    OBVIOUS
  <2>4. Accepted' = {}
    BY <2>1, <2>3, SMT DEF Accepted
  <2>5. ServerReply' = Nothing
    <3>1. [i \in 1 .. Len(datas') |-> ServerRows(datas[i])'] = <<>>
      BY <2>1, <2>3, SMT
    <3> DEFINE q == [i \in 1 .. Len(datas') |-> ServerRows(datas[i])']
    <3>2. q = <<>>
      BY <3>1
    <3>3. ServerReply' = FlattenSeq(q)
      BY DEF ServerReply
    <3> HIDE DEF q
    <3> QED
      BY <2>3, <3>2, <3>3 DEF FlattenSeq, Nothing
  <2> QED
    BY <2>1, <2>2, <2>4, <2>5 DEF Served
<1>6. CASE SrvStreamsEnd
  <2>1. Accepted' = Accepted
    BY <1>6 DEF SrvStreamsEnd, Accepted
  <2> QED
    BY <1>6, <2>1, SMT DEF SrvStreamsEnd, Served
<1>7. CASE SendResults
  <2>1. Accepted' = Accepted /\ ServerReply' = ServerReply
    BY <1>7 DEF SendResults, Accepted, ServerReply, ServerRows
  <2>2. srv = "report" /\ srv' = "gone" /\ reply' = ServerReply
    BY <1>7 DEF SendResults, ServerReply
  <2> QED
    BY <1>7, <2>1, <2>2 DEF SendResults, Served
<1>8. CASE Ended \/ UNCHANGED vars
  BY <1>8, SameServed, Zenon DEF Ended, vars
<1> QED
  BY <1>1, <1>2, <1>3, <1>4, <1>5, <1>6, <1>7, <1>8 DEF Next, ServerStep

LEMMA RepliedStep ==
  ASSUME P3Inv, Served, Replied, [Next]_vars
  PROVE  Replied'
<1> USE DEF client, server
<1>1. /\ remote \in [Clients -> {reply, Nothing}]
      /\ cli \in [Clients -> {"dial", "stream", "report", "done", "failed", "killed"}]
  BY DEF P3Inv, Types, Replied
<1>2. ASSUME UNCHANGED <<remote, reply, owner>>,
             \A c \in Clients : cli'[c] = "done" => cli[c] = "done"
      PROVE  Replied'
  BY <1>2, Zenon DEF Replied
<1>3. ASSUME NEW c \in Clients, Report(c)
      PROVE  Replied'
  BY <1>1, <1>3, SMT DEF Report, Replied
<1>4. ASSUME NEW c \in Clients,
             Dial(c) \/ SendParams(c) \/ DialFails(c) \/ RunStreams(c) \/ StreamsEnd(c) \/ Dies(c)
      PROVE  Replied'
  <2>1. UNCHANGED <<remote, reply, owner>>
    BY <1>4, Zenon DEF Dial, SendParams, DialFails, RunStreams, StreamsEnd, Dies
  <2>2. \A e \in Clients : cli'[e] = "done" => cli[e] = "done"
    BY <1>1, <1>4, SMT DEF Dial, SendParams, DialFails, RunStreams, StreamsEnd, Dies
  <2> QED
    BY <1>2, <2>1, <2>2
<1>5. ASSUME NEW k \in Conns,
             Sending(k) \/ Receiving(k) \/ ServerReceiving(k) \/ ServerSending(k)
      PROVE  Replied'
  <2>1. UNCHANGED <<cli, remote, reply, owner>>
    BY <1>5, Zenon DEF Sending, Receiving, ServerReceiving, ServerSending, CliCookie, CliStops,
       CliBegins, CliWrites, CliReads, CliReadEnds, SrvCookie, SrvCookieEnds, SrvReads,
       SrvReadEnds, SrvStops, SrvBegins, SrvWrites
  <2> QED
    BY <1>2, <2>1
<1>6. CASE RecvParams \/ AcceptData \/ StartStreams \/ SrvStreamsEnd \/ Ended \/ UNCHANGED vars
  BY <1>2, <1>6, Zenon DEF RecvParams, AcceptData, StartStreams, SrvStreamsEnd, Ended, vars
<1>7. CASE AcceptControl \/ SendResults
  <2>1. srv # "gone" /\ UNCHANGED <<cli, remote>>
    BY <1>7, SMT DEF AcceptControl, SendResults
  <2>2. \A c \in Clients : cli'[c] # "done"
    BY <2>1 DEF P3Inv, Left
  <2>3. reply = Nothing
    BY <2>1 DEF Served
  <2>4. remote' \in [Clients -> {reply', Nothing}]
    BY <1>1, <2>1, <2>3
  <2> QED
    BY <2>2, <2>4 DEF Replied
<1> QED
  BY <1>3, <1>4, <1>5, <1>6, <1>7 DEF Next, ClientStep, ServerStep

LEMMA OnlyAcceptedStep ==
  ASSUME P3Inv, OnlyAccepted, [Next]_vars
  PROVE  OnlyAccepted'
<1> USE DEF client, server, upward, downward
<1>1. upRx \in [Conns -> {"new", "cookie", "read", "end", "dropped"}]
  BY DEF P3Inv, Types
<1>2. ASSUME UNCHANGED <<datas, upRx>>
      PROVE  OnlyAccepted'
  BY <1>2, Zenon DEF OnlyAccepted, Accepted
<1>3. ASSUME NEW c \in Clients, ClientStep(c) \/ Dies(c)
      PROVE  OnlyAccepted'
  BY <1>2, <1>3, Zenon DEF ClientStep, Dial, SendParams, DialFails, RunStreams, StreamsEnd,
     Report, Dies
<1>4. ASSUME NEW k \in Conns, Sending(k) \/ Receiving(k) \/ ServerSending(k)
      PROVE  OnlyAccepted'
  BY <1>2, <1>4, Zenon DEF Sending, Receiving, ServerSending, CliCookie, CliStops, CliBegins,
     CliWrites, CliReads, CliReadEnds, SrvStops, SrvBegins, SrvWrites
<1>5. ASSUME NEW k \in Conns, ServerReceiving(k)
      PROVE  OnlyAccepted'
  <2>1. datas' = datas /\ upRx[k] # "new" /\ \A j \in Conns : j # k => upRx'[j] = upRx[j]
    BY <1>1, <1>5, SMT DEF ServerReceiving, SrvCookie, SrvCookieEnds, SrvReads, SrvReadEnds
  <2>2. Accepted' = Accepted
    BY <2>1 DEF Accepted
  <2> QED
    BY <2>1, <2>2, Zenon DEF OnlyAccepted
<1>6. CASE AcceptData
  <2>1. \A k \in Conns : upRx'[k] = "new"
    BY <1>6, Values DEF AcceptData, Authentic
  <2> QED
    BY <2>1 DEF OnlyAccepted
<1>7. CASE StartStreams
  <2>1. Accepted' = Accepted /\ \A k \in Conns : k \notin Accepted => upRx'[k] = upRx[k]
    BY <1>1, <1>7 DEF StartStreams, Accepted
  <2> QED
    BY <2>1, Zenon DEF OnlyAccepted
<1>8. CASE AcceptControl \/ RecvParams \/ SrvStreamsEnd \/ SendResults \/ Ended \/ UNCHANGED vars
  BY <1>2, <1>8, Zenon DEF AcceptControl, RecvParams, SrvStreamsEnd, SendResults, Ended, vars
<1> QED
  BY <1>3, <1>4, <1>5, <1>6, <1>7, <1>8 DEF Next, ServerStep

LEMMA RowsInit == Init => RowsInv
<1> SUFFICES ASSUME Init
             PROVE  RowsInv
  OBVIOUS
<1>1. P3Inv
  BY InitInv
<1>2. /\ srv = "listen" /\ owner = Nobody /\ datas = <<>> /\ backlog = <<>> /\ reply = Nothing
      /\ cli = [c \in Clients |-> "dial"] /\ dialled = [c \in Clients |-> 0]
      /\ remote = [c \in Clients |-> Nothing]
      /\ \A k \in Conns : /\ up[k] = 0 /\ down[k] = 0 /\ upTx[k] = "new" /\ downTx[k] = "new"
                          /\ upRx[k] = "new" /\ downRx[k] = "new"
  BY DEF Init
<1>3. CookieLen \in Nat \ {0} /\ MaxData \in Nat /\ Parallel \in [Clients -> Nat]
  BY P3Assumption DEF P3Assumption
<1>4. InLine
  <2>1. Line = <<>> /\ Len(Line) = 0 /\ <<>> \in Seq(Conns)
    BY <1>2, SMT DEF Line
  <2> QED
    BY <1>2, <2>1, SMT DEF InLine
<1>5. Served /\ Replied /\ OnlyAccepted
  BY <1>2, SMT DEF Served, Replied, OnlyAccepted
<1>6. Bounded
  BY <1>2, <1>3, SMT DEF Bounded
<1>7. Presented
  BY <1>2, SMT DEF Presented
<1>8. Listening
  BY <1>2, StreamConn, SMT DEF Listening
<1> QED
  BY <1>4, <1>5, <1>6, <1>7, <1>8 DEF RowsInv

LEMMA RowsStep == P3Inv /\ P3Inv' /\ RowsInv /\ [Next]_vars => RowsInv'
BY InLineStep, ServedStep, RepliedStep, OnlyAcceptedStep, BoundedStep, PresentedStep,
   ListeningStep
DEF RowsInv

\* Connections stand in line, none of the test's is dropped, and the server's
\* answer is made of the rows of those it took.
THEOREM P3Invariance == Spec => [](P3Inv /\ RowsInv)
BY InitInv, StepInv, RowsInit, RowsStep, PTL DEF Spec

----------------------------------------------------------------------------
(* Rows.                                                                   *)

LEMMA Directed ==
  ASSUME P3Inv, NEW c \in Clients
  PROVE  \/ dir[c] = "forward" /\ ClientSends(dir[c]) /\ ~ ServerSends(dir[c])
         \/ dir[c] = "reverse" /\ ~ ClientSends(dir[c]) /\ ServerSends(dir[c])
         \/ dir[c] = "bidir" /\ ClientSends(dir[c]) /\ ServerSends(dir[c])
BY SMT DEF P3Inv, Types, ClientSends, ServerSends

\* One row or two.
LEMMA OneOrTwo ==
  ASSUME NEW x, NEW y
  PROVE  /\ <<x>> \o <<>> = <<x>> /\ <<>> \o <<y>> = <<y>> /\ <<x>> \o <<y>> = <<x, y>>
         /\ Len(<<x>>) = 1 /\ <<x>>[1] = x
         /\ Len(<<x, y>>) = 2 /\ <<x, y>>[1] = x /\ <<x, y>>[2] = y
<1> DEFINE S == {x, y}
<1>1. <<>> \in Seq(S) /\ <<x>> \in Seq(S) /\ <<y>> \in Seq(S) /\ <<x, y>> \in Seq(S)
  OBVIOUS
<1>2. <<x>> \o <<>> = <<x>> /\ <<>> \o <<y>> = <<y>>
  BY <1>1, ConcatEmptySeq
<1>3. <<x>> \o <<y>> = <<x, y>>
  <2> DEFINE a == <<x>>
             b == <<y>>
             t == <<x, y>>
  <2>1. /\ a \in Seq(S) /\ b \in Seq(S) /\ t \in Seq(S)
        /\ Len(a) = 1 /\ Len(b) = 1 /\ Len(t) = 2
        /\ a[1] = x /\ b[1] = y /\ t[1] = x /\ t[2] = y
    BY <1>1
  <2> HIDE DEF S, a, b, t
  <2>2. /\ a \o b \in Seq(S) /\ Len(a \o b) = Len(a) + Len(b)
        /\ \A i \in 1 .. Len(a) + Len(b) :
             (a \o b)[i] = IF i <= Len(a) THEN a[i] ELSE b[i - Len(a)]
    BY <2>1, ConcatProperties
  <2>3. \A i \in 1 .. Len(t) : (a \o b)[i] = t[i]
    BY <2>1, <2>2
  <2>4. a \o b = t
    BY <2>1, <2>2, <2>3, SeqEqual
  <2> QED
    BY <2>4 DEF a, b, t
<1>4. /\ Len(<<x>>) = 1 /\ <<x>>[1] = x
      /\ Len(<<x, y>>) = 2 /\ <<x, y>>[1] = x /\ <<x, y>>[2] = y
  OBVIOUS
<1> QED
  BY <1>2, <1>3, <1>4

\* No row counts more than MaxData.
LEMMA ServerRowsTyped ==
  ASSUME P3Inv, Bounded, NEW k \in Conns, owner \in Clients
  PROVE  ServerRows(k) \in Seq(Rows)
<1>1. /\ up[k] \in Nat /\ total[k] \in Nat /\ down[k] \in Nat /\ upRead[k] \in Nat
      /\ upRead[k] <= up[k] /\ up[k] <= CookieLen + MaxData /\ down[k] <= MaxData
      /\ CookieLen \in Nat /\ MaxData \in Nat
  BY Values, P3Assumption, Zenon DEF Balanced, Bounded, P3Assumption
<1>2. total[k] = 0 \/ total[k] = upRead[k] - CookieLen
  <2>1. upRx[k] \in {"new", "cookie", "read", "end", "dropped"}
    BY DEF P3Inv, Types
  <2> QED
    BY <2>1, Values DEF Authentic
<1>3. total[k] \in 0 .. MaxData /\ down[k] \in 0 .. MaxData
  BY <1>1, <1>2
<1> DEFINE x == Row(k, TRUE, down[k])
           y == Row(k, FALSE, total[k])
<1>4. x \in Rows /\ y \in Rows
  BY <1>3 DEF Row, Rows
<1> HIDE DEF x, y
<1>5. <<>> \in Seq(Rows) /\ <<x>> \in Seq(Rows) /\ <<y>> \in Seq(Rows) /\ <<x, y>> \in Seq(Rows)
  BY <1>4, SMT
<1>6. ServerRows(k) \in {<<>>, <<x>>, <<y>>, <<x, y>>}
  <2>1. <<x>> \o <<>> = <<x>> /\ <<>> \o <<y>> = <<y>> /\ <<x>> \o <<y>> = <<x, y>>
    BY OneOrTwo, Zenon
  <2>2. ServerRows(k) = IF upRx[k] = "dropped" THEN <<>>
                        ELSE (IF ServerSends(dir[owner]) THEN <<x>> ELSE <<>>)
                             \o (IF ClientSends(dir[owner]) THEN <<y>> ELSE <<>>)
    BY Zenon DEF ServerRows, x, y
  <2>3. ServerSends(dir[owner]) \/ ClientSends(dir[owner])
    BY Directed
  <2> QED
    BY <2>1, <2>2, <2>3
<1> QED
  BY <1>5, <1>6

LEMMA ReplyTyped ==
  ASSUME P3Inv, RowsInv
  PROVE  reply \in Seq(Rows)
<1>1. CASE srv = "gone"
  <2>1. owner \in Clients /\ datas \in Seq(Conns) /\ reply = ServerReply
    BY <1>1 DEF RowsInv, InLine, Served
  <2> DEFINE q == [i \in 1 .. Len(datas) |-> ServerRows(datas[i])]
  <2>2. q \in [1 .. Len(datas) -> Seq(Rows)]
    <3>1. \A i \in 1 .. Len(datas) : datas[i] \in Conns
      BY <2>1
    <3>2. \A i \in 1 .. Len(datas) : ServerRows(datas[i]) \in Seq(Rows)
      BY <2>1, <3>1, ServerRowsTyped DEF RowsInv
    <3> QED
      BY <3>2
  <2>3. Len(datas) \in Nat /\ Len(datas) \in 0 .. Len(datas)
    BY <2>1
  <2>4. ServerReply = FlattenSeq(q)
    BY DEF ServerReply
  <2> HIDE DEF q
  <2>5. FlattenSeq(q) \in Seq(Rows)
    BY <2>2, <2>3, Flattened
  <2> QED
    BY <2>1, <2>4, <2>5
<1>2. CASE srv # "gone"
  BY <1>2 DEF RowsInv, Served, Nothing
<1> QED
  BY <1>1, <1>2

\* Types, the rows that are sent included: no row counts more than was sent, and
\* no cookie.
THEOREM P3Types == Spec => []TypeOK
<1> DEFINE Asked == \A c \in Clients : dir[c] \in Directions[c]
<1>1. Init => Asked
  BY DEF Init
<1>2. P3Inv /\ Asked /\ [Next]_vars => Asked'
  BY NoReturn
<1>3. P3Inv /\ RowsInv /\ Asked => TypeOK
  <2> SUFFICES ASSUME P3Inv, RowsInv, Asked
               PROVE  TypeOK
    OBVIOUS
  <2>1. reply \in Seq(Rows) /\ Nothing \in Seq(Rows)
    BY ReplyTyped DEF Nothing
  <2>2. remote \in [Clients -> Seq(Rows)]
    BY <2>1 DEF RowsInv, Replied
  <2>3. /\ up \in [Conns -> 0 .. CookieLen + MaxData] /\ down \in [Conns -> 0 .. MaxData]
    <3>1. /\ up \in [Conns -> Nat] /\ down \in [Conns -> Nat]
          /\ \A k \in Conns : up[k] <= CookieLen + MaxData /\ down[k] <= MaxData
          /\ CookieLen + MaxData \in Nat /\ MaxData \in Nat
      BY P3Assumption DEF P3Inv, Types, RowsInv, Bounded, P3Assumption
    <3> QED
      BY <3>1, SMT
  <2>4. owner \in Clients \cup {Nobody} /\ datas \in Seq(Conns) /\ backlog \in Seq(Conns)
    BY DEF RowsInv, InLine, Served
  <2>5. \A k \in Conns : upRead[k] <= up[k] /\ downRead[k] <= down[k]
    BY DEF P3Inv, Balanced
  <2> QED
    BY <2>1, <2>2, <2>3, <2>4, <2>5, Zenon DEF TypeOK, P3Inv, Types, RowsInv, Bounded
<1> QED
  BY <1>1, <1>2, <1>3, P3Invariance, PTL DEF Spec

\* The server's results reach the client it served, and there is a row for each
\* connection of that client it took: none was dropped, because the cookie is
\* written before a client can let go of a connection (client_conn).
THEOREM ResultsArriveHolds == Spec => []ResultsArrive
<1>1. P3Inv /\ RowsInv => ResultsArrive
  <2> SUFFICES ASSUME P3Inv, RowsInv, NEW c \in Clients, cli[c] = "done", c = owner,
                      NEW k \in Accepted \cap Streams(c)
               PROVE  \E i \in 1 .. Len(remote[c]) : remote[c][i].conn = k
    BY DEF ResultsArrive
  <2>1. k \in Conns /\ k[1] = c /\ k[2] > 0
    BY StreamConn
  <2>2. srv = "gone" /\ remote[c] = ServerReply /\ datas \in Seq(Conns)
    BY DEF P3Inv, Left, RowsInv, Served, Replied, InLine
  <2>3. upRx[k] # "dropped"
    BY <2>1 DEF RowsInv, Presented, CookieMatches
  <2>4. PICK i \in 1 .. Len(datas) : datas[i] = k
    BY DEF Accepted
  <2> DEFINE q == [j \in 1 .. Len(datas) |-> ServerRows(datas[j])]
             r == ServerRows(k)
  <2>5. Len(datas) \in Nat /\ \A j \in 1 .. Len(datas) : ServerRows(datas[j]) \in Seq(Rows)
    <3>1. \A j \in 1 .. Len(datas) : datas[j] \in Conns
      BY <2>2
    <3> QED
      BY <2>2, <3>1, ServerRowsTyped DEF RowsInv
  <2>6. q \in [1 .. Len(datas) -> Seq(Rows)] /\ q[i] = r
    BY <2>4, <2>5
  <2>7. 1 \in 1 .. Len(r) /\ r[1].conn = k
    <3> DEFINE x == Row(k, TRUE, down[k])
               y == Row(k, FALSE, total[k])
    <3>1. x.conn = k /\ y.conn = k
      BY DEF Row
    <3>2. r = <<x>> \/ r = <<y>> \/ r = <<x, y>>
      BY <2>3, Directed, OneOrTwo, Zenon DEF ServerRows
    <3> HIDE DEF r, x, y
    <3> QED
      BY <3>1, <3>2, SMT
  <2>8. ServerReply = FlattenSeq(q)
    BY DEF ServerReply
  <2> HIDE DEF q, r
  <2>9. \E l \in 1 .. Len(FlattenSeq(q)) : FlattenSeq(q)[l] = r[1]
    <3>1. 1 \in 1 .. Len(q[i])
      BY <2>6, <2>7
    <3>2. FlattenSeq(q) \in Seq(Rows) /\ q[i][1] \in ToSet(FlattenSeq(q))
      <4> DEFINE n == Len(datas)
      <4>1. n \in Nat /\ q \in [1 .. n -> Seq(Rows)] /\ i \in 1 .. n
        BY <2>5, <2>6
      <4> HIDE DEF n
      <4> QED
        BY ONLY <3>1, <4>1, FlattenedElements, Zenon
    <3>3. FlattenSeq(q) \in Seq(Rows) /\ r[1] \in ToSet(FlattenSeq(q))
      BY <2>6, <3>2, Zenon
    <3> HIDE DEF q
    <3> QED
      BY <3>3, SMT DEF ToSet
  <2> QED
    BY <2>2, <2>7, <2>8, <2>9
<1> QED
  BY <1>1, P3Invariance, PTL

----------------------------------------------------------------------------
(* The rows of the two ends pair by their numbers.                         *)

\* What print_summary takes two rows of the same number to be.
Matching(a, b) ==
  /\ a.conn = b.conn
  /\ dir[owner] # "bidir" => a.sender = ~ b.sender /\ a.bytes = b.bytes

AnyRow == [conn : Conns, sender : BOOLEAN, bytes : Int]

Finished == owner \in Clients /\ cli[owner] = "done" /\ srv = "gone"

LEMMA ServerRowList ==
  ASSUME P3Inv, Bounded, NEW k \in Conns, owner \in Clients
  PROVE  ServerRows(k) \in Seq(AnyRow)
<1>1. ServerRows(k) \in Seq(Rows)
  BY ServerRowsTyped
<1>2. Rows \subseteq AnyRow
  BY P3Assumption DEF Rows, AnyRow, P3Assumption
<1> HIDE DEF Rows, AnyRow
<1> QED
  BY <1>1, <1>2, SMT

\* What client_conn returns.
LEMMA ClientRowList ==
  ASSUME P3Inv, NEW k \in Conns
  PROVE  LET u == Row(k, TRUE, up[k] - CookieLen)
             v == Row(k, FALSE, downRead[k])
         IN  /\ u \in AnyRow /\ v \in AnyRow /\ ClientRows(k) \in Seq(AnyRow)
             /\ dir[k[1]] = "forward" => ClientRows(k) = <<u>>
             /\ dir[k[1]] = "reverse" => ClientRows(k) = <<v>>
             /\ dir[k[1]] = "bidir" => ClientRows(k) = <<u, v>>
<1> DEFINE u == Row(k, TRUE, up[k] - CookieLen)
           v == Row(k, FALSE, downRead[k])
<1>1. u \in AnyRow /\ v \in AnyRow
  <2>1. up[k] - CookieLen \in Int /\ downRead[k] \in Int
    BY Values, P3Assumption, SMT DEF P3Assumption
  <2> QED
    BY <2>1 DEF Row, AnyRow
<1>2. ClientRows(k) = (IF ClientSends(dir[k[1]]) THEN <<u>> ELSE <<>>)
                      \o (IF ServerSends(dir[k[1]]) THEN <<v>> ELSE <<>>)
  BY Zenon DEF ClientRows
<1> HIDE DEF u, v
<1>3. <<u>> \o <<>> = <<u>> /\ <<>> \o <<v>> = <<v>> /\ <<u>> \o <<v>> = <<u, v>>
  BY OneOrTwo, Zenon
<1>4. /\ dir[k[1]] = "forward" => ClientRows(k) = <<u>>
      /\ dir[k[1]] = "reverse" => ClientRows(k) = <<v>>
      /\ dir[k[1]] = "bidir" => ClientRows(k) = <<u, v>>
  BY <1>2, <1>3 DEF ClientSends, ServerSends
<1>5. dir[k[1]] \in {"forward", "reverse", "bidir"}
  BY ConnFacts DEF P3Inv, Types
<1>6. ClientRows(k) \in Seq(AnyRow)
  <2>1. \A a, b \in AnyRow : <<a>> \in Seq(AnyRow) /\ <<a, b>> \in Seq(AnyRow)
    BY SMT
  <2> QED
    BY <1>1, <1>4, <1>5, <2>1
<1> QED
  BY <1>1, <1>4, <1>6 DEF u, v

\* A connection that is not of the test has no row.
LEMMA OthersHaveNone ==
  ASSUME P3Inv, RowsInv, Finished, NEW k \in Accepted, k \in Conns, k \notin Streams(owner)
  PROVE  ServerRows(k) = <<>>
<1>1. upRx[k] = "dropped" \/ upRx[k] = "end"
  BY DEF RowsInv, Served, Finished
<1>2. upRx[k] # "end"
  BY OwnConn DEF P3Inv, Authentic
<1> QED
  BY <1>1, <1>2 DEF ServerRows

\* The rows the two ends have of a connection of the test.
LEMMA RowsOfOne ==
  ASSUME P3Inv, RowsInv, Finished, NEW k \in Accepted, k \in Streams(owner)
  PROVE  /\ Len(ServerRows(k)) = Len(ClientRows(k))
         /\ \A j \in 1 .. Len(ServerRows(k)) : Matching(ServerRows(k)[j], ClientRows(k)[j])
<1> DEFINE x == Row(k, TRUE, down[k])
           y == Row(k, FALSE, total[k])
           u == Row(k, TRUE, up[k] - CookieLen)
           v == Row(k, FALSE, downRead[k])
           r == ServerRows(k)
           t == ClientRows(k)
<1>1. k \in Conns /\ k[1] = owner /\ k[2] > 0
  BY StreamConn DEF Finished
<1>2. upRx[k] = "end" /\ downTx[k] = "end"
  BY <1>1 DEF RowsInv, Served, Presented, CookieMatches, Finished
<1>3. /\ r = (IF ServerSends(dir[owner]) THEN <<x>> ELSE <<>>)
             \o (IF ClientSends(dir[owner]) THEN <<y>> ELSE <<>>)
      /\ t = (IF ClientSends(dir[owner]) THEN <<u>> ELSE <<>>)
             \o (IF ServerSends(dir[owner]) THEN <<v>> ELSE <<>>)
  BY <1>1, <1>2, Zenon DEF ServerRows, ClientRows
<1>4. /\ <<x>> \o <<>> = <<x>> /\ <<>> \o <<y>> = <<y>> /\ <<x>> \o <<y>> = <<x, y>>
      /\ <<u>> \o <<>> = <<u>> /\ <<>> \o <<v>> = <<v>> /\ <<u>> \o <<v>> = <<u, v>>
  BY OneOrTwo, Zenon
<1>5. CASE dir[owner] = "forward"
  <2>1. ClientSends(dir[owner]) /\ ~ ServerSends(dir[owner])
    BY <1>5 DEF ClientSends, ServerSends
  <2>2. r = <<y>> /\ t = <<u>>
    BY <1>3, <1>4, <2>1, Zenon
  <2>3. total[k] = up[k] - CookieLen
    BY <1>1, <1>2, <2>1, Values DEF Authentic, Balanced, Alive, Finished
  <2>4. Matching(y, u)
    BY <2>3 DEF Matching, Row
  <2> HIDE DEF r, t, y, u
  <2> QED
    BY <2>2, <2>4, OneOrTwo DEF r, t
<1>6. CASE dir[owner] = "reverse"
  <2>1. ~ ClientSends(dir[owner]) /\ ServerSends(dir[owner])
    BY <1>6 DEF ClientSends, ServerSends
  <2>2. r = <<x>> /\ t = <<v>>
    BY <1>3, <1>4, <2>1, Zenon
  <2>3. downRead[k] = down[k]
    BY <1>1, <2>1, Values DEF RowsInv, Listening, Balanced, Finished
  <2>4. Matching(x, v)
    BY <2>3 DEF Matching, Row
  <2> HIDE DEF r, t, x, v
  <2> QED
    BY <2>2, <2>4, OneOrTwo DEF r, t
<1>7. CASE dir[owner] = "bidir"
  <2>1. ClientSends(dir[owner]) /\ ServerSends(dir[owner])
    BY <1>7 DEF ClientSends, ServerSends
  <2>2. r = <<x, y>> /\ t = <<u, v>>
    BY <1>3, <1>4, <2>1, Zenon
  <2>3. Matching(x, u) /\ Matching(y, v)
    BY <1>7 DEF Matching, Row
  <2> HIDE DEF r, t, x, y, u, v
  <2>4. Len(r) = 2 /\ Len(t) = 2 /\ r[1] = x /\ r[2] = y /\ t[1] = u /\ t[2] = v
    BY <2>2, OneOrTwo
  <2>5. \A j \in 1 .. 2 : j = 1 \/ j = 2
    OBVIOUS
  <2> QED
    BY <2>3, <2>4, <2>5 DEF r, t
<1> QED
  BY <1>5, <1>6, <1>7, Directed DEF Finished

\* Data connections are accepted once each, and those of a client in their order.
LEMMA InOrder ==
  ASSUME RowsInv, Finished, NEW i \in 1 .. Len(datas)
  PROVE  /\ datas[i] \in Conns
         /\ \A j \in 1 .. i - 1 : datas[j] # datas[i]
         /\ \A n \in Nat : n > 1 /\ datas[i] = <<owner, n>> =>
              \E j \in 1 .. i - 1 : datas[j] = <<owner, n - 1>>
<1> DEFINE m == Len(datas)
           D == datas
           L == Line
<1>1. D \in Seq(Conns) /\ backlog \in Seq(Conns) /\ m \in Nat
  BY DEF RowsInv, InLine
<1>2. \A j \in 1 .. m : j \in 1 .. Len(L) /\ L[j] = D[j]
  <2> HIDE DEF D
  <2>1. D \o backlog = L
    BY DEF L, Line, D
  <2>2. /\ Len(D \o backlog) = Len(D) + Len(backlog)
        /\ \A j \in 1 .. Len(D) + Len(backlog) :
             (D \o backlog)[j] = IF j <= Len(D) THEN D[j] ELSE backlog[j - Len(D)]
    BY <1>1, ConcatProperties
  <2>3. m = Len(D) /\ Len(backlog) \in Nat
    BY <1>1 DEF D
  <2> HIDE DEF L, m
  <2> QED
    BY <1>1, <2>1, <2>2, <2>3
<1>3. /\ \A p, q \in 1 .. Len(L) : L[p] = L[q] => p = q
      /\ \A p \in 1 .. Len(L) : L[p][2] > 0 =>
           \/ IsControl(<<L[p][1], L[p][2] - 1>>)
           \/ \E j \in 1 .. p - 1 : L[j] = <<L[p][1], L[p][2] - 1>>
  BY DEF RowsInv, InLine
<1>4. D[i] \in Conns
  BY <1>1
<1>5. i \in 1 .. m /\ \A j \in 1 .. i - 1 : j \in 1 .. m /\ j # i
  BY <1>1
<1> HIDE DEF L, m
<1>6. \A j \in 1 .. i - 1 : D[j] # D[i]
  BY <1>2, <1>3, <1>5
<1>7. ASSUME NEW n \in Nat, n > 1, D[i] = <<owner, n>>
      PROVE  \E j \in 1 .. i - 1 : D[j] = <<owner, n - 1>>
  <2>1. L[i][1] = owner /\ L[i][2] = n /\ i \in 1 .. Len(L)
    BY <1>2, <1>5, <1>7
  <2>2. ~ IsControl(<<owner, n - 1>>)
    <3>1. n - 1 # 0
      BY <1>7
    <3> QED
      BY <3>1 DEF IsControl
  <2>3. \E j \in 1 .. i - 1 : L[j] = <<owner, n - 1>>
    <3>1. L[i][2] > 0
      BY <1>7, <2>1
    <3> QED
      BY <1>3, <2>1, <2>2, <3>1, Zenon
  <2> QED
    BY <1>2, <1>5, <2>3
<1> QED
  BY <1>4, <1>6, <1>7

\* Two lists that match, each followed by a list that matches that of the other.
LEMMA MatchingLists ==
  ASSUME NEW S, NEW a \in Seq(S), NEW b \in Seq(S), NEW u \in Seq(S), NEW v \in Seq(S),
         Len(a) = Len(b), Len(u) = Len(v),
         \A l \in 1 .. Len(a) : Matching(a[l], b[l]),
         \A l \in 1 .. Len(u) : Matching(u[l], v[l])
  PROVE  /\ Len(a \o u) = Len(b \o v)
         /\ \A l \in 1 .. Len(a \o u) : Matching((a \o u)[l], (b \o v)[l])
<1> DEFINE n == Len(a)
           m == Len(u)
           s == a \o u
           t == b \o v
<1>1. n \in Nat /\ m \in Nat
  OBVIOUS
<1>2. /\ Len(s) = n + m /\ Len(t) = n + m
      /\ \A l \in 1 .. n + m : s[l] = IF l <= n THEN a[l] ELSE u[l - n]
      /\ \A l \in 1 .. n + m : t[l] = IF l <= n THEN b[l] ELSE v[l - n]
  <2>1. /\ Len(s) = n + m
        /\ \A l \in 1 .. n + m : s[l] = IF l <= n THEN a[l] ELSE u[l - n]
    BY ConcatProperties, Zenon
  <2>2. /\ Len(t) = Len(b) + Len(v)
        /\ \A l \in 1 .. Len(b) + Len(v) : t[l] = IF l <= Len(b) THEN b[l] ELSE v[l - Len(b)]
    BY ConcatProperties, Zenon
  <2>3. Len(b) = n /\ Len(v) = m
    OBVIOUS
  <2> HIDE DEF n, m, s, t
  <2> QED
    BY <2>1, <2>2, <2>3, Zenon
<1> HIDE DEF n, m, s, t
<1>3. \A l \in 1 .. n + m : (l <= n /\ l \in 1 .. n) \/ (~ (l <= n) /\ l - n \in 1 .. m)
  BY <1>1
<1>4. /\ \A l \in 1 .. n : Matching(a[l], b[l])
      /\ \A l \in 1 .. m : Matching(u[l], v[l])
  BY DEF n, m
<1>5. ASSUME NEW l \in 1 .. n + m
      PROVE  Matching(s[l], t[l])
  <2>1. CASE l <= n
    BY <1>2, <1>3, <1>4, <2>1, Zenon
  <2>2. CASE ~ (l <= n)
    BY <1>2, <1>3, <1>4, <2>2, Zenon
  <2> QED
    BY <2>1, <2>2
<1> QED
  BY <1>2, <1>5, Zenon DEF s, t

\* The first i connections the server took have the rows the first m connections
\* of the client have: those among them that are of the test.
Paired(G, H, i, m) ==
  /\ Len(G[i]) = Len(H[m]) /\ \A l \in 1 .. Len(G[i]) : Matching(G[i][l], H[m][l])
  /\ \A n \in 1 .. Parallel[owner] : n <= m <=> \E j \in 1 .. i : datas[j] = <<owner, n>>

LEMMA NextPaired ==
  ASSUME P3Inv, RowsInv, Finished, NEW i \in Nat, i + 1 <= Len(datas),
         NEW m \in 0 .. Parallel[owner],
         NEW G, NEW H,
         \A j \in 0 .. Len(datas) : G[j] \in Seq(AnyRow),
         \A n \in 0 .. Parallel[owner] : H[n] \in Seq(AnyRow),
         \A j \in 1 .. Len(datas) : G[j] = G[j - 1] \o ServerRows(datas[j]),
         \A n \in 1 .. Parallel[owner] : H[n] = H[n - 1] \o ClientRows(<<owner, n>>),
         Paired(G, H, i, m)
  PROVE  \E w \in 0 .. Parallel[owner] : Paired(G, H, i + 1, w)
<1> DEFINE k == datas[i + 1]
           p == Parallel[owner]
           d == Len(datas)
           Taken(j, n) == datas[j] = <<owner, n>>
<1>1. d \in Nat /\ p \in Nat /\ i + 1 \in 1 .. d /\ i \in 0 .. d /\ (i + 1) - 1 = i
  BY P3Assumption DEF RowsInv, InLine, Finished, P3Assumption
<1>2. /\ k \in Conns /\ k \in Accepted
      /\ \A j \in 1 .. i : datas[j] # k
      /\ \A n \in Nat : n > 1 /\ k = <<owner, n>> => \E j \in 1 .. i : Taken(j, n - 1)
  BY <1>1, InOrder DEF Accepted
<1>3. G[i + 1] = G[i] \o ServerRows(k) /\ G[i] \in Seq(AnyRow)
  BY <1>1
<1>4. /\ Len(G[i]) = Len(H[m]) /\ \A l \in 1 .. Len(G[i]) : Matching(G[i][l], H[m][l])
      /\ \A n \in 1 .. p : n <= m <=> \E j \in 1 .. i : Taken(j, n)
  BY DEF Paired
<1>5. \A n : (\E j \in 1 .. i + 1 : Taken(j, n)) <=> (\E j \in 1 .. i : Taken(j, n)) \/ k = <<owner, n>>
  <2>1. \A j \in 1 .. i + 1 : j \in 1 .. i \/ j = i + 1
    OBVIOUS
  <2>2. i + 1 \in 1 .. i + 1 /\ \A j \in 1 .. i : j \in 1 .. i + 1
    OBVIOUS
  <2> QED
    BY <2>1, <2>2, Zenon
<1>6. CASE k \notin Streams(owner)
  <2>1. ServerRows(k) = <<>>
    BY <1>2, <1>6, OthersHaveNone
  <2>2. G[i + 1] = G[i]
    BY <1>3, <2>1, ConcatEmptySeq, Zenon
  <2>3. \A n \in 1 .. p : k # <<owner, n>>
    BY <1>6 DEF Streams
  <2>4. Paired(G, H, i + 1, m)
    BY <1>4, <1>5, <2>2, <2>3, Zenon DEF Paired
  <2> QED
    BY <2>4
<1>7. CASE k \in Streams(owner)
  <2>1. PICK n \in 1 .. p : k = <<owner, n>>
    BY <1>7 DEF Streams
  <2>2. n \in Nat /\ n >= 1 /\ n <= p
    BY <1>1
  <2>3. ~ (n <= m)
    BY <1>2, <1>4, <2>1
  <2>4. n > 1 => n - 1 <= m
    <3> SUFFICES ASSUME n > 1
                 PROVE  n - 1 <= m
      OBVIOUS
    <3>1. \E j \in 1 .. i : Taken(j, n - 1)
      BY <1>2, <2>1, <2>2
    <3>2. n - 1 \in 1 .. p
      BY <1>1
    <3> QED
      BY <1>4, <3>1, <3>2
  <2>5. n = m + 1 /\ m + 1 \in 1 .. p /\ n - 1 = m
    BY <1>1, <2>2, <2>3, <2>4
  <2>6. H[n] = H[m] \o ClientRows(k) /\ H[m] \in Seq(AnyRow)
    BY <2>1, <2>5
  <2>7. /\ Len(ServerRows(k)) = Len(ClientRows(k))
        /\ \A l \in 1 .. Len(ServerRows(k)) : Matching(ServerRows(k)[l], ClientRows(k)[l])
        /\ ServerRows(k) \in Seq(AnyRow) /\ ClientRows(k) \in Seq(AnyRow)
    BY <1>2, <1>7, RowsOfOne, ServerRowList, ClientRowList DEF Finished, RowsInv
  <2>8. /\ Len(G[i + 1]) = Len(H[n])
        /\ \A l \in 1 .. Len(G[i + 1]) : Matching(G[i + 1][l], H[n][l])
    <3> DEFINE a == G[i]
               b == H[m]
               u == ServerRows(k)
               v == ClientRows(k)
    <3>1. /\ a \in Seq(AnyRow) /\ b \in Seq(AnyRow) /\ u \in Seq(AnyRow) /\ v \in Seq(AnyRow)
          /\ Len(a) = Len(b) /\ Len(u) = Len(v)
          /\ \A l \in 1 .. Len(a) : Matching(a[l], b[l])
          /\ \A l \in 1 .. Len(u) : Matching(u[l], v[l])
          /\ G[i + 1] = a \o u /\ H[n] = b \o v
      BY <1>3, <1>4, <2>6, <2>7
    <3> HIDE DEF a, b, u, v, k
    <3>2. /\ Len(a \o u) = Len(b \o v)
          /\ \A l \in 1 .. Len(a \o u) : Matching((a \o u)[l], (b \o v)[l])
      BY ONLY <3>1, MatchingLists
    <3> QED
      BY <3>1, <3>2, Zenon
  <2>9. \A e \in 1 .. p : e <= n <=> \E j \in 1 .. i + 1 : Taken(j, e)
    <3>1. \A e \in 1 .. p : e <= n <=> e <= m \/ e = n
      BY <1>1, <2>5
    <3>2. \A e : k = <<owner, e>> <=> e = n
      BY <2>1
    <3> HIDE DEF k, p
    <3> QED
      BY <1>4, <1>5, <3>1, <3>2, Zenon
  <2>10. Paired(G, H, i + 1, n)
    BY <2>8, <2>9, Zenon DEF Paired
  <2> QED
    BY <2>2, <2>10
<1> QED
  BY <1>6, <1>7

OwnRows(c) == [n \in 1 .. Parallel[c] |-> ClientRows(<<c, n>>)]

LEMMA OwnRowsTyped ==
  ASSUME P3Inv, NEW c \in Clients
  PROVE  /\ Parallel[c] \in Nat
         /\ OwnRows(c) \in [1 .. Parallel[c] -> Seq(AnyRow)]
         /\ \A n \in 1 .. Parallel[c] : <<c, n>> \in Streams(c) /\ <<c, n>> \in Conns
<1>1. Parallel[c] \in Nat /\ \A n \in 1 .. Parallel[c] : <<c, n>> \in Streams(c)
  BY P3Assumption DEF P3Assumption, Streams
<1>2. \A n \in 1 .. Parallel[c] : <<c, n>> \in Conns
  BY <1>1, StreamConn
<1>3. \A n \in 1 .. Parallel[c] : ClientRows(<<c, n>>) \in Seq(AnyRow)
  BY <1>2, ClientRowList
<1> QED
  BY <1>1, <1>2, <1>3 DEF OwnRows

\* The rows the server sent are those of the first connections of the client.
LEMMA ReplyPaired ==
  ASSUME P3Inv, RowsInv, Finished
  PROVE  \E H \in [0 .. Parallel[owner] -> Seq(AnyRow)] : \E m \in 0 .. Parallel[owner] :
           /\ Joins(H, OwnRows(owner), Parallel[owner])
           /\ LocalRows(owner) = H[Parallel[owner]]
           /\ Len(reply) = Len(H[m])
           /\ \A l \in 1 .. Len(reply) : Matching(reply[l], H[m][l])
           /\ \A n \in 1 .. Parallel[owner] : n <= m <=> <<owner, n>> \in Accepted
<1>1. Finished /\ reply = ServerReply /\ datas \in Seq(Conns)
  BY DEF Finished, RowsInv, InLine, Served
<1> DEFINE d == Len(datas)
           p == Parallel[owner]
           A == [i \in 1 .. d |-> ServerRows(datas[i])]
           B == OwnRows(owner)
<1>2. d \in Nat /\ p \in Nat
  BY <1>1, P3Assumption DEF Finished, P3Assumption
<1>3. A \in [1 .. d -> Seq(AnyRow)] /\ \A i \in 1 .. d : A[i] = ServerRows(datas[i])
  <2>1. \A i \in 1 .. d : datas[i] \in Conns
    BY <1>1
  <2> QED
    BY <1>1, <2>1, ServerRowList DEF Finished, RowsInv
<1>4. B \in [1 .. p -> Seq(AnyRow)] /\ \A n \in 1 .. p : B[n] = ClientRows(<<owner, n>>)
  BY OwnRowsTyped DEF OwnRows, Finished
<1>5. FlattenSeq(A) = reply /\ FlattenSeq(B) = LocalRows(owner)
  BY <1>1 DEF ServerReply, LocalRows, OwnRows
<1> HIDE DEF d, p, A, B
<1>6. PICK G \in [0 .. d -> Seq(AnyRow)] : Joins(G, A, d) /\ reply = G[d]
  <2>1. \E G \in [0 .. d -> Seq(AnyRow)] : Joins(G, A, d) /\ FlattenSeq(A) = G[d]
    BY ONLY <1>2, <1>3, Flattened
  <2> QED
    BY <1>5, <2>1
<1>7. PICK H \in [0 .. p -> Seq(AnyRow)] : Joins(H, B, p) /\ LocalRows(owner) = H[p]
  <2>1. \E H \in [0 .. p -> Seq(AnyRow)] : Joins(H, B, p) /\ FlattenSeq(B) = H[p]
    BY ONLY <1>2, <1>4, Flattened
  <2> QED
    BY <1>5, <2>1
<1>8. /\ \A j \in 1 .. d : G[j] = G[j - 1] \o ServerRows(datas[j])
      /\ \A n \in 1 .. p : H[n] = H[n - 1] \o ClientRows(<<owner, n>>)
  BY <1>3, <1>4, <1>6, <1>7, Zenon DEF Joins
<1> DEFINE P == {i \in Nat : i <= d => \E m \in 0 .. p : Paired(G, H, i, m)}
<1>9. 0 \in P
  <2>1. G[0] = <<>> /\ H[0] = <<>>
    BY <1>6, <1>7 DEF Joins
  <2>2. \A n \in 1 .. p : ~ (n <= 0)
    BY <1>2
  <2>3. Paired(G, H, 0, 0)
    BY <2>1, <2>2 DEF Paired, p
  <2> QED
    BY <1>2, <2>3
<1>10. ASSUME NEW i \in Nat, i \in P
       PROVE  i + 1 \in P
  <2> SUFFICES ASSUME i + 1 <= d
               PROVE  \E w \in 0 .. p : Paired(G, H, i + 1, w)
    OBVIOUS
  <2>1. PICK m \in 0 .. p : Paired(G, H, i, m)
    BY <1>2, <1>10
  <2>2. /\ \A j \in 0 .. d : G[j] \in Seq(AnyRow)
        /\ \A n \in 0 .. p : H[n] \in Seq(AnyRow)
    OBVIOUS
  <2> QED
    BY <1>1, <1>8, <2>1, <2>2, NextPaired DEF d, p
<1> HIDE DEF P
<1>11. Nat \subseteq P
  BY <1>9, <1>10, SetInduction
<1>12. PICK m \in 0 .. p : Paired(G, H, d, m)
  BY <1>2, <1>11 DEF P
<1>13. /\ Len(reply) = Len(H[m]) /\ \A l \in 1 .. Len(reply) : Matching(reply[l], H[m][l])
       /\ \A n \in 1 .. p : n <= m <=> <<owner, n>> \in Accepted
  BY <1>6, <1>12 DEF Paired, Accepted, p, d
<1> QED
  BY <1>7, <1>13 DEF p, B

\* A client that is done pairs each row it got with one of its own, by number: a
\* connection of another client that took a place among those of the test has no
\* row (to_results of the server skips it), and so shifts nothing.
THEOREM RowsPairHolds == Spec => []RowsPair
<1>1. P3Inv /\ RowsInv => RowsPair
  <2> SUFFICES ASSUME P3Inv, RowsInv, owner # Nobody, cli[owner] = "done"
               PROVE  LET local == LocalRows(owner)
                      IN \A i \in 1 .. Len(reply) : Matching(reply[i], local[i])
    BY Zenon DEF RowsPair, Matching
  <2> DEFINE p == Parallel[owner]
             B == OwnRows(owner)
  <2>1. Finished
    BY DEF Finished, P3Inv, Left, RowsInv, InLine, Served
  <2>2. p \in Nat /\ B \in [1 .. p -> Seq(AnyRow)]
    BY <2>1, OwnRowsTyped DEF Finished
  <2> HIDE DEF B, p
  <2>3. PICK H \in [0 .. p -> Seq(AnyRow)], m \in 0 .. p :
             /\ Joins(H, B, p) /\ LocalRows(owner) = H[p]
             /\ Len(reply) = Len(H[m])
             /\ \A l \in 1 .. Len(reply) : Matching(reply[l], H[m][l])
    BY <2>1, ReplyPaired, Zenon DEF p, B
  <2>4. Len(H[m]) <= Len(H[p]) /\ \A l \in 1 .. Len(H[m]) : H[p][l] = H[m][l]
    BY <2>2, <2>3, JoinsGrow
  <2> QED
    BY <2>3, <2>4
<1> QED
  BY <1>1, P3Invariance, PTL

\* Each stream with its half of the count: what client_conn's writers sent.
LEMMA SentSum ==
  ASSUME NEW T, IsFiniteSet(T), NEW f \in [T -> Int], \A k \in T : f[k] = up[k] - CookieLen
  PROVE  SumIs(T, f, MapThenSumSet(LAMBDA k : up[k] - CookieLen, T))
<1>1. PICK I : Sums(T, f, I)
  BY SumsExist
<1> DEFINE iter[s \in SUBSET T] ==
             IF s = {} THEN 0
             ELSE LET x == CHOOSE y \in s : TRUE
                  IN  (up[x] - CookieLen) + iter[s \ {x}]
           Is(J) == J = [s \in SUBSET T |->
                           IF s = {} THEN 0
                           ELSE LET x == CHOOSE y \in s : TRUE
                                IN  (up[x] - CookieLen) + J[s \ {x}]]
<1>2. MapThenSumSet(LAMBDA k : up[k] - CookieLen, T) = iter[T]
  BY Zenon DEF MapThenSumSet, MapThenFoldSet
<1>3. \A s \in SUBSET T : s # {} => First(s) \in s /\ f[First(s)] = up[First(s)] - CookieLen
  BY DEF First
<1>4. Is(I)
  <2>1. \A s \in SUBSET T :
          I[s] = IF s = {} THEN 0 ELSE (up[First(s)] - CookieLen) + I[s \ {First(s)}]
    BY <1>1, <1>3, Zenon DEF Sums, Adds
  <2>2. I = [s \in SUBSET T |-> I[s]]
    BY <1>1 DEF Sums
  <2> QED
    BY <2>1, <2>2, Zenon DEF First
<1>5. Is(iter)
  BY <1>4, ZenonT(40)
<1> HIDE DEF iter
<1>6. Adds(T, f, iter)
  <2>1. \A s \in SUBSET T :
          iter[s] = IF s = {} THEN 0 ELSE (up[First(s)] - CookieLen) + iter[s \ {First(s)}]
    BY <1>5, Zenon DEF First
  <2>2. {} \in SUBSET T
    OBVIOUS
  <2> QED
    BY <1>3, <2>1, <2>2, Zenon DEF Adds
<1>7. iter[T] = I[T]
  <2>1. IsFiniteSet(T)
    OBVIOUS
  <2> QED
    BY ONLY <1>1, <1>6, <2>1, SumsOnly, Zenon
<1> QED
  BY <1>1, <1>2, <1>7, Zenon DEF SumIs

\* And what its readers received.
LEMMA ReceivedSum ==
  ASSUME NEW T, IsFiniteSet(T), NEW f \in [T -> Int], \A k \in T : f[k] = downRead[k]
  PROVE  SumIs(T, f, MapThenSumSet(LAMBDA k : downRead[k], T))
<1>1. PICK I : Sums(T, f, I)
  BY SumsExist
<1> DEFINE iter[s \in SUBSET T] ==
             IF s = {} THEN 0
             ELSE LET x == CHOOSE y \in s : TRUE
                  IN  downRead[x] + iter[s \ {x}]
           Is(J) == J = [s \in SUBSET T |->
                           IF s = {} THEN 0
                           ELSE LET x == CHOOSE y \in s : TRUE
                                IN  downRead[x] + J[s \ {x}]]
<1>2. MapThenSumSet(LAMBDA k : downRead[k], T) = iter[T]
  BY Zenon DEF MapThenSumSet, MapThenFoldSet
<1>3. \A s \in SUBSET T : s # {} => First(s) \in s /\ f[First(s)] = downRead[First(s)]
  BY DEF First
<1>4. Is(I)
  <2>1. \A s \in SUBSET T : I[s] = IF s = {} THEN 0 ELSE downRead[First(s)] + I[s \ {First(s)}]
    BY <1>1, <1>3, Zenon DEF Sums, Adds
  <2>2. I = [s \in SUBSET T |-> I[s]]
    BY <1>1 DEF Sums
  <2> QED
    BY <2>1, <2>2, Zenon DEF First
<1>5. Is(iter)
  BY <1>4, ZenonT(40)
<1> HIDE DEF iter
<1>6. Adds(T, f, iter)
  <2>1. \A s \in SUBSET T :
          iter[s] = IF s = {} THEN 0 ELSE downRead[First(s)] + iter[s \ {First(s)}]
    BY <1>5, Zenon DEF First
  <2>2. {} \in SUBSET T
    OBVIOUS
  <2> QED
    BY <1>3, <2>1, <2>2, Zenon DEF Adds
<1>7. iter[T] = I[T]
  <2>1. IsFiniteSet(T)
    OBVIOUS
  <2> QED
    BY ONLY <1>1, <1>6, <2>1, SumsOnly, Zenon
<1> QED
  BY <1>1, <1>2, <1>7, Zenon DEF SumIs

\* Two lists of rows, one of senders and one of receivers, of which the shorter
\* counts what the longer counts.
LEMMA Facing ==
  ASSUME NEW u \in Seq(AnyRow), NEW v \in Seq(AnyRow), Len(v) <= Len(u), NEW w \in BOOLEAN,
         \A n \in 1 .. Len(u) : u[n].sender = w /\ u[n].bytes >= 0,
         \A n \in 1 .. Len(v) : v[n].sender = ~ w /\ v[n].bytes = u[n].bytes
  PROVE  LET D == DOMAIN u
             E == DOMAIN u \cap DOMAIN v
         IN  /\ Bytes(u, D, ~ w) = 0 /\ Bytes(v, E, w) = 0
             /\ Bytes(u, D, w) \in Int /\ Bytes(v, E, ~ w) \in Int
             /\ Bytes(v, E, ~ w) <= Bytes(u, D, w)
             /\ (\A n \in 1 .. Len(u) : n > Len(v) => u[n].bytes = 0)
                => Bytes(u, D, w) <= Bytes(v, E, ~ w)
<1> DEFINE D == 1 .. Len(u)
           E == 1 .. Len(v)
           f == RowBytes(u, D)
           h == RowBytes(v, E)
<1>1. DOMAIN u = D /\ DOMAIN u \cap DOMAIN v = E /\ E \subseteq D
  OBVIOUS
<1>2. IsFiniteSet(D) /\ IsFiniteSet(E)
  <2>1. 1 \in Int /\ Len(u) \in Int /\ Len(v) \in Int
    OBVIOUS
  <2> QED
    BY <2>1, FS_Interval, Zenon
<1>3. /\ \A n \in D : u[n].bytes \in Int /\ u[n].bytes >= 0 /\ u[n].sender = w
      /\ \A n \in E : v[n].bytes \in Int /\ v[n].bytes = u[n].bytes /\ v[n].sender = ~ w
  <2>1. \A n \in D : u[n] \in AnyRow
    OBVIOUS
  <2>2. \A n \in E : v[n] \in AnyRow
    OBVIOUS
  <2> QED
    BY <2>1, <2>2 DEF AnyRow
<1> HIDE DEF D, E
<1>4. /\ Having(u, D, w) = D /\ Having(v, E, ~ w) = E
      /\ Having(u, D, ~ w) = {} /\ Having(v, E, w) = {}
  BY <1>3 DEF Having
<1>5. /\ SumIs(D, f, Bytes(u, D, w)) /\ SumIs(E, h, Bytes(v, E, ~ w))
      /\ SumIs({}, RowBytes(u, {}), Bytes(u, D, ~ w))
      /\ SumIs({}, RowBytes(v, {}), Bytes(v, E, w))
  BY <1>2, <1>3, <1>4, BytesSum, Zenon
<1>6. /\ Bytes(u, D, ~ w) = 0 /\ Bytes(v, E, w) = 0
      /\ Bytes(u, D, w) \in Int /\ Bytes(v, E, ~ w) \in Int
  BY ONLY <1>5, SumIsInt
<1>7. /\ \A n \in D : f[n] = u[n].bytes
      /\ \A n \in E : h[n] = v[n].bytes
  BY DEF RowBytes
<1> DEFINE g == [n \in D |-> n]
           k == [n \in E |-> n]
<1>8. Bytes(v, E, ~ w) <= Bytes(u, D, w)
  <2>1. \A n \in D : f[n] >= 0
    BY <1>3, <1>7
  <2>2. \A n \in E : k[n] \in D /\ h[n] <= f[k[n]] /\ k[n] = n
    BY <1>1, <1>3, <1>7
  <2> HIDE DEF f, h, k
  <2> QED
    BY <1>5, <2>1, <2>2, SumIsCompared
<1>9. ASSUME \A n \in D : n > Len(v) => u[n].bytes = 0
      PROVE  Bytes(u, D, w) <= Bytes(v, E, ~ w)
  <2>1. \A n \in E : h[n] >= 0
    BY <1>1, <1>3, <1>7
  <2>2. \A n \in D : n \in E \/ n > Len(v)
    BY DEF D, E
  <2>3. \A n \in D : g[n] = n /\ (f[n] = 0 \/ (g[n] \in E /\ f[n] <= h[g[n]]))
    BY <1>3, <1>7, <1>9, <2>2
  <2> HIDE DEF f, h, g
  <2> QED
    BY <1>5, <2>1, <2>3, SumIsCompared
<1> QED
  BY <1>1, <1>6, <1>8, <1>9 DEF D

\* A list of rows in which each stream has one row of a kind.
LEMMA Spread ==
  ASSUME NEW u \in Seq(AnyRow), NEW b \in BOOLEAN, NEW S, NEW h, NEW w, SumIs(S, h, w),
         \A k \in S : h[k] >= 0, NEW at,
         \A k \in S : /\ at[k] \in 1 .. Len(u) /\ u[at[k]].sender = b
                      /\ u[at[k]].conn = k /\ u[at[k]].bytes = h[k],
         \A id \in 1 .. Len(u) : u[id].sender = b => \E k \in S : id = at[k]
  PROVE  Bytes(u, DOMAIN u, b) = w
<1> DEFINE D == 1 .. Len(u)
           T == Having(u, D, b)
           f == RowBytes(u, T)
           g == [id \in T |-> u[id].conn]
<1>1. DOMAIN u = D /\ \A id \in D : u[id].bytes \in Int
  <2>1. \A id \in D : u[id] \in AnyRow
    OBVIOUS
  <2> QED
    BY <2>1 DEF AnyRow
<1>2. IsFiniteSet(D)
  <2>1. 1 \in Int /\ Len(u) \in Int
    OBVIOUS
  <2> QED
    BY <2>1, FS_Interval, Zenon
<1> HIDE DEF D
<1>3. SumIs(T, f, Bytes(u, D, b))
  BY <1>1, <1>2, BytesSum, Zenon
<1>4. \A k \in S : at[k] \in T /\ u[at[k]].conn = k /\ u[at[k]].bytes = h[k]
  BY DEF Having, D
<1>5. \A id \in T : \E k \in S : id = at[k]
  BY DEF Having, D
<1> HIDE DEF T
<1>6. \A id \in T : f[id] = u[id].bytes /\ g[id] = u[id].conn
  BY DEF RowBytes
<1>7. SumIs(S, h, w) /\ (\A k \in S : h[k] >= 0) /\ \A k \in S : h[k] \in Int
  BY DEF SumIs
<1>8. ASSUME NEW id \in T
      PROVE  g[id] \in S /\ id = at[g[id]] /\ f[id] = h[g[id]]
  <2>1. PICK k \in S : id = at[k]
    BY <1>5
  <2>2. u[id].conn = k /\ u[id].bytes = h[k]
    BY <1>4, <2>1
  <2>3. g[id] = k /\ f[id] = h[k]
    BY <1>6, <2>2
  <2> HIDE DEF f, g
  <2> QED
    BY <2>1, <2>3
<1>9. \A k \in S : f[at[k]] = h[k] /\ g[at[k]] = k
  BY <1>4, <1>6
<1>10. \A id \in T : f[id] \in Int /\ f[id] >= 0
  BY <1>7, <1>8
<1> HIDE DEF f, g
<1>11. w <= Bytes(u, D, b)
  <2>1. \A k \in S : h[k] = 0 \/ (at[k] \in T /\ h[k] <= f[at[k]])
    BY <1>4, <1>7, <1>9
  <2>2. \A r, s \in S : h[r] # 0 /\ h[s] # 0 /\ at[r] = at[s] => r = s
    BY <1>4
  <2>3. \A id \in T : f[id] >= 0
    BY <1>10
  <2> QED
    BY ONLY <1>3, <1>7, <2>1, <2>2, <2>3, SumIsCompared
<1>12. Bytes(u, D, b) <= w
  <2>1. \A id \in T : f[id] = 0 \/ (g[id] \in S /\ f[id] <= h[g[id]])
    BY <1>7, <1>8
  <2>2. \A r, s \in T : f[r] # 0 /\ f[s] # 0 /\ g[r] = g[s] => r = s
    BY <1>8
  <2> QED
    BY ONLY <1>3, <1>7, <2>1, <2>2, SumIsCompared
<1>13. w \in Int /\ Bytes(u, D, b) \in Int
  BY ONLY <1>3, <1>7, SumIsInt
<1> QED
  BY <1>1, <1>11, <1>12, <1>13

----------------------------------------------------------------------------
(* The SUM lines.                                                          *)

\* Lists of one element each, and of two.
Singles(S, n, q, G) ==
  /\ n \in Nat /\ q \in [1 .. n -> Seq(S)] /\ \A i \in 1 .. n : Len(q[i]) = 1
  /\ G \in [0 .. n -> Seq(S)] /\ Joins(G, q, n)

LEMMA OneEach ==
  ASSUME NEW S, NEW n, NEW q, NEW G, Singles(S, n, q, G), NEW m \in 0 .. n
  PROVE  Len(G[m]) = m /\ \A e \in 1 .. m : G[m][e] = q[e][1]
<1> USE DEF Singles
<1> DEFINE Good(i) == Len(G[i]) = i /\ \A e \in 1 .. i : G[i][e] = q[e][1]
           P == {i \in Nat : i <= n => Good(i)}
<1>1. 0 \in P
  BY DEF Joins
<1>2. ASSUME NEW i \in Nat, i \in P
      PROVE  i + 1 \in P
  <2> SUFFICES ASSUME i + 1 <= n
               PROVE  Good(i + 1)
    OBVIOUS
  <2> DEFINE a == G[i]
             b == q[i + 1]
  <2>1. Good(i) /\ a \in Seq(S) /\ b \in Seq(S) /\ Len(b) = 1
    BY <1>2
  <2>2. G[i + 1] = a \o b
    <3>1. i + 1 \in 1 .. n /\ (i + 1) - 1 = i
      OBVIOUS
    <3> QED
      BY <3>1, Zenon DEF Joins
  <2>3. Len(a) = i /\ \A e \in 1 .. i : a[e] = q[e][1]
    BY <2>1
  <2>4. q[i + 1][1] = b[1]
    OBVIOUS
  <2> HIDE DEF a, b
  <2>5. Len(a \o b) = i + 1
        /\ \A e \in 1 .. i + 1 : (a \o b)[e] = IF e <= i THEN a[e] ELSE b[e - i]
    <3>1. /\ Len(a \o b) = Len(a) + Len(b)
          /\ \A e \in 1 .. Len(a) + Len(b) :
                (a \o b)[e] = IF e <= Len(a) THEN a[e] ELSE b[e - Len(a)]
      BY <2>1, ConcatProperties
    <3> QED
      BY <2>1, <2>3, <3>1
  <2>6. ASSUME NEW e \in 1 .. i + 1
        PROVE  (a \o b)[e] = q[e][1]
    <3>1. CASE e <= i
      BY <2>3, <2>5, <3>1
    <3>2. CASE ~ (e <= i)
      <4>1. e = i + 1 /\ e - i = 1
        BY <3>2
      <4> QED
        BY <2>4, <2>5, <3>2, <4>1
    <3> QED
      BY <3>1, <3>2
  <2> QED
    BY <2>2, <2>5, <2>6
<1> HIDE DEF P
<1>3. Nat \subseteq P
  BY <1>1, <1>2, SetInduction
<1>4. m \in P /\ m <= n
  BY <1>3
<1> QED
  BY <1>4 DEF P

LEMMA TwoEach ==
  ASSUME NEW S, NEW n \in Nat, NEW q \in [1 .. n -> Seq(S)], NEW G \in [0 .. n -> Seq(S)],
         Joins(G, q, n), \A i \in 1 .. n : Len(q[i]) = 2
  PROVE  Len(G[n]) = 2 * n /\ \A e \in 1 .. n : G[n][2 * e - 1] = q[e][1] /\ G[n][2 * e] = q[e][2]
<1> DEFINE Good(i) ==
             /\ Len(G[i]) = 2 * i
             /\ \A e \in 1 .. i : G[i][2 * e - 1] = q[e][1] /\ G[i][2 * e] = q[e][2]
           P == {i \in Nat : i <= n => Good(i)}
<1>1. 0 \in P
  BY DEF Joins
<1>2. ASSUME NEW i \in Nat, i \in P
      PROVE  i + 1 \in P
  <2> SUFFICES ASSUME i + 1 <= n
               PROVE  Good(i + 1)
    OBVIOUS
  <2> DEFINE a == G[i]
             b == q[i + 1]
  <2>1. Good(i) /\ a \in Seq(S) /\ b \in Seq(S) /\ Len(b) = 2
    BY <1>2, SMTT(30)
  <2>2. G[i + 1] = a \o b
    <3>1. i + 1 \in 1 .. n /\ (i + 1) - 1 = i
      OBVIOUS
    <3> QED
      BY <3>1, Zenon DEF Joins
  <2>3. /\ Len(a) = 2 * i
        /\ \A e \in 1 .. i : a[2 * e - 1] = q[e][1] /\ a[2 * e] = q[e][2]
    BY <2>1
  <2>4. q[i + 1][1] = b[1] /\ q[i + 1][2] = b[2]
    OBVIOUS
  <2> HIDE DEF a, b
  <2>5. Len(a \o b) = 2 * i + 2
        /\ \A e \in 1 .. 2 * i + 2 : (a \o b)[e] = IF e <= 2 * i THEN a[e] ELSE b[e - 2 * i]
    <3>1. /\ Len(a \o b) = Len(a) + Len(b)
          /\ \A e \in 1 .. Len(a) + Len(b) :
                (a \o b)[e] = IF e <= Len(a) THEN a[e] ELSE b[e - Len(a)]
      BY <2>1, ConcatProperties
    <3> QED
      BY <2>1, <2>3, <3>1
  <2>6. ASSUME NEW e \in 1 .. i + 1
        PROVE  (a \o b)[2 * e - 1] = q[e][1] /\ (a \o b)[2 * e] = q[e][2]
    <3>1. CASE e <= i
      <4>1. /\ 2 * e - 1 \in 1 .. 2 * i + 2 /\ 2 * e - 1 <= 2 * i
            /\ 2 * e \in 1 .. 2 * i + 2 /\ 2 * e <= 2 * i /\ e \in 1 .. i
        BY <3>1
      <4> QED
        BY <2>3, <2>5, <4>1
    <3>2. CASE ~ (e <= i)
      <4>1. /\ e = i + 1 /\ (2 * e - 1) - 2 * i = 1 /\ 2 * e - 2 * i = 2
            /\ 2 * e - 1 \in 1 .. 2 * i + 2 /\ ~ (2 * e - 1 <= 2 * i)
            /\ 2 * e \in 1 .. 2 * i + 2 /\ ~ (2 * e <= 2 * i)
        BY <3>2
      <4> QED
        BY <2>4, <2>5, <4>1
    <3> QED
      BY <3>1, <3>2
  <2>7. 2 * (i + 1) = 2 * i + 2
    OBVIOUS
  <2> QED
    BY <2>2, <2>5, <2>6, <2>7
<1> HIDE DEF P
<1>3. Nat \subseteq P
  BY <1>1, <1>2, SetInduction
<1>4. n \in P /\ n <= n
  BY <1>3
<1> QED
  BY <1>4 DEF P

\* The rows of a client's own report, when there is one of each stream.
LEMMA OneRowEach ==
  ASSUME P3Inv, NEW c \in Clients, NEW b \in BOOLEAN,
         dir[c] = IF b THEN "forward" ELSE "reverse",
         NEW H, H \in [0 .. Parallel[c] -> Seq(AnyRow)],
         Joins(H, OwnRows(c), Parallel[c])
  PROVE  \A i \in 0 .. Parallel[c] :
           /\ Len(H[i]) = i
           /\ \A e \in 1 .. i :
                H[i][e] = Row(<<c, e>>, b, IF b THEN up[<<c, e>>] - CookieLen ELSE downRead[<<c, e>>])
<1> DEFINE p == Parallel[c]
           q == OwnRows(c)
           r(e) == Row(<<c, e>>, b, IF b THEN up[<<c, e>>] - CookieLen ELSE downRead[<<c, e>>])
<1>1. p \in Nat /\ q \in [1 .. p -> Seq(AnyRow)]
  BY OwnRowsTyped
<1>2. ASSUME NEW e \in 1 .. p
      PROVE  q[e] = <<r(e)>>
  <2>1. <<c, e>> \in Conns /\ <<c, e>>[1] = c
    BY OwnRowsTyped
  <2>2. ClientRows(<<c, e>>) = <<r(e)>>
    <3>1. CASE b
      <4>1. r(e) = Row(<<c, e>>, TRUE, up[<<c, e>>] - CookieLen)
        BY <3>1
      <4>2. dir[<<c, e>>[1]] = "forward"
        BY <2>1, <3>1
      <4> HIDE DEF r
      <4> QED
        BY <2>1, <4>1, <4>2, ClientRowList
    <3>2. CASE ~ b
      <4>1. r(e) = Row(<<c, e>>, FALSE, downRead[<<c, e>>])
        BY <3>2
      <4>2. dir[<<c, e>>[1]] = "reverse"
        BY <2>1, <3>2
      <4> HIDE DEF r
      <4> QED
        BY <2>1, <4>1, <4>2, ClientRowList
    <3> QED
      BY <3>1, <3>2
  <2>3. q[e] = ClientRows(<<c, e>>)
    BY DEF OwnRows
  <2> QED
    BY <2>2, <2>3, Zenon
<1> HIDE DEF p, q, r
<1>3. \A e \in 1 .. p : Len(q[e]) = 1 /\ q[e][1] = r(e)
  BY <1>2, OneOrTwo
<1>4. H \in [0 .. p -> Seq(AnyRow)] /\ Joins(H, q, p)
  BY DEF p, q
<1>5. \A i \in 0 .. p : Len(H[i]) = i /\ \A e \in 1 .. i : H[i][e] = q[e][1]
  <2>1. Singles(AnyRow, p, q, H)
    BY <1>1, <1>3, <1>4 DEF Singles
  <2>2. p \in Nat
    BY <1>1
  <2>3. ASSUME NEW i \in 0 .. p
        PROVE  Len(H[i]) = i /\ \A e \in 1 .. i : H[i][e] = q[e][1]
    BY ONLY <2>1, <2>2, i \in 0 .. p, OneEach, SMT
  <2> QED
    BY <2>3, Zenon
<1>6. \A i \in 0 .. p : \A e \in 1 .. i : e \in 1 .. p
  BY <1>1
<1>7. \A i \in 0 .. p : Len(H[i]) = i /\ \A e \in 1 .. i : H[i][e] = r(e)
  BY <1>3, <1>5, <1>6, Zenon
<1> QED
  BY <1>7, Zenon DEF p, r

\* And when there are two.
LEMMA TwoRowsEach ==
  ASSUME P3Inv, NEW c \in Clients, dir[c] = "bidir"
  PROVE  /\ LocalRows(c) \in Seq(AnyRow) /\ Len(LocalRows(c)) = 2 * Parallel[c]
         /\ \A e \in 1 .. Parallel[c] :
              /\ LocalRows(c)[2 * e - 1] = Row(<<c, e>>, TRUE, up[<<c, e>>] - CookieLen)
              /\ LocalRows(c)[2 * e] = Row(<<c, e>>, FALSE, downRead[<<c, e>>])
<1> DEFINE p == Parallel[c]
           q == OwnRows(c)
           x(e) == Row(<<c, e>>, TRUE, up[<<c, e>>] - CookieLen)
           y(e) == Row(<<c, e>>, FALSE, downRead[<<c, e>>])
<1>1. p \in Nat /\ q \in [1 .. p -> Seq(AnyRow)]
  BY OwnRowsTyped
<1>2. ASSUME NEW e \in 1 .. p
      PROVE  q[e] = <<x(e), y(e)>>
  <2> DEFINE k == <<c, e>>
  <2>1. k \in Conns /\ dir[k[1]] = "bidir"
    BY OwnRowsTyped
  <2>2. ClientRows(k) = <<x(e), y(e)>>
    <3> HIDE DEF k
    <3>1. ClientRows(k) = <<Row(k, TRUE, up[k] - CookieLen), Row(k, FALSE, downRead[k])>>
      BY <2>1, ClientRowList
    <3> QED
      BY <3>1, Zenon DEF k
  <2>3. q[e] = ClientRows(<<c, e>>)
    BY DEF OwnRows
  <2> QED
    BY <2>2, <2>3, Zenon
<1>3. LocalRows(c) = FlattenSeq(q)
  BY DEF LocalRows, OwnRows
<1> HIDE DEF p, q, x, y
<1>4. \A e \in 1 .. p : Len(q[e]) = 2 /\ q[e][1] = x(e) /\ q[e][2] = y(e)
  BY <1>2, OneOrTwo
<1>5. PICK H \in [0 .. p -> Seq(AnyRow)] : Joins(H, q, p) /\ FlattenSeq(q) = H[p]
  BY ONLY <1>1, Flattened
<1>6. /\ Len(H[p]) = 2 * p
      /\ \A e \in 1 .. p : H[p][2 * e - 1] = q[e][1] /\ H[p][2 * e] = q[e][2]
  BY ONLY <1>1, <1>4, <1>5, TwoEach
<1>7. H[p] \in Seq(AnyRow)
  BY <1>1
<1>8. \A e \in 1 .. p : H[p][2 * e - 1] = x(e) /\ H[p][2 * e] = y(e)
  BY <1>4, <1>6, Zenon
<1> QED
  BY <1>3, <1>5, <1>6, <1>7, <1>8, Zenon DEF p, x, y

\* A client that sent sent all of its cookie first.
LEMMA CookieSent ==
  ASSUME P3Inv, RowsInv, NEW c \in Clients, cli[c] = "done", NEW k \in Streams(c)
  PROVE  /\ up[k] \in Nat /\ CookieLen \in Nat /\ downRead[k] \in Nat
         /\ ClientSends(dir[c]) => up[k] >= CookieLen
<1>1. k \in Conns /\ k[1] = c /\ k[2] > 0
  BY StreamConn
<1>2. upTx[k] = "end"
  BY DEF RowsInv, Listening
<1>3. ClientSends(dir[c]) => up[k] >= CookieLen
  BY <1>1, <1>2 DEF RowsInv, Presented
<1> QED
  BY <1>1, <1>3, Values, P3Assumption DEF P3Assumption

\* A connection of the test that the server did not accept brought nothing.
LEMMA Unserved ==
  ASSUME P3Inv, RowsInv, NEW c \in Clients, NEW k \in Streams(c), c # owner \/ k \notin Accepted
  PROVE  downRead[k] = 0
<1>1. k \in Conns /\ k[1] = c /\ k[2] > 0
  BY StreamConn
<1>2. down[k] \in Nat /\ downRead[k] \in Nat /\ downRead[k] <= down[k]
  BY <1>1, Values DEF Balanced
<1>3. upRx[k] \in {"new", "cookie", "dropped"}
  <2>1. upRx[k] \in {"new", "cookie", "read", "end", "dropped"}
    BY <1>1 DEF P3Inv, Types
  <2>2. CASE c # owner
    BY <1>1, <2>1, <2>2, Values DEF Authentic, CookieMatches
  <2>3. CASE k \notin Accepted
    BY <1>1, <2>3 DEF RowsInv, OnlyAccepted
  <2> QED
    BY <2>2, <2>3
<1>4. down[k] = 0
  BY <1>1, <1>3, Values DEF Authentic
<1> QED
  BY <1>2, <1>4

Single(u, c, b) ==
  /\ u \in Seq(AnyRow) /\ Len(u) = Parallel[c]
  /\ \A e \in 1 .. Parallel[c] :
       u[e] = Row(<<c, e>>, b, IF b THEN up[<<c, e>>] - CookieLen ELSE downRead[<<c, e>>])

LEMMA SingleRows ==
  ASSUME P3Inv, NEW c \in Clients, NEW b \in BOOLEAN, dir[c] = IF b THEN "forward" ELSE "reverse"
  PROVE  Single(LocalRows(c), c, b)
<1> DEFINE p == Parallel[c]
           q == OwnRows(c)
<1>1. p \in Nat /\ q \in [1 .. p -> Seq(AnyRow)]
  BY OwnRowsTyped
<1>2. LocalRows(c) = FlattenSeq(q)
  BY DEF LocalRows, OwnRows
<1> HIDE DEF p, q
<1>3. \E H : H \in [0 .. p -> Seq(AnyRow)] /\ Joins(H, q, p) /\ FlattenSeq(q) = H[p]
  <2>1. \E H \in [0 .. p -> Seq(AnyRow)] : Joins(H, q, p) /\ FlattenSeq(q) = H[p]
    BY ONLY <1>1, Flattened
  <2> QED
    BY <2>1
<1>4. PICK H : H \in [0 .. p -> Seq(AnyRow)] /\ Joins(H, q, p) /\ FlattenSeq(q) = H[p]
  BY <1>3
<1>5. \A i \in 0 .. p :
        /\ Len(H[i]) = i
        /\ \A e \in 1 .. i :
             H[i][e] = Row(<<c, e>>, b, IF b THEN up[<<c, e>>] - CookieLen ELSE downRead[<<c, e>>])
  BY <1>4, OneRowEach, Zenon DEF p, q
<1>6. p \in 0 .. p
  BY <1>1
<1>7. H[p] \in Seq(AnyRow)
  BY <1>4, <1>6
<1> QED
  BY <1>2, <1>4, <1>5, <1>6, <1>7, Zenon DEF Single, p

\* What the server's results are to a client: rows of its first streams, each of
\* the other half, and the streams that have none brought it nothing.
Heard(u, v, c, b) ==
  /\ v \in Seq(AnyRow) /\ Len(v) <= Len(u)
  /\ \A n \in 1 .. Len(v) : v[n].sender = ~ b /\ v[n].bytes = u[n].bytes
  /\ ~ b => \A n \in 1 .. Len(u) : n > Len(v) => u[n].bytes = 0
  /\ Answered(c) => Len(v) = Len(u)

LEMMA OthersHear ==
  ASSUME P3Inv, RowsInv, NEW c \in Clients, cli[c] = "done", c # owner, NEW b \in BOOLEAN,
         dir[c] = IF b THEN "forward" ELSE "reverse"
  PROVE  Heard(LocalRows(c), remote[c], c, b)
<1> DEFINE u == LocalRows(c)
           v == remote[c]
<1>1. v = <<>>
  BY DEF RowsInv, Replied, Nothing
<1>2. Single(u, c, b)
  BY SingleRows
<1>3. Parallel[c] \in Nat /\ \A n \in 1 .. Parallel[c] : <<c, n>> \in Streams(c)
  BY OwnRowsTyped
<1>4. \A n \in 1 .. Parallel[c] : downRead[<<c, n>>] = 0
  BY <1>3, Unserved
<1> HIDE DEF u, v
<1>5. ASSUME ~ b, NEW n \in 1 .. Parallel[c]
      PROVE  u[n].bytes = 0
  <2>1. u[n] = Row(<<c, n>>, b, downRead[<<c, n>>])
    BY <1>2, <1>5 DEF Single
  <2>2. u[n].bytes = downRead[<<c, n>>]
    BY <2>1 DEF Row
  <2> QED
    BY <1>4, <2>2
<1>6. Len(v) = 0 /\ v \in Seq(AnyRow)
  BY <1>1
<1> QED
  <2>1. Len(u) = Parallel[c]
    BY <1>2 DEF Single
  <2>2. Heard(u, v, c, b)
    BY <1>3, <1>5, <1>6, <2>1 DEF Heard, Answered
  <2> QED
    BY <2>2 DEF u, v

LEMMA OwnerHears ==
  ASSUME P3Inv, RowsInv, Finished, NEW b \in BOOLEAN,
         dir[owner] = IF b THEN "forward" ELSE "reverse"
  PROVE  Heard(LocalRows(owner), remote[owner], owner, b)
<1> DEFINE p == Parallel[owner]
           q == OwnRows(owner)
           u == LocalRows(owner)
<1>1. owner \in Clients /\ cli[owner] = "done" /\ dir[owner] # "bidir"
  BY DEF Finished
<1>2. remote[owner] = reply
  BY <1>1 DEF RowsInv, Replied
<1>3. reply \in Seq(AnyRow)
  <2>1. reply \in Seq(Rows)
    BY ReplyTyped DEF RowsInv
  <2>2. Rows \subseteq AnyRow
    BY P3Assumption DEF Rows, AnyRow, P3Assumption
  <2> HIDE DEF Rows, AnyRow
  <2> QED
    BY <2>1, <2>2, SMT
<1>4. Single(u, owner, b)
  BY <1>1, SingleRows
<1>5. p \in Nat /\ \A n \in 1 .. p : <<owner, n>> \in Streams(owner)
  BY <1>1, OwnRowsTyped
<1> HIDE DEF p, q, u
<1>6. \E H, m :
        /\ H \in [0 .. p -> Seq(AnyRow)] /\ Joins(H, q, p) /\ m \in 0 .. p /\ u = H[p]
        /\ Len(reply) = Len(H[m])
        /\ \A l \in 1 .. Len(reply) : Matching(reply[l], H[m][l])
        /\ \A n \in 1 .. p : n <= m <=> <<owner, n>> \in Accepted
  BY ReplyPaired, Zenon DEF p, q, u
<1>7. PICK H, m :
        /\ H \in [0 .. p -> Seq(AnyRow)] /\ Joins(H, q, p) /\ m \in 0 .. p /\ u = H[p]
        /\ Len(reply) = Len(H[m])
        /\ \A l \in 1 .. Len(reply) : Matching(reply[l], H[m][l])
        /\ \A n \in 1 .. p : n <= m <=> <<owner, n>> \in Accepted
  BY <1>6
<1> DEFINE r(e) == Row(<<owner, e>>, b,
                       IF b THEN up[<<owner, e>>] - CookieLen ELSE downRead[<<owner, e>>])
<1>8. \A i \in 0 .. p : Len(H[i]) = i /\ \A e \in 1 .. i : H[i][e] = r(e)
  BY <1>1, <1>7, OneRowEach, Zenon DEF p, q
<1>9. Len(u) = p /\ \A e \in 1 .. p : u[e] = r(e)
  BY <1>4 DEF Single, p
<1>10. \A e \in 1 .. p : r(e).sender = b /\ (~ b => r(e).bytes = downRead[<<owner, e>>])
  BY DEF Row
<1> HIDE DEF r
<1>11. Len(reply) = m /\ m \in Nat /\ m <= p /\ \A l \in 1 .. m : H[m][l] = r(l)
  BY <1>5, <1>7, <1>8
<1>12. \A l \in 1 .. m : reply[l].sender = ~ b /\ reply[l].bytes = u[l].bytes
  <2>1. \A l \in 1 .. m : b = ~ reply[l].sender
        /\ reply[l].bytes = r(l).bytes /\ reply[l].sender \in BOOLEAN
    <3>1. \A l \in 1 .. m : l \in 1 .. p /\ l \in 1 .. Len(reply)
      BY <1>5, <1>11
    <3>2. \A l \in 1 .. m : reply[l].sender = ~ r(l).sender /\ reply[l].bytes = r(l).bytes
      BY <1>1, <1>7, <1>11, <3>1 DEF Matching
    <3>3. \A l \in 1 .. m : reply[l].sender = ~ b
      BY <1>10, <3>1, <3>2
    <3>4. \A l \in 1 .. m : b = ~ reply[l].sender /\ reply[l].sender \in BOOLEAN
      BY <3>3
    <3> QED
      BY <3>2, <3>4
  <2>2. \A l \in 1 .. m : l \in 1 .. p
    BY <1>5, <1>11
  <2> QED
    BY <1>9, <2>1, <2>2
<1>13. ASSUME ~ b, NEW n \in 1 .. p, n > m
       PROVE  u[n].bytes = 0
  <2>1. <<owner, n>> \notin Accepted
    BY <1>5, <1>7, <1>11, <1>13
  <2>2. downRead[<<owner, n>>] = 0
    BY <1>1, <1>5, <2>1, Unserved
  <2> QED
    BY <1>9, <1>10, <1>13, <2>2
<1>14. Answered(owner) => m = p
  <2> SUFFICES ASSUME Streams(owner) \subseteq Accepted, m # p
               PROVE  FALSE
    BY DEF Answered
  <2>1. p \in 1 .. p /\ ~ (p <= m)
    BY <1>5, <1>11
  <2> QED
    BY <1>5, <1>7, <2>1
<1>15. Heard(u, reply, owner, b)
  BY <1>3, <1>9, <1>11, <1>12, <1>13, <1>14 DEF Heard
<1> QED
  BY <1>2, <1>15 DEF u

\* In one direction, the server's rows face the client's.
LEMMA OneWay ==
  ASSUME P3Inv, RowsInv, NEW c \in Clients, cli[c] = "done", dir[c] # "bidir"
  PROVE  /\ Received(c) <= Sent(c)
         /\ Answered(c) => Received(c) = Sent(c)
<1> DEFINE b == dir[c] = "forward"
           u == LocalRows(c)
           v == remote[c]
           D == DOMAIN u
           E == DOMAIN u \cap DOMAIN v
           uSent == Bytes(u, D, TRUE)
           uReceived == Bytes(u, D, FALSE)
           vSent == Bytes(v, E, TRUE)
           vReceived == Bytes(v, E, FALSE)
<1>1. b \in BOOLEAN /\ dir[c] = (IF b THEN "forward" ELSE "reverse") /\ (b => ClientSends(dir[c]))
  <2>1. \/ dir[c] = "forward" /\ ClientSends(dir[c])
        \/ dir[c] = "reverse"
    BY Directed, Zenon
  <2> QED
    BY <2>1
<1>2. Sent(c) = uSent + vSent /\ Received(c) = uReceived + vReceived
  BY Zenon DEF Sent, Received, Sum, Shown
<1> HIDE DEF b
<1>3. Single(u, c, b)
  BY <1>1, SingleRows
<1>4. Heard(u, v, c, b)
  <2>1. CASE c = owner
    <3>1. Finished
      BY <2>1 DEF Finished, P3Inv, Left
    <3> QED
      BY <1>1, <2>1, <3>1, OwnerHears
  <2>2. CASE c # owner
    BY <1>1, <2>2, OthersHear
  <2> QED
    BY <2>1, <2>2
<1> HIDE DEF u, v
<1>5. ASSUME NEW n \in 1 .. Len(u)
      PROVE  u[n].sender = b /\ u[n].bytes >= 0
  <2>1. n \in 1 .. Parallel[c]
    BY <1>3 DEF Single
  <2>2. <<c, n>> \in Streams(c)
    BY <2>1, OwnRowsTyped
  <2> DEFINE k == <<c, n>>
  <2>3. up[k] \in Nat /\ CookieLen \in Nat /\ downRead[k] \in Nat /\ (b => up[k] >= CookieLen)
    BY <1>1, <2>2, CookieSent
  <2>4. u[n] = Row(k, b, IF b THEN up[k] - CookieLen ELSE downRead[k])
    BY <1>3, <2>1 DEF Single
  <2> HIDE DEF k
  <2>5. u[n].sender = b /\ u[n].bytes = IF b THEN up[k] - CookieLen ELSE downRead[k]
    BY <2>4 DEF Row
  <2> QED
    BY <2>3, <2>5
<1>6. /\ u \in Seq(AnyRow) /\ v \in Seq(AnyRow) /\ Len(v) <= Len(u)
      /\ \A n \in 1 .. Len(v) : v[n].sender = ~ b /\ v[n].bytes = u[n].bytes
  BY <1>3, <1>4 DEF Single, Heard
<1>7. /\ Bytes(u, D, ~ b) = 0 /\ Bytes(v, E, b) = 0
      /\ Bytes(u, D, b) \in Int /\ Bytes(v, E, ~ b) \in Int
      /\ Bytes(v, E, ~ b) <= Bytes(u, D, b)
      /\ (\A n \in 1 .. Len(u) : n > Len(v) => u[n].bytes = 0)
           => Bytes(u, D, b) <= Bytes(v, E, ~ b)
  BY ONLY <1>1, <1>5, <1>6, Facing, Zenon
<1>8. /\ ~ b => \A n \in 1 .. Len(u) : n > Len(v) => u[n].bytes = 0
      /\ Answered(c) => \A n \in 1 .. Len(u) : n > Len(v) => u[n].bytes = 0
  <2>1. Answered(c) => Len(v) = Len(u)
    BY <1>4 DEF Heard
  <2>2. Len(u) \in Nat /\ \A n \in 1 .. Len(u) : ~ (n > Len(u))
    BY <1>6
  <2>3. Answered(c) => \A n \in 1 .. Len(u) : n > Len(v) => u[n].bytes = 0
    BY <2>1, <2>2
  <2> QED
    BY <1>4, <2>3 DEF Heard
<1> HIDE DEF D, E
<1>9. CASE b
  <2>1. (~ b) = FALSE /\ b = TRUE
    BY <1>1, <1>9
  <2>2. /\ uReceived = 0 /\ vSent = 0 /\ uSent \in Int /\ vReceived \in Int
        /\ vReceived <= uSent
        /\ Answered(c) => uSent <= vReceived
    BY <1>7, <1>8, <2>1
  <2> HIDE DEF uSent, uReceived, vSent, vReceived
  <2> QED
    BY <1>2, <2>2
<1>10. CASE ~ b
  <2>1. (~ b) = TRUE /\ b = FALSE
    BY <1>1, <1>10
  <2>2. /\ uSent = 0 /\ vReceived = 0 /\ uReceived \in Int /\ vSent \in Int
        /\ vSent <= uReceived /\ uReceived <= vSent
    BY <1>7, <1>8, <2>1
  <2> HIDE DEF uSent, uReceived, vSent, vReceived
  <2> QED
    BY <1>2, <2>2
<1> QED
  BY <1>9, <1>10

LEMMA OddOrEven ==
  ASSUME NEW p \in Nat, NEW id \in 1 .. 2 * p
  PROVE  \E e \in 1 .. p : id = 2 * e - 1 \/ id = 2 * e
<1>1. (id + 1) \div 2 \in 1 .. p
      /\ (id = 2 * ((id + 1) \div 2) - 1 \/ id = 2 * ((id + 1) \div 2))
  BY SMT
<1> QED
  BY <1>1

LEMMA StreamsFinite ==
  ASSUME NEW c \in Clients
  PROVE  /\ IsFiniteSet(Streams(c)) /\ Parallel[c] \in Nat
         /\ \A k \in Streams(c) : k[2] \in 1 .. Parallel[c] /\ k = <<c, k[2]>>
         /\ \A n \in 1 .. Parallel[c] : <<c, n>> \in Streams(c)
<1> DEFINE p == Parallel[c]
           f == [n \in 1 .. p |-> <<c, n>>]
<1>1. p \in Nat
  BY P3Assumption DEF P3Assumption
<1>2. \A k \in Streams(c) : k[2] \in 1 .. p /\ k = <<c, k[2]>>
  BY DEF Streams
<1>3. \A n \in 1 .. p : <<c, n>> \in Streams(c)
  BY DEF Streams
<1>4. f \in Surjection(1 .. p, Streams(c))
  BY <1>2, <1>3 DEF Surjection
<1>5. IsFiniteSet(1 .. p)
  <2>1. 1 \in Int /\ p \in Int
    BY <1>1
  <2> QED
    BY <2>1, FS_Interval, Zenon
<1>6. IsFiniteSet(Streams(c))
  BY <1>4, <1>5, FS_Surjection, Zenon
<1> QED
  BY <1>1, <1>2, <1>3, <1>6

\* What the sum of one half is when only the client's own rows are added.
LEMMA OwnHalf ==
  ASSUME P3Inv, NEW c \in Clients, dir[c] = "bidir", NEW b \in BOOLEAN,
         NEW h, NEW w, SumIs(Streams(c), h, w), \A k \in Streams(c) : h[k] >= 0,
         \A k \in Streams(c) : h[k] = IF b THEN up[k] - CookieLen ELSE downRead[k]
  PROVE  Sum(LocalRows(c), remote[c], TRUE, b) = w
<1> DEFINE u == LocalRows(c)
           v == remote[c]
           p == Parallel[c]
           S == Streams(c)
           at == [k \in S |-> IF b THEN 2 * k[2] - 1 ELSE 2 * k[2]]
<1>1. Sum(u, v, TRUE, b) = Bytes(u, DOMAIN u, b) + Bytes(v, {}, b)
  BY Zenon DEF Sum, Shown
<1>2. Bytes(v, {}, b) = 0
  <2>1. Having(v, {}, b) = {} /\ IsFiniteSet({})
    BY FS_EmptySet DEF Having
  <2>2. SumIs({}, RowBytes(v, {}), Bytes(v, {}, b))
    <3>1. \A id \in {} : v[id].bytes \in Int
      OBVIOUS
    <3> QED
      BY <2>1, <3>1, BytesSum, Zenon
  <2> QED
    BY ONLY <2>2, SumIsInt
<1>3. /\ p \in Nat
      /\ \A k \in S : k[2] \in 1 .. p /\ k = <<c, k[2]>>
      /\ \A n \in 1 .. p : <<c, n>> \in S
  BY StreamsFinite
<1>4. /\ u \in Seq(AnyRow) /\ Len(u) = 2 * p
      /\ \A e \in 1 .. p : /\ u[2 * e - 1] = Row(<<c, e>>, TRUE, up[<<c, e>>] - CookieLen)
                           /\ u[2 * e] = Row(<<c, e>>, FALSE, downRead[<<c, e>>])
  BY TwoRowsEach
<1> HIDE DEF u, p, S
<1>5. \A k \in S : /\ u[2 * k[2] - 1] = Row(k, TRUE, up[k] - CookieLen)
                   /\ u[2 * k[2]] = Row(k, FALSE, downRead[k])
  BY <1>3, <1>4, ZenonT(40)
<1>6. ASSUME NEW k \in S
      PROVE  /\ at[k] \in 1 .. Len(u) /\ u[at[k]].sender = b
             /\ u[at[k]].conn = k /\ u[at[k]].bytes = h[k]
  <2>1. k[2] \in 1 .. p
    BY <1>3
  <2>2. at[k] \in 1 .. Len(u)
    BY <1>3, <1>4, <2>1
  <2>3. u[at[k]] = Row(k, b, h[k])
    <3>1. h[k] = IF b THEN up[k] - CookieLen ELSE downRead[k]
      BY DEF S
    <3>2. CASE b
      <4>1. at[k] = 2 * k[2] - 1 /\ b = TRUE
        BY <3>2
      <4> QED
        BY <1>5, <3>1, <3>2, <4>1
    <3>3. CASE ~ b
      <4>1. at[k] = 2 * k[2] /\ b = FALSE
        BY <3>3
      <4> QED
        BY <1>5, <3>1, <3>3, <4>1
    <3> QED
      BY <3>2, <3>3
  <2> HIDE DEF at
  <2> QED
    BY <2>2, <2>3 DEF Row
<1>7. ASSUME NEW id \in 1 .. Len(u), u[id].sender = b
      PROVE  \E k \in S : id = at[k]
  <2>1. PICK e \in 1 .. p : id = 2 * e - 1 \/ id = 2 * e
    BY <1>3, <1>4, OddOrEven
  <2> DEFINE k == <<c, e>>
  <2>2. k \in S /\ k[2] = e
    BY <1>3
  <2>3. at[k] = IF b THEN 2 * e - 1 ELSE 2 * e
    BY <2>2
  <2>4. /\ id = 2 * e - 1 => u[id].sender = TRUE
        /\ id = 2 * e => u[id].sender = FALSE
    <3>1. /\ u[2 * e - 1] = Row(<<c, e>>, TRUE, up[<<c, e>>] - CookieLen)
          /\ u[2 * e] = Row(<<c, e>>, FALSE, downRead[<<c, e>>])
      BY <1>4
    <3>2. u[2 * e - 1].sender = TRUE /\ u[2 * e].sender = FALSE
      BY <3>1 DEF Row
    <3> QED
      BY <3>2, Zenon
  <2> HIDE DEF at, k
  <2>5. id = at[k]
    BY <1>7, <2>1, <2>3, <2>4
  <2> QED
    BY <2>2, <2>5
<1>8. Bytes(u, DOMAIN u, b) = w
  <2>1. SumIs(S, h, w) /\ \A k \in S : h[k] >= 0
    BY DEF S
  <2> HIDE DEF at
  <2> QED
    BY <1>4, <1>6, <1>7, <2>1, Spread
<1>9. w \in Int
  BY SumIsInt
<1>10. Sum(u, v, TRUE, b) = w
  <2>1. w + 0 = w
    BY <1>9
  <2> QED
    BY <1>1, <1>2, <1>8, <2>1, Zenon
<1> QED
  BY <1>10 DEF u

\* In both directions, each stream counts once in either line.
LEMMA BothWays ==
  ASSUME P3Inv, RowsInv, NEW c \in Clients, cli[c] = "done", dir[c] = "bidir"
  PROVE  /\ Sent(c) = MapThenSumSet(LAMBDA k : up[k] - CookieLen, Streams(c))
         /\ Received(c) = MapThenSumSet(LAMBDA k : downRead[k], Streams(c))
<1> DEFINE S == Streams(c)
           f == [k \in S |-> up[k] - CookieLen]
           h == [k \in S |-> downRead[k]]
<1>1. \A k \in S : /\ up[k] \in Nat /\ CookieLen \in Nat /\ up[k] >= CookieLen
                   /\ downRead[k] \in Nat
  BY CookieSent DEF ClientSends
<1>2. f \in [S -> Int] /\ \A k \in S : f[k] = up[k] - CookieLen /\ f[k] >= 0
  BY <1>1
<1>3. h \in [S -> Int] /\ \A k \in S : h[k] = downRead[k] /\ h[k] >= 0
  BY <1>1
<1>4. IsFiniteSet(S)
  BY StreamsFinite
<1> HIDE DEF f, h
<1> DEFINE x == MapThenSumSet(LAMBDA k : up[k] - CookieLen, S)
           y == MapThenSumSet(LAMBDA k : downRead[k], S)
<1>5. SumIs(S, f, x)
  <2>1. f \in [S -> Int] /\ \A k \in S : f[k] = up[k] - CookieLen
    BY <1>2
  <2> QED
    BY <1>4, <2>1, SentSum, Zenon
<1>6. SumIs(S, h, y)
  <2>1. h \in [S -> Int] /\ \A k \in S : h[k] = downRead[k]
    BY <1>3
  <2> QED
    BY <1>4, <2>1, ReceivedSum, Zenon
<1>7. Sent(c) = Sum(LocalRows(c), remote[c], TRUE, TRUE)
      /\ Received(c) = Sum(LocalRows(c), remote[c], TRUE, FALSE)
  <2>1. (dir[c] = "bidir") = TRUE
    OBVIOUS
  <2> QED
    BY <2>1, Zenon DEF Sent, Received
<1> HIDE DEF x, y
<1>8. Sum(LocalRows(c), remote[c], TRUE, TRUE) = x
  BY <1>2, <1>5, OwnHalf
<1>9. Sum(LocalRows(c), remote[c], TRUE, FALSE) = y
  BY <1>3, <1>6, OwnHalf
<1>10. Sent(c) = x /\ Received(c) = y
  BY <1>7, <1>8, <1>9
<1> QED
  BY <1>10, Zenon DEF x, y

\* The SUM lines of a client that is done count no byte twice and none that was
\* not carried (print_summary adds the other end's rows in one direction only,
\* and passes over those that are missing at either end).
THEOREM SumsAreTrueHolds == Spec => []SumsAreTrue
<1>1. P3Inv /\ RowsInv => SumsAreTrue
  <2> SUFFICES ASSUME P3Inv, RowsInv, NEW c \in Clients, cli[c] = "done"
               PROVE  IF dir[c] = "bidir"
                      THEN /\ Sent(c) = MapThenSumSet(LAMBDA k : up[k] - CookieLen, Streams(c))
                           /\ Received(c) = MapThenSumSet(LAMBDA k : downRead[k], Streams(c))
                      ELSE /\ Received(c) <= Sent(c)
                           /\ Answered(c) => Received(c) = Sent(c)
    BY Zenon DEF SumsAreTrue
  <2>1. CASE dir[c] = "bidir"
    BY <2>1, BothWays, Zenon
  <2>2. CASE dir[c] # "bidir"
    BY <2>2, OneWay, Zenon
  <2> QED
    BY <2>1, <2>2, Zenon
<1> QED
  BY <1>1, P3Invariance, PTL

----------------------------------------------------------------------------
(* The refinement of ByteStream.                                           *)

LEMMA EndNames ==
  /\ SenderIs["new"] = "wait" /\ SenderIs["send"] = "open" /\ SenderIs["write"] = "open"
  /\ SenderIs["hold"] = "open" /\ SenderIs["end"] = "closed"
  /\ ReceiverIs["new"] = "wait" /\ ReceiverIs["cookie"] = "wait" /\ ReceiverIs["read"] = "open"
  /\ ReceiverIs["end"] = "ended" /\ ReceiverIs["dropped"] = "away"
BY SMT DEF SenderIs, ReceiverIs

\* The steps of one connection leave the others alone.
LEMMA OthersStill ==
  ASSUME P3Inv, NEW j \in Conns, NEW k \in Conns, j # k,
         Sending(j) \/ Receiving(j) \/ ServerReceiving(j) \/ ServerSending(j)
  PROVE  /\ up'[k] = up[k] /\ total'[k] = total[k] /\ upTx'[k] = upTx[k] /\ upRx'[k] = upRx[k]
         /\ down'[k] = down[k] /\ downRead'[k] = downRead[k]
         /\ downTx'[k] = downTx[k] /\ downRx'[k] = downRx[k]
         /\ UNCHANGED <<cli, srv>>
<1> USE DEF client, server, upward, downward, P3Inv, Types
<1>1. CASE Sending(j)
  BY <1>1, SMT DEF Sending, CliCookie, CliStops, CliBegins, CliWrites
<1>2. CASE Receiving(j)
  BY <1>2, SMT DEF Receiving, CliReads, CliReadEnds
<1>3. CASE SrvCookie(j)
  BY <1>3, SMT DEF SrvCookie
<1>4. CASE SrvCookieEnds(j) \/ SrvReads(j) \/ SrvReadEnds(j)
  BY <1>4, SMT DEF SrvCookieEnds, SrvReads, SrvReadEnds
<1>5. CASE ServerSending(j)
  BY <1>5, SMT DEF ServerSending, SrvStops, SrvBegins, SrvWrites
<1> QED
  BY <1>1, <1>2, <1>3, <1>4, <1>5 DEF ServerReceiving

\* A step that moves neither end of a stream and no byte of it stutters.
LEMMA UpwardStill ==
  ASSUME NEW k, UpData(k)' = UpData(k), total'[k] = total[k],
         UpFrom(k)' = UpFrom(k), UpTo(k)' = UpTo(k)
  PROVE  UNCHANGED Upward(k)!streamVars
BY DEF Upward!streamVars

LEMMA DownwardStill ==
  ASSUME NEW k, down'[k] = down[k], downRead'[k] = downRead[k],
         DownFrom(k)' = DownFrom(k), DownTo(k)' = DownTo(k)
  PROVE  UNCHANGED Downward(k)!streamVars
BY DEF Downward!streamVars

UpwardKept(k) == Upward(k)!StreamNext \/ UNCHANGED Upward(k)!streamVars
DownwardKept(k) == Downward(k)!StreamNext \/ UNCHANGED Downward(k)!streamVars

\* The client's sending half of a connection.
LEMMA UpwardSends ==
  ASSUME P3Inv, RowsInv, NEW k \in Conns, k[2] > 0, ClientSends(dir[k[1]]), Sending(k)
  PROVE  UpwardKept(k)
<1> USE DEF client, server, upward, downward
<1>1. /\ up \in [Conns -> Nat] /\ upTx \in [Conns -> {"new", "send", "write", "hold", "end"}]
      /\ CookieLen \in Nat \ {0}
  BY P3Assumption DEF P3Inv, Types, P3Assumption
<1>2. /\ UNCHANGED <<cli, total, upRx>> /\ cli[k[1]] = "stream"
      /\ UpTo(k)' = UpTo(k) /\ total'[k] = total[k]
  BY Zenon DEF Sending, CliCookie, CliStops, CliBegins, CliWrites, UpTo
<1>3. /\ UpFrom(k) = SenderIs[upTx[k]] /\ UpFrom(k)' = SenderIs[upTx'[k]]
  BY <1>2, SMT DEF UpFrom
<1>4. /\ UpData(k) = IF up[k] > CookieLen THEN up[k] - CookieLen ELSE 0
      /\ UpData(k)' = IF up'[k] > CookieLen THEN up'[k] - CookieLen ELSE 0
  BY DEF UpData
<1>5. CASE CliCookie(k)
  <2>1. /\ upTx[k] = "new" /\ upTx'[k] = "send" /\ up[k] = 0 /\ up'[k] = CookieLen
    BY <1>1, <1>5, Values, SMT DEF CliCookie, Balanced
  <2>2. UpData(k)' = UpData(k)
    BY <1>1, <1>4, <2>1, SMT
  <2>3. Upward(k)!Opens
    BY <1>2, <1>3, <2>1, <2>2, EndNames, Zenon DEF Upward!Opens
  <2> QED
    BY <2>3 DEF Upward!StreamNext, UpwardKept
<1>6. CASE CliStops(k)
  <2>1. /\ upTx[k] = "send" /\ upTx'[k] = "end" /\ up' = up
    BY <1>1, <1>6, SMT DEF CliStops
  <2>2. Upward(k)!Closes
    BY <1>2, <1>3, <1>4, <2>1, EndNames, SMT DEF Upward!Closes
  <2> QED
    BY <2>2 DEF Upward!StreamNext, UpwardKept
<1>7. CASE CliBegins(k)
  <2>1. /\ upTx[k] = "send" /\ upTx'[k] = "write" /\ up' = up
    BY <1>1, <1>7, SMT DEF CliBegins
  <2> QED
    BY <1>2, <1>3, <1>4, <2>1, EndNames, UpwardStill DEF UpwardKept
<1>8. CASE CliWrites(k)
  <2>1. upTx[k] = "write" /\ up[k] >= CookieLen
    BY <1>8, SMT DEF CliWrites, RowsInv, Presented
  <2>2. CASE up'[k] = up[k] + 1 /\ upTx'[k] = "send"
    <3>1. UpData(k)' > UpData(k)
      BY <1>1, <1>4, <2>1, <2>2, SMT
    <3>2. Upward(k)!Sends
      BY <1>2, <1>3, <2>1, <2>2, <3>1, EndNames, SMT DEF Upward!Sends
    <3> QED
      BY <3>2 DEF Upward!StreamNext, UpwardKept
  <2>3. CASE up' = up /\ upTx'[k] = "end"
    <3>1. Upward(k)!Closes
      BY <1>2, <1>3, <1>4, <2>1, <2>3, EndNames, SMT DEF Upward!Closes
    <3> QED
      BY <3>1 DEF Upward!StreamNext, UpwardKept
  <2> QED
    BY <1>1, <1>8, <2>2, <2>3, SMT DEF CliWrites
<1> QED
  BY <1>5, <1>6, <1>7, <1>8 DEF Sending

\* The server's receiving half.
LEMMA UpwardReceives ==
  ASSUME P3Inv, RowsInv, NEW k \in Conns, ClientSends(dir[k[1]]), ServerReceiving(k)
  PROVE  UpwardKept(k)
<1> USE DEF client, server, upward, downward
<1>1. /\ up \in [Conns -> Nat] /\ upRead \in [Conns -> Nat] /\ total \in [Conns -> Nat]
      /\ upRx \in [Conns -> {"new", "cookie", "read", "end", "dropped"}]
      /\ CookieLen \in Nat \ {0} /\ up[k] \in Nat /\ upRead[k] \in Nat /\ total[k] \in Nat
  BY P3Assumption DEF P3Inv, Types, P3Assumption
<1>2. /\ UNCHANGED <<cli, up, upTx>> /\ srv = "stream"
      /\ UpFrom(k)' = UpFrom(k) /\ UpData(k)' = UpData(k)
  BY Zenon DEF ServerReceiving, SrvCookie, SrvCookieEnds, SrvReads, SrvReadEnds, UpFrom, UpData
<1>3. UpTo(k) = ReceiverIs[upRx[k]] /\ UpTo(k)' = ReceiverIs[upRx'[k]]
  BY DEF UpTo
<1>4. UpData(k) = IF up[k] > CookieLen THEN up[k] - CookieLen ELSE 0
  BY DEF UpData
<1>5. Authentic(k) /\ Balanced(k)
  BY DEF P3Inv
<1>6. CASE SrvCookie(k)
  <2>1. PICK n \in 1 .. up[k] - upRead[k] :
          LET read == upRead[k] + n
          IN /\ upRead' = [upRead EXCEPT ![k] = read]
             /\ IF read < CookieLen
                THEN UNCHANGED <<upRx, total, downTx>>
                ELSE IF CookieMatches(k)
                THEN /\ upRx' = [upRx EXCEPT ![k] =
                                   IF ClientSends(dir[owner]) THEN "read" ELSE "end"]
                     /\ downTx' = [downTx EXCEPT ![k] =
                                     IF ServerSends(dir[owner]) THEN "send" ELSE "end"]
                     /\ total' = [total EXCEPT ![k] = Leftover(read)]
                ELSE /\ upRx' = [upRx EXCEPT ![k] = "dropped"]
                     /\ UNCHANGED <<total, downTx>>
    BY <1>6, Zenon DEF SrvCookie
  <2> DEFINE read == upRead[k] + n
  <2>2. read \in Nat /\ read <= up[k]
    BY <1>1, <2>1, SMT
  <2>3. upRx[k] = "cookie" /\ total[k] = 0
    BY <1>5, <1>6 DEF SrvCookie, Authentic
  <2>4. CASE read < CookieLen
    BY <1>2, <1>3, <2>1, <2>4, UpwardStill DEF UpwardKept
  <2>5. CASE ~ read < CookieLen /\ CookieMatches(k)
    <3>1. upRx'[k] = "read" /\ total'[k] = read - CookieLen
      BY <1>1, <2>1, <2>5, SMT DEF CookieMatches, Leftover
    <3>2. total'[k] \in total[k] .. UpData(k)
      BY <1>1, <1>4, <2>2, <2>3, <2>5, <3>1, SMT
    <3>3. Upward(k)!Listens
      BY <1>2, <1>3, <2>3, <3>1, <3>2, EndNames, Zenon DEF Upward!Listens
    <3> QED
      BY <3>3 DEF Upward!StreamNext, UpwardKept
  <2>6. CASE ~ read < CookieLen /\ ~ CookieMatches(k)
    <3>1. upRx'[k] = "dropped" /\ total' = total
      BY <1>1, <2>1, <2>6, SMT
    <3>2. Upward(k)!Leaves
      BY <1>2, <1>3, <3>1, EndNames, Zenon DEF Upward!Leaves
    <3> QED
      BY <3>2 DEF Upward!StreamNext, UpwardKept
  <2> QED
    BY <2>4, <2>5, <2>6
<1>7. CASE SrvCookieEnds(k)
  <2>1. upRx'[k] = "dropped" /\ total' = total
    BY <1>1, <1>7, SMT DEF SrvCookieEnds
  <2>2. Upward(k)!Leaves
    BY <1>2, <1>3, <2>1, EndNames, Zenon DEF Upward!Leaves
  <2> QED
    BY <2>2 DEF Upward!StreamNext, UpwardKept
<1>8. CASE SrvReads(k)
  <2>1. PICK n \in 1 .. up[k] - upRead[k] : total' = [total EXCEPT ![k] = @ + n]
    BY <1>8, Zenon DEF SrvReads
  <2>2. upRx[k] = "read" /\ upRx' = upRx /\ total'[k] = total[k] + n
        /\ total[k] = upRead[k] - CookieLen
    BY <1>1, <1>5, <1>8, <2>1, SMT DEF SrvReads, Authentic
  <2>3. total'[k] \in total[k] .. UpData(k)
    BY <1>1, <1>4, <2>1, <2>2, SMT
  <2>4. Upward(k)!Counts
    BY <1>2, <1>3, <2>2, <2>3, EndNames, Zenon DEF Upward!Counts
  <2> QED
    BY <2>4 DEF Upward!StreamNext, UpwardKept
<1>9. CASE SrvReadEnds(k)
  <2>1. upRx[k] = "read" /\ upRx'[k] = "end" /\ total' = total
        /\ total[k] = upRead[k] - CookieLen /\ upRead[k] >= CookieLen
    BY <1>1, <1>5, <1>9, SMT DEF SrvReadEnds, Authentic
  <2>2. CASE ~ Here(k[1])
    <3>1. cli[k[1]] = "killed"
      BY <1>2, <2>2, ConnFacts, Zenon DEF Here, P3Inv, Types, Left
    <3>2. UpFrom(k) = "lost"
      BY <3>1 DEF UpFrom
    <3>3. Upward(k)!Ends
      BY <1>2, <1>3, <2>1, <3>2, EndNames, Zenon DEF Upward!Ends
    <3> QED
      BY <3>3 DEF Upward!StreamNext, UpwardKept
  <2>3. CASE upTx[k] = "end" /\ upRead[k] = up[k]
    <3>1. total[k] = UpData(k)
      BY <1>1, <1>4, <2>1, <2>3, SMT
    <3>2. UpFrom(k) \in {"closed", "lost"}
      BY <2>3, EndNames DEF UpFrom
    <3>3. Upward(k)!Ends
      BY <1>2, <1>3, <2>1, <3>1, <3>2, EndNames, Zenon DEF Upward!Ends
    <3> QED
      BY <3>3 DEF Upward!StreamNext, UpwardKept
  <2> QED
    BY <1>9, <2>2, <2>3 DEF SrvReadEnds, UpEnds
<1> QED
  BY <1>6, <1>7, <1>8, <1>9 DEF ServerReceiving

\* The client's receiving half, and the server's sending half, have nothing to do
\* with what the client sends.
LEMMA UpwardAside ==
  ASSUME P3Inv, NEW k \in Conns, ClientSends(dir[k[1]]), Receiving(k) \/ ServerSending(k)
  PROVE  UpwardKept(k)
<1>1. /\ UNCHANGED <<cli, up, total, upRx>> /\ upTx'[k] = upTx[k]
  BY SMT DEF P3Inv, Types, Receiving, ServerSending, CliReads, CliReadEnds, SrvStops, SrvBegins,
     SrvWrites, client, upward
<1>2. UpFrom(k)' = UpFrom(k) /\ UpTo(k)' = UpTo(k) /\ UpData(k)' = UpData(k)
  BY <1>1, Zenon DEF UpFrom, UpTo, UpData
<1> QED
  BY <1>1, <1>2, UpwardStill DEF UpwardKept

\* What a client does, and what becomes of it.
LEMMA UpwardClient ==
  ASSUME P3Inv, NEW k \in Conns, k[2] > 0, NEW e \in Clients, ClientStep(e) \/ Dies(e)
  PROVE  UpwardKept(k)
<1> USE DEF client, server, upward, downward
<1>1. /\ cli \in [Clients -> {"dial", "stream", "report", "done", "failed", "killed"}]
      /\ up \in [Conns -> Nat] /\ upTx \in [Conns -> {"new", "send", "write", "hold", "end"}]
      /\ k[1] \in Clients
  BY ConnFacts DEF P3Inv, Types
<1>2. /\ UNCHANGED <<total, upRx>> /\ up'[k] = up[k] /\ upTx'[k] = upTx[k]
  <2>1. CASE SendParams(e)
    <3>1. k # <<e, 0>>
      BY SMT
    <3> QED
      BY <1>1, <2>1, <3>1, SMT DEF SendParams
  <2> QED
    BY <2>1, Zenon DEF ClientStep, Dial, DialFails, RunStreams, StreamsEnd, Report, Dies
<1>3. UpTo(k)' = UpTo(k) /\ UpData(k)' = UpData(k)
  BY <1>2, Zenon DEF UpTo, UpData
<1>4. CASE Dies(e) /\ e = k[1]
  <2>1. UpFrom(k)' = "lost"
    BY <1>1, <1>4, SMT DEF Dies, UpFrom
  <2>2. Upward(k)!IsLost
    BY <1>2, <1>3, <2>1 DEF Upward!IsLost
  <2> QED
    BY <2>2 DEF Upward!StreamNext, UpwardKept
<1>5. CASE ~ (Dies(e) /\ e = k[1])
  <2>1. cli'[k[1]] = "killed" <=> cli[k[1]] = "killed"
    BY <1>1, <1>5, SMT DEF ClientStep, Dial, SendParams, DialFails, RunStreams, StreamsEnd,
       Report, Dies
  <2>2. UpFrom(k)' = UpFrom(k)
    BY <1>2, <2>1, Zenon DEF UpFrom
  <2> QED
    BY <1>2, <1>3, <2>2, UpwardStill DEF UpwardKept
<1> QED
  BY <1>4, <1>5

\* The server goes on.  That it starts on its streams does not show: nothing is
\* counted before the cookie.
LEMMA UpwardServer ==
  ASSUME P3Inv, NEW k \in Conns, ServerStep
  PROVE  UpwardKept(k)
<1> USE DEF client, server, upward, downward
<1>1. UNCHANGED <<cli, up, upTx, total>>
  BY Zenon DEF ServerStep, AcceptControl, RecvParams, AcceptData, StartStreams, SrvStreamsEnd,
     SendResults
<1>2. UpFrom(k)' = UpFrom(k) /\ UpData(k)' = UpData(k)
  BY <1>1, Zenon DEF UpFrom, UpData
<1>3. CASE StartStreams
  <2>1. upRx[k] = "new"
    BY <1>3, Zenon DEF StartStreams, P3Inv, Authentic
  <2>2. upRx'[k] \in {"new", "cookie"}
    BY <1>3, <2>1, SMT DEF StartStreams
  <2>3. UpTo(k)' = UpTo(k)
    BY <2>1, <2>2, EndNames DEF UpTo
  <2> QED
    BY <1>1, <1>2, <2>3, UpwardStill DEF UpwardKept
<1>4. CASE ~ StartStreams
  <2>1. upRx' = upRx
    BY <1>4, Zenon DEF ServerStep, AcceptControl, RecvParams, AcceptData, SrvStreamsEnd,
       SendResults
  <2>2. UpTo(k)' = UpTo(k)
    BY <2>1 DEF UpTo
  <2> QED
    BY <1>1, <1>2, <2>2, UpwardStill DEF UpwardKept
<1> QED
  BY <1>3, <1>4

LEMMA UpwardStep ==
  ASSUME P3Inv, RowsInv, [Next]_vars, NEW k \in Conns, k[2] > 0, ClientSends(dir[k[1]])
  PROVE  UpwardKept(k)
<1>1. ASSUME UNCHANGED vars PROVE UpwardKept(k)
  <2>1. UNCHANGED <<cli, up, total, upTx, upRx>>
    BY <1>1 DEF vars, client, upward
  <2>2. UpFrom(k)' = UpFrom(k) /\ UpTo(k)' = UpTo(k) /\ UpData(k)' = UpData(k)
    BY <2>1, Zenon DEF UpFrom, UpTo, UpData
  <2> QED
    BY <2>1, <2>2, UpwardStill DEF UpwardKept
<1>2. ASSUME NEW j \in Conns,
             Sending(j) \/ Receiving(j) \/ ServerReceiving(j) \/ ServerSending(j)
      PROVE  UpwardKept(k)
  <2>1. CASE j = k
    BY <1>2, <2>1, UpwardSends, UpwardReceives, UpwardAside, Zenon
  <2>2. CASE j # k
    <3>1. /\ up'[k] = up[k] /\ total'[k] = total[k] /\ upTx'[k] = upTx[k]
          /\ upRx'[k] = upRx[k] /\ cli' = cli
      BY <1>2, <2>2, OthersStill, Zenon
    <3>2. UpFrom(k)' = UpFrom(k) /\ UpTo(k)' = UpTo(k) /\ UpData(k)' = UpData(k)
      BY <3>1, Zenon DEF UpFrom, UpTo, UpData
    <3> QED
      BY <3>1, <3>2, UpwardStill DEF UpwardKept
  <2> QED
    BY <2>1, <2>2
<1> QED
  BY <1>1, <1>2, UpwardClient, UpwardServer, Zenon DEF Next, Ended

\* The server's half of a connection.
LEMMA DownwardSends ==
  ASSUME P3Inv, NEW k \in Conns, ServerSends(dir[k[1]]),
         ServerSending(k) \/ ServerReceiving(k)
  PROVE  DownwardKept(k)
<1> USE DEF client, server, upward, downward
<1>1. /\ down \in [Conns -> Nat] /\ downTx \in [Conns -> {"new", "send", "write", "end"}]
  BY DEF P3Inv, Types
<1>2. /\ UNCHANGED <<cli, srv, downRead, downRx>> /\ srv = "stream"
      /\ DownTo(k)' = DownTo(k)
  BY Zenon DEF ServerSending, ServerReceiving, SrvStops, SrvBegins, SrvWrites, SrvCookie,
     SrvCookieEnds, SrvReads, SrvReadEnds, DownTo
<1>3. DownFrom(k) = SenderIs[downTx[k]] /\ DownFrom(k)' = SenderIs[downTx'[k]]
  BY <1>2, SMT DEF DownFrom
<1>4. ASSUME down' = down, SenderIs[downTx'[k]] = SenderIs[downTx[k]]
      PROVE  DownwardKept(k)
  BY <1>2, <1>3, <1>4, DownwardStill DEF DownwardKept
<1>5. CASE SrvCookie(k)
  <2>1. downTx[k] = "new" /\ down' = down
    BY <1>5, Zenon DEF SrvCookie, P3Inv, Authentic
  <2>2. downTx' = downTx \/ downTx'[k] = "send"
    BY <1>1, <1>5, SMT DEF SrvCookie, CookieMatches
  <2>3. CASE downTx'[k] = "send"
    <3>1. Downward(k)!Opens
      BY <1>2, <1>3, <2>1, <2>3, EndNames, Zenon DEF Downward!Opens
    <3> QED
      BY <3>1 DEF Downward!StreamNext, DownwardKept
  <2> QED
    BY <1>4, <2>1, <2>2, <2>3
<1>6. CASE SrvCookieEnds(k) \/ SrvReads(k) \/ SrvReadEnds(k)
  BY <1>4, <1>6, Zenon DEF SrvCookieEnds, SrvReads, SrvReadEnds
<1>7. CASE SrvStops(k)
  <2>1. downTx[k] = "send" /\ downTx'[k] = "end" /\ down' = down
    BY <1>1, <1>7, SMT DEF SrvStops
  <2>2. Downward(k)!Closes
    BY <1>2, <1>3, <2>1, EndNames, SMT DEF Downward!Closes
  <2> QED
    BY <2>2 DEF Downward!StreamNext, DownwardKept
<1>8. CASE SrvBegins(k)
  <2>1. downTx[k] = "send" /\ downTx'[k] = "write" /\ down' = down
    BY <1>1, <1>8, SMT DEF SrvBegins
  <2> QED
    BY <1>4, <2>1, EndNames
<1>9. CASE SrvWrites(k)
  <2>1. downTx[k] = "write"
    BY <1>9 DEF SrvWrites
  <2>2. CASE down'[k] = down[k] + 1 /\ downTx'[k] = "send"
    <3>1. down'[k] > down[k]
      BY <1>1, <2>2, SMT
    <3>2. Downward(k)!Sends
      BY <1>2, <1>3, <2>1, <2>2, <3>1, EndNames, SMT DEF Downward!Sends
    <3> QED
      BY <3>2 DEF Downward!StreamNext, DownwardKept
  <2>3. CASE down' = down /\ downTx'[k] = "end"
    <3>1. Downward(k)!Closes
      BY <1>2, <1>3, <2>1, <2>3, EndNames, SMT DEF Downward!Closes
    <3> QED
      BY <3>1 DEF Downward!StreamNext, DownwardKept
  <2> QED
    BY <1>1, <1>9, <2>2, <2>3, SMT DEF SrvWrites
<1> QED
  BY <1>5, <1>6, <1>7, <1>8, <1>9 DEF ServerSending, ServerReceiving

\* The client's half.
LEMMA DownwardReceives ==
  ASSUME P3Inv, NEW k \in Conns, Sending(k) \/ Receiving(k)
  PROVE  DownwardKept(k)
<1> USE DEF client, server, upward, downward
<1>1. /\ downRead \in [Conns -> Nat] /\ downRx \in [Conns -> {"new", "read", "end"}]
      /\ down[k] \in Nat /\ downRead[k] \in Nat /\ downRead[k] <= down[k]
  BY DEF P3Inv, Types, Balanced
<1>2. /\ UNCHANGED <<cli, srv, down, downTx>> /\ cli[k[1]] = "stream"
      /\ DownFrom(k)' = DownFrom(k)
  BY Zenon DEF Sending, Receiving, CliCookie, CliStops, CliBegins, CliWrites, CliReads,
     CliReadEnds, DownFrom
<1>3. DownTo(k) = ReceiverIs[downRx[k]] /\ DownTo(k)' = ReceiverIs[downRx'[k]]
  BY <1>2, SMT DEF DownTo
<1>4. CASE Sending(k)
  <2>1. UNCHANGED <<downRead, downRx>>
    BY <1>4, Zenon DEF Sending, CliCookie, CliStops, CliBegins, CliWrites
  <2> QED
    BY <1>2, <1>3, <2>1, DownwardStill DEF DownwardKept
<1>5. CASE CliReads(k)
  <2>1. downRx[k] = "read" /\ downRx' = downRx /\ downRead'[k] \in downRead[k] .. down[k]
    BY <1>1, <1>5, SMT DEF CliReads
  <2>2. Downward(k)!Counts
    BY <1>2, <1>3, <2>1, EndNames, Zenon DEF Downward!Counts
  <2> QED
    BY <2>2 DEF Downward!StreamNext, DownwardKept
<1>6. CASE CliReadEnds(k)
  <2>1. downRx[k] = "read" /\ downRx'[k] = "end" /\ downRead' = downRead
        /\ downRead[k] = down[k]
    BY <1>1, <1>6, SMT DEF CliReadEnds
  <2>2. DownFrom(k) = "closed"
    BY <1>6, EndNames DEF CliReadEnds, DownFrom
  <2>3. Downward(k)!Ends
    BY <1>2, <1>3, <2>1, <2>2, EndNames, Zenon DEF Downward!Ends
  <2> QED
    BY <2>3 DEF Downward!StreamNext, DownwardKept
<1> QED
  BY <1>4, <1>5, <1>6 DEF Receiving

\* A client begins to listen on all of its streams at once.
LEMMA DownwardClient ==
  ASSUME P3Inv, RowsInv, NEW c \in Clients, NEW k \in Streams(c), ServerSends(dir[c]),
         NEW e \in Clients, ClientStep(e) \/ Dies(e)
  PROVE  DownwardKept(k)
<1> USE DEF client, server, upward, downward
<1>1. /\ cli \in [Clients -> {"dial", "stream", "report", "done", "failed", "killed"}]
      /\ k \in Conns /\ k[1] = c /\ down[k] \in Nat /\ downRead[k] \in Nat
      /\ downRead[k] <= down[k]
  BY StreamConn DEF P3Inv, Types, Balanced
<1>2. UNCHANGED <<srv, down, downRead, downTx>> /\ DownFrom(k)' = DownFrom(k)
  BY Zenon DEF ClientStep, Dial, SendParams, DialFails, RunStreams, StreamsEnd, Report, Dies,
     DownFrom
<1>3. CASE RunStreams(c)
  <2>1. downRx[k] = "new" /\ cli[c] = "dial"
    BY <1>3, Zenon DEF RunStreams, RowsInv, Listening
  <2>2. downRx'[k] = "read" /\ cli'[c] = "stream"
    BY <1>1, <1>3, SMT DEF RunStreams
  <2>3. DownTo(k) = "wait" /\ DownTo(k)' = "open"
    BY <1>1, <2>1, <2>2, EndNames DEF DownTo
  <2>4. downRead'[k] \in downRead[k] .. down[k]
    BY <1>1, <1>2, SMT
  <2>5. Downward(k)!Listens
    BY <1>2, <2>3, <2>4 DEF Downward!Listens
  <2> QED
    BY <2>5 DEF Downward!StreamNext, DownwardKept
<1>4. CASE Dies(c)
  <2>1. DownTo(k)' = "away"
    BY <1>1, <1>4, SMT DEF Dies, DownTo
  <2>2. Downward(k)!Leaves
    BY <1>2, <2>1 DEF Downward!Leaves
  <2> QED
    BY <2>2 DEF Downward!StreamNext, DownwardKept
<1>5. CASE ~ RunStreams(c) /\ ~ Dies(c)
  <2>1. e # c => k \notin Streams(e)
    BY <1>1, StreamConn
  <2>2. downRx'[k] = downRx[k]
    BY <1>1, <1>5, <2>1, SMT DEF ClientStep, Dial, SendParams, DialFails, RunStreams,
       StreamsEnd, Report, Dies
  <2>3. cli'[c] = "killed" <=> cli[c] = "killed"
    BY <1>1, <1>5, SMT DEF ClientStep, Dial, SendParams, DialFails, RunStreams, StreamsEnd,
       Report, Dies
  <2>4. DownTo(k)' = DownTo(k)
    BY <1>1, <2>2, <2>3, Zenon DEF DownTo
  <2> QED
    BY <1>2, <2>4, DownwardStill DEF DownwardKept
<1> QED
  BY <1>3, <1>4, <1>5

\* A server that leaves has closed all it opened; the rest it never opens.
LEMMA DownwardServer ==
  ASSUME P3Inv, RowsInv, NEW k \in Conns, ServerStep
  PROVE  DownwardKept(k)
<1> USE DEF client, server, upward, downward
<1>1. UNCHANGED <<cli, down, downRead, downTx, downRx>> /\ srv # "gone"
  BY SMT DEF ServerStep, AcceptControl, RecvParams, AcceptData, StartStreams, SrvStreamsEnd,
     SendResults
<1>2. DownTo(k)' = DownTo(k)
  BY <1>1, Zenon DEF DownTo
<1>3. CASE srv' = "gone"
  <2>1. srv \in {"params", "report"}
    BY <1>3, SMT DEF ServerStep, AcceptControl, RecvParams, AcceptData, StartStreams,
       SrvStreamsEnd, SendResults
  <2>2. downTx[k] \in {"new", "end"}
    BY <2>1, SMT DEF P3Inv, Authentic, RowsInv, OnlyAccepted, Served
  <2>3. DownFrom(k)' = "closed" /\ DownFrom(k) \in {"wait", "closed"}
    BY <1>1, <1>3, <2>2, EndNames DEF DownFrom
  <2>4. CASE DownFrom(k) = "closed"
    BY <1>1, <1>2, <2>3, <2>4, DownwardStill DEF DownwardKept
  <2>5. CASE DownFrom(k) = "wait"
    <3>1. Downward(k)!Closes
      BY <1>1, <1>2, <2>3, <2>5, SMT DEF Downward!Closes
    <3> QED
      BY <3>1 DEF Downward!StreamNext, DownwardKept
  <2> QED
    BY <2>3, <2>4, <2>5
<1>4. CASE srv' # "gone"
  <2>1. DownFrom(k)' = DownFrom(k)
    BY <1>1, <1>4, Zenon DEF DownFrom
  <2> QED
    BY <1>1, <1>2, <2>1, DownwardStill DEF DownwardKept
<1> QED
  BY <1>3, <1>4

LEMMA DownwardStep ==
  ASSUME P3Inv, RowsInv, [Next]_vars, NEW c \in Clients, NEW k \in Streams(c),
         ServerSends(dir[c])
  PROVE  DownwardKept(k)
<1>1. k \in Conns /\ k[1] = c
  BY StreamConn
<1>2. ASSUME UNCHANGED vars PROVE DownwardKept(k)
  <2>1. UNCHANGED <<cli, srv, down, downRead, downTx, downRx>>
    BY <1>2 DEF vars, client, server, downward
  <2>2. DownFrom(k)' = DownFrom(k) /\ DownTo(k)' = DownTo(k)
    BY <2>1, Zenon DEF DownFrom, DownTo
  <2> QED
    BY <2>1, <2>2, DownwardStill DEF DownwardKept
<1>3. ASSUME NEW j \in Conns,
             Sending(j) \/ Receiving(j) \/ ServerReceiving(j) \/ ServerSending(j)
      PROVE  DownwardKept(k)
  <2>1. CASE j = k
    BY <1>1, <1>3, <2>1, DownwardSends, DownwardReceives, Zenon
  <2>2. CASE j # k
    <3>1. /\ down'[k] = down[k] /\ downRead'[k] = downRead[k] /\ downTx'[k] = downTx[k]
          /\ downRx'[k] = downRx[k] /\ cli' = cli /\ srv' = srv
      BY <1>1, <1>3, <2>2, OthersStill, Zenon
    <3>2. DownFrom(k)' = DownFrom(k) /\ DownTo(k)' = DownTo(k)
      BY <3>1, Zenon DEF DownFrom, DownTo
    <3> QED
      BY <3>1, <3>2, DownwardStill DEF DownwardKept
  <2> QED
    BY <2>1, <2>2
<1> QED
  BY <1>1, <1>2, <1>3, DownwardClient, DownwardServer, Zenon DEF Next, Ended

\* In each direction in which data is sent, every stream is a ByteStream of its
\* own: what read_data and write_data do at its two ends, and a client that dies
\* or a server that exits, are steps of one or leave it alone, whatever the
\* other connections and clients do.
THEOREM ByteStreamsImplemented == Spec => ImplementsByteStreams
<1>1. Init => \A c \in Clients : \A k \in Streams(c) :
                Upward(k)!StreamInit /\ Downward(k)!StreamInit
  <2> SUFFICES ASSUME Init, NEW c \in Clients, NEW k \in Streams(c)
               PROVE  Upward(k)!StreamInit /\ Downward(k)!StreamInit
    OBVIOUS
  <2>1. k \in Conns /\ k[1] = c /\ k[1] \in Clients /\ CookieLen \in Nat
    BY StreamConn, P3Assumption DEF P3Assumption
  <2>2. /\ up[k] = 0 /\ total[k] = 0 /\ down[k] = 0 /\ downRead[k] = 0
        /\ upTx[k] = "new" /\ upRx[k] = "new" /\ downTx[k] = "new" /\ downRx[k] = "new"
        /\ cli[k[1]] = "dial" /\ srv = "listen"
    BY <2>1, SMT DEF Init
  <2>3. UpData(k) = 0 /\ UpFrom(k) = "wait" /\ UpTo(k) = "wait"
        /\ DownFrom(k) = "wait" /\ DownTo(k) = "wait"
    BY <2>1, <2>2, EndNames, SMT DEF UpData, UpFrom, UpTo, DownFrom, DownTo
  <2> QED
    BY <2>2, <2>3, Zenon DEF Upward!StreamInit, Downward!StreamInit
<1>2. P3Inv /\ RowsInv /\ [Next]_vars =>
        [\A c \in Clients : \A k \in Streams(c) :
           /\ ClientSends(dir[c]) => [Upward(k)!StreamNext]_(Upward(k)!streamVars)
           /\ ServerSends(dir[c]) => [Downward(k)!StreamNext]_(Downward(k)!streamVars)]_vars
  <2> SUFFICES ASSUME P3Inv, RowsInv, [Next]_vars, NEW c \in Clients, NEW k \in Streams(c)
               PROVE  /\ ClientSends(dir[c]) => UpwardKept(k)
                      /\ ServerSends(dir[c]) => DownwardKept(k)
    BY Zenon DEF UpwardKept, DownwardKept
  <2>1. k \in Conns /\ k[1] = c /\ k[2] > 0
    BY StreamConn
  <2> QED
    BY <2>1, UpwardStep, DownwardStep, Zenon
<1> QED
  BY <1>1, <1>2, P3Invariance, PTL DEF Spec, ImplementsByteStreams

============================================================================
