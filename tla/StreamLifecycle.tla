--------------------------- MODULE StreamLifecycle ---------------------------
(***************************************************************************)
(* What the two workers of one data stream promise each other, whatever    *)
(* happens to bytes, clocks and controllers: a worker is made, is put      *)
(* under load, stops and ends; a sender ends well at once, a receiver only *)
(* after the sender has let go of the connection; and neither fails under  *)
(* load unless the other one has gone.                                     *)
(***************************************************************************)
CONSTANTS Sender, Receiver

VARIABLE life  \* what has become of the worker of either end

Tasks == {"wait", "load", "drain"}
LifeStates == {"absent", "ok", "err", "gone"} \cup Tasks

Other(e) == IF e = Sender THEN Receiver ELSE Sender

\* Nobody holds the connection at e any more.
LetGo(e) == life[e] \in {"ok", "err", "gone"}

Becomes(e, from, to) == life[e] \in from /\ life' = [life EXCEPT ![e] = to]

Register(e) == Becomes(e, {"absent"}, "wait")

StartLoad(e) == Becomes(e, {"wait"}, "load")

\* The controller went away before the load started.
Bail(e) == Becomes(e, {"wait"}, "err")

SenderStops == Becomes(Sender, {"load"}, "ok")

ReceiverStops == Becomes(Receiver, {"load"}, "drain")

ReceiverDrained == LetGo(Sender) /\ Becomes(Receiver, {"drain"}, "ok")

Fails(e) == LetGo(Other(e)) /\ Becomes(e, {"load", "drain"}, "err")

\* The process of e ends.
Dies(e) == Becomes(e, {"absent"} \cup Tasks, "gone")

LifeInit == life \in [{Sender, Receiver} -> {"absent", "wait"}]

LifeNext ==
  \/ \E e \in {Sender, Receiver} :
       Register(e) \/ StartLoad(e) \/ Bail(e) \/ Fails(e) \/ Dies(e)
  \/ SenderStops \/ ReceiverStops \/ ReceiverDrained

StreamSpec == LifeInit /\ [][LifeNext]_life

=============================================================================
