------------------------------- MODULE Worker -------------------------------
(***************************************************************************)
(* One data stream of the p2 build, byte by byte: run_worker               *)
(* (stream_worker.rs) at the sending and at the receiving end, and the     *)
(* connection between them.  Module Session has the same two tasks with    *)
(* neither bytes nor clocks and all that surrounds them; here the          *)
(* controllers are an environment that says StartLoad, or drops a channel. *)
(*                                                                         *)
(* Each end reads the clock of its own host.  Instants are counted from    *)
(* the start_time of the end that reads them, in units of which a second   *)
(* has Second.  Timers fire some time after they are due.                  *)
(***************************************************************************)
EXTENDS Integers

CONSTANTS
  TimeSeconds,  \* params.time_seconds
  Measure,      \* params.measure_latency
  Block,        \* params.block_size, not 0: a write of nothing is no I/O
  Second,       \* a second in units of the clock
  Win,          \* the goodput window, 10 ms in the code
  Baseline,     \* clock_baseline_ns, what calibrate_clock found
  Capacity,     \* bytes the sockets of the connection hold
  Timed,        \* bound: the ends whose clock is followed; another end's deadline
                \* may pass at any time and no time passes there before it
  MayDie,       \* the ends whose process may be killed
  MaxBytes,     \* bound: what the sender gets to write
  MaxLate       \* bound: how long after the deadline a clock goes on

Ends == {"Sender", "Receiver"}

ASSUME WorkerAssumption ==
  /\ TimeSeconds \in Nat
  /\ Measure \in BOOLEAN
  /\ Block \in Nat \ {0} /\ Capacity \in Nat \ {0}
  /\ Second \in Nat \ {0} /\ Win \in Nat \ {0} /\ Baseline \in Nat
  /\ Timed \subseteq Ends /\ MayDie \subseteq Ends
  /\ MaxBytes \in Nat /\ MaxLate \in Nat

\* timeout_duration, and the warm-up, which short tests do without.
Timeout == TimeSeconds * Second
Warmup == IF TimeSeconds > 2 THEN Second ELSE 0

VARIABLES
  life,                \* how far the task has come
  channel,             \* what its controller has said
  clock,               \* the time since start_time
  duration,            \* the local of that name
  bytes_transferred, syscalls,                 \* the totals
  last_tick, current_interval, reported,       \* the interval, bytes printed so far
  t_prev, samples, sampled, warmup_discarded,  \* number and sum of the samples
  measured_from,       \* the clock at the last discarded I/O
  win_start, win_bytes, tput_time, tput_bytes, \* the open window, all closed ones
  in_flight,           \* bytes written and not read
  drained              \* bytes the receiver read to no account

totals == <<bytes_transferred, syscalls>>
ticking == <<last_tick, current_interval, reported>>
gaps == <<t_prev, samples, sampled, warmup_discarded, measured_from>>
windows == <<win_start, win_bytes, tput_time, tput_bytes>>
accounts == <<totals, ticking, gaps, windows>>
wire == <<in_flight, drained>>
vars == <<life, channel, clock, duration, accounts, wire>>

Counts == [Ends -> Nat]

TypeOK ==
  /\ life \in [Ends -> {"wait", "load", "drain", "ok", "err", "gone"}]
  /\ channel \in [Ends -> {"quiet", "load", "stop", "dropped"}]
  /\ clock \in [Ends -> 0 .. Timeout + MaxLate] /\ duration \in Counts
  /\ bytes_transferred \in Counts /\ syscalls \in Counts
  /\ last_tick \in Counts /\ current_interval \in Counts /\ reported \in Counts
  /\ t_prev \in Counts /\ samples \in Counts /\ sampled \in Counts
  /\ warmup_discarded \in Counts /\ measured_from \in Counts
  /\ win_start \in Counts /\ win_bytes \in Counts
  /\ tput_time \in Counts /\ tput_bytes \in Counts
  /\ in_flight \in 0 .. Capacity
  /\ drained \in Nat

Zero == [e \in Ends |-> 0]

Init ==
  /\ life = [e \in Ends |-> "wait"]
  /\ channel = [e \in Ends |-> "quiet"]
  /\ clock = Zero /\ duration = Zero
  /\ bytes_transferred = Zero /\ syscalls = Zero
  /\ last_tick = Zero /\ current_interval = Zero /\ reported = Zero
  /\ t_prev = Zero /\ samples = Zero /\ sampled = Zero
  /\ warmup_discarded = Zero /\ measured_from = Zero
  /\ win_start = Zero /\ win_bytes = Zero /\ tput_time = Zero /\ tput_bytes = Zero
  /\ in_flight = 0
  /\ drained = 0

----------------------------------------------------------------------------
(* Around the workers.                                                     *)

\* The controller starts the load at most once and may then stop it, with a
\* Terminate or by going away; or it goes away first, or waits for ever.
Controller(e) ==
  /\ \/ channel[e] = "quiet" /\ \E m \in {"load", "dropped"} :
          channel' = [channel EXCEPT ![e] = m]
     \/ channel[e] = "load" /\ channel' = [channel EXCEPT ![e] = "stop"]
  /\ UNCHANGED <<life, clock, duration, accounts, wire>>

Passes(e) ==
  /\ e \in Timed
  /\ life[e] = "load"
  /\ clock[e] < Timeout + MaxLate
  /\ clock' = [clock EXCEPT ![e] = @ + 1]
  /\ UNCHANGED <<life, channel, duration, accounts, wire>>

Alive(e) == life[e] \in {"wait", "load", "drain"}

Dies(e) ==
  /\ e \in MayDie
  /\ Alive(e)
  /\ life' = [life EXCEPT ![e] = "gone"]
  /\ UNCHANGED <<channel, clock, duration, accounts, wire>>

----------------------------------------------------------------------------
(* Accounting for one completed I/O of n bytes.                            *)

\* A faulty variant: the block that was asked for is counted.
CountBlock(e, n) ==
  /\ bytes_transferred' = [bytes_transferred EXCEPT ![e] = @ + Block]
  /\ syscalls' = [syscalls EXCEPT ![e] = @ + 1]
  /\ current_interval' = [current_interval EXCEPT ![e] = @ + Block]

Count(e, n) ==
  /\ bytes_transferred' = [bytes_transferred EXCEPT ![e] = @ + n]
  /\ syscalls' = [syscalls EXCEPT ![e] = @ + 1]
  /\ current_interval' = [current_interval EXCEPT ![e] = @ + n]

\* A faulty variant: the bytes that close a window open the next one too.
WindowOverlap(e, n) ==
  /\ IF clock[e] - win_start[e] >= Win
     THEN /\ tput_time' = [tput_time EXCEPT ![e] = @ + (clock[e] - win_start[e])]
          /\ tput_bytes' = [tput_bytes EXCEPT ![e] = @ + win_bytes[e] + n]
          /\ win_start' = [win_start EXCEPT ![e] = clock[e]]
          /\ win_bytes' = [win_bytes EXCEPT ![e] = n]
     ELSE /\ win_bytes' = [win_bytes EXCEPT ![e] = @ + n]
          /\ UNCHANGED <<win_start, tput_time, tput_bytes>>

\* The window takes the bytes; once it is long enough it is closed.
Window(e, n) ==
  /\ IF clock[e] - win_start[e] >= Win
     THEN /\ tput_time' = [tput_time EXCEPT ![e] = @ + (clock[e] - win_start[e])]
          /\ tput_bytes' = [tput_bytes EXCEPT ![e] = @ + win_bytes[e] + n]
          /\ win_start' = [win_start EXCEPT ![e] = clock[e]]
          /\ win_bytes' = [win_bytes EXCEPT ![e] = 0]
     ELSE /\ win_bytes' = [win_bytes EXCEPT ![e] = @ + n]
          /\ UNCHANGED <<win_start, tput_time, tput_bytes>>

\* A faulty variant: the subtraction does not saturate.
StallBelowZero(dt) == dt - Baseline

\* dt.saturating_sub(clock_baseline_ns)
Stall(dt) == IF dt > Baseline THEN dt - Baseline ELSE 0

\* A faulty variant: t_prev is left behind while the test warms up.
GapFromStart(e) ==
  IF clock[e] >= Warmup
  THEN /\ samples' = [samples EXCEPT ![e] = @ + 1]
       /\ sampled' = [sampled EXCEPT ![e] = @ + Stall(clock[e] - t_prev[e])]
       /\ t_prev' = [t_prev EXCEPT ![e] = clock[e]]
       /\ UNCHANGED <<warmup_discarded, measured_from>>
  ELSE /\ warmup_discarded' = [warmup_discarded EXCEPT ![e] = @ + 1]
       /\ measured_from' = [measured_from EXCEPT ![e] = clock[e]]
       /\ UNCHANGED <<samples, sampled, t_prev>>

\* The gap since the I/O before is a sample, unless the test is warming up.
Gap(e) ==
  /\ IF clock[e] >= Warmup
     THEN /\ samples' = [samples EXCEPT ![e] = @ + 1]
          /\ sampled' = [sampled EXCEPT ![e] = @ + Stall(clock[e] - t_prev[e])]
          /\ UNCHANGED <<warmup_discarded, measured_from>>
     ELSE /\ warmup_discarded' = [warmup_discarded EXCEPT ![e] = @ + 1]
          /\ measured_from' = [measured_from EXCEPT ![e] = clock[e]]
          /\ UNCHANGED <<samples, sampled>>
  /\ t_prev' = [t_prev EXCEPT ![e] = clock[e]]

Account(e, n) ==
  /\ Count(e, n)
  /\ IF Measure THEN Window(e, n) /\ Gap(e) ELSE UNCHANGED <<windows, gaps>>
  /\ UNCHANGED <<last_tick, reported>>

----------------------------------------------------------------------------
(* run_worker.                                                             *)

Other(e) == IF e = "Sender" THEN "Receiver" ELSE "Sender"

\* The first message is StartLoad, or else nothing comes of the stream.
Start(e) ==
  /\ life[e] = "wait"
  /\ \/ channel[e] \in {"load", "stop"} /\ life' = [life EXCEPT ![e] = "load"]
     \/ channel[e] = "dropped" /\ life' = [life EXCEPT ![e] = "err"]
  /\ UNCHANGED <<channel, clock, duration, accounts, wire>>

\* Out of the loop: a sender is done and closes its socket, a receiver drains.
Break(e) ==
  /\ life' = [life EXCEPT ![e] = IF e = "Sender" THEN "ok" ELSE "drain"]
  /\ duration' = [duration EXCEPT ![e] = clock[e]]
  /\ UNCHANGED <<channel, clock, accounts, wire>>

\* A faulty variant: the timer is made anew with every turn of the ticker.
TimeUpSinceTick(e) == e \notin Timed \/ clock[e] - last_tick[e] >= Timeout

TimeUp(e) == e \notin Timed \/ clock[e] >= Timeout

Deadline(e) == life[e] = "load" /\ TimeUp(e) /\ Break(e)

\* Terminate, or the controller dropped the channel.
Terminated(e) == life[e] = "load" /\ channel[e] = "stop" /\ Break(e)

NextTick(e) == last_tick[e] + Second

\* A faulty variant: the select! is not biased towards the deadline.
TickAnyway(e) == NextTick(e) <= Timeout

\* The ticker gives the instant it was due.  A tick that is due no earlier than
\* the deadline loses to it, since the select! is biased.
MayTick(e) == NextTick(e) < Timeout

Tick(e) ==
  /\ life[e] = "load"
  /\ channel[e] # "stop"
  /\ clock[e] >= NextTick(e)
  /\ MayTick(e)
  /\ reported' = [reported EXCEPT ![e] = @ + current_interval[e]]
  /\ current_interval' = [current_interval EXCEPT ![e] = 0]
  /\ last_tick' = [last_tick EXCEPT ![e] = NextTick(e)]
  /\ UNCHANGED <<life, channel, clock, duration, totals, gaps, windows, wire>>

InLoop(e) == life[e] = "load" /\ channel[e] # "stop"

Least(m, n) == IF m < n THEN m ELSE n

\* As much as there is room for, up to a block.  What is written to a peer that
\* has just gone is lost.
Write ==
  /\ InLoop("Sender")
  /\ \E n \in 1 .. Least(Block, Capacity - in_flight) :
       /\ bytes_transferred["Sender"] + n <= MaxBytes
       /\ Account("Sender", n)
       /\ in_flight' = IF Alive("Receiver") THEN in_flight + n ELSE in_flight
  /\ UNCHANGED <<life, channel, clock, duration, drained>>

Read ==
  /\ InLoop("Receiver")
  /\ \E n \in 1 .. Least(Block, in_flight) :
       /\ Account("Receiver", n)
       /\ in_flight' = in_flight - n
  /\ UNCHANGED <<life, channel, clock, duration, drained>>

\* No bytes: the sender has closed the connection.
EndOfData == InLoop("Receiver") /\ in_flight = 0 /\ ~ Alive("Sender") /\ Break("Receiver")

\* What the receiver reads after its loop counts for nothing.
Drain ==
  /\ life["Receiver"] = "drain"
  /\ \E n \in 1 .. Least(Block, in_flight) :
       in_flight' = in_flight - n /\ drained' = drained + n
  /\ UNCHANGED <<life, channel, clock, duration, accounts>>

\* A faulty variant: nothing to read is taken for the end of the data.
DrainedWhenEmpty ==
  /\ life["Receiver"] = "drain"
  /\ in_flight = 0
  /\ life' = [life EXCEPT !["Receiver"] = "ok"]
  /\ UNCHANGED <<channel, clock, duration, accounts, wire>>

Drained ==
  /\ life["Receiver"] = "drain"
  /\ in_flight = 0 /\ ~ Alive("Sender")
  /\ life' = [life EXCEPT !["Receiver"] = "ok"]
  /\ UNCHANGED <<channel, clock, duration, accounts, wire>>

\* `?`: a write to a receiver that has gone, a read of a reset connection.
Fails(e) ==
  /\ \/ e = "Sender" /\ InLoop(e) /\ ~ Alive("Receiver")
     \/ e = "Receiver" /\ (InLoop(e) \/ life[e] = "drain") /\ life["Sender"] = "gone"
  /\ life' = [life EXCEPT ![e] = "err"]
  /\ UNCHANGED <<channel, clock, duration, accounts, wire>>

\* Nothing is left to do once both tasks have ended.
Ended == (\A e \in Ends : ~ Alive(e)) /\ UNCHANGED vars

----------------------------------------------------------------------------

Next ==
  \/ \E e \in Ends :
       \/ Controller(e) \/ Passes(e) \/ Dies(e) \/ Start(e) \/ Deadline(e)
       \/ Terminated(e) \/ Tick(e) \/ Fails(e)
  \/ Write \/ Read \/ EndOfData \/ Drain \/ Drained
  \/ Ended

Spec == Init /\ [][Next]_vars

\* Clocks go on, a task that was woken runs, and the bias of the select! sees to
\* it that no amount of I/O keeps a worker past its deadline.  Nothing is assumed
\* of the controllers: a server whose client died in CreateStreams waits in recv
\* for good, and its workers with it.
Fairness ==
  /\ \A e \in Ends : WF_vars(Passes(e)) /\ WF_vars(Start(e)) /\ WF_vars(Deadline(e))
  /\ WF_vars(Drain \/ Drained)

FairSpec == Spec /\ Fairness

----------------------------------------------------------------------------
(* Properties.                                                             *)

\* Every byte one end reports having received the other reports having sent.
\* The rest was drained or is in flight, or went down with a process.
ReceivedWereSent ==
  /\ bytes_transferred["Receiver"] + drained + in_flight <= bytes_transferred["Sender"]
  /\ Alive("Receiver") =>
       bytes_transferred["Receiver"] + drained + in_flight = bytes_transferred["Sender"]

\* The interval lines of a worker add up to its total but for the interval that
\* is open, and stop short of the deadline: the last interval is never printed.
IntervalsAddUp ==
  \A e \in Ends :
    /\ reported[e] + current_interval[e] = bytes_transferred[e]
    /\ last_tick[e] <= clock[e]
    /\ last_tick[e] > 0 => last_tick[e] < Timeout

\* Every I/O is a sample or discarded, and the samples tile the time from the
\* last discarded I/O to the last of all, each short of it by the cost of a read
\* of the clock at most: no wait is left out or measured twice.
SamplesTile ==
  Measure =>
    \A e \in Ends :
      /\ samples[e] + warmup_discarded[e] = syscalls[e]
      /\ measured_from[e] > 0 => measured_from[e] < Warmup
      /\ sampled[e] <= t_prev[e] - measured_from[e]
      /\ t_prev[e] - measured_from[e] <= sampled[e] + samples[e] * Baseline

\* The goodput windows tile the time up to the start of the open one, and every
\* byte is in one window.
WindowsTile ==
  Measure =>
    \A e \in Ends :
      /\ tput_bytes[e] + win_bytes[e] = bytes_transferred[e]
      /\ tput_time[e] = win_start[e] /\ win_start[e] <= t_prev[e]

\* The two tasks keep what one end of a stream promises the other.
Stream == INSTANCE StreamLifecycle WITH Sender <- "Sender", Receiver <- "Receiver"

ImplementsStream == Stream!StreamSpec

\* A worker that its controller has spoken to ends: a sender by itself, whatever
\* its peer and its controller do from then on, a receiver once there is no
\* sender.  Whether a controller speaks is not a stream's to say.
StreamEnds ==
  /\ channel["Sender"] # "quiet" ~> ~ Alive("Sender")
  /\ channel["Receiver"] # "quiet" /\ ~ Alive("Sender") ~> ~ Alive("Receiver")

=============================================================================
