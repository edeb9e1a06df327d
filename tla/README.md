# netperf in TLA+

A TLA+ development of [netperf](../src/README.md): models of the p2 build's
control protocol, its server and its data streams and of the whole p3 build, TLC
runs on small instances, and theorems about them checked by TLAPS. File and line
references are to `src/`, the repository this directory stands beside.

Contents: [the system](#the-system) · [modules](#modules) ·
[how the models correspond to the code](#how-the-models-correspond-to-the-code) ·
[runs](#runs) · [fairness](#fairness) · [what is proved](#what-is-proved) ·
[where code and text disagree](#where-code-and-text-disagree) ·
[what is not modelled](#what-is-not-modelled) · [plan](#plan)

## The system

netperf measures TCP throughput and latency between a client and a server
process, both WebAssembly components. The p2 build (tokio on one thread) has a
control protocol; the p3 build (WASI 0.3 async) a much simpler one. Statistics
and reports are shared.

### p2, one test

| part | state | operations | what makes it correct |
|---|---|---|---|
| test parameters and roles (`perf_test.rs`, `data.rs`) | direction, `parallel`, two `u16` stream counts per end | `PerfTest::new`, `set_state` | both ends compute matching counts and opposite roles for every stream |
| controller (`controller.rs`), one task per end | `PerfTest.state` behind a mutex, `old_state`, the map of streams, the results, an mpsc channel of five messages | the state match at the head of the loop, `create_streams`, `accept_stream`, `process_internal_message`, `process_server_message`, `collect_test_result`, `exchange_results` | the client follows the server through the states, load starts once and only when everything is connected, every result reaches the report, both ends come to an end |
| stream worker (`stream_worker.rs`), one task per stream and end | waiting, under load, draining, finished; an mpsc channel; totals, the open interval, samples of gaps, goodput windows | wait for `StartLoad`, the timed read or write loop with its ticker and deadline, the drain, the report to the controller | no worker fails because its peer's deadline is earlier or later; no byte is received that was not sent; intervals, samples and windows leave nothing out and count nothing twice |
| control protocol (`net_utils.rs`, `control.rs`) | bytes in flight, the part of a frame that was read | frames of a length and JSON, one reader and one writer per direction | a read starts where a frame starts; what is too long is refused; messages come out whole and in order |

The server walks `TestStart -> CreateStreams -> Running -> ExchangeResults` and
tells the client each state over the control connection. In `CreateStreams` the
client opens the data connections one at a time; each says `Hello` with the
test's cookie and is welcomed. Both ends number streams in the order in which
they register them and derive from the number which end sends. Nothing on a data
connection says so. When the server has them all it announces `Running`; the
workers run until their own deadlines and report `StreamTerminated` to their
controllers. The server, with no stream left, announces `ExchangeResults`; both
ends collect and exchange results.

### p2, the server between tests

| part | state | operations | what makes it correct |
|---|---|---|---|
| accept loop (`server.rs`) | a `Weak` reference to the state of the latest test, the channel of its controller | accept; with a test in `CreateStreams` read a cookie and admit or deny; with another test deny; with none `create_test` | one test at a time; a data connection ends up in the test of its client and nowhere else; every client is answered; nobody stops the loop |
| client start-up (`client.rs`) | a cookie | connect, `Hello`, `Welcome`, `SendParameters`, then the controller | |

The loop and the controllers share the state of the test through its mutex. The
loop keeps that mutex locked while it waits for a cookie (`server.rs:37-48`);
`set_state` writes to the client *before* it locks it (`perf_test.rs:82-99`).

### The other parts

* `netperf-core` `stats.rs`: `Dist::from_samples`, exact nearest-rank
  percentiles in `usize` arithmetic (32 bits on wasm32).
* `netperf-core` `ui.rs`, `netperf-p2` `ui.rs`: reports. No state.
* `netperf-p2` `lib.rs`, `main.rs`, `opts.rs`, `consts.rs`: start-up, options,
  constants.
* `netperf-p3` `lib.rs`: a server that serves one test and exits. The first
  connection is the control connection, whoever made it; the next `parallel` ones
  are the data connections of that test. Each begins with eight bytes of cookie; a
  connection with another cookie is dropped and leaves no result. Both ends run
  two futures per connection and wait for all of them; then the server sends its
  results, which `to_results` numbers in order, and `print_summary` adds up rows
  of both ends. Correct is: no foreign byte counts, rows of both ends that are
  paired belong to each other, and nobody waits for a server that is gone.
* `netperf-p3-host`, `tools/`, the WIT files: launchers and interfaces.

### What is hard about it

* *Interleavings.* Controllers, workers and the accept loop are tasks of one
  thread that interleave at every `.await`; two such processes run side by side.
* *Order.* A `StreamTerminated` of one worker, the message of another and a
  frame from the server reach the client's `select!` in any order; deadlines at
  the two ends differ.
* *Checked, then used.* The loop decides on a reference it upgraded long before
  `create_test` replaces it; the client is told of a state the server is not in.
* *Limits.* The channel of five, the `u16` counts.
* *Time.* A tick and the deadline fall due at the same instant; warm-up, interval
  and window end in the middle of a gap between two reads.
* *Failure.* Either process may be killed anywhere; clients go quiet; a frame
  may arrive in two parts; a p3 connection comes from somebody else.

`PROJECT.json` lists these hazards one by one, with the property that covers each.

## Modules

| module | extends / instantiates | what it is |
|---|---|---|
| `StreamRoles` | | stream counts and roles: `PerfTest::new` and the head of `create_and_register_stream_worker` |
| `TestLifecycle` | | abstract specification: what one test promises, in three variables |
| `StreamLifecycle` | | abstract specification: what the two ends of one data stream promise each other, in one variable |
| `Session` | `StreamRoles`, INSTANCE `TestLifecycle`, INSTANCE `StreamLifecycle` | one test: both controllers, all workers, the control connection, the accept loop as far as it serves this test |
| `SessionInvariant` | `Session` | the inductive invariant `IndInv` |
| `SessionProofs` | `SessionInvariant` | its proof, `StreamsPaired`, `LoadAfterAllConnected`, and that `Session` implements `TestLifecycle` |
| `SessionStreams` | `SessionProofs` | what workers are told, which results the server holds, and that every stream implements `StreamLifecycle` |
| `SessionDrains` | `SessionStreams` | no worker of an undisturbed test fails |
| `Worker` | INSTANCE `StreamLifecycle` | `run_worker` at both ends of one stream, with bytes, clocks and statistics |
| `WorkerProofs` | `Worker` | its invariants and theorems |
| `MessageQueue` | | abstract specification: a queue of messages whose reader may lose its place |
| `Framing` | INSTANCE `MessageQueue` | `send_control_message` and `read_control_message`, byte by byte |
| `FramingProofs` | `Framing` | its invariant, its theorems and that it implements `MessageQueue` |
| `Acceptor` | | `run_server` and `create_test` with several clients |
| `AcceptorInvariant`, `AcceptorProofs` | `Acceptor` | its inductive invariant, proof and safety theorems |
| `ByteStream` | | abstract specification: what the two ends of a stream promise each other about its bytes |
| `P3Session` | INSTANCE `ByteStream` | the p3 server and its clients |
| `Summary` | | which rows of the two ends the SUM lines of a report are made of (`ui.rs`) |
| `P3Report` | `P3Session`, INSTANCE `Summary` | the report of a p3 client |
| `P3Proofs` | `P3Report` | the invariants of p3 and its theorems, and what the concatenations and sums of a report return |
| `Percentiles`, `PercentilesProofs` | | `Dist::from_samples` and its theorem |
| `MCSession`, `MCAcceptor`, `MCWorker`, `MCFraming`, `MCP3Session`, `MCPercentiles` | the modules above | instances for TLC |

A data stream appears three times: `StreamLifecycle` says what is promised,
`Worker` keeps the promise with bytes and clocks and a controller that may say
anything, `Session` keeps it with real controllers, many streams and a peer
process, and neither bytes nor clocks. `Session` and `Acceptor` likewise take whole
frames; that whole frames come out of the bytes is `Framing`.

## How the models correspond to the code

**A step** is what a task does from one suspension point to the next. Each
process is single-threaded, so nothing comes between two `.await`s of a task;
what happens at the other process may. `pc[e]` in `Session` and `ctl[c]`, `at`
in `Acceptor` say at which `.await` a task is suspended.

`Session`:

* `pc[e] = "top"` is the head of `run_controller`'s loop: `ServerStart`, `Wait`,
  `CreateStreams`, `StartLoad` and `Finalise` are the arms of its `match`.
  `"recv"` is the `recv().await` of the server and the `select!` of the client,
  served by `RecvCreate`, `RecvTerminated`, `CliReadFrame` and the failures of
  the read. `"dial"` is inside `create_streams`, `"collect"` inside
  `collect_test_result`, `"exchange"` inside `exchange_results`.
* The first `?` that fails ends `run_controller`: `Leave(e, "aborted")`. When
  the client's controller returns so does its process; on the server only the
  test ends and its workers live on, as they do in the code.
* A stream is its id; `conn` remembers which client id a server's id belongs
  to. A worker is `wait` (for `StartLoad`), `load`, `drain`, `ok` or `err`;
  `gone` when its process went away. `Finish` is the end of the task *and* the
  `try_send` of its report, which is dropped when the channel is full, because
  no `.await` comes between the two.
* A result is the id of its stream. Bytes, clocks and statistics are left out;
  a worker may meet its deadline at any time.
* `head` is how far `client_read_message` got into the next frame when the
  other branch of the `select!` won and the future was dropped.
* `toClient` and `queue` are FIFO (TCP, mpsc). `mail` needs no bound: a worker
  is sent at most two messages and the channel holds five.
* `Unlocked` says that the accept loop does not hold the mutex. Which of the
  tasks waiting for the mutex gets it, and whether a task that was woken runs
  before another, is left open; tokio is more orderly.
* A write to a dead peer may succeed or fail; frames sent by a killed process
  may or may not arrive.

`Acceptor` keeps of a test what the accept loop shares with it: the state behind
the mutex, the controller's channel, and the steps of `run_controller` that use
either. Here `set_state` is two steps (`Top` or `AcceptStream` write the frame,
`SetState` takes the mutex), because between them the client can dial and the
loop can run; in `Session`, which has no strangers, a single step is enough since
a connection that arrives between the two only waits. A cookie is the client
that made it. The Welcome of a data connection and its way into the channel are
one step (`Admit`): the socket accepts a frame that small without suspension.
`run_server` returns, and every test with it (`Down`), in three ways: an accept()
that fails on a connection whose client has gone, where the platform reports that
(`AcceptFails`; `while let Ok` leaves the loop), a Hello or Welcome that fails
(`ServerFails`), and a `try_send` to a controller whose channel is closed or full
(`TrySendFails`). The loop of `Session` is busy with one test only, and after the
test has ended (`Gone("Server")`) it behaves as `Acceptor` has it; a `?` there is
`AccFail`, and an accept() that fails is a server that is killed (`Crash`), since
the process ends with its test either way.

`Worker` is one stream. Each end has its own clock, counted from its own
`start_time`, so the two deadlines are unrelated. `Passes` is time, `Deadline`
and `Tick` are the timers, which fire at any time after they are due; the ticker
returns the instant it was due (`last_tick` advances by one `Second`). The
`select!` is `biased`: a tick that is due no earlier than the deadline never wins
(`MayTick`), and I/O cannot starve the deadline (fairness). `Account` is the
bookkeeping of one I/O: totals and interval (`Count`), the gap since the last one,
less `clock_baseline_ns`, as a sample unless the test is warming up (`Gap`), and
the goodput window (`Window`). `Break` leaves the loop; a receiver goes on to
`Drain` until the end of the data. Numbers and sums stand for the vectors of
samples and windows, whose values nothing but the sums depends on. `Baseline` is
what `calibrate_clock` found.

`Framing` is one direction of a control connection. A byte is known by its
message and its place in the frame, so a frame out of place is told from a
frame; a length that is read across the beginning of a frame may be anything up
to the limit, or over it. `DropRead` is the future that `select!` drops. Any
number of bytes comes with a read, up to what `read_u32` or `take` allows.

`P3Session`: a connection is its client and its place in the order in which the
client dialled; 0 is the control connection. `up` and `down` count the bytes of
the two directions, cookie first. The futures of a connection are `upTx`, `upRx`,
`downTx`, `downRx`: whether they have begun, write, read or have ended. A writer
looks at the time before a write and never during one. `dropped` is a connection
without the right cookie. A result is a row: connection, half, bytes. `reply` and
`LocalRows` are the rows of the two ends in the order of `to_results`, and
`Summary` has the sums that `print_summary` makes of them, from local or remote
rows according to the direction.

`Percentiles` keeps the vector of samples sorted: `from_samples` sorts it before
it looks, and what it returns is a function of the sorted vector. `Record` is
`samples.push`; `RankOf` and `Index` are the two lines of the closure `pct`, with
`Word` for the range of `usize`. The reference, `NearestRank`, counts samples and
mentions neither ranks nor indices.

Scaled down, with the code's value in brackets: the channel `ProtBuffer` of
`Session` and `Acceptor` (five), the number of streams (`-P`, up to 65535), in `Worker` the second, the
window (10 ms) and the block, in `Framing` the prefix (4 bytes) and the limit
(20 MB), in `P3Session` the cookie (8 bytes). Four bounds cut what would go on
for ever: `MaxBytes` and `MaxLate` in `Worker` (what is written in all, and how
late a timer may fire), `MaxSent` in `Framing`, `MaxData` in `P3Session`.
`SessionWrap` uses the real `u16`. `PROTOCOL_TIMEOUT` is a timer that may fire at any time (`Patience`), and
so are the five seconds of `collect_test_result` (`CollectTimeout`).

## Runs

Session, with the parameters of `MCSession`:

| run | instance | shows |
|---|---|---|
| `session_forward` | 3 client-to-server streams, channel of 3, no failures | types; no deadlock; `SendersNeverFail`; `TestCompletes` |
| `session_faults` | bidirectional, 1 stream each way, channel of 2, frames may split, either process may be killed at any step | `StreamsPaired`, `LoadAfterAllConnected`, `StartLoadOnce`, `ServerResultsExact`, `ImplementsLifecycle`, `ImplementsStreams`, `ClientEnds`, `ExchangeEnds` |
| `session_torn`, `session_lost_report`, `session_client_dies`, `session_wrap` | see [below](#where-code-and-text-disagree) | each violates one property |

Why these are enough: two streams make every race between two workers, and a
worker and its controller, possible; the third in `session_forward` gives a
stream that is neither the first nor the last, so that an off-by-one in the
counts shows. Bidirectional is the only direction with senders at both ends and
the flip of roles. The passing runs keep the number of streams within the
channel, where the code promises something; `session_lost_report` shows what
happens beyond. Deadlock is checked in `session_forward`; the other runs include
behaviours in which a process dies or hangs, where the code does stop.
`session_client_dies` is a server-to-client test, the direction `session_faults`
and `session_forward` do not have.

Acceptor, with the clients of `MCAcceptor`:

| run | instance | shows |
|---|---|---|
| `acceptor` | 3 clients wanting 2 streams each, channel of 1; one may be killed, one may never send its parameters | all safety properties; `OnlyAcceptEndsLoad`; `EveryoneAnswered`; `NegotiationEnds` |
| `acceptor_silent` | 2 clients, one may never say Hello | `KeepsAccepting` violated |

Three clients are one in a test, one being negotiated or denied, and one waiting
behind. The channel has fewer places than the test has streams, so that it can be full
when the second stream is admitted. Each client runs one test, as a client process does. With the server
idle when nobody connects any more, the run ends in a state with no successor,
so deadlock is not checked; the liveness properties take its place. The
invariants `IndInv` and `AccInv` were checked on these and on larger instances
(two clients that may be killed: 90 thousand states) before they were proved.

A stream, a control connection, p3:

| run | instance | shows |
|---|---|---|
| `worker` | 3 bytes in blocks of up to 2, sockets that hold 2; a test of 3 seconds of 2 units with a warm-up of one second, windows of one unit; the clock of the receiver; either process may be killed | `ReceivedWereSent`, `IntervalsAddUp`, `SamplesTile`, `WindowsTile`, `ImplementsStream`, `StreamEnds`; no deadlock |
| `framing` | 3 messages out of three kinds, one of them over the limit; sockets that hold 3 bytes; reads dropped, the connection closed, anywhere | `OnlyOversizeRefused`, `ImplementsQueue`, `Delivers`; no deadlock |
| `p3` | 2 clients of one server, one with two data connections in any direction, which may be killed, one with none; cookies of 2 bytes | `OnlyOwnData`, `CountsAgree`, `RowsPair`, `ResultsArrive`, `SumsAreTrue`, `ImplementsByteStreams`, `ServerEnds`, `ClientsEnd`; no deadlock |

In `worker`, three seconds are the shortest test with a warm-up and have ticks
before, at and after its end; three bytes make a first, a middle and a last I/O.
The end whose clock is not followed meets its deadline at any time, so all
orders of the two deadlines occur; the receiver's accounts are those of a sender
as well, since the same code keeps them, and the theorems cover both clocks. In
`framing` a frame is longer than the sockets hold, so that one read never sees all
of a long frame, and the sockets hold the end of one frame and the beginning of
the next. In `p3` the client without data connections is the one whose control
connection is taken for a data connection of the other, or which takes the
server from it; two data connections are first and last.

Percentiles:

| run | instance | shows |
|---|---|---|
| `percentiles` | all vectors of at most 102 samples with two values, a 16-bit word | `NearestRank` |

Whether a value is the p-th percentile depends only on which samples are at most
that value, so two values are enough; more than 100 samples are needed for p99
and p100 to differ.

The properties, in the order of what they protect:

* *Roles and ids* – `StreamsPaired`.
* *Start of load* – `LoadAfterAllConnected`, `StartLoadOnce`.
* *End of load* – `SendersNeverFail`: whichever end's deadline comes first, the
  receiver's drain keeps the sender from failing. `ImplementsStreams` and
  `ImplementsStream` say it of every stream by itself, crashes included.
* *Results* – `ServerResultsExact`: when the server asks for the exchange every
  result it will ever have is in. Nothing of the kind is true of the client: its
  `collect_test_result` may give up on a stream.
* *Phases* – `ImplementsLifecycle`: the client never runs ahead, never skips a
  state, and finishes only after the server.
* *The end* – `TestCompletes`, `ClientEnds`, `ExchangeEnds`, `StreamEnds`.
* *Accounts of a stream* – `ReceivedWereSent`: the totals of both ends, what was
  drained and what is in flight. `IntervalsAddUp`: the printed intervals and the
  open one are the total; the last interval is never printed. `SamplesTile` and
  `WindowsTile`: gaps and windows cover the measured time once.
* *Control messages* – `OnlyOversizeRefused`: a reader that was never dropped
  fails at nothing else. `ImplementsQueue`: what comes out went in, in order.
  Dropped reads weaken that: a read that is dropped inside a frame, and again just
  where a frame ends, skips a message without an error, which is the `Take` of a
  broken queue. `Delivers`.
* *The server* – `OneTestAtATime`, `StreamsAreOwn`, `DataNeverStartsTest`,
  `NeverRefused`, `OnlyAcceptEndsLoad`, `EveryoneAnswered`, `NegotiationEnds`. A test
  under load is not safe from `accept()`: if it fails on a connection that was
  aborted while it waited, the server ends, and the run has these behaviours.
  `OnlyAcceptEndsLoad` says that this is the only way; a client that is slow, dies
  with its cookie unsent or dials faster than the controller takes its streams
  may end the server, but never under load.
* *p3* – `OnlyOwnData`, `CountsAgree`: what the cookies protect. `RowsPair`: a
  connection of another client takes a place among the data connections, but it
  has no row and the rows that are left keep their numbers; only the last are
  missing. `ResultsArrive`: the empty default hides no results. `SumsAreTrue`: the
  SUM lines of a client are what both ends counted, each stream once; of a
  bidirectional test only the local rows are added. `ImplementsByteStreams`: each
  stream by itself, in either direction; what `CountsAgree` says of the end it says
  of every step, and a receiver meets the end only with all of the data or with a
  client that was killed. `ServerEnds`, `ClientsEnd`.
* *Percentiles* – `NearestRank`.

`TestCompletes`, `ClientEnds`, `ExchangeEnds` and `StreamEnds` have their
preconditions for a reason. `Session` also has the behaviours in which a client dies while the
server is in `CreateStreams`: the server's controller then waits on its channel
for ever, and so do its workers on theirs: `StreamEnds` is about a stream whose
controllers have told it to start or to stop, or have gone. No text of the
repository promises otherwise and no property says so.
`ExchangeEnds` excepts a torn control connection: the client may then misread a
length and wait for bytes that never come. The p3 server waits in the same way for
connections of a client that has died, and later clients wait with it: that is
the second disjunct of `Ended`, and `ServerEnds` and `ClientsEnd` say no more than
that a test with all its connections ends, that it gets them if nobody dies, and
that nobody outlives the server.

## Fairness

Weak fairness, per task, because tokio's executor polls every task that was
woken, the sockets report readiness, and timers fire:

* `Session`: one condition for each controller, one for the accept loop, one
  for each worker. A worker under load has a deadline, so `WorkerStop` is
  covered; a receiver drains until its peer has closed. No fairness for a crash,
  a frame that arrives in parts, or the garbage that follows a torn frame: the
  read of such garbage may just as well wait for ever.
* `Acceptor`: the accept loop (but no `accept()` need fail), each controller, a client that dials and a client
  that has connected and talks. None for `Connect`, for `Leave`, for the end of
  a test, for the Hello of a client in `Silent` or the parameters of one in
  `Slow`. `GiveUp` covers the timer on the parameters, so `NegotiationEnds`
  needs no help from the client.
* `Worker`: a worker that was told to start starts, the followed clocks go on, the
  deadline wins its `select!` in the end because that is biased, the drain goes on.
  None for reads, writes, ticks or deaths, and none for the controllers, which may
  leave their workers waiting for ever.
* `Framing`: the write goes on while there is room, the read while there are bytes.
  None for sending, closing or dropping.
* `P3Session`: every client, the server, and each of the four futures of a
  connection. A writer that waits to look at the time finds it over in the end.

`Patience` being always true gives the timer no duration, but only
`NegotiationEnds` relies on it firing.

## What is proved

For every value of the constants allowed by `SessionAssumption`,
`AcceptorAssumption`, `WorkerAssumption`, `FramingAssumption`, `P3Assumption` and
`PercentilesAssumption`: any direction and any number of streams from 0 to 65535,
any channel, crashes or not, split frames or not; any set of clients, finite or
not, any number of streams per test and of places in the channel; any length of a stream, block, baseline and
window, with clocks at both ends; any messages and sizes, prefix, limit and
sockets of a control connection; any p3 clients, directions, cookies and numbers
of streams. `MaxBytes`, `MaxLate`, `MaxSent` and `MaxData` may be any numbers.

| theorem | property |
|---|---|
| `SessionProofs!Invariance` | `IndInv` |
| `SessionProofs!TypeCorrect` | `TypeOK` |
| `SessionProofs!ConnectionsPaired` | `StreamsPaired` |
| `SessionProofs!LoadWaits` | `LoadAfterAllConnected` |
| `SessionProofs!Refinement` | `ImplementsLifecycle` |
| `SessionStreams!StartsOnce` | `StartLoadOnce` |
| `SessionStreams!ResultsExact` | `ServerResultsExact` |
| `SessionStreams!StreamsImplemented` | `ImplementsStreams` |
| `SessionDrains!SendersSafe` | `SendersNeverFail` |
| `AcceptorProofs!AcceptorInvariance` | `AccInv` |
| `AcceptorProofs!AcceptorTypes` | `TypeOK` |
| `AcceptorProofs!NoConcurrentTests` | `OneTestAtATime` |
| `AcceptorProofs!OwnStreams` | `StreamsAreOwn` |
| `AcceptorProofs!ControlOnly` | `DataNeverStartsTest` |
| `AcceptorProofs!DataWelcome` | `NeverRefused` |
| `AcceptorProofs!OnlyAcceptEnds` | `OnlyAcceptEndsLoad` |
| `WorkerProofs!TypeOKHolds` | `TypeOK` |
| `WorkerProofs!ReceivedWereSentHolds` | `ReceivedWereSent` |
| `WorkerProofs!IntervalsAddUpHolds` | `IntervalsAddUp` |
| `WorkerProofs!SamplesTileHolds` | `SamplesTile` |
| `WorkerProofs!WindowsTileHolds` | `WindowsTile` |
| `WorkerProofs!StreamImplemented` | `ImplementsStream` |
| `FramingProofs!FramingInvariance` | `FramingInv` |
| `FramingProofs!FramingTypes` | `TypeOK` |
| `FramingProofs!ReadersKeepStep` | `OnlyOversizeRefused` |
| `FramingProofs!QueueImplemented` | `ImplementsQueue` |
| `P3Proofs!P3Invariance` | `P3Inv`, `RowsInv` |
| `P3Proofs!P3Types` | `TypeOK` |
| `P3Proofs!OnlyOwnDataHolds` | `OnlyOwnData` |
| `P3Proofs!CountsAgreeHolds` | `CountsAgree` |
| `P3Proofs!ResultsArriveHolds` | `ResultsArrive` |
| `P3Proofs!RowsPairHolds` | `RowsPair` |
| `P3Proofs!SumsAreTrueHolds` | `SumsAreTrue` |
| `P3Proofs!ByteStreamsImplemented` | `ImplementsByteStreams` |
| `PercentilesProofs!SamplesSorted` | `SortedSamples` |
| `PercentilesProofs!PercentilesExact` | `NearestRank`, if `99 * MaxSamples < Word` |

**The argument for a session.** Both ends take the size of a map for the next
id. That gives equal ids only while nothing is removed from either map and the
server's channel keeps the order of the client's connections. So `IndInv` says:
until an end leaves `CreateStreams` its map only grows (`Preparing`), the ids are
an initial segment (`Numbered`), a connection that the client has counted or been
welcomed for is registered or queued with just the id it will get
(`ServerRegisters`), and the client leaves `CreateStreams` only with all of them
(`ClientOpens`). What keeps an end from starting load early is the order of
frames: those the client has not read are exactly the states between its own and
the server's (`FramesInOrder`), which also carries the refinement. `Whereabouts`
ties the suspension point to the state. None of `StreamsPaired` and
`LoadAfterAllConnected` is inductive alone: each speaks only of what is
registered, and the step that registers a stream takes its id from the queue.
The proof goes action by action in `SessionProofs`, after the lemmas on counting
an initial segment (`SegmentSize`, `SameCounts`, `EarlyCounts`, `RegisterCounts`).

**The refinement.** `phase` is the server's state, `seen` the client's, `over`
is read off `pc`. Each action is one of `Advance`, `Follow`, `ServerDone`,
`ClientDone`, `Fail` or a stutter; that a frame the client reads is the *next*
state, and that the server finds the client in the exchange when its results are
in, are conjuncts of `IndInv`.

**The streams of a session.** On top of `IndInv` stand four invariants.
`StartsInv`: until a controller has noted `Running` its workers have been told
nothing, and after that no mailbox holds `StartLoad` behind another message; the
one transition is what `old_state` guards. `ResultsInv`: in `Running` a stream that
is no longer in the server's map has finished and left its result, because only a
finished worker reports (`Reports`) and only a report removes a stream; so an
empty map means that all are in. `LivesInv`: no task outlives its process and only
receivers drain. With it each action is, for each stream, an action of
`StreamLifecycle` or a stutter; that a worker which finds its connection closed is
facing the same stream at the other end is `Numbered` again (`PeerLetGo`).
`DrainsInv` is about tests in which nobody has died or given up:
`LoadComesFirst`, every controller passes through the start of its load, with all
streams still there, on the way to the exchange, so a waiting worker finds
`StartLoad` and never bails out; and `SendersFirst`, no receiver has ended before
its sender. A closed connection then means a sender that ended well
(`ClosedBySender`), and what remains is that a client that is done takes nothing
from a server under load: it is done only after the exchange, when the server's
workers have ended (`ServerAtRest`, from `FramesInOrder` and `ResultsInv`).

**A stream's accounts.** `ReceivedWereSent`, `IntervalsAddUp` and `WindowsTile` are
inductive together with the types: each I/O adds the same amount on both sides of
every equation. `SamplesTile` is not; `SamplesInv`, the last part of `WorkerInv`,
ties it to the clock: `t_prev` never passes it, no gap is discarded after the
first sample, and until then `measured_from` moves along with `t_prev`. The refinement is immediate but for the
end of the data, which a receiver sees only after its sender has let go.

**The accept loop.** The `Weak` reference guards only the latest test, so
`LatestOnly` says that a test in flight *is* the latest and that none is while
another is negotiated: `create_test` is awaited in the loop itself, which serves
nobody else. For the other three, `BacklogSane` and `InboundSane` follow each
unanswered connection, one per client; `Abreast` says how far a client can be ahead
of its test, and `Counted` that a client that still dials is missing a stream on
the server, so the test has not passed `CreateStreams`. The mutex is what makes `NeverRefused` true: `SetState` cannot
be overtaken by an accepted connection. `NoneRuns`, on top of `AccInv`, says that
no test is in `Running` while the loop awaits a cookie: the loop holds the mutex
that the test would need, and no other test is in flight. All the `?` of the loop
are there, in `ServerFails` and `TrySendFails`, whence `OnlyAcceptEndsLoad`: what is
left is `AcceptFails`.

**A control connection.** `OnlyOversizeRefused` speaks of the moment when a read
fails; what makes it true is where the reader was all along. `Pending` is what the
reader has of the next frame, then the sockets' bytes, then the rest of the frame
that is being written. `Offsets` says where in the bytes of all frames those of
each message begin, and `Gone` how many of them have been parsed or thrown away.
`InFlight`: byte i of `Pending` is byte `Gone + i` of all frames, and `Gone` is where
the next message begins, or, after a dropped read, some place behind. Reading and
writing move bytes within `Pending` (`ReadInPlace`, `WriteInPlace`); what is parsed or
thrown away leaves the rest in its place (`Skipped`); and a frame that was read
whole is that of the next message or, after a dropped read, of some message behind
it (`WholeFrame`), which is the `Take` of the refinement. `Writing` and
`Reading` say how far either side is in its frame: the size the reader goes by is
the size of the next message.

**p3.** `P3Inv` has four parts: `Types`; `Left`, a client leaves of its own accord
only after the server; `Authentic`, nothing is read or sent on a connection until
it has shown the right cookie, and what the server has read since is what it has
counted; and `Balanced`, what is read was written, and once an end of file has been
read nothing more is written.

The rows of the two ends are paired by number alone, so their proof is about order.
`RowsInv` has seven parts. `InLine`: the connections the server took and those in
its backlog stand in the order in which each client dialled, each once, none
missing; so those of the test that it took are the *first* of the client's.
`Served`, `Replied`: the results are made of the rows of the connections taken, in
that order, and a client that is done has them. `OnlyAccepted`: the others stay
untouched. `Presented`: no connection of the test is dropped while its client
lives, because the cookie is written before the client can let go. `Listening`: a
client reads to the end what the server sends. `Bounded` is for the types of rows.
With these the server's rows of a connection match the client's (`RowsOfOne`),
foreign connections add none (`OthersHaveNone`), and `ReplyPaired` goes along the
list of connections: after each of them the server's rows match those of the first
m streams of the client. `SumsAreTrue` then compares sums: the shorter list against
the longer (`Facing`), where rows the server lacks count nothing, and in a test of
both directions the client's rows against its streams (`Spread`).

The refinement of `ByteStream` is shown for each direction by itself
(`UpwardStep`, `DownwardStep`), half by half: what moves one connection leaves the
others alone (`OthersStill`), and of the two ends of a connection each action moves
one. `sent` leaves out the cookie, so a client's first write is `Opens` and sends
nothing, and `CliWrites` sends a byte only because the cookie is there before it
(`Presented`); what came with the cookie is counted by `Listens`. The end that
`UpEnds` finds is that of a closed sender that has been counted to the last byte
(`Authentic`, `Balanced`), or else its client has gone; and as clients leave of
their own accord only after the server (`Left`), it was killed. A server that
exits has closed or never opened what it sends on (`Served`, `OnlyAccepted`).

The rows are concatenated with `FlattenSeq` and added with `MapThenSumSet`, which
are recursive functions. What they return is proved by induction without the
library's rules: `SetInduction` (a set with 0 and every successor holds all of `Nat`)
and `FiniteInduction` (the same for subsets of a finite set, by size) are theorems
about sets, from the well-foundedness of `<`. The lemmas about sums are stated for
functions that satisfy the recursion (`Sums`), and there is only one (`SumsOnly`).

**The percentiles.** In a sorted vector at least i samples are at most the i-th,
and fewer than i are below it (`RankOfSample`); the index is the first whose rank
covers p percent (`IndexIsRank`). The second lemma needs the product `p * n` to
fit `usize`. On wasm32 that holds up to 43,383,508 samples; beyond, `RankOf`
wraps, and TLC finds a wrong percentile at once when `Word` is small.

Model-checked only: all liveness (`TestCompletes`, `ClientEnds`, `ExchangeEnds`,
`EveryoneAnswered`, `NegotiationEnds`, `StreamEnds`, `Delivers`, `ServerEnds`,
`ClientsEnd`), which is beyond this prover, and `ENABLED` with it, so also the
absence of deadlock. Every safety property that a passing run checks has a theorem.

## Where code and text disagree

Each is a run that TLC ends with a counterexample.

* `session_torn` – the client's `select!` (`controller.rs:102-106`) drops a read
  that may have consumed part of a frame; the next read starts inside it.
  `net_utils.rs:107-108` says the next read should find the length.
* `session_lost_report` – reports of finished workers are dropped when the
  channel is full (`controller.rs:306-308`), and the server then stays in
  `Running`. The run has three streams and a channel of two; the code has a
  channel of five, and the README's own example uses 100 streams whose deadlines
  are the same instant. Tokio runs the tasks a timer woke one after the other,
  before the controller they wake.
* `session_client_dies` – `set_state(ExchangeResults)` fails before it changes the
  state when the client has gone, and `let _ =` (`controller.rs:225`) ignores it.
* `session_wrap` – the sum of the `u16` counts wraps (`controller.rs:327`, and
  `accept_stream`'s alike) with `--bidir -P 32768` in a release build.
* `acceptor_silent` – the Hello is awaited without the timer that the comment in
  `create_test` (`server.rs:98-100`) announces for each read.

## What is not modelled

* What the JSON of a control message says, and a writer that sends something other
  than frames.
* Reports beyond the SUM lines: durations, the latency table, the mean of a
  `Dist`, all formatting and units. No state depends on them.
* Options, logging, launchers, the host of the p3 build and the WIT interfaces: no
  protocol state.
* In p3: latency samples, durations, `yield_now`, and control messages in parts.
  One run of the server is all there is, since it exits. It is never killed, so
  the empty default of `unwrap_or_default` is met only by clients it does not
  serve, and `ResultsArrive` is about a server that is not killed. Its stream of
  connections never ends, so the two `ok_or(())?` (`lib.rs:368`, `376`) never fail:
  `crates/netperf-p3/wit/deps/sockets.wit:284-305` calls it perpetual, to be closed
  on fatal errors only.
* Clients that present the cookie of another client, or that speak another
  protocol.
* `calibrate_clock`; a block size of 0.
* A client that dies while the server is in `CreateStreams` has no property (see
  [runs](#runs)), although the models have the behaviour.
* Resource exhaustion in the host, other errors of `accept()` than an aborted
  connection among it, and the debug build, in which the sum of
  `session_wrap` panics.

## Plan

Done: the core (`Session`, `Acceptor`, `Percentiles` with invariants, proofs and
refinements), the stream (`Worker`, `StreamLifecycle`), the control connection
(`Framing`, `MessageQueue`), p3 (`P3Session`, `ByteStream`, `P3Report`, `Summary`),
and theorems for every safety property and every refinement that a passing run
checks. What is left:

1. The step from `Session`'s single-step `SetState` to `Acceptor`'s two steps, as
   a refinement of a common abstraction of the accept loop.
2. The absence of deadlock as an invariant: in every state of an undisturbed test
   that is not its end, the guard of some action holds.
