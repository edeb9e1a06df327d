---------------------------- MODULE WorkerProofs ----------------------------
(***************************************************************************)
(* What Worker.tla says of one data stream, for every length of the test,  *)
(* block, window, cost of the clock and capacity of the sockets: no byte   *)
(* is made up or counted twice, no wait is left out of the samples or      *)
(* measured twice; and the two tasks keep the promises of StreamLifecycle. *)
(***************************************************************************)
EXTENDS Worker, TLAPS

\* The samples of one end.  The first sample is taken after the warm-up, and
\* then no gap is discarded any more.
Samples(e) ==
  /\ samples[e] + warmup_discarded[e] = syscalls[e]
  /\ measured_from[e] > 0 => measured_from[e] < Warmup
  /\ measured_from[e] <= t_prev[e]
  /\ t_prev[e] <= clock[e]
  /\ samples[e] = 0 => t_prev[e] = measured_from[e]
  /\ samples[e] > 0 => t_prev[e] >= Warmup
  /\ sampled[e] <= t_prev[e] - measured_from[e]
  /\ t_prev[e] - measured_from[e] <= sampled[e] + samples[e] * Baseline

SamplesInv == Measure => \A e \in Ends : Samples(e)

WorkerInv == TypeOK /\ ReceivedWereSent /\ IntervalsAddUp /\ SamplesInv /\ WindowsTile

----------------------------------------------------------------------------
(* Arithmetic, and what one operation does to the accounts.                *)

\* The duration of the test and of its warm-up are natural numbers.
LEMMA Durations == Timeout \in Nat /\ Warmup \in Nat
BY WorkerAssumption, SMT DEF WorkerAssumption, Timeout, Warmup

\* A sample misses at most one reading of the clock of the time it stands for.
LEMMA StallBound ==
  ASSUME NEW dt \in Nat
  PROVE  Stall(dt) \in Nat /\ Stall(dt) <= dt /\ dt <= Stall(dt) + Baseline
BY WorkerAssumption, SMT DEF WorkerAssumption, Stall

LEMMA OneMore ==
  ASSUME NEW s \in Nat, NEW b \in Nat
  PROVE  s * b \in Nat /\ (s + 1) * b = s * b + b
BY SMT

\* Count keeps the types, and a byte is in the total and in an interval.
LEMMA CountKeeps ==
  ASSUME TypeOK, IntervalsAddUp, NEW e \in Ends, NEW n \in Nat, Count(e, n),
         UNCHANGED <<clock, last_tick, reported>>
  PROVE  /\ bytes_transferred' \in Counts /\ syscalls' \in Counts
         /\ current_interval' \in Counts
         /\ IntervalsAddUp'
<1>1. /\ bytes_transferred \in [Ends -> Nat] /\ syscalls \in [Ends -> Nat]
      /\ current_interval \in [Ends -> Nat] /\ reported \in [Ends -> Nat]
  BY DEF TypeOK, Counts
<1>2. /\ bytes_transferred' \in [Ends -> Nat] /\ syscalls' \in [Ends -> Nat]
      /\ current_interval' \in [Ends -> Nat]
  BY <1>1, SMT DEF Count
<1>3. ASSUME NEW x \in Ends
      PROVE  reported'[x] + current_interval'[x] = bytes_transferred'[x]
  <2>1. reported[x] + current_interval[x] = bytes_transferred[x]
    BY DEF IntervalsAddUp
  <2>2. CASE x = e
    BY <1>1, <2>1, <2>2, SMT DEF Count
  <2>3. CASE x # e
    BY <1>1, <2>1, <2>3, SMT DEF Count
  <2> QED
    BY <2>2, <2>3
<1> QED
  BY <1>2, <1>3, Zenon DEF IntervalsAddUp, Counts

\* A window keeps the types; the bytes are in one window, the windows end to end.
LEMMA WindowKeeps ==
  ASSUME TypeOK, WindowsTile, SamplesInv, Measure, NEW e \in Ends, NEW n \in Nat,
         Count(e, n), Window(e, n), t_prev' = [t_prev EXCEPT ![e] = clock[e]]
  PROVE  /\ win_start' \in Counts /\ win_bytes' \in Counts
         /\ tput_time' \in Counts /\ tput_bytes' \in Counts
         /\ WindowsTile'
<1>1. /\ win_start \in [Ends -> Nat] /\ win_bytes \in [Ends -> Nat]
      /\ tput_time \in [Ends -> Nat] /\ tput_bytes \in [Ends -> Nat]
      /\ bytes_transferred \in [Ends -> Nat] /\ t_prev \in [Ends -> Nat]
      /\ clock[e] \in Nat /\ Win \in Nat
  BY Durations, WorkerAssumption, SMT DEF TypeOK, Counts, WorkerAssumption
<1>2. ASSUME NEW x \in Ends
      PROVE  /\ tput_bytes[x] + win_bytes[x] = bytes_transferred[x]
             /\ tput_time[x] = win_start[x] /\ win_start[x] <= t_prev[x]
             /\ t_prev[x] <= clock[x]
  BY Zenon DEF WindowsTile, SamplesInv, Samples
<1>3. bytes_transferred' = [bytes_transferred EXCEPT ![e] = @ + n]
  BY DEF Count
<1>4. CASE clock[e] - win_start[e] >= Win
  <2>1. /\ tput_time' = [tput_time EXCEPT ![e] = @ + (clock[e] - win_start[e])]
        /\ tput_bytes' = [tput_bytes EXCEPT ![e] = @ + win_bytes[e] + n]
        /\ win_start' = [win_start EXCEPT ![e] = clock[e]]
        /\ win_bytes' = [win_bytes EXCEPT ![e] = 0]
    BY <1>4 DEF Window
  <2>2. clock[e] - win_start[e] \in Nat
    BY <1>1, <1>2, SMT
  <2>3. /\ win_start' \in [Ends -> Nat] /\ win_bytes' \in [Ends -> Nat]
        /\ tput_time' \in [Ends -> Nat] /\ tput_bytes' \in [Ends -> Nat]
    BY <1>1, <2>1, <2>2, SMT
  <2>4. ASSUME NEW x \in Ends
        PROVE  /\ tput_bytes'[x] + win_bytes'[x] = bytes_transferred'[x]
               /\ tput_time'[x] = win_start'[x] /\ win_start'[x] <= t_prev'[x]
    <3>1. CASE x = e
      BY <1>1, <1>2, <1>3, <2>1, <3>1, SMT
    <3>2. CASE x # e
      BY <1>1, <1>2, <1>3, <2>1, <3>2, SMT
    <3> QED
      BY <3>1, <3>2
  <2> QED
    BY <2>3, <2>4, Zenon DEF WindowsTile, Counts
<1>5. CASE ~ (clock[e] - win_start[e] >= Win)
  <2>1. /\ win_bytes' = [win_bytes EXCEPT ![e] = @ + n]
        /\ win_start' = win_start /\ tput_time' = tput_time /\ tput_bytes' = tput_bytes
    BY <1>5 DEF Window
  <2>2. win_bytes' \in [Ends -> Nat]
    BY <1>1, <2>1, SMT
  <2>3. ASSUME NEW x \in Ends
        PROVE  /\ tput_bytes'[x] + win_bytes'[x] = bytes_transferred'[x]
               /\ tput_time'[x] = win_start'[x] /\ win_start'[x] <= t_prev'[x]
    <3>1. CASE x = e
      BY <1>1, <1>2, <1>3, <2>1, <3>1, SMT
    <3>2. CASE x # e
      BY <1>1, <1>2, <1>3, <2>1, <3>2, SMT
    <3> QED
      BY <3>1, <3>2
  <2> QED
    BY <1>1, <2>1, <2>2, <2>3, Zenon DEF WindowsTile, Counts
<1> QED
  BY <1>4, <1>5

\* A gap is sampled or discarded, and the samples still tile the time.
LEMMA GapKeeps ==
  ASSUME TypeOK, SamplesInv, Measure, NEW e \in Ends, NEW n \in Nat,
         Count(e, n), Gap(e), UNCHANGED clock
  PROVE  /\ t_prev' \in Counts /\ samples' \in Counts /\ sampled' \in Counts
         /\ warmup_discarded' \in Counts /\ measured_from' \in Counts
         /\ SamplesInv'
<1>1. /\ t_prev \in [Ends -> Nat] /\ samples \in [Ends -> Nat] /\ sampled \in [Ends -> Nat]
      /\ warmup_discarded \in [Ends -> Nat] /\ measured_from \in [Ends -> Nat]
      /\ syscalls \in [Ends -> Nat] /\ clock[e] \in Nat /\ Baseline \in Nat
  BY Durations, WorkerAssumption, SMT DEF TypeOK, Counts, WorkerAssumption
<1>2. \A x \in Ends : Samples(x)
  BY DEF SamplesInv
<1>3. /\ syscalls' = [syscalls EXCEPT ![e] = @ + 1]
      /\ t_prev' = [t_prev EXCEPT ![e] = clock[e]]
      /\ clock' = clock
  BY DEF Count, Gap
<1>4. Warmup \in Nat
  BY Durations
<1>5. t_prev[e] <= clock[e]
  BY <1>2 DEF Samples
<1>6. CASE clock[e] >= Warmup
  <2> DEFINE gap == Stall(clock[e] - t_prev[e])
  <2>1. /\ samples' = [samples EXCEPT ![e] = @ + 1]
        /\ sampled' = [sampled EXCEPT ![e] = @ + gap]
        /\ warmup_discarded' = warmup_discarded /\ measured_from' = measured_from
    BY <1>6 DEF Gap
  <2>2. /\ gap \in Nat /\ gap <= clock[e] - t_prev[e]
        /\ clock[e] - t_prev[e] <= gap + Baseline
    <3>1. clock[e] - t_prev[e] \in Nat
      BY <1>1, <1>5, SMT
    <3> QED
      BY <3>1, StallBound
  <2> HIDE DEF gap
  <2>3. /\ t_prev' \in [Ends -> Nat] /\ samples' \in [Ends -> Nat]
        /\ sampled' \in [Ends -> Nat]
    BY <1>1, <1>3, <2>1, <2>2, SMT
  <2>4. ASSUME NEW x \in Ends PROVE Samples(x)'
    <3>1. CASE x = e
      <4>1. /\ samples'[e] = samples[e] + 1 /\ sampled'[e] = sampled[e] + gap
            /\ warmup_discarded'[e] = warmup_discarded[e]
            /\ measured_from'[e] = measured_from[e]
            /\ syscalls'[e] = syscalls[e] + 1
            /\ t_prev'[e] = clock[e] /\ clock'[e] = clock[e]
        BY <1>1, <1>3, <2>1, SMT
      <4>2. /\ samples[e] * Baseline \in Nat
            /\ (samples[e] + 1) * Baseline = samples[e] * Baseline + Baseline
        BY <1>1, OneMore
      <4>3. /\ samples[e] + warmup_discarded[e] = syscalls[e]
            /\ measured_from[e] > 0 => measured_from[e] < Warmup
            /\ measured_from[e] <= t_prev[e]
            /\ sampled[e] <= t_prev[e] - measured_from[e]
            /\ t_prev[e] - measured_from[e] <= sampled[e] + samples[e] * Baseline
        BY <1>2 DEF Samples
      <4>4. /\ samples'[e] + warmup_discarded'[e] = syscalls'[e]
            /\ measured_from'[e] > 0 => measured_from'[e] < Warmup
            /\ measured_from'[e] <= t_prev'[e]
            /\ t_prev'[e] <= clock'[e]
            /\ samples'[e] = 0 => t_prev'[e] = measured_from'[e]
            /\ samples'[e] > 0 => t_prev'[e] >= Warmup
        BY <1>1, <1>4, <1>5, <1>6, <4>1, <4>3, SMT
      <4>5. sampled'[e] <= t_prev'[e] - measured_from'[e]
        BY <1>1, <2>2, <4>1, <4>3, SMT
      <4>6. t_prev'[e] - measured_from'[e] <= sampled'[e] + samples'[e] * Baseline
        <5> DEFINE cost == samples[e] * Baseline
        <5>1. cost \in Nat /\ samples'[e] * Baseline = cost + Baseline
          BY <4>1, <4>2
        <5>2. t_prev[e] - measured_from[e] <= sampled[e] + cost
          BY <4>3
        <5> HIDE DEF cost
        <5> QED
          BY <1>1, <2>2, <4>1, <5>1, <5>2, SMT
      <4> QED
        BY <3>1, <4>4, <4>5, <4>6 DEF Samples, Warmup
    <3>2. CASE x # e
      <4>1. /\ samples'[x] = samples[x] /\ sampled'[x] = sampled[x]
            /\ warmup_discarded'[x] = warmup_discarded[x]
            /\ measured_from'[x] = measured_from[x]
            /\ syscalls'[x] = syscalls[x]
            /\ t_prev'[x] = t_prev[x] /\ clock'[x] = clock[x]
        BY <1>1, <1>3, <2>1, <3>2, SMT
      <4>2. Samples(x)
        BY <1>2
      <4> QED
        BY <4>1, <4>2, Zenon DEF Samples, Warmup
    <3> QED
      BY <3>1, <3>2
  <2> QED
    BY <1>1, <2>1, <2>3, <2>4, Zenon DEF SamplesInv, Counts
<1>7. CASE ~ (clock[e] >= Warmup)
  <2>1. /\ warmup_discarded' = [warmup_discarded EXCEPT ![e] = @ + 1]
        /\ measured_from' = [measured_from EXCEPT ![e] = clock[e]]
        /\ samples' = samples /\ sampled' = sampled
    BY <1>7 DEF Gap
  <2>2. /\ t_prev' \in [Ends -> Nat] /\ warmup_discarded' \in [Ends -> Nat]
        /\ measured_from' \in [Ends -> Nat]
    BY <1>1, <1>3, <2>1, SMT
  <2>3. ASSUME NEW x \in Ends PROVE Samples(x)'
    <3>1. CASE x = e
      <4>1. /\ samples'[e] = samples[e] /\ sampled'[e] = sampled[e]
            /\ warmup_discarded'[e] = warmup_discarded[e] + 1
            /\ measured_from'[e] = clock[e]
            /\ syscalls'[e] = syscalls[e] + 1
            /\ t_prev'[e] = clock[e] /\ clock'[e] = clock[e]
        BY <1>1, <1>3, <2>1, SMT
      <4>2. samples[e] = 0 /\ sampled[e] = 0
        BY <1>1, <1>2, <1>4, <1>5, <1>7, SMT DEF Samples
      <4>3. samples[e] + warmup_discarded[e] = syscalls[e]
        BY <1>2 DEF Samples
      <4>4. samples'[e] * Baseline = 0
        BY <1>1, <4>1, <4>2, SMT
      <4>5. /\ samples'[e] + warmup_discarded'[e] = syscalls'[e]
            /\ measured_from'[e] > 0 => measured_from'[e] < Warmup
            /\ measured_from'[e] <= t_prev'[e]
            /\ t_prev'[e] <= clock'[e]
            /\ samples'[e] = 0 => t_prev'[e] = measured_from'[e]
            /\ samples'[e] > 0 => t_prev'[e] >= Warmup
            /\ sampled'[e] <= t_prev'[e] - measured_from'[e]
            /\ t_prev'[e] - measured_from'[e] <= sampled'[e] + samples'[e] * Baseline
        BY <1>1, <1>4, <1>7, <4>1, <4>2, <4>3, <4>4, SMT
      <4> QED
        BY <3>1, <4>5 DEF Samples, Warmup
    <3>2. CASE x # e
      <4>1. /\ samples'[x] = samples[x] /\ sampled'[x] = sampled[x]
            /\ warmup_discarded'[x] = warmup_discarded[x]
            /\ measured_from'[x] = measured_from[x]
            /\ syscalls'[x] = syscalls[x]
            /\ t_prev'[x] = t_prev[x] /\ clock'[x] = clock[x]
        BY <1>1, <1>3, <2>1, <3>2, SMT
      <4>2. Samples(x)
        BY <1>2
      <4> QED
        BY <4>1, <4>2, Zenon DEF Samples, Warmup
    <3> QED
      BY <3>1, <3>2
  <2> QED
    BY <1>1, <2>1, <2>2, <2>3, Zenon DEF SamplesInv, Counts
<1> QED
  BY <1>6, <1>7

----------------------------------------------------------------------------
(* The invariant.                                                          *)

LEMMA InitInv == Init => WorkerInv
<1> SUFFICES ASSUME Init PROVE WorkerInv
  OBVIOUS
<1>1. TypeOK
  BY Durations, WorkerAssumption, SMT
  DEF Init, Zero, TypeOK, Counts, WorkerAssumption
<1>2. ReceivedWereSent
  BY SMT DEF Init, Zero, ReceivedWereSent, Ends
<1>3. IntervalsAddUp
  BY SMT DEF Init, Zero, IntervalsAddUp
<1>4. SamplesInv
  <2>1. 0 * Baseline = 0
    BY WorkerAssumption, SMT DEF WorkerAssumption
  <2> QED
    BY <2>1, SMT DEF Init, Zero, SamplesInv, Samples
<1>5. WindowsTile
  BY SMT DEF Init, Zero, WindowsTile
<1> QED
  BY <1>1, <1>2, <1>3, <1>4, <1>5 DEF WorkerInv

\* A task that moves, while nothing is counted and no clock goes on.
LEMMA QuietStep ==
  ASSUME WorkerInv, UNCHANGED <<clock, accounts, wire>>,
         life' \in [Ends -> {"wait", "load", "drain", "ok", "err", "gone"}],
         channel' \in [Ends -> {"quiet", "load", "stop", "dropped"}],
         duration' \in Counts,
         Alive("Receiver")' => Alive("Receiver")
  PROVE  WorkerInv'
<1> USE DEF WorkerInv, accounts, totals, ticking, gaps, windows, wire
<1>1. TypeOK'
  BY Zenon DEF TypeOK
<1>2. ReceivedWereSent'
  BY Zenon DEF ReceivedWereSent
<1>3. IntervalsAddUp'
  BY Zenon DEF IntervalsAddUp, Timeout
<1>4. SamplesInv'
  BY Zenon DEF SamplesInv, Samples, Warmup
<1>5. WindowsTile'
  BY Zenon DEF WindowsTile
<1> QED
  BY <1>1, <1>2, <1>3, <1>4, <1>5

\* The task of e goes on to another state, and takes the time when it does.
LEMMA MovesOn ==
  ASSUME WorkerInv, NEW e \in Ends, Alive(e),
         NEW s \in {"load", "drain", "ok", "err", "gone"},
         life' = [life EXCEPT ![e] = s],
         duration' = duration \/ duration' = [duration EXCEPT ![e] = clock[e]],
         UNCHANGED <<channel, clock, accounts, wire>>
  PROVE  WorkerInv'
<1>1. /\ life \in [Ends -> {"wait", "load", "drain", "ok", "err", "gone"}]
      /\ channel \in [Ends -> {"quiet", "load", "stop", "dropped"}]
      /\ duration \in [Ends -> Nat] /\ clock[e] \in Nat
  BY Durations, WorkerAssumption, SMT DEF WorkerInv, TypeOK, Counts, WorkerAssumption
<1>2. life' \in [Ends -> {"wait", "load", "drain", "ok", "err", "gone"}]
  BY <1>1, SMT
<1>3. duration' \in Counts
  BY <1>1, SMT DEF Counts
<1>4. Alive("Receiver")' => Alive("Receiver")
  BY <1>1, SMT DEF Alive
<1> QED
  BY <1>1, <1>2, <1>3, <1>4, QuietStep

LEMMA PassesInv ==
  ASSUME WorkerInv, NEW e \in Ends, Passes(e)
  PROVE  WorkerInv'
<1> USE DEF accounts, totals, ticking, gaps, windows, wire
<1>1. clock \in [Ends -> 0 .. Timeout + MaxLate]
  BY DEF WorkerInv, TypeOK
<1>2. clock' = [clock EXCEPT ![e] = @ + 1] /\ clock[e] < Timeout + MaxLate
  BY DEF Passes
<1>3. \A x \in Ends : clock'[x] \in 0 .. Timeout + MaxLate /\ clock[x] <= clock'[x]
  BY <1>1, <1>2, Durations, WorkerAssumption, SMT DEF WorkerAssumption
<1>4. TypeOK'
  <2>1. clock' \in [Ends -> 0 .. Timeout + MaxLate]
    BY <1>1, <1>2, Durations, WorkerAssumption, SMT DEF WorkerAssumption
  <2> QED
    BY <2>1, Zenon DEF TypeOK, WorkerInv, Passes, Timeout
<1>5. ReceivedWereSent'
  BY Zenon DEF WorkerInv, Passes, ReceivedWereSent, Alive
<1>6. IntervalsAddUp'
  <2> SUFFICES ASSUME NEW x \in Ends PROVE last_tick[x] <= clock'[x]
    BY Zenon DEF WorkerInv, Passes, IntervalsAddUp, Timeout
  <2>1. last_tick[x] <= clock[x] /\ last_tick[x] \in Nat /\ clock[x] \in Int
    BY <1>1, Durations, WorkerAssumption, SMT
    DEF WorkerInv, IntervalsAddUp, TypeOK, Counts, WorkerAssumption
  <2> QED
    BY <1>3, <2>1, Durations, WorkerAssumption, SMT DEF WorkerAssumption
<1>7. SamplesInv'
  <2> SUFFICES ASSUME Measure, NEW x \in Ends PROVE t_prev[x] <= clock'[x]
    BY Zenon DEF WorkerInv, Passes, SamplesInv, Samples, Warmup
  <2>1. t_prev[x] <= clock[x] /\ t_prev[x] \in Nat /\ clock[x] \in Int
    BY <1>1, Durations, WorkerAssumption, SMT
    DEF WorkerInv, SamplesInv, Samples, TypeOK, Counts, WorkerAssumption
  <2> QED
    BY <1>3, <2>1, Durations, WorkerAssumption, SMT DEF WorkerAssumption
<1>8. WindowsTile'
  BY Zenon DEF WorkerInv, Passes, WindowsTile
<1> QED
  BY <1>4, <1>5, <1>6, <1>7, <1>8 DEF WorkerInv

LEMMA TickInv ==
  ASSUME WorkerInv, NEW e \in Ends, Tick(e)
  PROVE  WorkerInv'
<1> USE DEF totals, gaps, windows, wire
<1>1. /\ reported \in [Ends -> Nat] /\ current_interval \in [Ends -> Nat]
      /\ last_tick \in [Ends -> Nat] /\ bytes_transferred \in [Ends -> Nat]
      /\ \A x \in Ends : clock[x] \in Nat
  BY Durations, WorkerAssumption, SMT DEF WorkerInv, TypeOK, Counts, WorkerAssumption
<1>2. /\ reported' = [reported EXCEPT ![e] = @ + current_interval[e]]
      /\ current_interval' = [current_interval EXCEPT ![e] = 0]
      /\ last_tick' = [last_tick EXCEPT ![e] = NextTick(e)]
      /\ clock' = clock /\ bytes_transferred' = bytes_transferred
  BY DEF Tick
<1>3. /\ NextTick(e) \in Nat /\ NextTick(e) <= clock[e] /\ NextTick(e) < Timeout
  BY <1>1, WorkerAssumption, SMT DEF Tick, NextTick, MayTick, WorkerAssumption
<1>4. /\ reported' \in [Ends -> Nat] /\ current_interval' \in [Ends -> Nat]
      /\ last_tick' \in [Ends -> Nat]
  BY <1>1, <1>2, <1>3, SMT
<1>5. TypeOK'
  BY <1>4, Zenon DEF WorkerInv, TypeOK, Tick, Counts, Timeout
<1>6. ReceivedWereSent'
  BY Zenon DEF WorkerInv, Tick, ReceivedWereSent, Alive
<1>7. IntervalsAddUp'
  <2>1. ASSUME NEW x \in Ends
        PROVE  /\ reported'[x] + current_interval'[x] = bytes_transferred'[x]
               /\ last_tick'[x] <= clock'[x]
               /\ last_tick'[x] > 0 => last_tick'[x] < Timeout
    <3>1. /\ reported[x] + current_interval[x] = bytes_transferred[x]
          /\ last_tick[x] <= clock[x]
          /\ last_tick[x] > 0 => last_tick[x] < Timeout
      BY DEF WorkerInv, IntervalsAddUp
    <3>2. CASE x = e
      BY <1>1, <1>2, <1>3, <3>1, <3>2, SMT
    <3>3. CASE x # e
      BY <1>1, <1>2, <3>1, <3>3, SMT
    <3> QED
      BY <3>2, <3>3
  <2> QED
    BY <2>1, Zenon DEF IntervalsAddUp, Timeout
<1>8. SamplesInv'
  BY Zenon DEF WorkerInv, Tick, SamplesInv, Samples, Warmup
<1>9. WindowsTile'
  BY Zenon DEF WorkerInv, Tick, WindowsTile
<1> QED
  BY <1>5, <1>6, <1>7, <1>8, <1>9 DEF WorkerInv

\* One I/O of n bytes keeps all but the balance of the connection.
LEMMA AccountKeeps ==
  ASSUME WorkerInv, NEW e \in Ends, NEW n \in Nat, Account(e, n),
         UNCHANGED <<life, channel, clock, duration>>,
         in_flight' \in 0 .. Capacity, drained' \in Nat
  PROVE  TypeOK' /\ IntervalsAddUp' /\ SamplesInv' /\ WindowsTile'
<1>1. /\ TypeOK /\ IntervalsAddUp /\ SamplesInv /\ WindowsTile
      /\ Count(e, n) /\ last_tick' = last_tick /\ reported' = reported
      /\ clock' = clock
  BY DEF WorkerInv, Account
<1>2. /\ bytes_transferred' \in Counts /\ syscalls' \in Counts
      /\ current_interval' \in Counts
      /\ IntervalsAddUp'
  BY <1>1, CountKeeps
<1>3. CASE Measure
  <2>1. Window(e, n) /\ Gap(e)
    BY <1>3 DEF Account
  <2>2. t_prev' = [t_prev EXCEPT ![e] = clock[e]]
    BY <2>1 DEF Gap
  <2>3. /\ win_start' \in Counts /\ win_bytes' \in Counts
        /\ tput_time' \in Counts /\ tput_bytes' \in Counts
        /\ WindowsTile'
    BY <1>1, <1>3, <2>1, <2>2, WindowKeeps
  <2>4. /\ t_prev' \in Counts /\ samples' \in Counts /\ sampled' \in Counts
        /\ warmup_discarded' \in Counts /\ measured_from' \in Counts
        /\ SamplesInv'
    BY <1>1, <1>3, <2>1, GapKeeps
  <2>5. TypeOK'
    BY <1>1, <1>2, <2>3, <2>4, Zenon DEF TypeOK, Timeout, Counts
  <2> QED
    BY <1>2, <2>3, <2>4, <2>5
<1>4. CASE ~ Measure
  <2>1. UNCHANGED <<win_start, win_bytes, tput_time, tput_bytes, t_prev, samples,
                    sampled, warmup_discarded, measured_from>>
    BY <1>4, Zenon DEF Account, windows, gaps
  <2>2. TypeOK'
    BY <1>1, <1>2, <2>1, Zenon DEF TypeOK, Timeout, Counts
  <2>3. SamplesInv' /\ WindowsTile'
    BY <1>4 DEF SamplesInv, WindowsTile
  <2> QED
    BY <1>2, <2>2, <2>3
<1> QED
  BY <1>3, <1>4

LEMMA WriteInv ==
  ASSUME WorkerInv, Write
  PROVE  WorkerInv'
<1>1. PICK n \in 1 .. Least(Block, Capacity - in_flight) :
        /\ Account("Sender", n)
        /\ in_flight' = IF Alive("Receiver") THEN in_flight + n ELSE in_flight
  BY DEF Write
<1>2. UNCHANGED <<life, channel, clock, duration, drained>>
  BY DEF Write
<1>3. /\ in_flight \in 0 .. Capacity /\ drained \in Nat
      /\ bytes_transferred \in [Ends -> Nat]
      /\ Capacity \in Nat /\ Block \in Nat
  BY WorkerAssumption, SMT DEF WorkerInv, TypeOK, Counts, WorkerAssumption
<1>4. n \in Nat /\ n <= Capacity - in_flight
  BY <1>1, <1>3, SMT DEF Least
<1>5. in_flight' \in 0 .. Capacity
  BY <1>1, <1>3, <1>4, SMT
<1>6. "Sender" \in Ends /\ "Receiver" \in Ends /\ "Sender" # "Receiver"
  BY DEF Ends
<1>7. TypeOK' /\ IntervalsAddUp' /\ SamplesInv' /\ WindowsTile'
  BY <1>1, <1>2, <1>3, <1>4, <1>5, <1>6, AccountKeeps
<1>8. ReceivedWereSent'
  <2>1. /\ bytes_transferred'["Sender"] = bytes_transferred["Sender"] + n
        /\ bytes_transferred'["Receiver"] = bytes_transferred["Receiver"]
    BY <1>1, <1>3, <1>6, SMT DEF Account, Count
  <2>2. bytes_transferred["Sender"] \in Nat /\ bytes_transferred["Receiver"] \in Nat
    BY <1>3, <1>6
  <2>3. Alive("Receiver")' <=> Alive("Receiver")
    BY <1>2, Zenon DEF Alive
  <2> QED
    BY <1>1, <1>2, <1>3, <1>4, <2>1, <2>2, <2>3, SMT DEF WorkerInv, ReceivedWereSent
<1> QED
  BY <1>7, <1>8 DEF WorkerInv

LEMMA ReadInv ==
  ASSUME WorkerInv, Read
  PROVE  WorkerInv'
<1>1. PICK n \in 1 .. Least(Block, in_flight) :
        Account("Receiver", n) /\ in_flight' = in_flight - n
  BY DEF Read
<1>2. UNCHANGED <<life, channel, clock, duration, drained>>
  BY DEF Read
<1>3. /\ in_flight \in 0 .. Capacity /\ drained \in Nat
      /\ bytes_transferred \in [Ends -> Nat]
      /\ Capacity \in Nat /\ Block \in Nat
  BY WorkerAssumption, SMT DEF WorkerInv, TypeOK, Counts, WorkerAssumption
<1>4. n \in Nat /\ n <= in_flight
  BY <1>1, <1>3, SMT DEF Least
<1>5. in_flight' \in 0 .. Capacity
  BY <1>1, <1>3, <1>4, SMT
<1>6. "Sender" \in Ends /\ "Receiver" \in Ends /\ "Sender" # "Receiver"
  BY DEF Ends
<1>7. TypeOK' /\ IntervalsAddUp' /\ SamplesInv' /\ WindowsTile'
  BY <1>1, <1>2, <1>3, <1>4, <1>5, <1>6, AccountKeeps
<1>8. ReceivedWereSent'
  <2>1. /\ bytes_transferred'["Receiver"] = bytes_transferred["Receiver"] + n
        /\ bytes_transferred'["Sender"] = bytes_transferred["Sender"]
    BY <1>1, <1>3, <1>6, SMT DEF Account, Count
  <2>2. bytes_transferred["Sender"] \in Nat /\ bytes_transferred["Receiver"] \in Nat
    BY <1>3, <1>6
  <2>3. Alive("Receiver")' <=> Alive("Receiver")
    BY <1>2, Zenon DEF Alive
  <2> QED
    BY <1>1, <1>2, <1>3, <1>4, <2>1, <2>2, <2>3, SMT DEF WorkerInv, ReceivedWereSent
<1> QED
  BY <1>7, <1>8 DEF WorkerInv

LEMMA DrainInv ==
  ASSUME WorkerInv, Drain
  PROVE  WorkerInv'
<1>1. PICK n \in 1 .. Least(Block, in_flight) :
        in_flight' = in_flight - n /\ drained' = drained + n
  BY DEF Drain
<1>2. UNCHANGED <<life, channel, clock, duration, accounts>>
  BY DEF Drain
<1> USE DEF accounts, totals, ticking, gaps, windows
<1>3. /\ in_flight \in 0 .. Capacity /\ drained \in Nat
      /\ bytes_transferred \in [Ends -> Nat]
      /\ Capacity \in Nat /\ Block \in Nat
  BY WorkerAssumption, SMT DEF WorkerInv, TypeOK, Counts, WorkerAssumption
<1>4. n \in Nat /\ n <= in_flight
  BY <1>1, <1>3, SMT DEF Least
<1>5. in_flight' \in 0 .. Capacity /\ drained' \in Nat
  BY <1>1, <1>3, <1>4, SMT
<1>6. TypeOK'
  BY <1>2, <1>5, Zenon DEF WorkerInv, TypeOK, Timeout
<1>7. ReceivedWereSent'
  <2>1. bytes_transferred["Sender"] \in Nat /\ bytes_transferred["Receiver"] \in Nat
    BY <1>3, SMT DEF Ends
  <2>2. /\ Alive("Receiver")' <=> Alive("Receiver")
        /\ bytes_transferred'["Sender"] = bytes_transferred["Sender"]
        /\ bytes_transferred'["Receiver"] = bytes_transferred["Receiver"]
    BY <1>2, Zenon DEF Alive
  <2> DEFINE got == bytes_transferred["Receiver"]
             sent == bytes_transferred["Sender"]
  <2>3. got + drained' + in_flight' = got + drained + in_flight
    <3> HIDE DEF got
    <3> QED
      BY <1>1, <1>3, <1>4, <2>1, SMT DEF got
  <2>4. /\ got + drained + in_flight <= sent
        /\ Alive("Receiver") => got + drained + in_flight = sent
    BY DEF WorkerInv, ReceivedWereSent
  <2> QED
    BY <2>2, <2>3, <2>4, Zenon DEF ReceivedWereSent
<1>8. IntervalsAddUp' /\ SamplesInv' /\ WindowsTile'
  BY <1>2, Zenon DEF WorkerInv, IntervalsAddUp, SamplesInv, Samples, WindowsTile, Timeout, Warmup
<1> QED
  BY <1>6, <1>7, <1>8 DEF WorkerInv

LEMMA StepInv == WorkerInv /\ [Next]_vars => WorkerInv'
<1> SUFFICES ASSUME WorkerInv, [Next]_vars PROVE WorkerInv'
  OBVIOUS
<1>1. CASE UNCHANGED vars
  <2>1. UNCHANGED <<life, channel, clock, duration, accounts, wire>>
    BY <1>1 DEF vars
  <2> QED
    BY <2>1, QuietStep, Zenon DEF WorkerInv, TypeOK, Alive
<1>2. ASSUME NEW e \in Ends, Controller(e) PROVE WorkerInv'
  <2>1. UNCHANGED <<life, clock, duration, accounts, wire>>
    BY <1>2 DEF Controller
  <2>2. channel' \in [Ends -> {"quiet", "load", "stop", "dropped"}]
    BY <1>2, SMT DEF WorkerInv, TypeOK, Controller
  <2> QED
    BY <2>1, <2>2, QuietStep, Zenon DEF WorkerInv, TypeOK, Alive
<1>3. ASSUME NEW e \in Ends, Passes(e) PROVE WorkerInv'
  BY <1>3, PassesInv
<1>4. ASSUME NEW e \in Ends, Dies(e) PROVE WorkerInv'
  BY <1>4, MovesOn, Zenon DEF Dies
<1>5. ASSUME NEW e \in Ends, Start(e) PROVE WorkerInv'
  BY <1>5, MovesOn, Zenon DEF Start, Alive
<1>6. ASSUME NEW e \in Ends, life[e] = "load", Break(e) PROVE WorkerInv'
  BY <1>6, MovesOn, Zenon DEF Break, Alive
<1>7. ASSUME NEW e \in Ends, Tick(e) PROVE WorkerInv'
  BY <1>7, TickInv
<1>8. ASSUME NEW e \in Ends, Fails(e) PROVE WorkerInv'
  <2>1. Alive(e)
    BY <1>8, Zenon DEF Fails, InLoop, Alive
  <2> QED
    BY <1>8, <2>1, MovesOn, Zenon DEF Fails
<1>9. CASE Write
  BY <1>9, WriteInv
<1>10. CASE Read
  BY <1>10, ReadInv
<1>11. CASE EndOfData
  <2>1. "Receiver" \in Ends /\ life["Receiver"] = "load" /\ Break("Receiver")
    BY <1>11 DEF EndOfData, InLoop, Ends
  <2> QED
    BY <1>6, <2>1
<1>12. CASE Drain
  BY <1>12, DrainInv
<1>13. CASE Drained
  <2>1. "Receiver" \in Ends /\ Alive("Receiver")
    BY <1>13 DEF Drained, Alive, Ends
  <2> QED
    BY <1>13, <2>1, MovesOn, Zenon DEF Drained
<1>14. CASE Ended
  BY <1>1, <1>14 DEF Ended
<1> QED
  BY <1>1, <1>2, <1>3, <1>4, <1>5, <1>6, <1>7, <1>8, <1>9, <1>10, <1>11, <1>12, <1>13,
     <1>14, Zenon DEF Next, Deadline, Terminated

----------------------------------------------------------------------------
(* The theorems.                                                           *)

\* run_worker keeps its counters what their types say: the saturating
\* subtraction and the accounting make no count negative.
THEOREM TypeOKHolds == Spec => []TypeOK
<1>1. WorkerInv => TypeOK
  BY DEF WorkerInv
<1> QED
  BY <1>1, InitInv, StepInv, PTL DEF Spec

\* A receiver reports only bytes that its sender reports, whatever was drained,
\* is in flight, or was lost with a process.
THEOREM ReceivedWereSentHolds == Spec => []ReceivedWereSent
<1>1. WorkerInv => ReceivedWereSent
  BY DEF WorkerInv
<1> QED
  BY <1>1, InitInv, StepInv, PTL DEF Spec

\* The interval lines add up to the total but for the open interval.
THEOREM IntervalsAddUpHolds == Spec => []IntervalsAddUp
<1>1. WorkerInv => IntervalsAddUp
  BY DEF WorkerInv
<1> QED
  BY <1>1, InitInv, StepInv, PTL DEF Spec

\* The samples of run_worker cover the time after the warm-up without a hole.
THEOREM SamplesTileHolds == Spec => []SamplesTile
<1>1. WorkerInv => SamplesTile
  BY Zenon DEF WorkerInv, SamplesInv, Samples, SamplesTile
<1> QED
  BY <1>1, InitInv, StepInv, PTL DEF Spec

\* The goodput windows of run_worker cover every byte, end to end.
THEOREM WindowsTileHolds == Spec => []WindowsTile
<1>1. WorkerInv => WindowsTile
  BY DEF WorkerInv
<1> QED
  BY <1>1, InitInv, StepInv, PTL DEF Spec

\* The two tasks implement the life of a stream that Session relies on.
THEOREM StreamImplemented == Spec => ImplementsStream
<1> DEFINE L == Stream!LifeNext
<1>1. Init => Stream!LifeInit
  BY Zenon DEF Init, Stream!LifeInit, Ends
<1>2. WorkerInv /\ [Next]_vars => [L]_life
  <2> SUFFICES ASSUME WorkerInv, [Next]_vars PROVE L \/ UNCHANGED life
    OBVIOUS
  <2>1. CASE UNCHANGED life
    BY <2>1
  <2>2. ASSUME NEW e \in Ends, Dies(e) PROVE L
    <3>1. Stream!Dies(e)
      BY <2>2, Zenon DEF Dies, Alive, Stream!Dies, Stream!Becomes, Stream!Tasks
    <3> QED
      BY <3>1, Zenon DEF Stream!LifeNext, Ends
  <2>3. ASSUME NEW e \in Ends, Start(e) PROVE L
    <3>1. Stream!StartLoad(e) \/ Stream!Bail(e)
      BY <2>3, Zenon DEF Start, Stream!StartLoad, Stream!Bail, Stream!Becomes
    <3> QED
      BY <3>1, Zenon DEF Stream!LifeNext, Ends
  <2>4. ASSUME NEW e \in Ends, life[e] = "load", Break(e) PROVE L
    <3>1. Stream!SenderStops \/ Stream!ReceiverStops
      BY <2>4, Zenon DEF Break, Stream!SenderStops, Stream!ReceiverStops, Stream!Becomes, Ends
    <3> QED
      BY <3>1, Zenon DEF Stream!LifeNext
  <2>5. CASE EndOfData
    <3>1. "Receiver" \in Ends /\ life["Receiver"] = "load" /\ Break("Receiver")
      BY <2>5 DEF EndOfData, InLoop, Ends
    <3> QED
      BY <2>4, <3>1
  <2>6. \A e \in Ends : ~ Alive(e) => life[e] \in {"ok", "err", "gone"}
    BY Zenon DEF WorkerInv, TypeOK, Alive
  <2>7. CASE Drained
    <3>1. Stream!ReceiverDrained
      BY <2>6, <2>7, Zenon
      DEF Drained, Stream!ReceiverDrained, Stream!LetGo, Stream!Becomes, Ends
    <3> QED
      BY <3>1, Zenon DEF Stream!LifeNext
  <2>8. ASSUME NEW e \in Ends, Fails(e) PROVE L
    <3>1. life[e] \in {"load", "drain"} /\ life' = [life EXCEPT ![e] = "err"]
      BY <2>8, Zenon DEF Fails, InLoop
    <3>2. Stream!LetGo(Stream!Other(e))
      BY <2>6, <2>8, SMT DEF Fails, Stream!LetGo, Stream!Other, Ends
    <3>3. Stream!Fails(e)
      BY <3>1, <3>2, Zenon DEF Stream!Fails, Stream!Becomes
    <3> QED
      BY <3>3, Zenon DEF Stream!LifeNext, Ends
  <2>9. ASSUME NEW e \in Ends, Controller(e) \/ Passes(e) \/ Tick(e) PROVE UNCHANGED life
    BY <2>9, Zenon DEF Controller, Passes, Tick
  <2>10. Write \/ Read \/ Drain \/ Ended \/ UNCHANGED vars => UNCHANGED life
    BY Zenon DEF Write, Read, Drain, Ended, vars
  <2> QED
    BY <2>2, <2>3, <2>4, <2>5, <2>7, <2>8, <2>9, <2>10, Zenon DEF Next, Deadline, Terminated
<1> QED
  BY <1>1, <1>2, InitInv, StepInv, PTL DEF Spec, ImplementsStream, Stream!StreamSpec

=============================================================================
