------------------------------ MODULE Watchdog ------------------------------
(***************************************************************************)
(* The agent's event loop under systemd's watchdog: the goroutine of       *)
(* StartWatchdog (system/systemd_notify.go), which pings systemd only      *)
(* while the loop reports progress, and the loops of runPassive and        *)
(* runArmed (app/runtime.go, app/armed.go) with every operation they wait  *)
(* for, its time limit, and whether it reports progress.                   *)
(*                                                                         *)
(* Time is discrete.  A process that can take a step takes it before time  *)
(* passes; an operation ends at any moment up to its limit.                *)
(***************************************************************************)
EXTENDS Integers

CONSTANTS
  Interval,         \* WatchdogSec of the unit (30 s)
  MaxSilence,       \* the argument of StartWatchdog (20 s)
  PowerInterval,    \* the power ticker, and the liveness ticker when passive
  NUTTimeout,       \* limit of a NUT query and of an FSD request
  ProbeTimeout,     \* limit of one status probe
  ProbeInterval,    \* pause between two probes of one wait
  CommandTimeout,   \* limit of one ssh command
  ProgressInterval, \* between two reports while a command runs
  RestartSec

ASSUME WatchdogAssumption ==
  /\ Interval \in Nat \ {0} /\ MaxSilence \in Nat
  /\ PowerInterval \in Nat \ {0} /\ NUTTimeout \in Nat /\ ProbeTimeout \in Nat
  /\ ProbeInterval \in Nat /\ CommandTimeout \in Nat
  /\ ProgressInterval \in Nat \ {0} /\ RestartSec \in Nat

\* "Keep the liveness threshold inside the configured systemd watchdog window".
Silence ==
  IF MaxSilence <= 0 \/ MaxSilence >= Interval THEN (Interval * 3) \div 4
  ELSE MaxSilence

PingPeriod == Interval \div 2

ASSUME PingAssumption == PingPeriod > 0

Max(a, b) == IF a > b THEN a ELSE b

\* The longest the armed loop is silent between two reports: the wait for the
\* ticker, a health run, the UPS query and one operation more; or a pause or
\* the last of a command, an FSD request and a probe, fit in the silence
\* allowed.  The configuration's validation does not ask for it.
ProgressFits ==
  /\ PowerInterval + 2 * NUTTimeout + Max(NUTTimeout, ProbeTimeout) <= Silence
  /\ Max(ProbeInterval, ProgressInterval) + NUTTimeout + ProbeTimeout <= Silence

VARIABLES
  mode,     \* "armed" or "passive", fixed for the process
  loop,     \* what the loop waits for, and the time left to its limit
  done,     \* since the last tick began: a health run, a probe, an FSD request
  power,    \* time to the next tick of the ticker; 0: a tick is buffered
  beat,     \* the progress channel of capacity 1 is full
  feeder,   \* the watchdog goroutine: running, time to its ticker, silence
  unfed,    \* systemd: time since the last WATCHDOG=1
  mute      \* history: time since the loop last reported progress

vars == <<mode, loop, done, power, beat, feeder, unfed, mute>>

At(stage, limit) == loop' = [at |-> stage, left |-> limit]

Operations == {"health", "query", "probe", "pause", "command", "fsd"}

-----------------------------------------------------------------------------
(* The loop.  nonBlockingBeat fills the channel, or finds it full. *)

Beat == beat' = TRUE /\ mute' = 0

Silent == UNCHANGED <<beat, mute>>

systemd == <<feeder, unfed>>

\* select picks the health ticker; in passive mode the run is reported.
HealthBegin ==
  /\ loop.at = "wait" /\ "health" \notin done
  /\ At("health", NUTTimeout) /\ Silent
  /\ done' = done \cup {"health"}
  /\ UNCHANGED <<mode, power, systemd>>

HealthEnd ==
  /\ loop.at = "health"
  /\ At("wait", 0)
  /\ IF mode = "passive" THEN Beat ELSE Silent
  /\ UNCHANGED <<mode, done, power, systemd>>

\* The next tick is at most one interval away, or already buffered.
NextTick == power' \in 0 .. PowerInterval

\* runPassive's liveness ticker.
PassiveTick ==
  /\ mode = "passive" /\ loop.at = "wait" /\ power = 0
  /\ Beat /\ NextTick /\ done' = {}
  /\ UNCHANGED <<mode, loop, systemd>>

\* armedPowerTick begins with the UPS query.
TickBegin ==
  /\ mode = "armed" /\ loop.at = "wait" /\ power = 0
  /\ At("query", NUTTimeout) /\ Silent
  /\ NextTick /\ done' = {}
  /\ UNCHANGED <<mode, systemd>>

QueryEnd ==
  /\ loop.at = "query"
  /\ At("work", 0) /\ Silent
  /\ UNCHANGED <<mode, done, power, systemd>>

\* Dependencies, snapshots, verification and recovery all probe.  What is
\* verified after an FSD request, prepareNUTGroup has probed before it.
ProbeBegin ==
  /\ loop.at = "work" /\ ("fsd" \in done => "probe" \in done)
  /\ At("probe", ProbeTimeout) /\ Silent
  /\ UNCHANGED <<mode, done, power, systemd>>

\* Name_bug, here and below: Name with a plausible error, used by no module.
ProbeEnd_silent ==
  /\ loop.at = "probe"
  /\ Silent
  /\ At("work", 0) \/ At("pause", ProbeInterval)
  /\ done' = done \cup {"probe"}
  /\ UNCHANGED <<mode, power, systemd>>

\* Check reports progress when it returns; WaitForConsecutive then pauses.
ProbeEnd ==
  /\ loop.at = "probe"
  /\ Beat
  /\ At("work", 0) \/ At("pause", ProbeInterval)
  /\ done' = done \cup {"probe"}
  /\ UNCHANGED <<mode, power, systemd>>

\* The pause runs its whole length and the next probe follows, or the wait's
\* own limit cuts it short.
PauseEnd ==
  /\ loop.at = "pause"
  /\ \/ loop.left = 0 /\ At("probe", ProbeTimeout)
     \/ At("work", 0)
  /\ Silent
  /\ UNCHANGED <<mode, done, power, systemd>>

\* runWithProgress reports when the command starts, every ProgressInterval and
\* when it returns, but not when it is cut off at its limit.
CommandBegin ==
  /\ loop.at = "work" /\ "fsd" \notin done
  /\ At("command", CommandTimeout) /\ Beat
  /\ UNCHANGED <<mode, done, power, systemd>>

ProgressDue == loop.at = "command" /\ mute >= ProgressInterval

CommandProgress ==
  /\ ProgressDue
  /\ Beat
  /\ UNCHANGED <<mode, loop, done, power, systemd>>

CommandEnd ==
  /\ loop.at = "command"
  /\ At("work", 0)
  /\ \/ Beat
     \/ loop.left = 0 /\ Silent
  /\ UNCHANGED <<mode, done, power, systemd>>

\* The request for the NUT group or for the controller, one per tick.
FSDBegin ==
  /\ loop.at = "work" /\ "fsd" \notin done
  /\ At("fsd", NUTTimeout) /\ Silent
  /\ done' = done \cup {"fsd"}
  /\ UNCHANGED <<mode, power, systemd>>

FSDEnd ==
  /\ loop.at = "fsd"
  /\ At("work", 0) /\ Silent
  /\ UNCHANGED <<mode, done, power, systemd>>

TickEnd ==
  /\ loop.at = "work"
  /\ At("wait", 0) /\ Beat
  /\ UNCHANGED <<mode, done, power, systemd>>

\* A write that never returns, a deadlock: the loop is stuck for good.
Stall ==
  /\ loop.at \in Operations \cup {"work"}
  /\ At("stalled", 0) /\ Silent
  /\ UNCHANGED <<mode, done, power, systemd>>

\* The goroutine's error reaches the loop, which returns it.
LoopReturns ==
  /\ loop.at = "wait" /\ feeder.failed
  /\ At("dead", RestartSec)
  /\ UNCHANGED <<mode, done, power, beat, mute, systemd>>

-----------------------------------------------------------------------------
(* The goroutine of StartWatchdog *)

Feeding == loop.at # "dead" /\ ~feeder.failed

ReceiveBeat ==
  /\ Feeding /\ beat
  /\ beat' = FALSE
  /\ feeder' = [feeder EXCEPT !.silence = 0]
  /\ UNCHANGED <<mode, loop, done, power, unfed, mute>>

TickerFires_pings ==
  /\ Feeding /\ feeder.ticker = 0
  /\ unfed' = 0
  /\ feeder' = [feeder EXCEPT !.ticker = PingPeriod]
  /\ UNCHANGED <<mode, loop, done, power, beat, mute>>

\* A buffered beat and the ticker are both ready: select takes either.
TickerFires ==
  /\ Feeding /\ feeder.ticker = 0
  /\ unfed' = IF feeder.silence > Silence THEN unfed ELSE 0
  /\ feeder' = [feeder EXCEPT !.ticker = PingPeriod]
  /\ UNCHANGED <<mode, loop, done, power, beat, mute>>

\* The notification socket fails: the goroutine reports it and ends.
NotifyFails ==
  /\ Feeding /\ feeder.ticker = 0 /\ feeder.silence <= Silence
  /\ feeder' = [feeder EXCEPT !.failed = TRUE]
  /\ UNCHANGED <<mode, loop, done, power, beat, unfed, mute>>

-----------------------------------------------------------------------------
(* systemd *)

WatchdogExpires == loop.at # "dead" /\ unfed >= Interval

SystemdKills ==
  /\ WatchdogExpires
  /\ At("dead", RestartSec)
  /\ UNCHANGED <<mode, done, power, beat, mute, systemd>>

\* READY=1, StartWatchdog, the first beat, and the loop.
NewLoop == [at |-> "wait", left |-> 0]
NewFeeder == [ticker |-> PingPeriod, silence |-> 0, failed |-> FALSE]

SystemdRestarts_startLimitHit ==
  loop.at = "dead" /\ loop.left = 0 /\ UNCHANGED vars

\* Restart=always, without a start limit.
SystemdRestarts ==
  /\ loop.at = "dead" /\ loop.left = 0
  /\ loop' = NewLoop /\ feeder' = NewFeeder /\ unfed' = 0
  /\ done' = {} /\ power' = PowerInterval
  /\ Beat
  /\ UNCHANGED mode

\* Someone is ready to run at this instant.
Urgent ==
  \/ loop.at = "work"
  \/ loop.at = "wait" /\ (power = 0 \/ feeder.failed)
  \/ loop.at \in Operations /\ loop.left = 0
  \/ loop.at = "dead" /\ loop.left = 0
  \/ ProgressDue
  \/ Feeding /\ (beat \/ feeder.ticker = 0)
  \/ WatchdogExpires

Elapse(t) == IF t > 0 THEN t - 1 ELSE 0

TimePasses ==
  /\ ~Urgent
  /\ loop' = [loop EXCEPT !.left = Elapse(@)]
  /\ power' = Elapse(power)
  /\ IF loop.at = "dead" THEN UNCHANGED <<feeder, unfed, mute>>
     ELSE /\ feeder' = [feeder EXCEPT !.ticker = Elapse(@),
                                      !.silence = IF @ > Silence THEN @ ELSE @ + 1]
          /\ unfed' = unfed + 1
          /\ mute' = mute + 1
  /\ UNCHANGED <<mode, done, beat>>

-----------------------------------------------------------------------------
Init ==
  /\ mode \in {"armed", "passive"}
  /\ loop = NewLoop /\ feeder = NewFeeder /\ unfed = 0
  /\ done = {} /\ power = PowerInterval
  /\ beat = TRUE /\ mute = 0

LoopStep ==
  \/ HealthBegin \/ HealthEnd \/ PassiveTick \/ TickBegin \/ QueryEnd
  \/ ProbeBegin \/ ProbeEnd \/ PauseEnd \/ CommandBegin \/ CommandProgress
  \/ CommandEnd \/ FSDBegin \/ FSDEnd \/ TickEnd

Next ==
  \/ LoopStep \/ Stall \/ LoopReturns
  \/ ReceiveBeat \/ TickerFires \/ NotifyFails
  \/ SystemdKills \/ SystemdRestarts \/ TimePasses

Spec == Init /\ [][Next]_vars

\* The goroutine, systemd and the clock go on; nothing is asked of the loop.
FairSpec ==
  /\ Spec
  /\ WF_vars(TimePasses) /\ WF_vars(ReceiveBeat) /\ WF_vars(TickerFires)
  /\ WF_vars(SystemdKills) /\ WF_vars(SystemdRestarts)

-----------------------------------------------------------------------------
(* Properties *)

\* A loop that works is not killed if the time limits fit in the silence
\* allowed: whatever its operations take within their limits, and in whatever
\* order it, the goroutine and systemd run, the watchdog expires only on a
\* stalled loop or a broken notification socket.
WorkingLoopIsNotKilled ==
  [][ProgressFits /\ loop.at # "dead" /\ loop'.at = "dead" =>
       loop.at = "stalled" \/ feeder.failed]_vars

\* systemd_notify.go: "If progress stops for maxSilence, watchdog pings stop as
\* well": no process outlives its last report of progress by more than the
\* silence allowed and one watchdog interval.
StalledLoopIsBounded ==
  loop.at # "dead" => mute <= Silence + Interval

\* A stalled process is replaced by one that runs.
StalledLoopIsReplaced == loop.at = "stalled" ~> loop.at = "wait"
=============================================================================
