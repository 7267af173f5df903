---------------------------- MODULE PolicyEngine ----------------------------
(***************************************************************************)
(* The power-policy engine of the agent (internal/policy): the state       *)
(* machine of engine.go, the durable writes coordinator.go couples it to,  *)
(* and the calls through which the orchestrator and process start-up       *)
(* (controller.go, armed.go) change the same durable state.                *)
(*                                                                         *)
(* Time.  The engine compares time.Now() with time stamps it remembers.    *)
(* Only differences matter, so `since' keeps the AGE of each time stamp    *)
(* and a tick first ages all of them by the time since the previous tick.  *)
(* Ages saturate at MaxAge, which is at least every threshold.             *)
(*                                                                         *)
(* Durability.  `disk' is the generation Store.Load would return.  A store *)
(* write that fails makes runArmed return, so it is a Restart before or    *)
(* after the write; the engine never runs on with a failed write.          *)
(***************************************************************************)
EXTENDS Integers

CONSTANTS
  GracePeriod, MaxOnBattery, CriticalCharge, CriticalRuntime,
  CommunicationLossGrace, RecoveryEnabled, UtilityStable,
  RecoveryChargeMin, RecoveryRuntimeMin, RecoveryRechargeTime,
  RecoveryNetworkWait,
  CheckpointInterval,  \* outageCheckpointInterval
  MaxAge,              \* bound: ages and elapsed time saturate here
  Delays,              \* possible times between two ticks
  Samples              \* possible inputs of a tick

Absent == -1           \* a nil *float64 / *int64
Unset == -1            \* a zero time.Time
Confirmations == 2     \* preCommitOnlineConfirmations

Inputs ==
  [utility : {"online", "on_battery", "unknown"},
   lowBattery : BOOLEAN, fsd : BOOLEAN,
   charge : Int, runtime : Int,
   networkReady : BOOLEAN, healthSafe : BOOLEAN]

Thresholds == 0 .. MaxAge

ASSUME MaxAgeAssumption == MaxAge \in Nat \ {0}
ASSUME ThresholdAssumption ==
  /\ {GracePeriod, MaxOnBattery, CommunicationLossGrace, RecoveryRechargeTime,
      RecoveryNetworkWait} \subseteq Thresholds
  /\ UtilityStable \in 1 .. MaxAge /\ CheckpointInterval \in 1 .. MaxAge
  /\ {CriticalCharge, CriticalRuntime, RecoveryChargeMin, RecoveryRuntimeMin}
       \subseteq Int
  /\ RecoveryEnabled \in BOOLEAN
ASSUME EnvironmentAssumption ==
  /\ Delays \subseteq Nat \ {0}
  /\ Samples \subseteq Inputs

PowerStates ==
  {"BOOT_RECONCILE", "NORMAL", "ON_BATTERY", "SHUTDOWN_COMMITTED",
   "SHUTDOWN_IN_PROGRESS", "WAITING_FOR_AC", "RECOVERY_WAIT",
   "RECOVERY_STARTED", "RESTORE_HOSTS", "FAILED_SAFE"}

Timers ==
  {"onBatterySince", "onlineSince", "unknownSince", "networkWaitSince",
   "lastOutageCheckpoint"}

State ==
  [power : PowerStates, committed : BOOLEAN, recovery : BOOLEAN,
   elapsed : Thresholds]

VARIABLES
  st,                   \* Engine.st: the state in memory
  disk,                 \* the durable generation
  since,                \* ages of the engine's time stamps
  onlineConfirmations,
  owed,                 \* what Controller.Tick must still do with the decision
  in                    \* the inputs of the latest tick

vars == <<st, disk, since, onlineConfirmations, owed, in>>

-----------------------------------------------------------------------------
(* Helpers.  A definition Name_bug, here and below, is Name with a plausible *)
(* programming error; it is used by no specification.  A property is known  *)
(* to bite because it fails when Name is given the body of Name_bug.        *)

AgedBy(d) ==
  [t \in Timers |->
     IF since[t] = Unset THEN Unset
     ELSE IF since[t] + d > MaxAge THEN MaxAge ELSE since[t] + d]

AllUnset == [t \in Timers |-> Unset]

StartIfUnset(T, t) == [T EXCEPT ![t] = IF @ = Unset THEN 0 ELSE @]

StartStability_restarts(T) == [T EXCEPT !["onlineSince"] = 0]

StartStability(T) == StartIfUnset(T, "onlineSince")

ClearGateTimers_keepsOnline(T) == [T EXCEPT !["networkWaitSince"] = Unset]

ClearGateTimers(T) ==
  [T EXCEPT !["onlineSince"] = Unset, !["networkWaitSince"] = Unset]

NewState ==
  [power |-> "BOOT_RECONCILE", committed |-> FALSE, recovery |-> FALSE,
   elapsed |-> 0]

\* Engine.resumeState: while the engine is in BOOT_RECONCILE nothing has been
\* written since New, so the state it resumes from is the durable one.
resumeState == disk.power

unsafeUPS(s) == s.utility # "online" \/ s.lowBattery \/ s.fsd

rechargeGate(s, stableFor) ==
  LET byTime == RecoveryRechargeTime > 0 /\ stableFor >= RecoveryRechargeTime
      byRuntime == IF RecoveryRuntimeMin > 0 /\ s.runtime # Absent
                   THEN s.runtime >= RecoveryRuntimeMin
                   ELSE byTime
  IN  IF RecoveryChargeMin # Absent /\ s.charge # Absent
      THEN s.charge >= RecoveryChargeMin
      ELSE byRuntime

recordOutageElapsed(e) == IF e > st.elapsed THEN e ELSE st.elapsed

CriticalTrigger_noMaximum(s, elapsed) ==
  \/ CriticalRuntime > 0 /\ s.runtime # Absent /\ s.runtime <= CriticalRuntime
  \/ CriticalCharge # Absent /\ s.charge # Absent /\ s.charge <= CriticalCharge

CriticalTrigger(s, elapsed) ==
  \/ CriticalRuntime > 0 /\ s.runtime # Absent /\ s.runtime <= CriticalRuntime
  \/ CriticalCharge # Absent /\ s.charge # Absent /\ s.charge <= CriticalCharge
  \/ MaxOnBattery > 0 /\ elapsed >= MaxOnBattery

\* Coordinator.Step with Decision.Changed: the new state is durable before the
\* decision, and with it the orchestrator's duty o, is returned.
Persist(next, T, n, o) ==
  /\ st' = next
  /\ disk' = next
  /\ since' = T
  /\ onlineConfirmations' = n
  /\ owed' = o

\* A decision without Changed: only the engine's volatile fields move.
Hold(T, n) ==
  /\ since' = T
  /\ onlineConfirmations' = n
  /\ owed' = "none"
  /\ UNCHANGED <<st, disk>>

commitShutdown(T, n, elapsed) ==
  Persist([st EXCEPT !.committed = TRUE, !.power = "SHUTDOWN_COMMITTED",
                     !.elapsed = elapsed], T, n, "begin")

failSafe(T) ==
  Persist([st EXCEPT !.power = "FAILED_SAFE"], T, onlineConfirmations, "none")

checkpointOutage_late(T, elapsed) ==
  LET next == [st EXCEPT !.elapsed = recordOutageElapsed(elapsed)]
      now == [T EXCEPT !["lastOutageCheckpoint"] = 0]
  IN  IF T["lastOutageCheckpoint"] > CheckpointInterval
      THEN Persist(next, now, 0, "none") ELSE Hold(T, 0)

checkpointOutage(T, elapsed) ==
  LET next == [st EXCEPT !.elapsed = recordOutageElapsed(elapsed)]
      now == [T EXCEPT !["lastOutageCheckpoint"] = 0]
  IN  IF T["lastOutageCheckpoint"] = Unset
      THEN Hold(now, 0)
      ELSE IF T["lastOutageCheckpoint"] < CheckpointInterval
      THEN Hold(T, 0)
      ELSE IF next # st THEN Persist(next, now, 0, "none") ELSE Hold(now, 0)

-----------------------------------------------------------------------------
(* Engine.Step: one action per power state.  T holds the ages at `now'. *)

StepFailedSafe(T, s) ==
  /\ st.power = "FAILED_SAFE"
  /\ Hold(T, onlineConfirmations)

\* An observed forced shutdown commits from every state but FAILED_SAFE and
\* BOOT_RECONCILE, ahead of the handler of the state.
FSDObserved(s) == s.fsd /\ ~st.committed

StepFSD(T, s) ==
  /\ st.power \notin {"FAILED_SAFE", "BOOT_RECONCILE"}
  /\ FSDObserved(s)
  /\ commitShutdown(T, onlineConfirmations, st.elapsed)

StepNormal(T, s) ==
  /\ st.power = "NORMAL"
  /\ IF s.utility = "on_battery"
     THEN Persist([st EXCEPT !.power = "ON_BATTERY", !.elapsed = 0],
                  [T EXCEPT !["onBatterySince"] = 0,
                            !["lastOutageCheckpoint"] = 0,
                            !["unknownSince"] = Unset],
                  0, "fresh")
     ELSE Hold(T, onlineConfirmations)

OnBatteryOnline_unknownSinceKept(T, s) ==
  /\ s.utility = "online"
  /\ IF st.committed \/ onlineConfirmations + 1 < Confirmations
     THEN Hold(T, onlineConfirmations + 1)
     ELSE Persist([st EXCEPT !.power = "NORMAL", !.elapsed = 0], AllUnset,
                  0, "none")

\* stepOnBattery, utility back before the commit: two consecutive samples.
OnBatteryOnline(T, s) ==
  /\ s.utility = "online"
  /\ LET T1 == [T EXCEPT !["unknownSince"] = Unset] IN
     IF st.committed
     THEN Hold(T1, 0)
     ELSE IF onlineConfirmations + 1 < Confirmations
     THEN Hold(T1, onlineConfirmations + 1)
     ELSE Persist([st EXCEPT !.power = "NORMAL", !.elapsed = 0],
                  [T1 EXCEPT !["onBatterySince"] = Unset,
                             !["lastOutageCheckpoint"] = Unset],
                  0, "none")

OnBatteryLow(T, s) ==
  /\ s.lowBattery /\ s.utility # "online"
  /\ commitShutdown(T, 0, st.elapsed)

OnBatteryUnknown_confirmationsKept(T, s) ==
  /\ s.utility = "unknown" /\ ~s.lowBattery
  /\ Hold(StartIfUnset(T, "unknownSince"), onlineConfirmations)

OnBatteryUnknown_late(T, s) ==
  /\ s.utility = "unknown" /\ ~s.lowBattery
  /\ LET T1 == StartIfUnset(T, "unknownSince") IN
     IF T1["unknownSince"] > CommunicationLossGrace
     THEN commitShutdown(T1, 0, st.elapsed)
     ELSE Hold(T1, 0)

OnBatteryUnknown(T, s) ==
  /\ s.utility = "unknown" /\ ~s.lowBattery
  /\ LET T1 == StartIfUnset(T, "unknownSince") IN
     IF /\ CommunicationLossGrace > 0
        /\ T1["unknownSince"] >= CommunicationLossGrace
     THEN commitShutdown(T1, 0, st.elapsed)
     ELSE Hold(T1, 0)

OnBatteryMonitor_noGrace(T, s) ==
  /\ s.utility = "on_battery" /\ ~s.lowBattery
  /\ IF CriticalTrigger(s, T["onBatterySince"])
     THEN commitShutdown(T, 0, st.elapsed)
     ELSE checkpointOutage(T, T["onBatterySince"])

OnBatteryMonitor(T, s) ==
  /\ s.utility = "on_battery" /\ ~s.lowBattery
  /\ LET T1 == [T EXCEPT !["unknownSince"] = Unset]
         T2 == IF T1["onBatterySince"] = Unset
               THEN [T1 EXCEPT !["onBatterySince"] = 0,
                               !["lastOutageCheckpoint"] = 0]
               ELSE T1
         elapsed == T2["onBatterySince"]
     IN  IF elapsed >= GracePeriod /\ CriticalTrigger(s, elapsed)
         THEN commitShutdown(T2, 0, recordOutageElapsed(elapsed))
         ELSE checkpointOutage(T2, elapsed)

StepOnBattery(T, s) ==
  /\ st.power = "ON_BATTERY"
  /\ \/ OnBatteryOnline(T, s)
     \/ OnBatteryLow(T, s)
     \/ OnBatteryUnknown(T, s)
     \/ OnBatteryMonitor(T, s)

StepShutdownInProgress(T, s) ==
  /\ st.power = "SHUTDOWN_IN_PROGRESS"
  /\ Hold(T, onlineConfirmations)

StepWaitingForAC(T, s) ==
  /\ st.power = "WAITING_FOR_AC"
  /\ IF s.utility = "online" /\ RecoveryEnabled
     THEN Persist([st EXCEPT !.power = "RECOVERY_WAIT"],
                  [T EXCEPT !["onlineSince"] = 0, !["networkWaitSince"] = Unset],
                  onlineConfirmations, "none")
     ELSE Hold(T, onlineConfirmations)

\* stepRecoveryWait, the gates in the order the code tries them.
StepRecoveryWait(T, s) ==
  /\ st.power = "RECOVERY_WAIT"
  /\ LET waiting == ClearGateTimers(T)
         T1 == StartStability(T)
         calm == [T1 EXCEPT !["networkWaitSince"] = Unset]
         T2 == StartIfUnset(T1, "networkWaitSince")
         stableFor == T1["onlineSince"]
         unsafe == s.utility = "on_battery" \/ s.lowBattery \/ s.fsd
     IN  \/ /\ ~RecoveryEnabled \/ unsafe
            /\ Persist([st EXCEPT !.power = "WAITING_FOR_AC"], waiting,
                       onlineConfirmations, "none")
         \/ /\ RecoveryEnabled /\ ~unsafe /\ s.utility = "unknown"
            /\ Hold(waiting, onlineConfirmations)
         \/ /\ RecoveryEnabled /\ ~unsafeUPS(s)
            /\ stableFor < UtilityStable \/ ~rechargeGate(s, stableFor)
            /\ Hold(calm, onlineConfirmations)
         \/ /\ RecoveryEnabled /\ ~unsafeUPS(s)
            /\ stableFor >= UtilityStable /\ rechargeGate(s, stableFor)
            /\ ~s.networkReady
            /\ IF /\ RecoveryNetworkWait > 0
                  /\ T2["networkWaitSince"] >= RecoveryNetworkWait
               THEN failSafe(T2)
               ELSE Hold(T2, onlineConfirmations)
         \/ /\ RecoveryEnabled /\ ~unsafeUPS(s)
            /\ stableFor >= UtilityStable /\ rechargeGate(s, stableFor)
            /\ s.networkReady
            /\ IF s.healthSafe
               THEN Persist([st EXCEPT !.power = "RECOVERY_STARTED",
                                       !.recovery = TRUE],
                            calm, onlineConfirmations, "none")
               ELSE Hold(calm, onlineConfirmations)

\* The checks RECOVERY_STARTED and RESTORE_HOSTS share: power unsafe again (a
\* new outage), recovery switched off, control stack unhealthy.
RecoveryStops(T, s) ==
  \/ /\ ~RecoveryEnabled \/ unsafeUPS(s)
     /\ IF RecoveryEnabled
        THEN Persist([st EXCEPT !.recovery = FALSE, !.power = "ON_BATTERY"],
                     ClearGateTimers(T), onlineConfirmations, "fresh")
        ELSE Persist([st EXCEPT !.recovery = FALSE,
                                !.power = "WAITING_FOR_AC"], T,
                     onlineConfirmations, "none")
  \/ /\ RecoveryEnabled /\ ~unsafeUPS(s) /\ ~s.healthSafe
     /\ failSafe(T)

RecoveryContinues(s) == RecoveryEnabled /\ ~unsafeUPS(s) /\ s.healthSafe

StepRecoveryStarted(T, s) ==
  /\ st.power = "RECOVERY_STARTED"
  /\ \/ RecoveryStops(T, s)
     \/ /\ RecoveryContinues(s) /\ ~s.networkReady
        /\ LET T1 == StartIfUnset(T, "networkWaitSince") IN
           IF /\ RecoveryNetworkWait > 0
              /\ T1["networkWaitSince"] >= RecoveryNetworkWait
           THEN failSafe(T1)
           ELSE Hold(T1, onlineConfirmations)
     \/ /\ RecoveryContinues(s) /\ s.networkReady
        /\ Persist([st EXCEPT !.power = "RESTORE_HOSTS"],
                   [T EXCEPT !["networkWaitSince"] = Unset],
                   onlineConfirmations, "none")

StepRestoreHosts_trustsStart(T, s) ==
  st.power = "RESTORE_HOSTS" /\ Hold(T, onlineConfirmations)

StepRestoreHosts(T, s) ==
  /\ st.power = "RESTORE_HOSTS"
  /\ \/ RecoveryStops(T, s)
     \/ /\ RecoveryContinues(s) /\ ~s.networkReady
        /\ Persist([st EXCEPT !.power = "RECOVERY_STARTED"],
                   StartIfUnset(T, "networkWaitSince"),
                   onlineConfirmations, "none")
     \/ /\ RecoveryContinues(s) /\ s.networkReady
        /\ Hold([T EXCEPT !["networkWaitSince"] = Unset], onlineConfirmations)

BootRecovery_flagKept(T, s) ==
  /\ st.recovery
  /\ Persist([st EXCEPT !.power = "RECOVERY_WAIT"],
             [T EXCEPT !["onlineSince"] = 0, !["networkWaitSince"] = Unset],
             onlineConfirmations, "none")

\* reconcileBoot, a recovery had been committed before the interruption.
BootRecovery(T, s) ==
  /\ st.recovery
  /\ IF ~RecoveryEnabled
     THEN Persist([st EXCEPT !.recovery = FALSE, !.power = "WAITING_FOR_AC"],
                  T, onlineConfirmations, "none")
     ELSE IF unsafeUPS(s)
     THEN Persist([st EXCEPT !.recovery = FALSE, !.power = "ON_BATTERY"],
                  T, onlineConfirmations, "fresh")
     ELSE Persist([st EXCEPT !.recovery = FALSE, !.power = "RECOVERY_WAIT"],
                  [T EXCEPT !["onlineSince"] = 0, !["networkWaitSince"] = Unset],
                  onlineConfirmations, "none")

BootCommitted_resumesOutage(T, s) ==
  /\ st.committed /\ ~st.recovery
  /\ IF s.utility = "online"
     THEN Persist([st EXCEPT !.power = "RECOVERY_WAIT"],
                  [T EXCEPT !["onlineSince"] = 0, !["networkWaitSince"] = Unset],
                  onlineConfirmations, "none")
     ELSE Persist([st EXCEPT !.power = "ON_BATTERY"], T,
                  onlineConfirmations, "none")

\* reconcileBoot, a shutdown had been committed and recovery had not.
BootCommitted(T, s) ==
  /\ st.committed /\ ~st.recovery
  /\ IF resumeState = "ON_BATTERY" /\ s.utility = "on_battery"
     THEN Persist([st EXCEPT !.power = "ON_BATTERY"], T,
                  onlineConfirmations, "fresh")
     ELSE IF s.utility = "online" /\ RecoveryEnabled
     THEN Persist([st EXCEPT !.power = "RECOVERY_WAIT"],
                  [T EXCEPT !["onlineSince"] = 0, !["networkWaitSince"] = Unset],
                  onlineConfirmations, "none")
     ELSE Persist([st EXCEPT !.power = "WAITING_FOR_AC"], T,
                  onlineConfirmations, "none")

\* reconcileBoot, no transaction was committed.
BootUncommitted(T, s) ==
  /\ ~st.committed /\ ~st.recovery
  /\ LET resumed == IF resumeState = "ON_BATTERY" /\ st.elapsed < GracePeriod
                    THEN GracePeriod ELSE st.elapsed
     IN  IF s.utility = "on_battery"
         THEN Persist([st EXCEPT !.power = "ON_BATTERY"],
                      [T EXCEPT !["onBatterySince"] = resumed,
                                !["lastOutageCheckpoint"] = 0],
                      0, "none")
         ELSE Persist([st EXCEPT !.power = "NORMAL", !.elapsed = 0], T,
                      onlineConfirmations, "none")

StepBoot(T, s) ==
  /\ st.power = "BOOT_RECONCILE"
  /\ \/ s.utility = "unknown" /\ Hold(T, onlineConfirmations)
     \/ /\ s.utility # "unknown"
        /\ \/ BootRecovery(T, s)
           \/ BootCommitted(T, s)
           \/ BootUncommitted(T, s)

Step(T, s) ==
  \/ StepFailedSafe(T, s)
  \/ StepBoot(T, s)
  \/ StepFSD(T, s)
  \/ /\ ~FSDObserved(s)
     /\ \/ StepNormal(T, s)
        \/ StepOnBattery(T, s)
        \/ StepShutdownInProgress(T, s)
        \/ StepWaitingForAC(T, s)
        \/ StepRecoveryWait(T, s)
        \/ StepRecoveryStarted(T, s)
        \/ StepRestoreHosts(T, s)

\* One call of Coordinator.Step from a power tick, d after the previous one.
Tick(d, s) ==
  /\ owed = "none"
  /\ in' = s
  /\ Step(AgedBy(d), s)

-----------------------------------------------------------------------------
(* The orchestrator's other calls on the coordinator. *)

\* Controller.Tick's second Step after commit_shutdown: SHUTDOWN_IN_PROGRESS is
\* durable before the first host command.
BeginShutdown ==
  /\ owed = "begin"
  /\ st.power = "SHUTDOWN_COMMITTED"
  /\ Persist([st EXCEPT !.power = "SHUTDOWN_IN_PROGRESS"], since,
             onlineConfirmations, "none")
  /\ UNCHANGED in

\* The first write of beginFreshOutage.
FreshOutage ==
  /\ owed = "fresh"
  /\ Persist([st EXCEPT !.committed = FALSE, !.recovery = FALSE], since,
             onlineConfirmations, "none")
  /\ UNCHANGED in

MarkShutdownPhaseComplete ==
  /\ owed = "none"
  /\ st.power \in {"SHUTDOWN_IN_PROGRESS", "SHUTDOWN_COMMITTED"}
  /\ Persist([st EXCEPT !.power = "WAITING_FOR_AC"], since,
             onlineConfirmations, "none")
  /\ UNCHANGED in

\* enterShutdownFailedSafe and enterNUTGroupFailedSafe.
ShutdownFailedSafe ==
  /\ owed = "none"
  /\ st.power = "SHUTDOWN_IN_PROGRESS"
  /\ Persist([st EXCEPT !.power = "FAILED_SAFE"], since,
             onlineConfirmations, "none")
  /\ UNCHANGED in

MarkRecoveryComplete_anyPhase ==
  /\ owed = "none"
  /\ st.power \in {"RECOVERY_STARTED", "RESTORE_HOSTS"}
  /\ Persist([NewState EXCEPT !.power = "NORMAL"], AllUnset, 0, "none")
  /\ UNCHANGED in

MarkRecoveryComplete ==
  /\ owed = "none"
  /\ st.power = "RESTORE_HOSTS"
  /\ Persist([power |-> "NORMAL", committed |-> FALSE, recovery |-> FALSE,
              elapsed |-> 0],
             AllUnset, 0, "none")
  /\ UNCHANGED in

\* The process dies at any point (power loss, a failed write, systemd restart)
\* and runArmed starts again from the durable generation.
Restart ==
  /\ IF disk.committed
        /\ disk.power \in {"SHUTDOWN_COMMITTED", "SHUTDOWN_IN_PROGRESS"}
     THEN /\ st' = [disk EXCEPT !.power = "SHUTDOWN_IN_PROGRESS"]
          /\ disk' = st'
     ELSE /\ st' = [disk EXCEPT !.power = "BOOT_RECONCILE"]
          /\ disk' = disk
  /\ since' = AllUnset
  /\ onlineConfirmations' = 0
  /\ owed' = "none"
  /\ UNCHANGED in

-----------------------------------------------------------------------------
\* armed.go on a machine without a valid generation: state.New is written.
Init ==
  /\ st = NewState
  /\ disk = NewState
  /\ since = AllUnset
  /\ onlineConfirmations = 0
  /\ owed = "none"
  /\ in \in Samples

Ticks == \E d \in Delays, s \in Samples : Tick(d, s)

Next ==
  \/ Ticks
  \/ BeginShutdown
  \/ FreshOutage
  \/ MarkShutdownPhaseComplete
  \/ ShutdownFailedSafe
  \/ MarkRecoveryComplete
  \/ Restart

Spec == Init /\ [][Next]_vars

\* The power ticker keeps firing and a decision is always followed through;
\* nothing is assumed of the orchestrator's own calls or of restarts.
Fairness == WF_vars(Ticks) /\ WF_vars(BeginShutdown) /\ WF_vars(FreshOutage)

-----------------------------------------------------------------------------
(* Properties *)

\* The engine's part of the type invariant.
TypeOK ==
  /\ st \in State
  /\ disk \in State
  /\ since \in [Timers -> Unset .. MaxAge]
  /\ onlineConfirmations \in 0 .. Confirmations - 1
  /\ owed \in {"none", "begin", "fresh"}
  /\ in \in Samples

CommittedPhases ==
  {"SHUTDOWN_COMMITTED", "SHUTDOWN_IN_PROGRESS", "WAITING_FOR_AC",
   "RECOVERY_WAIT", "RECOVERY_STARTED", "RESTORE_HOSTS", "FAILED_SAFE"}

Consistent(g) ==
  /\ g.recovery => g.committed
  /\ g.recovery => g.power \in {"RECOVERY_STARTED", "RESTORE_HOSTS",
                                "FAILED_SAFE"}
  /\ g.power \in {"RECOVERY_STARTED", "RESTORE_HOSTS"} => g.recovery
  /\ g.power \in CommittedPhases => g.committed
  /\ g.power \in {"NORMAL", "BOOT_RECONCILE"} => ~g.committed /\ g.elapsed = 0

\* Every generation written agrees with itself: store.go's validateSemantic
\* accepts it (recovery requires the commit, RESTORE_HOSTS requires recovery),
\* a phase of the shutdown transaction carries the commit that lets a restart
\* resume it, and NORMAL carries nothing of an earlier outage.
GenerationConsistent == Consistent(disk)

\* The engine never decides from a state that is not durable: outside boot
\* reconciliation memory and disk agree (coordinator.go's two views "can never
\* drift apart"), in it memory differs in the power state only, and when no
\* call is owed an outage being watched is a transaction of its own, the
\* commit of an earlier one having been cleared.
MemoryIsDurable ==
  /\ st.power # "BOOT_RECONCILE" => st = disk
  /\ st.power = "BOOT_RECONCILE" =>
       st = [disk EXCEPT !.power = "BOOT_RECONCILE"]
  /\ st.power = "ON_BATTERY" /\ owed # "fresh" => ~st.committed
  /\ owed = "fresh" => st.power = "ON_BATTERY"
  /\ owed = "begin" <=> st.power = "SHUTDOWN_COMMITTED"

\* A committed shutdown is never forgotten (POWER_POLICY 5): the commit leaves
\* the disk only when host restoration completes or when a renewed outage
\* during recovery opens a new transaction.
CommitNeverErased ==
  [][disk.committed /\ ~disk'.committed =>
       \/ disk.power = "RESTORE_HOSTS" /\ disk'.power = "NORMAL"
       \/ disk.power = "ON_BATTERY" /\ disk'.power = "ON_BATTERY"]_vars

\* max_on_battery works across restarts: with the UPS on battery for good and
\* finitely many restarts, an outage being watched ends in a commit.
OutageEndsInCommit ==
  /\ <>[](in.utility = "on_battery")
  /\ <>[][~Restart]_vars
  => [](st.power = "ON_BATTERY" => <>st.committed)

GatesOpen ==
  /\ ~unsafeUPS(in) /\ in.networkReady /\ in.healthSafe
  /\ rechargeGate(in, MaxAge)

\* Once utility, charge, network and health stay good and restarts stop, a
\* committed shutdown that is over leads to host restoration, from whatever
\* gate, boot or timers it stands at: no gate timer is left running or stale
\* in a way that blocks recovery for ever (stepRecoveryWait).
RecoveryReached ==
  <>[][~Restart]_vars =>
    [](/\ st.committed
       /\ st.power \in {"BOOT_RECONCILE", "WAITING_FOR_AC", "RECOVERY_WAIT",
                        "RECOVERY_STARTED"}
       /\ []GatesOpen
       => <>(st.power = "RESTORE_HOSTS"))
=============================================================================
