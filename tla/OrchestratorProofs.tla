------------------------- MODULE OrchestratorProofs -------------------------
(***************************************************************************)
(* TLAPS proofs about Orchestrator, for every fleet, every configuration   *)
(* of the policy and every set of probe results and exclusions.            *)
(*                                                                         *)
(* The argument.  Every step is a step of the policy engine or leaves the  *)
(* engine alone, so the engine's invariant holds here.  Phases then ties   *)
(* the place in the tick to the durable power state, Pending says that a   *)
(* command about to be sent is already counted, and Shown ties the records *)
(* of the hosts to what was really shown of them since the commit.         *)
(* Spacing ties the remembered time of the last wake-up to the real one,   *)
(* and Unrepeated what was shown of a host to the record that spares it    *)
(* another command.                                                        *)
(*                                                                         *)
(* Then the volatile state is typed, which rests on the cap of the retry   *)
(* schedules.  So far what the recovery plan computes is not needed:       *)
(* whichever host it hands out, the argument holds.  The last part is about*)
(* the host it does hand out: with HostPlanProofs, recovery advances.      *)
(***************************************************************************)
EXTENDS Orchestrator, PolicyEngineProofs, HostPlanProofs
LOCAL INSTANCE FiniteSetsExt

Direct == DirectHosts(Config)

ShutdownPlaces ==
  {"shutdown", "command", "reply", "verify", "groupFailed", "mark", "groupFSD",
   "groupReply", "complete"}

RecoveryPlaces == {"restore", "recover", "wake"}

OShape ==
  /\ hosts \in [Hosts -> HostStates]
  /\ DOMAIN fleet = {"sent", "woken", "settled", "restored", "exempt", "fresh",
                     "due", "lastWoken", "wokenAge"}
  /\ fleet.sent \in [Hosts -> Nat] /\ fleet.woken \in [Hosts -> Nat]

SafeToRestore(s) == ~unsafeUPS(s) /\ s.networkReady /\ s.healthSafe

Phases ==
  /\ pc \in ShutdownPlaces => st.power = "SHUTDOWN_IN_PROGRESS"
  /\ pc \in RecoveryPlaces => st.power = "RESTORE_HOSTS" /\ SafeToRestore(in)
  /\ pc \notin ShutdownPlaces => done = {}

Pending ==
  /\ pc = "command" /\ cur \in Hosts \ NUTGroup =>
       fleet.sent[cur] < hosts[cur].shutdownAttempts
  /\ pc = "wake" /\ cur \in Hosts => fleet.woken[cur] < hosts[cur].wakeAttempts

\* The records of a host table that was started anew for the outage.
ShutdownShown ==
  /\ \A h \in Direct :
       /\ hosts[h].shutdown = "completed" => st.committed /\ h \in fleet.settled
       /\ hosts[h].shutdown = "not_required" => h \in fleet.exempt
  /\ done \cap Direct \subseteq fleet.settled
  /\ pc \in {"mark", "groupFSD", "groupReply", "complete"} => AllDirectSettled

RecoveryShown ==
  \A h \in Hosts :
    /\ hosts[h].recovery \in {"online", "failed"} =>
         st.committed /\ h \in fleet.restored
    /\ /\ hosts[h].recovery = "not_required"
       /\ Config[h].wakeEnabled /\ Config[h].restorePolicy # "never"
       => h \in fleet.exempt

Shown == fleet.fresh => ShutdownShown /\ RecoveryShown

OInv == IInv /\ OShape /\ Phases /\ CommandsCounted /\ Pending /\ Shown

-----------------------------------------------------------------------------

\* An action of the orchestrator that asks nothing of the engine.
LEMMA EngineLeftAlone ==
  ASSUME EngineIdle
  PROVE  [Next]_vars
  BY DEF EngineIdle

\* Every step of the orchestrator is a step of the engine, or leaves it alone.
LEMMA StepImplements ==
  [ONext]_ovars => [Next]_vars
  <1> SUFFICES ASSUME [ONext]_ovars
               PROVE  [Next]_vars
    OBVIOUS
  <1>1. CASE ControllerTicks
    BY <1>1 DEF ControllerTicks, ControllerTick, Next, Ticks
  <1>2. CASE SnapshotHosts \/ ControllerFSD
    BY <1>2, EngineLeftAlone DEF SnapshotHosts, ControllerFSD
  <1>3. CASE BeginFreshOutage \/ BeginShutdownWork \/ CompleteShutdown
    BY <1>3 DEF BeginFreshOutage, BeginShutdownWork, CompleteShutdown, Next
  <1>4. CASE SettleDirect
    BY <1>4, EngineLeftAlone
    DEF SettleDirect, SettleFailed, ReconcileUnknown, ReconcileOffline,
        SettleAttempt, SendCommand, CommandFailed, CommandAcknowledged,
        VerifyDown, VerifyTimeout, HostFailedSafe, RetryPending, Attempt,
        Settled, Next
  <1>5. CASE SettleGroup
    BY <1>5, EngineLeftAlone
    DEF SettleGroup, PrepareNUTGroup, GroupFailedSafe, MarkNUTRequested,
        RequestGroupFSD, GroupFSDFailed, GroupFSDAcknowledged, Next
  <1>6. CASE ExecuteRecoveryStep
    BY <1>6, EngineLeftAlone
    DEF ExecuteRecoveryStep, BlockedRecovery, CompleteRecovery, SendWake,
        NothingToWake, DelayWake, RecoveredOnline, WakeExhausted, PrepareWake,
        RecoveryWriteFails, Next
  <1>7. CASE ControllerRestart
    BY <1>7 DEF ControllerRestart, Next
  <1>8. CASE UNCHANGED ovars
    BY <1>8 DEF ovars
  <1> QED BY <1>1, <1>2, <1>3, <1>4, <1>5, <1>6, <1>7, <1>8
      DEF ONext, Running, TickContinues

-----------------------------------------------------------------------------
(* What the engine's steps promise the orchestrator. *)

StepPromise(s) ==
  /\ st.committed => st'.committed
  /\ st.power = "SHUTDOWN_IN_PROGRESS" => st'.power = "SHUTDOWN_IN_PROGRESS"
  /\ st'.power = "RESTORE_HOSTS" => SafeToRestore(s)
  /\ st.power = "RESTORE_HOSTS" => st'.power # "NORMAL"

\* A tick keeps a commit, stays in a shutdown, and leads to or stays in the
\* restoration of hosts only on a safe sample.
LEMMA StepPromised ==
  ASSUME NEW T, NEW s, IInv, owed = "none", Step(T, s)
  PROVE  StepPromise(s)
  <1>1. /\ st \in State /\ (st.power = "ON_BATTERY" => ~st.committed)
        /\ st.power # "SHUTDOWN_COMMITTED"
        /\ st.power = "SHUTDOWN_IN_PROGRESS" => st.committed
        /\ st.power = "RESTORE_HOSTS" => st.committed
    BY MemoryFacts DEF Consistent, CommittedPhases
  <1> USE <1>1 DEF StepPromise, SafeToRestore, State, Hold, Persist,
                   commitShutdown, failSafe
  <1>2. CASE StepFailedSafe(T, s) \/ StepShutdownInProgress(T, s)
    BY <1>2 DEF StepFailedSafe, StepShutdownInProgress
  <1>3. CASE StepBoot(T, s)
    <2>1. CASE s.utility = "unknown" /\ Hold(T, onlineConfirmations)
      BY <1>3, <2>1 DEF StepBoot
    <2>2. CASE BootRecovery(T, s)
      BY <1>3, <2>2 DEF StepBoot, BootRecovery
    <2>3. CASE BootCommitted(T, s)
      BY <1>3, <2>3 DEF StepBoot, BootCommitted
    <2>4. CASE BootUncommitted(T, s)
      BY <1>3, <2>4 DEF StepBoot, BootUncommitted
    <2> QED BY <1>3, <2>1, <2>2, <2>3, <2>4 DEF StepBoot
  <1>4. CASE StepFSD(T, s)
    BY <1>4 DEF StepFSD, FSDObserved
  <1>5. CASE StepNormal(T, s)
    BY <1>5 DEF StepNormal
  <1>6. CASE StepOnBattery(T, s)
    <2>1. CASE OnBatteryOnline(T, s)
      BY <1>6, <2>1 DEF StepOnBattery, OnBatteryOnline
    <2>2. CASE OnBatteryLow(T, s)
      BY <1>6, <2>2 DEF StepOnBattery, OnBatteryLow
    <2>3. CASE OnBatteryUnknown(T, s)
      BY <1>6, <2>3 DEF StepOnBattery, OnBatteryUnknown
    <2>4. CASE OnBatteryMonitor(T, s)
      BY <1>6, <2>4 DEF StepOnBattery, OnBatteryMonitor, checkpointOutage
    <2> QED BY <1>6, <2>1, <2>2, <2>3, <2>4 DEF StepOnBattery
  <1>7. CASE StepWaitingForAC(T, s)
    BY <1>7 DEF StepWaitingForAC
  <1>8. CASE StepRecoveryWait(T, s)
    BY <1>8 DEF StepRecoveryWait
  <1>9. CASE StepRecoveryStarted(T, s)
    BY <1>9 DEF StepRecoveryStarted, RecoveryStops, RecoveryContinues
  <1>10. CASE StepRestoreHosts(T, s)
    BY <1>10 DEF StepRestoreHosts, RecoveryStops, RecoveryContinues
  <1> QED
    BY <1>2, <1>3, <1>4, <1>5, <1>6, <1>7, <1>8, <1>9, <1>10 DEF Step

\* Memory and disk agree on the commit.
LEMMA CommitAgrees ==
  ASSUME IInv
  PROVE  /\ st \in State /\ disk \in State /\ (st.committed <=> disk.committed)
         /\ st.power # "BOOT_RECONCILE" => st = disk /\ Consistent(st)
  <1>1. /\ st \in State /\ disk \in State /\ Consistent(disk)
        /\ st.power # "BOOT_RECONCILE" => st = disk
        /\ st.power = "BOOT_RECONCILE" =>
             st = [disk EXCEPT !.power = "BOOT_RECONCILE"]
    BY DEF IInv, TypeOK, MemoryIsDurable, GenerationConsistent
  <1>2. CASE st.power # "BOOT_RECONCILE"
    BY <1>1, <1>2
  <1>3. CASE st.power = "BOOT_RECONCILE"
    <2>1. st = [disk EXCEPT !.power = "BOOT_RECONCILE"]
      BY <1>1, <1>3
    <2>2. st.committed <=> disk.committed
      BY <1>1, <2>1 DEF State
    <2> QED BY <1>1, <1>3, <2>2
  <1> QED BY <1>2, <1>3

\* A restart changes the power state only, and not the commit.
LEMMA RestartKeepsCommit ==
  ASSUME IInv, Restart
  PROVE  /\ st'.committed <=> st.committed
         /\ st.power = "SHUTDOWN_IN_PROGRESS" => st'.power = "SHUTDOWN_IN_PROGRESS"
         /\ st'.power # "NORMAL"
  <1>1. /\ disk \in State /\ (st.committed <=> disk.committed)
        /\ st.power = "SHUTDOWN_IN_PROGRESS" =>
             disk.committed /\ disk.power = "SHUTDOWN_IN_PROGRESS"
    BY CommitAgrees DEF Consistent, CommittedPhases
  <1>2. PICK p \in {"SHUTDOWN_IN_PROGRESS", "BOOT_RECONCILE"} :
          st' = [disk EXCEPT !.power = p]
    BY DEF Restart
  <1>3. st'.committed = disk.committed /\ st'.power = p
    BY <1>1, <1>2 DEF State
  <1>4. st.power = "SHUTDOWN_IN_PROGRESS" =>
          st' = [disk EXCEPT !.power = "SHUTDOWN_IN_PROGRESS"]
    BY <1>1 DEF Restart
  <1>5. st.power = "SHUTDOWN_IN_PROGRESS" => st'.power = "SHUTDOWN_IN_PROGRESS"
    BY <1>1, <1>4 DEF State
  <1> QED BY <1>1, <1>3, <1>5

-----------------------------------------------------------------------------
(* Preservation of the shape of the state. *)

\* The configuration of the fleet.
LEMMA Fleet ==
  /\ Config \in [Hosts -> HostConfigs(Hosts)] /\ DOMAIN Config = Hosts
  /\ Direct \subseteq Hosts /\ NUTGroup \subseteq Hosts /\ Direct \cap NUTGroup = {}
  BY FleetAssumption DEF Direct, NUTGroup, DirectHosts, NUTManaged

\* One more command to c, if c is a host.
LEMMA CountedTypes ==
  ASSUME NEW f \in [Hosts -> Nat], NEW c
  PROVE  [f EXCEPT ![c] = @ + 1] \in [Hosts -> Nat]
  <1>1. CASE c \in Hosts
    <2>1. f[c] + 1 \in Nat
      BY <1>1
    <2> QED BY <2>1
  <1>2. CASE c \notin Hosts
    BY <1>2
  <1> QED BY <1>1, <1>2

\* One host's record is replaced, if it is a host.
LEMMA PersistShape ==
  ASSUME hosts \in [Hosts -> HostStates], NEW h, NEW hs,
         h \in Hosts => hs \in HostStates, PersistHost(h, hs)
  PROVE  hosts' \in [Hosts -> HostStates]
  BY DEF PersistHost

\* Every field of a record that a step writes stays in its type.
LEMMA RecordTypes ==
  ASSUME NEW r \in HostStates
  PROVE  /\ [r EXCEPT !.shutdown = "failed", !.present = TRUE] \in HostStates
         /\ [r EXCEPT !.shutdown = "unknown"] \in HostStates
         /\ [r EXCEPT !.shutdown = "acknowledged"] \in HostStates
         /\ [r EXCEPT !.shutdown = "completed"] \in HostStates
         /\ [r EXCEPT !.shutdown = "completed", !.present = TRUE] \in HostStates
         /\ [r EXCEPT !.recovery = "online"] \in HostStates
         /\ [r EXCEPT !.recovery = "failed"] \in HostStates
         /\ [r EXCEPT !.recovery = "failed", !.present = TRUE] \in HostStates
         /\ [r EXCEPT !.shutdownAttempts = @ + 1, !.shutdown = "requested",
                      !.present = TRUE] \in HostStates
         /\ [r EXCEPT !.wakeAttempts = @ + 1, !.recovery = "wol_sent"] \in HostStates
  <1>0. r.shutdownAttempts + 1 \in Nat /\ r.wakeAttempts + 1 \in Nat
    <2>1. r.shutdownAttempts \in Nat /\ r.wakeAttempts \in Nat
      BY DEF HostStates
    <2> QED BY <2>1
  <1>1. [r EXCEPT !.shutdown = "failed", !.present = TRUE] \in HostStates
    BY DEF HostStates
  <1>2. [r EXCEPT !.shutdown = "unknown"] \in HostStates
    BY DEF HostStates
  <1>3. [r EXCEPT !.shutdown = "acknowledged"] \in HostStates
    BY DEF HostStates
  <1>4. [r EXCEPT !.shutdown = "completed"] \in HostStates
    BY DEF HostStates
  <1>5. [r EXCEPT !.shutdown = "completed", !.present = TRUE] \in HostStates
    BY DEF HostStates
  <1>6. [r EXCEPT !.recovery = "online"] \in HostStates
    BY DEF HostStates
  <1>7. [r EXCEPT !.recovery = "failed"] \in HostStates
    BY DEF HostStates
  <1>8. [r EXCEPT !.recovery = "failed", !.present = TRUE] \in HostStates
    BY DEF HostStates
  <1>9. [r EXCEPT !.shutdownAttempts = @ + 1, !.shutdown = "requested",
                  !.present = TRUE] \in HostStates
    BY <1>0 DEF HostStates
  <1>10. [r EXCEPT !.wakeAttempts = @ + 1, !.recovery = "wol_sent"] \in HostStates
    BY <1>0 DEF HostStates
  <1> QED BY <1>1, <1>2, <1>3, <1>4, <1>5, <1>6, <1>7, <1>8, <1>9, <1>10

\* The NUT group changes nothing outside but which hosts are due.
SameButDue ==
  /\ DOMAIN fleet' = DOMAIN fleet
  /\ \A f \in DOMAIN fleet \ {"due"} : fleet'[f] = fleet[f]
  /\ fleet'.sent = fleet.sent /\ fleet'.woken = fleet.woken
  /\ fleet'.settled = fleet.settled /\ fleet'.restored = fleet.restored
  /\ fleet'.exempt = fleet.exempt /\ fleet'.fresh = fleet.fresh

\* The steps of the NUT group, as the outside sees them.
LEMMA GroupFleet ==
  ASSUME OShape, SettleGroup
  PROVE  SameButDue
  <1>1. \/ fleet' = fleet
        \/ \E due : fleet' = [fleet EXCEPT !.due = due]
    BY DEF SettleGroup, PrepareNUTGroup, GroupFailedSafe, MarkNUTRequested,
       RequestGroupFSD, GroupFSDFailed, GroupFSDAcknowledged
  <1> QED BY <1>1 DEF SameButDue, OShape

\* No step leaves the shape of the host table and of the counters.
LEMMA ShapeStep ==
  ASSUME OShape, [ONext]_ovars
  PROVE  OShape'
  <1> USE DEF OShape
  <1>1. CASE ControllerTicks
    BY <1>1 DEF ControllerTicks, ControllerTick, ObserveStep
  <1>2. CASE SnapshotHosts
    <2>2. ASSUME NEW p, NEW k
          PROVE  Snapshot(p, k) \in [Hosts -> HostStates]
      <3>1. ASSUME NEW h \in Hosts
            PROVE  Snapshot(p, k)[h] \in HostStates
        <4> DEFINE a == IF Runtime[h].method = "none" THEN "not_required"
                        ELSE "planned"
                   b == IF \/ ~Runtime[h].wakeEnabled
                           \/ Config[h].restorePolicy = "never"
                        THEN "not_required" ELSE "waiting"
                   c == IF ~Config[h].probed THEN "unset"
                        ELSE IF p[h] = "online" THEN "yes"
                        ELSE IF p[h] = "offline" /\ k THEN "no" ELSE "unset"
        <4>1. /\ a \in {"not_required", "planned"} /\ b \in {"not_required", "waiting"}
              /\ c \in {"unset", "yes", "no"}
          OBVIOUS
        <4>2. Snapshot(p, k)[h] =
                IF h \in Snapshotted THEN hosts[h]
                ELSE [hosts[h] EXCEPT !.present = TRUE, !.shutdown = a,
                                      !.recovery = b, !.wasOnline = c]
          BY DEF Snapshot
        <4> HIDE DEF a, b, c
        <4>3. hosts[h] \in HostStates
          OBVIOUS
        <4>4. [hosts[h] EXCEPT !.present = TRUE, !.shutdown = a, !.recovery = b,
                               !.wasOnline = c] \in HostStates
          BY <4>1, <4>3 DEF HostStates
        <4> QED BY <4>2, <4>3, <4>4
      <3>2. Snapshot(p, k) = [h \in Hosts |-> Snapshot(p, k)[h]]
        BY DEF Snapshot
      <3> QED BY <3>1, <3>2
    <2>3. PICK p : hosts' = Snapshot(p, pc = "snapshot")
      BY <1>2 DEF SnapshotHosts
    <2>4. hosts' \in [Hosts -> HostStates]
      BY <2>2, <2>3
    <2> QED BY <1>2, <2>4 DEF SnapshotHosts
  <1>3. CASE BeginFreshOutage
    BY <1>3 DEF BeginFreshOutage, NewFleet, NoHostState, HostStates
  <1>4. CASE BeginShutdownWork \/ CompleteShutdown \/ ControllerFSD
    BY <1>4 DEF BeginShutdownWork, CompleteShutdown, ControllerFSD
  <1>5. CASE SettleDirect
    <2>1. CASE \E h \in PreFSD : SettleFailed(h) \/ ReconcileUnknown(h)
      BY <2>1, PersistShape, RecordTypes
      DEF SettleFailed, ReconcileUnknown, HostFailedSafe, RetryPending
    <2>2. CASE \E h \in PreFSD : ReconcileOffline(h)
      BY <2>2, PersistShape, RecordTypes DEF ReconcileOffline, Settled
    <2>3. CASE \E h \in PreFSD : SettleAttempt(h)
      BY <2>3, PersistShape, RecordTypes DEF SettleAttempt, Attempt, HostFailedSafe
    <2>4. CASE SendCommand
      <3>1. fleet' = [fleet EXCEPT !.sent = [fleet.sent EXCEPT ![cur] = @ + 1]]
        BY <2>4 DEF SendCommand
      <3>2. [fleet.sent EXCEPT ![cur] = @ + 1] \in [Hosts -> Nat]
        BY CountedTypes
      <3> HIDE DEF OShape
      <3>3. fleet'.sent \in [Hosts -> Nat] /\ fleet'.woken = fleet.woken
            /\ DOMAIN fleet' = DOMAIN fleet
        BY <3>1, <3>2 DEF OShape
      <3> QED BY <2>4, <3>3 DEF SendCommand, OShape
    <2>5. CASE CommandFailed
      BY <2>5, PersistShape, RecordTypes DEF CommandFailed, HostFailedSafe, RetryPending
    <2>6. CASE CommandAcknowledged
      BY <2>6, PersistShape, RecordTypes DEF CommandAcknowledged
    <2>7. CASE VerifyDown \/ VerifyTimeout
      BY <2>7, PersistShape, RecordTypes DEF VerifyDown, VerifyTimeout, Settled, RetryPending
    <2> QED BY <1>5, <2>1, <2>2, <2>3, <2>4, <2>5, <2>6, <2>7 DEF SettleDirect
  <1>6. CASE SettleGroup
    <2>1. CASE PrepareNUTGroup
      <3>1. PICK off :
              hosts' = [h \in Hosts |->
                          IF h \in off THEN [hosts[h] EXCEPT !.shutdown = "completed",
                                                            !.present = TRUE]
                          ELSE hosts[h]]
        BY <2>1 DEF PrepareNUTGroup
      <3>2. hosts' \in [Hosts -> HostStates]
        BY <3>1, RecordTypes
      <3>3. SameButDue
        BY <2>1, GroupFleet DEF SettleGroup
      <3> QED BY <3>2, <3>3 DEF SameButDue
    <2>2. CASE GroupFailedSafe
      BY <2>2, RecordTypes DEF GroupFailedSafe
    <2>3. CASE MarkNUTRequested
      BY <2>3, PersistShape, RecordTypes DEF MarkNUTRequested
    <2>4. CASE RequestGroupFSD
      BY <2>4 DEF RequestGroupFSD
    <2>5. CASE GroupFSDFailed
      BY <2>5, RecordTypes DEF GroupFSDFailed
    <2>6. CASE GroupFSDAcknowledged
      <3>1. ASSUME NEW r \in HostStates, NEW a,
                   a \in {"acknowledged", "completed", "unknown"}
            PROVE  [r EXCEPT !.shutdown = a] \in HostStates
        BY <3>1 DEF HostStates
      <3>2. PICK down : hosts' =
              [h \in Hosts |->
                 IF h \notin NUTGroup \/ hosts[h].shutdown = "completed"
                 THEN hosts[h]
                 ELSE [hosts[h] EXCEPT !.shutdown =
                         IF ~Config[h].probed THEN "acknowledged"
                         ELSE IF h \in down THEN "completed" ELSE "unknown"]]
        BY <2>6 DEF GroupFSDAcknowledged
      <3>3. \A h \in Hosts : hosts'[h] \in HostStates
        BY <3>1, <3>2
      <3>4. hosts' \in [Hosts -> HostStates]
        BY <3>2, <3>3
      <3>5. SameButDue
        BY <2>6, GroupFleet DEF SettleGroup
      <3> QED BY <3>4, <3>5 DEF SameButDue
    <2> QED BY <1>6, <2>1, <2>2, <2>3, <2>4, <2>5, <2>6 DEF SettleGroup
  <1>7. CASE ExecuteRecoveryStep
    <2>1. CASE BlockedRecovery
      <3>1. PICK blocked :
              /\ hosts' = [h \in Hosts |->
                             IF h \in blocked
                             THEN [hosts[h] EXCEPT !.recovery = "failed",
                                                   !.present = TRUE]
                             ELSE hosts[h]]
              /\ Restored(blocked)
        BY <2>1 DEF BlockedRecovery
      <3>2. hosts' \in [Hosts -> HostStates]
        BY <3>1, RecordTypes
      <3> QED BY <3>1, <3>2 DEF Restored
    <2>2. CASE CompleteRecovery \/ NothingToWake
      BY <2>2 DEF CompleteRecovery, NothingToWake, ObserveStep
    <2>6. CASE SendWake
      <3>1. PICK age :
              fleet' = [fleet EXCEPT !.woken = [fleet.woken EXCEPT ![cur] = @ + 1],
                                     !.lastWoken = cur, !.wokenAge = age]
        BY <2>6 DEF SendWake
      <3>2. [fleet.woken EXCEPT ![cur] = @ + 1] \in [Hosts -> Nat]
        BY CountedTypes
      <3> HIDE DEF OShape
      <3>3. fleet'.woken \in [Hosts -> Nat] /\ fleet'.sent = fleet.sent
            /\ DOMAIN fleet' = DOMAIN fleet
        BY <3>1, <3>2 DEF OShape
      <3> QED BY <2>6, <3>3 DEF SendWake, OShape
    <2>3. CASE \E h \in HandedOut : DelayWake(h) \/ RecoveryWriteFails(h)
      BY <2>3 DEF DelayWake, RecoveryWriteFails
    <2>4. CASE \E h \in HandedOut : RecoveredOnline(h) \/ WakeExhausted(h)
      BY <2>4, PersistShape, RecordTypes DEF RecoveredOnline, WakeExhausted, Restored
    <2>5. CASE \E h \in HandedOut : PrepareWake(h)
      BY <2>5, PersistShape, RecordTypes DEF PrepareWake
    <2> QED BY <1>7, <2>1, <2>2, <2>3, <2>4, <2>5, <2>6 DEF ExecuteRecoveryStep
  <1>8. CASE ControllerRestart
    BY <1>8 DEF ControllerRestart
  <1>9. CASE UNCHANGED ovars
    BY <1>9 DEF ovars
  <1> QED BY <1>1, <1>2, <1>3, <1>4, <1>5, <1>6, <1>7, <1>8, <1>9
      DEF ONext, Running, TickContinues

-----------------------------------------------------------------------------
(* Preservation of Phases. *)

\* A tick that ends leaves the places where commands are sent.
LEMMA TickEnds ==
  ASSUME NEW v, EndTick(v)
  PROVE  pc' \in {"idle", "controllerFSD"} /\ done' = {}
  BY DEF EndTick

\* The work a tick turns to is the one the new state asks for.
LEMMA PhasesTick ==
  ASSUME IInv, Phases, NEW d, NEW s, ControllerTick(d, s)
  PROVE  Phases'
  <1>1. /\ pc = "idle" /\ owed = "none" /\ in' = s /\ done = {}
        /\ Step(AgedBy(d), s)
    BY DEF ControllerTick, Tick, Phases, ShutdownPlaces
  <1>2. StepPromise(s)
    BY <1>1, StepPromised
  <1>3. st'.power = "RESTORE_HOSTS" => SafeToRestore(in')
    BY <1>1, <1>2 DEF StepPromise
  <1>4. CASE EndTick(AgedVolatile(d))
    BY <1>4, TickEnds DEF Phases, ShutdownPlaces, RecoveryPlaces
  <1>5. CASE /\ pc' \in {"bootSnapshot", "fresh", "begin", "shutdown", "restore"}
             /\ pc' = "shutdown" => st'.power = "SHUTDOWN_IN_PROGRESS"
             /\ pc' = "restore" => st'.power = "RESTORE_HOSTS"
             /\ done' = done
    BY <1>1, <1>3, <1>5 DEF Phases, ShutdownPlaces, RecoveryPlaces, SafeToRestore
  <1> QED BY <1>4, <1>5 DEF ControllerTick

\* The place in the tick and the durable phase go together.
LEMMA PhasesStep ==
  ASSUME IInv, Phases, [ONext]_ovars
  PROVE  Phases'
  <1> USE DEF ShutdownPlaces, RecoveryPlaces, SafeToRestore, Goto, EngineIdle, vars
  <1>1. CASE ControllerTicks
    BY <1>1, PhasesTick DEF ControllerTicks
  <1>2. CASE SnapshotHosts
    BY <1>2, TickEnds DEF SnapshotHosts, Phases
  <1>3. CASE BeginFreshOutage \/ ControllerFSD
    BY <1>3 DEF BeginFreshOutage, ControllerFSD, Phases
  <1>4. CASE BeginShutdownWork
    <2>1. st \in State
      BY DEF IInv, TypeOK
    <2>2. st'.power = "SHUTDOWN_IN_PROGRESS"
      BY <1>4, <2>1 DEF BeginShutdownWork, BeginShutdown, Persist, State
    <2> QED BY <1>4, <2>2 DEF BeginShutdownWork, Phases
  <1>5. CASE CompleteShutdown \/ ControllerRestart
    BY <1>5, TickEnds DEF CompleteShutdown, ControllerRestart, Phases
  <1>6. CASE SettleDirect
    <2>1. CASE \E h \in PreFSD : SettleFailed(h) \/ ReconcileUnknown(h)
      BY <2>1, TickEnds
      DEF SettleFailed, ReconcileUnknown, HostFailedSafe, RetryPending, Phases
    <2>2. CASE \E h \in PreFSD : ReconcileOffline(h)
      BY <2>2 DEF ReconcileOffline, Settling, Settled, Phases
    <2>3. CASE \E h \in PreFSD : SettleAttempt(h)
      BY <2>3, TickEnds DEF SettleAttempt, Settling, Attempt, HostFailedSafe, Phases
    <2>4. CASE SendCommand \/ CommandFailed
      BY <2>4, TickEnds
      DEF SendCommand, CommandFailed, HostFailedSafe, RetryPending, Phases
    <2>5. CASE CommandAcknowledged
      BY <2>5 DEF CommandAcknowledged, Phases
    <2>6. CASE VerifyDown \/ VerifyTimeout
      BY <2>6, TickEnds DEF VerifyDown, VerifyTimeout, Settled, RetryPending, Phases
    <2> QED BY <1>6, <2>1, <2>2, <2>3, <2>4, <2>5, <2>6 DEF SettleDirect
  <1>7. CASE SettleGroup
    <2>1. CASE PrepareNUTGroup
      BY <2>1, TickEnds DEF PrepareNUTGroup, Phases
    <2>2. CASE GroupFailedSafe \/ GroupFSDFailed
      BY <2>2, TickEnds DEF GroupFailedSafe, GroupFSDFailed, Phases
    <2>3. CASE MarkNUTRequested
      BY <2>3 DEF MarkNUTRequested, Phases
    <2>4. CASE RequestGroupFSD \/ GroupFSDAcknowledged
      BY <2>4 DEF RequestGroupFSD, GroupFSDAcknowledged, Phases
    <2> QED BY <1>7, <2>1, <2>2, <2>3, <2>4 DEF SettleGroup
  <1>8. CASE ExecuteRecoveryStep
    <2>1. CASE BlockedRecovery
      BY <2>1 DEF BlockedRecovery, Phases
    <2>2. CASE CompleteRecovery \/ SendWake \/ NothingToWake
      BY <2>2, TickEnds DEF CompleteRecovery, SendWake, NothingToWake, Phases
    <2>3. CASE \E h \in HandedOut : DelayWake(h) \/ RecoveryWriteFails(h)
      BY <2>3, TickEnds DEF DelayWake, RecoveryWriteFails, Phases
    <2>4. CASE \E h \in HandedOut : RecoveredOnline(h) \/ WakeExhausted(h)
      BY <2>4, TickEnds DEF RecoveredOnline, WakeExhausted, Phases
    <2>5. CASE \E h \in HandedOut : PrepareWake(h)
      BY <2>5 DEF PrepareWake, WakeDue, Recovering, Phases
    <2> QED BY <1>8, <2>1, <2>2, <2>3, <2>4, <2>5 DEF ExecuteRecoveryStep
  <1>9. CASE UNCHANGED ovars
    BY <1>9 DEF ovars, local, Phases
  <1> QED BY <1>1, <1>2, <1>3, <1>4, <1>5, <1>6, <1>7, <1>8, <1>9
      DEF ONext, Running, TickContinues

-----------------------------------------------------------------------------
(* Preservation of CommandsCounted. *)

\* What a step writes in the record of a host, and what it leaves.
LEMMA WrittenFields ==
  ASSUME NEW r \in HostStates, NEW v
  PROVE  /\ [r EXCEPT !.shutdown = v].shutdown = v
         /\ [r EXCEPT !.shutdown = v].recovery = r.recovery
         /\ [r EXCEPT !.shutdown = v].shutdownAttempts = r.shutdownAttempts
         /\ [r EXCEPT !.shutdown = v].wakeAttempts = r.wakeAttempts
         /\ [r EXCEPT !.shutdown = v, !.present = TRUE].shutdown = v
         /\ [r EXCEPT !.shutdown = v, !.present = TRUE].recovery = r.recovery
         /\ [r EXCEPT !.shutdown = v, !.present = TRUE].shutdownAttempts =
              r.shutdownAttempts
         /\ [r EXCEPT !.shutdown = v, !.present = TRUE].wakeAttempts =
              r.wakeAttempts
         /\ [r EXCEPT !.recovery = v].shutdown = r.shutdown
         /\ [r EXCEPT !.recovery = v].recovery = v
         /\ [r EXCEPT !.recovery = v].shutdownAttempts = r.shutdownAttempts
         /\ [r EXCEPT !.recovery = v].wakeAttempts = r.wakeAttempts
         /\ [r EXCEPT !.recovery = v, !.present = TRUE].shutdown = r.shutdown
         /\ [r EXCEPT !.recovery = v, !.present = TRUE].recovery = v
         /\ [r EXCEPT !.recovery = v, !.present = TRUE].shutdownAttempts =
              r.shutdownAttempts
         /\ [r EXCEPT !.recovery = v, !.present = TRUE].wakeAttempts =
              r.wakeAttempts
  BY DEF HostStates

\* The same of the records written with an attempt.
LEMMA AttemptFields ==
  ASSUME NEW r \in HostStates
  PROVE  /\ r.shutdownAttempts \in Nat /\ r.wakeAttempts \in Nat
         /\ LET a == [r EXCEPT !.shutdownAttempts = @ + 1,
                               !.shutdown = "requested", !.present = TRUE]
            IN  /\ a.shutdownAttempts = r.shutdownAttempts + 1
                /\ a.wakeAttempts = r.wakeAttempts
                /\ a.shutdown = "requested" /\ a.recovery = r.recovery
         /\ LET w == [r EXCEPT !.wakeAttempts = @ + 1, !.recovery = "wol_sent"]
            IN  /\ w.shutdownAttempts = r.shutdownAttempts
                /\ w.wakeAttempts = r.wakeAttempts + 1
                /\ w.shutdown = r.shutdown /\ w.recovery = "wol_sent"
  BY DEF HostStates

\* What a snapshot writes in the record of a host, and what it leaves.
LEMMA SnapshotFields ==
  ASSUME OShape, NEW p, NEW k, NEW h \in Hosts
  PROVE  LET r == Snapshot(p, k)[h]
         IN  /\ r.shutdownAttempts = hosts[h].shutdownAttempts
             /\ r.wakeAttempts = hosts[h].wakeAttempts
             /\ h \in Snapshotted => r = hosts[h]
             /\ h \notin Snapshotted =>
                  /\ r.shutdown = IF Runtime[h].method = "none" THEN "not_required"
                                  ELSE "planned"
                  /\ r.recovery = IF \/ ~Runtime[h].wakeEnabled
                                     \/ Config[h].restorePolicy = "never"
                                  THEN "not_required" ELSE "waiting"
  <1>1. hosts[h] \in HostStates
    BY DEF OShape
  <1> QED BY <1>1 DEF Snapshot, HostStates

\* persistHost touches one record.
LEMMA Persisted ==
  ASSUME OShape, NEW h, NEW hs, PersistHost(h, hs)
  PROVE  \A g \in Hosts : hosts'[g] = IF g = h THEN hs ELSE hosts[g]
  BY DEF OShape, PersistHost

\* No attempt is written.
SameAttempts ==
  \A g \in Hosts : /\ hosts'[g].shutdownAttempts = hosts[g].shutdownAttempts
                   /\ hosts'[g].wakeAttempts = hosts[g].wakeAttempts

\* Nor is a command sent, or about to be.
SameCounts ==
  /\ SameAttempts
  /\ fleet'.sent = fleet.sent /\ fleet'.woken = fleet.woken
  /\ pc' \notin {"command", "wake"}

Counts == CommandsCounted /\ Pending

\* Such a step keeps the counts.
LEMMA CountsKept ==
  ASSUME Counts, SameCounts
  PROVE  Counts'
  BY DEF Counts, SameCounts, SameAttempts, CommandsCounted, Pending, WakeLimit, NUTGroup

\* persistHost of a record with the attempts it had.
LEMMA AttemptsKept ==
  ASSUME OShape, NEW h, NEW v
  PROVE  /\ PersistHost(h, [hosts[h] EXCEPT !.shutdown = v]) => SameAttempts
         /\ PersistHost(h, [hosts[h] EXCEPT !.shutdown = v, !.present = TRUE])
              => SameAttempts
         /\ PersistHost(h, [hosts[h] EXCEPT !.recovery = v]) => SameAttempts
  <1>1. h \in Hosts => hosts[h] \in HostStates
    BY DEF OShape
  <1>2. ASSUME NEW hs, PersistHost(h, hs),
               h \in Hosts => /\ hs.shutdownAttempts = hosts[h].shutdownAttempts
                              /\ hs.wakeAttempts = hosts[h].wakeAttempts
        PROVE  SameAttempts
    BY <1>2, Persisted DEF SameAttempts
  <1>3. PersistHost(h, [hosts[h] EXCEPT !.shutdown = v]) => SameAttempts
    BY <1>1, <1>2, WrittenFields
  <1>4. PersistHost(h, [hosts[h] EXCEPT !.shutdown = v, !.present = TRUE])
          => SameAttempts
    BY <1>1, <1>2, WrittenFields
  <1>5. PersistHost(h, [hosts[h] EXCEPT !.recovery = v]) => SameAttempts
    BY <1>1, <1>2, WrittenFields
  <1> QED BY <1>3, <1>4, <1>5

\* The actions of settleDirect that write a record and count nothing.
LEMMA UncountedWrites ==
  ASSUME OShape, NEW h
  PROVE  /\ HostFailedSafe(h) => SameCounts
         /\ RetryPending(h) => SameCounts
         /\ Settled(h) => SameCounts
  <1> USE DEF SameCounts
  <1>1. HostFailedSafe(h) => SameCounts
    BY AttemptsKept, TickEnds DEF HostFailedSafe
  <1>2. RetryPending(h) => SameCounts
    BY AttemptsKept, TickEnds DEF RetryPending
  <1>3. Settled(h) => SameCounts
    <2>1. SUFFICES ASSUME Settled(h) PROVE SameCounts
      OBVIOUS
    <2>2. SameAttempts
      BY <2>1, AttemptsKept DEF Settled
    <2>3. fleet'.sent = fleet.sent /\ fleet'.woken = fleet.woken
      BY <2>1 DEF Settled, OShape
    <2> QED BY <2>1, <2>2, <2>3 DEF Settled
  <1> QED BY <1>1, <1>2, <1>3

\* A number under the limit stays within it.
LEMMA Limits ==
  ASSUME NEW h \in Hosts
  PROVE  MaxDirect \in Nat /\ WakeLimit(h) \in Nat
  BY FleetAssumption DEF WakeLimit, HostConfigs

\* The counted attempt of a direct shutdown.
LEMMA AttemptCounts ==
  ASSUME OShape, Counts, NEW h \in PreFSD, Attempt(h)
  PROVE  Counts'
  <1>1. h \in Hosts /\ h \notin NUTGroup
    BY Fleet DEF PreFSD, Direct
  <1>2. hosts[h] \in HostStates /\ fleet.sent[h] \in Nat
    BY <1>1 DEF OShape
  <1>3. CASE hosts[h].shutdownAttempts >= MaxDirect
    BY <1>3, UncountedWrites, CountsKept DEF Attempt
  <1>4. CASE ~(hosts[h].shutdownAttempts >= MaxDirect)
    <2>1. /\ PersistHost(h, [hosts[h] EXCEPT !.shutdownAttempts = @ + 1,
                                             !.shutdown = "requested",
                                             !.present = TRUE])
          /\ pc' = "command" /\ cur' = h /\ fleet' = fleet
      BY <1>4 DEF Attempt
    <2>2. \A g \in Hosts : g # h => hosts'[g] = hosts[g]
      BY <2>1, Persisted
    <2>3. /\ hosts'[h].shutdownAttempts = hosts[h].shutdownAttempts + 1
          /\ hosts'[h].wakeAttempts = hosts[h].wakeAttempts
          /\ hosts[h].shutdownAttempts \in Nat
      <3>1. hosts'[h] = [hosts[h] EXCEPT !.shutdownAttempts = @ + 1,
                                         !.shutdown = "requested",
                                         !.present = TRUE]
        BY <1>1, <2>1, Persisted
      <3> QED BY <1>2, <3>1, AttemptFields
    <2>4. fleet.sent[h] <= hosts[h].shutdownAttempts
      BY <1>1 DEF Counts, CommandsCounted
    <2>5. /\ fleet.sent[h] < hosts'[h].shutdownAttempts
          /\ fleet.sent[h] <= hosts'[h].shutdownAttempts
          /\ hosts'[h].shutdownAttempts <= MaxDirect
      BY <1>1, <1>2, <1>4, <2>3, <2>4, Limits
    <2>6. CommandsCounted'
      BY <2>1, <2>2, <2>3, <2>5 DEF Counts, CommandsCounted, WakeLimit, NUTGroup
    <2>7. Pending'
      BY <2>1, <2>5 DEF Pending
    <2> QED BY <2>6, <2>7 DEF Counts
  <1> QED BY <1>3, <1>4

\* The counted attempt of a wake-up.
LEMMA WakeCounts ==
  ASSUME OShape, Counts, NEW h, PrepareWake(h)
  PROVE  Counts'
  <1>1. /\ PersistHost(h, [hosts[h] EXCEPT !.wakeAttempts = @ + 1,
                                           !.recovery = "wol_sent"])
        /\ pc' = "wake" /\ cur' = h /\ fleet' = fleet
        /\ hosts[h].wakeAttempts < WakeLimit(h)
    BY DEF PrepareWake
  <1>2. \A g \in Hosts : g # h => hosts'[g] = hosts[g]
    BY <1>1, Persisted
  <1>3. CASE h \notin Hosts
    BY <1>1, <1>2, <1>3 DEF Counts, CommandsCounted, WakeLimit, NUTGroup, Pending
  <1>4. CASE h \in Hosts
    <2>1. hosts[h] \in HostStates /\ fleet.woken[h] \in Nat
      BY <1>4 DEF OShape
    <2>2. /\ hosts'[h].wakeAttempts = hosts[h].wakeAttempts + 1
          /\ hosts'[h].shutdownAttempts = hosts[h].shutdownAttempts
          /\ hosts[h].wakeAttempts \in Nat
      <3>1. hosts'[h] = [hosts[h] EXCEPT !.wakeAttempts = @ + 1,
                                         !.recovery = "wol_sent"]
        BY <1>1, <1>4, Persisted
      <3> QED BY <2>1, <3>1, AttemptFields
    <2>3. fleet.woken[h] <= hosts[h].wakeAttempts
      BY <1>4 DEF Counts, CommandsCounted
    <2>4. /\ fleet.woken[h] < hosts'[h].wakeAttempts
          /\ fleet.woken[h] <= hosts'[h].wakeAttempts
          /\ hosts'[h].wakeAttempts <= WakeLimit(h)
      BY <1>1, <1>4, <2>1, <2>2, <2>3, Limits
    <2>5. CommandsCounted'
      BY <1>1, <1>2, <2>2, <2>4 DEF Counts, CommandsCounted, WakeLimit, NUTGroup
    <2>6. Pending'
      BY <1>1, <2>4 DEF Pending
    <2> QED BY <2>5, <2>6 DEF Counts
  <1> QED BY <1>3, <1>4

\* A command that is sent was counted before.
LEMMA SendCounts ==
  ASSUME OShape, Counts, SendCommand \/ SendWake
  PROVE  Counts'
  <1>1. CASE SendCommand
    <2>1. /\ fleet' = [fleet EXCEPT !.sent = [fleet.sent EXCEPT ![cur] = @ + 1]]
          /\ pc = "command" /\ pc' = "reply" /\ hosts' = hosts
      BY <1>1 DEF SendCommand, Goto
    <2>2. /\ fleet'.sent = [fleet.sent EXCEPT ![cur] = @ + 1]
          /\ fleet'.woken = fleet.woken
      BY <2>1 DEF OShape
    <2>3. ASSUME NEW h \in Hosts \ NUTGroup
          PROVE  fleet'.sent[h] <= hosts[h].shutdownAttempts
      <3>1. /\ fleet.sent \in [Hosts -> Nat] /\ fleet.sent[h] \in Nat
            /\ hosts[h].shutdownAttempts \in Nat
        BY AttemptFields DEF OShape
      <3>2. CASE h = cur
        <4>1. fleet'.sent[h] = fleet.sent[h] + 1
          BY <2>2, <3>1, <3>2
        <4>2. fleet.sent[h] < hosts[h].shutdownAttempts
          BY <2>1, <3>2 DEF Counts, Pending
        <4> QED BY <3>1, <4>1, <4>2
      <3>3. CASE h # cur
        BY <2>2, <3>1, <3>3 DEF Counts, CommandsCounted
      <3> QED BY <3>2, <3>3
    <2> QED BY <2>1, <2>2, <2>3
        DEF Counts, CommandsCounted, Pending, WakeLimit, NUTGroup
  <1>2. CASE SendWake
    <2>1. pc = "wake" /\ pc' \notin {"command", "wake"} /\ hosts' = hosts
      BY <1>2, TickEnds DEF SendWake
    <2>2. /\ fleet'.woken = [fleet.woken EXCEPT ![cur] = @ + 1]
          /\ fleet'.sent = fleet.sent
      BY <1>2 DEF SendWake, OShape
    <2>3. ASSUME NEW h \in Hosts
          PROVE  fleet'.woken[h] <= hosts[h].wakeAttempts
      <3>1. /\ fleet.woken \in [Hosts -> Nat] /\ fleet.woken[h] \in Nat
            /\ hosts[h].wakeAttempts \in Nat
        BY AttemptFields DEF OShape
      <3>2. CASE h = cur
        <4>1. fleet'.woken[h] = fleet.woken[h] + 1
          BY <2>2, <3>1, <3>2
        <4>2. fleet.woken[h] < hosts[h].wakeAttempts
          BY <2>1, <3>2 DEF Counts, Pending
        <4> QED BY <3>1, <4>1, <4>2
      <3>3. CASE h # cur
        BY <2>2, <3>1, <3>3 DEF Counts, CommandsCounted
      <3> QED BY <3>2, <3>3
    <2> QED BY <2>1, <2>2, <2>3
        DEF Counts, CommandsCounted, Pending, WakeLimit, NUTGroup
  <1> QED BY <1>1, <1>2

\* Every step counts a command before it sends it, within the limit.
LEMMA CountStep ==
  ASSUME OShape, Counts, [ONext]_ovars
  PROVE  Counts'
  <1> USE DEF Goto
  <1>1. CASE ControllerTicks
    <2>1. PICK d, s : ControllerTick(d, s)
      BY <1>1 DEF ControllerTicks
    <2>2. pc' \notin {"command", "wake"}
      BY <2>1, TickEnds DEF ControllerTick
    <2>3. fleet'.sent = fleet.sent /\ fleet'.woken = fleet.woken /\ hosts' = hosts
      BY <2>1 DEF ControllerTick, ObserveStep, OShape
    <2> QED BY <2>2, <2>3, CountsKept DEF SameCounts, SameAttempts
  <1>2. CASE SnapshotHosts
    <2>1. PICK p : hosts' = Snapshot(p, pc = "snapshot")
      BY <1>2 DEF SnapshotHosts
    <2>2. SameAttempts
      BY <2>1, SnapshotFields DEF SameAttempts
    <2>3. fleet'.sent = fleet.sent /\ fleet'.woken = fleet.woken
      BY <1>2 DEF SnapshotHosts, OShape
    <2>4. pc' \notin {"command", "wake"}
      BY <1>2, TickEnds DEF SnapshotHosts
    <2> QED BY <2>2, <2>3, <2>4, CountsKept DEF SameCounts
  <1>3. CASE BeginFreshOutage
    <2>1. /\ hosts' = [h \in Hosts |-> NoHostState] /\ pc' = "snapshot"
          /\ fleet'.sent = [h \in Hosts |-> 0] /\ fleet'.woken = [h \in Hosts |-> 0]
      BY <1>3 DEF BeginFreshOutage, NewFleet
    <2>2. \A h \in Hosts : /\ hosts'[h].shutdownAttempts = 0
                           /\ hosts'[h].wakeAttempts = 0
      BY <2>1 DEF NoHostState
    <2>3. \A h \in Hosts : 0 <= MaxDirect /\ 0 <= WakeLimit(h) /\ 0 <= 0
      BY Limits
    <2> QED BY <2>1, <2>2, <2>3 DEF Counts, CommandsCounted, Pending, WakeLimit, NUTGroup
  <1>4. CASE \/ BeginShutdownWork \/ CompleteShutdown \/ ControllerFSD
             \/ ControllerRestart \/ RequestGroupFSD \/ NothingToWake
             \/ \E h \in HandedOut : DelayWake(h) \/ RecoveryWriteFails(h)
    <2>1. pc' \notin {"command", "wake"} /\ hosts' = hosts /\ fleet' = fleet
      BY <1>4, TickEnds
      DEF BeginShutdownWork, CompleteShutdown, ControllerFSD, ControllerRestart,
          RequestGroupFSD, NothingToWake, DelayWake, RecoveryWriteFails
    <2> QED BY <2>1, CountsKept DEF SameCounts, SameAttempts
  <1>5. CASE SettleDirect
    <2>1. CASE \E h \in PreFSD : SettleFailed(h) \/ ReconcileUnknown(h)
                                 \/ ReconcileOffline(h)
      BY <2>1, UncountedWrites, CountsKept
      DEF SettleFailed, ReconcileUnknown, ReconcileOffline
    <2>2. CASE \E h \in PreFSD : SettleAttempt(h)
      BY <2>2, AttemptCounts DEF SettleAttempt
    <2>3. CASE SendCommand
      BY <2>3, SendCounts
    <2>4. CASE CommandFailed \/ VerifyDown \/ VerifyTimeout
      BY <2>4, UncountedWrites, CountsKept DEF CommandFailed, VerifyDown, VerifyTimeout
    <2>5. CASE CommandAcknowledged
      <3>1. SameAttempts
        BY <2>5, AttemptsKept DEF CommandAcknowledged
      <3>2. fleet'.sent = fleet.sent /\ fleet'.woken = fleet.woken
        BY <2>5 DEF CommandAcknowledged, OShape
      <3>3. pc' \notin {"command", "wake"}
        BY <2>5 DEF CommandAcknowledged
      <3> QED BY <3>1, <3>2, <3>3, CountsKept DEF SameCounts
    <2> QED BY <1>5, <2>1, <2>2, <2>3, <2>4, <2>5 DEF SettleDirect
  <1>6. CASE PrepareNUTGroup \/ GroupFailedSafe \/ GroupFSDFailed \/ GroupFSDAcknowledged
    <2>1. /\ pc' \notin {"command", "wake"}
          /\ fleet'.sent = fleet.sent /\ fleet'.woken = fleet.woken
      <3>1. pc' \notin {"command", "wake"}
        BY <1>6, TickEnds
        DEF PrepareNUTGroup, GroupFailedSafe, GroupFSDFailed, GroupFSDAcknowledged
      <3> QED BY <1>6, <3>1, GroupFleet DEF SettleGroup, SameButDue
    <2>2. ASSUME NEW h \in Hosts
          PROVE  \E v : hosts'[h] \in {hosts[h], [hosts[h] EXCEPT !.shutdown = v],
                            [hosts[h] EXCEPT !.shutdown = v, !.present = TRUE]}
      BY <1>6 DEF PrepareNUTGroup, GroupFailedSafe, GroupFSDFailed,
                  GroupFSDAcknowledged
    <2>3. SameAttempts
      <3>1. SUFFICES ASSUME NEW h \in Hosts
                     PROVE  /\ hosts'[h].shutdownAttempts = hosts[h].shutdownAttempts
                            /\ hosts'[h].wakeAttempts = hosts[h].wakeAttempts
        BY DEF SameAttempts
      <3>2. hosts[h] \in HostStates
        BY DEF OShape
      <3>3. PICK v : hosts'[h] \in {hosts[h], [hosts[h] EXCEPT !.shutdown = v],
                            [hosts[h] EXCEPT !.shutdown = v, !.present = TRUE]}
        BY <2>2
      <3> QED BY <3>2, <3>3 DEF HostStates
    <2> QED BY <2>1, <2>3, CountsKept DEF SameCounts
  <1>7. CASE MarkNUTRequested
    <2>1. /\ \A h \in Hosts \ NUTGroup : hosts'[h] = hosts[h]
          /\ fleet' = fleet /\ pc' \notin {"command", "wake"}
      BY <1>7, Persisted DEF MarkNUTRequested
    <2>2. \A h \in Hosts : hosts'[h].wakeAttempts = hosts[h].wakeAttempts
      <3>1. SUFFICES ASSUME NEW h \in Hosts
                     PROVE  hosts'[h].wakeAttempts = hosts[h].wakeAttempts
        OBVIOUS
      <3>2. hosts'[h] \in {hosts[h], [hosts[h] EXCEPT !.shutdownAttempts = @ + 1,
                                                     !.shutdown = "requested",
                                                     !.present = TRUE]}
        BY <1>7, Persisted DEF MarkNUTRequested
      <3>3. hosts[h] \in HostStates
        BY DEF OShape
      <3> QED BY <3>2, <3>3, AttemptFields
    <2> QED BY <2>1, <2>2 DEF Counts, CommandsCounted, Pending, WakeLimit, NUTGroup
  <1>8. CASE BlockedRecovery \/ CompleteRecovery
    <2>1. fleet'.sent = fleet.sent /\ fleet'.woken = fleet.woken
      BY <1>8 DEF BlockedRecovery, CompleteRecovery, Restored, ObserveStep, OShape
    <2>2. pc' \notin {"command", "wake"}
      BY <1>8, TickEnds DEF BlockedRecovery, CompleteRecovery
    <2>3. \A h \in Hosts :
            hosts'[h] \in {hosts[h], [hosts[h] EXCEPT !.recovery = "failed",
                                                     !.present = TRUE]}
      BY <1>8 DEF BlockedRecovery, CompleteRecovery
    <2>4. SameAttempts
      <3>1. SUFFICES ASSUME NEW h \in Hosts
                     PROVE  /\ hosts'[h].shutdownAttempts = hosts[h].shutdownAttempts
                            /\ hosts'[h].wakeAttempts = hosts[h].wakeAttempts
        BY DEF SameAttempts
      <3>2. hosts[h] \in HostStates
        BY DEF OShape
      <3> QED BY <2>3, <3>2 DEF HostStates
    <2> QED BY <2>1, <2>2, <2>4, CountsKept DEF SameCounts
  <1>9. CASE \E h \in HandedOut : RecoveredOnline(h) \/ WakeExhausted(h)
    <2>1. SameAttempts
      BY <1>9, AttemptsKept DEF RecoveredOnline, WakeExhausted
    <2>2. fleet'.sent = fleet.sent /\ fleet'.woken = fleet.woken
      BY <1>9 DEF RecoveredOnline, WakeExhausted, Restored, OShape
    <2>3. pc' \notin {"command", "wake"}
      BY <1>9, TickEnds DEF RecoveredOnline, WakeExhausted
    <2> QED BY <2>1, <2>2, <2>3, CountsKept DEF SameCounts
  <1>10. CASE SendWake \/ \E h \in HandedOut : PrepareWake(h)
    BY <1>10, SendCounts, WakeCounts
  <1>11. CASE UNCHANGED ovars
    BY <1>11 DEF ovars, local, Counts, CommandsCounted, Pending, WakeLimit, NUTGroup
  <1> QED BY <1>1, <1>2, <1>3, <1>4, <1>5, <1>6, <1>7, <1>8, <1>9, <1>10, <1>11
      DEF ONext, Running, TickContinues, SettleGroup, ExecuteRecoveryStep

-----------------------------------------------------------------------------
(* Preservation of Shown. *)

\* What the process works with differs from the configuration only in the
\* hosts it leaves out, and there only in the method and in waking.
LEMMA RuntimeFacts ==
  ASSUME NEW h \in Hosts
  PROVE  /\ DOMAIN Runtime = Hosts
         /\ h \notin excluded => Runtime[h] = Config[h]
         /\ h \in excluded => Runtime[h].method = "none" /\ ~Runtime[h].wakeEnabled
         /\ Runtime[h].restorePolicy = Config[h].restorePolicy
  <1>1. Config[h] \in HostConfigs(Hosts) /\ DOMAIN Config = Hosts
    BY Fleet
  <1> QED BY <1>1 DEF Runtime, HostConfigs

Marked == {"mark", "groupFSD", "groupReply", "complete"}

\* What a step that does not commit may write: a host is recorded down, or
\* back, only together with the fleet showing it since the commit.
ShownKeeping ==
  /\ st.committed => st'.committed
  /\ fleet.settled \subseteq fleet'.settled
  /\ fleet.restored \subseteq fleet'.restored
  /\ fleet'.exempt = fleet.exempt
  /\ \A h \in Direct :
       /\ hosts'[h].shutdown = "completed" =>
            \/ hosts[h].shutdown = "completed"
            \/ st'.committed /\ h \in fleet'.settled
       /\ hosts'[h].shutdown = "not_required" => hosts[h].shutdown = "not_required"
  /\ \A h \in Hosts :
       /\ hosts'[h].recovery \in {"online", "failed"} =>
            \/ hosts[h].recovery \in {"online", "failed"}
            \/ st'.committed /\ h \in fleet'.restored
       /\ hosts'[h].recovery = "not_required" => hosts[h].recovery = "not_required"
  /\ done' \cap Direct \subseteq done \cup fleet'.settled

\* Such a step keeps Shown.
LEMMA ShownKept ==
  ASSUME fleet.fresh, Shown, ShownKeeping, pc' \in Marked => AllDirectSettled'
  PROVE  ShutdownShown' /\ RecoveryShown'
  <1>1. ShutdownShown /\ RecoveryShown
    BY DEF Shown
  <1>2. ShutdownShown'
    BY <1>1 DEF ShownKeeping, ShutdownShown, Marked, Direct
  <1>3. RecoveryShown'
    BY <1>1 DEF ShownKeeping, RecoveryShown
  <1> QED BY <1>2, <1>3

\* The records a snapshot writes say nothing was shown, and a host it leaves
\* out is exempt.
LEMMA SnapshotShown ==
  ASSUME OShape, Phases, Shown, fleet'.fresh, SnapshotHosts
  PROVE  ShutdownShown' /\ RecoveryShown'
  <1>1. PICK p : hosts' = Snapshot(p, pc = "snapshot")
    BY DEF SnapshotHosts
  <1>2. /\ st' = st /\ fleet'.settled = fleet.settled
        /\ fleet'.restored = fleet.restored /\ fleet'.fresh = fleet.fresh
        /\ fleet'.exempt = (fleet.exempt \cap Snapshotted)
                             \cup (excluded \ Snapshotted)
    BY DEF SnapshotHosts, EngineIdle, vars, OShape
  <1>3. pc' \notin Marked /\ done' = {}
    BY TickEnds DEF SnapshotHosts, Goto, Marked, Phases, ShutdownPlaces
  <1>4. ShutdownShown /\ RecoveryShown
    BY <1>2 DEF Shown
  <1>5. ASSUME NEW h \in Direct
        PROVE  /\ hosts'[h].shutdown = "completed" =>
                    st'.committed /\ h \in fleet'.settled
               /\ hosts'[h].shutdown = "not_required" => h \in fleet'.exempt
    <2>1. h \in Hosts /\ Config[h].method # "none"
      BY Fleet DEF Direct, DirectHosts
    <2>2. CASE h \in Snapshotted
      BY <1>1, <1>2, <1>4, <2>1, <2>2, SnapshotFields DEF ShutdownShown
    <2>3. CASE h \notin Snapshotted
      BY <1>1, <1>2, <2>1, <2>3, SnapshotFields, RuntimeFacts
    <2> QED BY <2>2, <2>3
  <1>6. ASSUME NEW h \in Hosts
        PROVE  /\ hosts'[h].recovery \in {"online", "failed"} =>
                    st'.committed /\ h \in fleet'.restored
               /\ /\ hosts'[h].recovery = "not_required"
                  /\ Config[h].wakeEnabled /\ Config[h].restorePolicy # "never"
                  => h \in fleet'.exempt
    <2>1. CASE h \in Snapshotted
      BY <1>1, <1>2, <1>4, <2>1, SnapshotFields DEF RecoveryShown
    <2>2. CASE h \notin Snapshotted
      BY <1>1, <1>2, <2>2, SnapshotFields, RuntimeFacts
    <2> QED BY <2>1, <2>2
  <1>7. ShutdownShown'
    BY <1>3, <1>5 DEF ShutdownShown, Marked, Direct
  <1>8. RecoveryShown'
    BY <1>6 DEF RecoveryShown
  <1> QED BY <1>7, <1>8

\* A tick that commits starts the showing anew, and nothing was shown before;
\* any other tick keeps what was shown.
LEMMA TickShown ==
  ASSUME IInv, OShape, Phases, Shown, fleet'.fresh, ControllerTicks
  PROVE  ShutdownShown' /\ RecoveryShown'
  <1>1. PICK d, s : ControllerTick(d, s)
    BY DEF ControllerTicks
  <1>2. StepPromise(s)
    BY <1>1, StepPromised DEF ControllerTick, Tick
  <1>3. hosts' = hosts /\ pc = "idle" /\ done = {}
    BY <1>1 DEF ControllerTick, Phases, ShutdownPlaces
  <1>4. pc' \notin Marked /\ done' = {}
    BY <1>1, <1>3, TickEnds DEF ControllerTick, Marked
  <1>5. PICK age : fleet' = ObserveStep([fleet EXCEPT !.wokenAge = age])
    BY <1>1 DEF ControllerTick
  <1> DEFINE aged == [fleet EXCEPT !.wokenAge = age]
  <1>6. /\ fleet' = ObserveStep(aged) /\ DOMAIN aged = DOMAIN fleet
        /\ aged.settled = fleet.settled /\ aged.restored = fleet.restored
        /\ aged.exempt = fleet.exempt /\ aged.fresh = fleet.fresh
    BY <1>5 DEF OShape
  <1> HIDE DEF aged
  <1>7. fleet.fresh /\ fleet'.exempt = fleet.exempt
    BY <1>6 DEF ObserveStep, OShape
  <1>8. CASE Commit
    BY <1>3, <1>4, <1>7, <1>8
    DEF Shown, ShutdownShown, RecoveryShown, Commit, Marked, Direct
  <1>9. CASE ~Commit
    <2>1. fleet'.settled = fleet.settled /\ fleet'.restored = fleet.restored
      BY <1>6, <1>9 DEF ObserveStep, OShape
    <2>2. ShownKeeping
      BY <1>2, <1>3, <1>4, <1>7, <2>1 DEF ShownKeeping, StepPromise
    <2> QED BY <1>4, <1>7, <2>2, ShownKept
  <1> QED BY <1>8, <1>9

\* During a shutdown or a restoration the transaction is committed.
LEMMA PhaseCommitted ==
  ASSUME IInv, st.power \in {"SHUTDOWN_IN_PROGRESS", "RESTORE_HOSTS"}
  PROVE  st.committed
  BY CommitAgrees DEF Consistent, CommittedPhases

\* The calls of the orchestrator on the coordinator keep the commit.
LEMMA CallsKeepCommit ==
  ASSUME IInv,
         EngineIdle \/ BeginShutdown \/ MarkShutdownPhaseComplete \/ ShutdownFailedSafe
  PROVE  st.committed => st'.committed
  <1>1. st \in State
    BY DEF IInv, TypeOK
  <1> QED BY <1>1
      DEF EngineIdle, vars, BeginShutdown, MarkShutdownPhaseComplete,
          ShutdownFailedSafe, Persist, State

\* A record written for one host, when the fleet did not change.
LEMMA WriteShown ==
  ASSUME IInv, OShape, NEW h, NEW hs, PersistHost(h, hs), fleet' = fleet,
         h \in Hosts =>
           /\ \/ hs.shutdown \notin {"completed", "not_required"}
              \/ hs.shutdown = hosts[h].shutdown
           /\ \/ hs.recovery \notin {"online", "failed", "not_required"}
              \/ hs.recovery = hosts[h].recovery,
         done' \cap Direct \subseteq done, st.committed => st'.committed
  PROVE  ShownKeeping
  BY Persisted, Fleet DEF ShownKeeping

\* The actions of settleDirect that do not settle the host.
LEMMA UnsettledShown ==
  ASSUME IInv, OShape, NEW h
  PROVE  /\ HostFailedSafe(h) => ShownKeeping
         /\ RetryPending(h) => ShownKeeping
         /\ Attempt(h) => ShownKeeping
  <1>1. h \in Hosts => hosts[h] \in HostStates
    BY DEF OShape
  <1>2. ASSUME HostFailedSafe(h)
        PROVE  ShownKeeping
    <2> DEFINE hs == [hosts[h] EXCEPT !.shutdown = "failed", !.present = TRUE]
    <2>1. /\ PersistHost(h, hs) /\ fleet' = fleet /\ done' = {}
          /\ st.committed => st'.committed
      BY <1>2, TickEnds, CallsKeepCommit DEF HostFailedSafe
    <2>2. h \in Hosts => hs.shutdown = "failed" /\ hs.recovery = hosts[h].recovery
      BY <1>1, WrittenFields
    <2> HIDE DEF hs
    <2> QED BY <2>1, <2>2, WriteShown
  <1>3. ASSUME RetryPending(h)
        PROVE  ShownKeeping
    <2> DEFINE hs == [hosts[h] EXCEPT !.shutdown = "unknown"]
    <2>1. /\ PersistHost(h, hs) /\ fleet' = fleet /\ done' = {}
          /\ st.committed => st'.committed
      BY <1>3, TickEnds, CallsKeepCommit DEF RetryPending
    <2>2. h \in Hosts => hs.shutdown = "unknown" /\ hs.recovery = hosts[h].recovery
      BY <1>1, WrittenFields
    <2> HIDE DEF hs
    <2> QED BY <2>1, <2>2, WriteShown
  <1>4. ASSUME Attempt(h)
        PROVE  ShownKeeping
    <2> DEFINE hs == [hosts[h] EXCEPT !.shutdownAttempts = @ + 1,
                                      !.shutdown = "requested", !.present = TRUE]
    <2>1. CASE hosts[h].shutdownAttempts >= MaxDirect
      BY <1>2, <1>4, <2>1 DEF Attempt
    <2>2. CASE ~(hosts[h].shutdownAttempts >= MaxDirect)
      <3>1. /\ PersistHost(h, hs) /\ fleet' = fleet /\ done' = done
            /\ st.committed => st'.committed
        BY <1>4, <2>2, CallsKeepCommit DEF Attempt
      <3>2. h \in Hosts => hs.shutdown = "requested" /\ hs.recovery = hosts[h].recovery
        BY <1>1, AttemptFields
      <3> HIDE DEF hs
      <3> QED BY <3>1, <3>2, WriteShown
    <2> QED BY <2>1, <2>2
  <1> QED BY <1>2, <1>3, <1>4

\* A host recorded down was seen down.
LEMMA SettledShown ==
  ASSUME IInv, OShape, NEW h, Settled(h), st.power = "SHUTDOWN_IN_PROGRESS"
  PROVE  ShownKeeping
  <1>1. h \in Hosts => hosts[h] \in HostStates
    BY DEF OShape
  <1>2. st.committed /\ st' = st
    BY PhaseCommitted DEF Settled, EngineIdle, vars
  <1>3. /\ fleet'.settled = fleet.settled \cup {h}
        /\ fleet'.restored = fleet.restored /\ fleet'.exempt = fleet.exempt
        /\ done' = done
    BY DEF Settled, OShape
  <1> DEFINE hs == [hosts[h] EXCEPT !.shutdown = "completed"]
  <1>4. PersistHost(h, hs)
    BY DEF Settled
  <1>5. h \in Hosts => hs.shutdown = "completed" /\ hs.recovery = hosts[h].recovery
    BY <1>1, WrittenFields
  <1> HIDE DEF hs
  <1> QED BY <1>2, <1>3, <1>4, <1>5, Persisted, Fleet DEF ShownKeeping

\* A host recorded online or given up is restored.
LEMMA RestoredShown ==
  ASSUME IInv, OShape, st.power = "RESTORE_HOSTS",
         BlockedRecovery \/ \E h \in HandedOut : RecoveredOnline(h) \/ WakeExhausted(h)
  PROVE  ShownKeeping
  <1>1. st.committed /\ st' = st
    BY PhaseCommitted
    DEF BlockedRecovery, RecoveredOnline, WakeExhausted, EngineIdle, vars
  <1>2. PICK S : Restored(S) /\ \A h \in Hosts :
          \/ hosts'[h] = hosts[h]
          \/ h \in S /\ hosts'[h] \in {[hosts[h] EXCEPT !.recovery = "online"],
                                       [hosts[h] EXCEPT !.recovery = "failed"],
                                       [hosts[h] EXCEPT !.recovery = "failed",
                                                        !.present = TRUE]}
    <2>1. CASE BlockedRecovery
      BY <2>1 DEF BlockedRecovery
    <2>2. CASE \E h \in HandedOut : RecoveredOnline(h) \/ WakeExhausted(h)
      <3>1. PICK g \in HandedOut : RecoveredOnline(g) \/ WakeExhausted(g)
        BY <2>2
      <3>2. Restored({g})
        BY <3>1 DEF RecoveredOnline, WakeExhausted
      <3>3. \A h \in Hosts : \/ hosts'[h] = hosts[h]
                             \/ /\ h \in {g}
                                /\ hosts'[h] \in {[hosts[h] EXCEPT !.recovery = "online"],
                                       [hosts[h] EXCEPT !.recovery = "failed"],
                                       [hosts[h] EXCEPT !.recovery = "failed",
                                                        !.present = TRUE]}
        BY <3>1, Persisted DEF RecoveredOnline, WakeExhausted
      <3> QED BY <3>2, <3>3
    <2> QED BY <2>1, <2>2
  <1>3. /\ fleet'.restored = fleet.restored \cup S
        /\ fleet'.settled = fleet.settled /\ fleet'.exempt = fleet.exempt
    BY <1>2 DEF Restored, OShape
  <1>4. ASSUME NEW h \in Hosts
        PROVE  /\ hosts'[h].shutdown = hosts[h].shutdown
               /\ \/ hosts'[h].recovery = hosts[h].recovery
                  \/ h \in S /\ hosts'[h].recovery \in {"online", "failed"}
    <2>1. hosts[h] \in HostStates
      BY DEF OShape
    <2>2. CASE hosts'[h] = hosts[h]
      BY <2>2
    <2>3. CASE h \in S /\ hosts'[h] = [hosts[h] EXCEPT !.recovery = "online"]
      BY <2>1, <2>3, WrittenFields
    <2>4. CASE h \in S /\ hosts'[h] = [hosts[h] EXCEPT !.recovery = "failed"]
      BY <2>1, <2>4, WrittenFields
    <2>5. CASE h \in S /\ hosts'[h] = [hosts[h] EXCEPT !.recovery = "failed",
                                                     !.present = TRUE]
      BY <2>1, <2>5, WrittenFields
    <2> QED BY <1>2, <2>2, <2>3, <2>4, <2>5
  <1>5. done' \subseteq done
    BY TickEnds DEF BlockedRecovery, Goto, RecoveredOnline, WakeExhausted
  <1> QED BY <1>1, <1>3, <1>4, <1>5, Fleet DEF ShownKeeping

\* The NUT group writes the records of its own hosts only, none of them direct.
LEMMA GroupShown ==
  ASSUME IInv, OShape,
         PrepareNUTGroup \/ GroupFailedSafe \/ MarkNUTRequested
           \/ GroupFSDFailed \/ GroupFSDAcknowledged
  PROVE  ShownKeeping
  <1>1. \A h \in Direct : hosts'[h] = hosts[h]
    BY Fleet, Persisted DEF PrepareNUTGroup, GroupFailedSafe, MarkNUTRequested,
       GroupFSDFailed, GroupFSDAcknowledged
  <1>2. ASSUME NEW h \in Hosts
        PROVE  hosts'[h].recovery = hosts[h].recovery
    <2>1. hosts[h] \in HostStates
      BY DEF OShape
    <2>2. CASE MarkNUTRequested
      <3>1. hosts'[h] \in {hosts[h], [hosts[h] EXCEPT !.shutdownAttempts = @ + 1,
                                                     !.shutdown = "requested",
                                                     !.present = TRUE]}
        BY <2>2, Persisted DEF MarkNUTRequested
      <3> QED BY <2>1, <3>1, AttemptFields
    <2>3. CASE ~MarkNUTRequested
      <3>1. PICK v : hosts'[h] \in {hosts[h], [hosts[h] EXCEPT !.shutdown = v],
                            [hosts[h] EXCEPT !.shutdown = v, !.present = TRUE]}
        BY <2>3 DEF PrepareNUTGroup, GroupFailedSafe, GroupFSDFailed,
                    GroupFSDAcknowledged
      <3> QED BY <2>1, <3>1 DEF HostStates
    <2> QED BY <2>2, <2>3
  <1>3. done' \cap Direct \subseteq done
    BY TickEnds, Fleet DEF PrepareNUTGroup, GroupFailedSafe, MarkNUTRequested,
       GroupFSDFailed, GroupFSDAcknowledged, Goto
  <1>4. SameButDue
    BY GroupFleet DEF SettleGroup
  <1>5. st.committed => st'.committed
    BY CallsKeepCommit DEF PrepareNUTGroup, GroupFailedSafe, MarkNUTRequested,
       GroupFSDFailed, GroupFSDAcknowledged
  <1> QED BY <1>1, <1>2, <1>3, <1>4, <1>5 DEF ShownKeeping, SameButDue

\* When the loop over the direct hosts has nothing left, all of them are shown.
LEMMA NothingUnsettled ==
  ASSUME fleet.fresh, Shown, Unsettled = {}
  PROVE  AllDirectSettled
  <1>1. SUFFICES ASSUME NEW h \in PreFSD
                 PROVE  h \in fleet.settled \cup fleet.exempt
    BY DEF AllDirectSettled
  <1>2. ShutdownShown /\ h \in Direct
    BY <1>1 DEF Shown, PreFSD, Direct
  <1>3. h \in done \/ hosts[h].shutdown \in {"completed", "not_required"}
    BY <1>1 DEF Unsettled
  <1> QED BY <1>2, <1>3 DEF ShutdownShown

\* Every step keeps the records of the hosts true to what was shown.
LEMMA ShownStep ==
  ASSUME IInv, OShape, Phases, Shown, [ONext]_ovars
  PROVE  Shown'
  <1>0. SUFFICES ASSUME fleet'.fresh
                 PROVE  ShutdownShown' /\ RecoveryShown'
    BY DEF Shown
  <1>1. CASE ControllerTicks
    BY <1>0, <1>1, TickShown
  <1>2. CASE SnapshotHosts
    BY <1>0, <1>2, SnapshotShown
  <1>3. CASE BeginFreshOutage
    <2>1. /\ hosts' = [h \in Hosts |-> NoHostState] /\ pc' = "snapshot"
          /\ done' = {}
      BY <1>3 DEF BeginFreshOutage, Phases, ShutdownPlaces
    <2>2. \A h \in Hosts : hosts'[h].shutdown = "" /\ hosts'[h].recovery = ""
      BY <2>1 DEF NoHostState
    <2> QED BY <2>1, <2>2, Fleet DEF ShutdownShown, RecoveryShown, Direct
  <1>4. CASE CompleteRecovery
    <2>1. st'.power = "NORMAL" /\ ~st'.committed
      BY <1>4 DEF CompleteRecovery, MarkRecoveryComplete, Persist
    <2>2. ~fleet'.fresh
      BY <1>4, <2>1 DEF CompleteRecovery, ObserveStep, Commit, OShape
    <2> QED BY <1>0, <2>2
  <1>5. CASE \/ BeginShutdownWork \/ CompleteShutdown \/ ControllerFSD
             \/ ControllerRestart \/ NothingToWake
             \/ \E h \in HandedOut : DelayWake(h) \/ RecoveryWriteFails(h)
    <2>1. /\ hosts' = hosts /\ fleet' = fleet /\ done' \subseteq done
          /\ pc' \notin Marked
      BY <1>5, TickEnds
      DEF BeginShutdownWork, CompleteShutdown, ControllerFSD, ControllerRestart,
          NothingToWake, DelayWake, RecoveryWriteFails, Goto, Marked
    <2>2. st.committed => st'.committed
      BY <1>5, CallsKeepCommit, RestartKeepsCommit
      DEF BeginShutdownWork, CompleteShutdown, ControllerFSD, ControllerRestart,
          NothingToWake, DelayWake, RecoveryWriteFails
    <2>3. ShownKeeping
      BY <2>1, <2>2 DEF ShownKeeping
    <2> QED BY <1>0, <2>1, <2>3, ShownKept
  <1>6. CASE SettleDirect
    <2>1. ShownKeeping /\ pc' \notin Marked /\ fleet'.fresh = fleet.fresh
      <3>1. CASE \E h \in PreFSD : SettleFailed(h) \/ ReconcileUnknown(h)
                                   \/ SettleAttempt(h)
        BY <3>1, UnsettledShown, TickEnds
        DEF SettleFailed, ReconcileUnknown, SettleAttempt, HostFailedSafe,
            RetryPending, Attempt, Marked
      <3>2. CASE VerifyDown \/ \E h \in PreFSD : ReconcileOffline(h)
        <4>1. st.power = "SHUTDOWN_IN_PROGRESS"
          BY <3>2 DEF VerifyDown, ReconcileOffline, Settling, Phases, ShutdownPlaces
        <4>2. PICK h : Settled(h)
          BY <3>2 DEF VerifyDown, ReconcileOffline
        <4> QED BY <4>1, <4>2, SettledShown DEF Settled, OShape, Marked
      <3>3. CASE SendCommand
        <4>1. /\ hosts' = hosts /\ st' = st /\ done' = done /\ pc' = "reply"
              /\ fleet'.settled = fleet.settled /\ fleet'.restored = fleet.restored
              /\ fleet'.exempt = fleet.exempt /\ fleet'.fresh = fleet.fresh
          BY <3>3 DEF SendCommand, Goto, EngineIdle, vars, OShape
        <4> QED BY <4>1 DEF ShownKeeping, Marked
      <3>4. CASE CommandFailed \/ VerifyTimeout
        BY <3>4, UnsettledShown, TickEnds
        DEF CommandFailed, VerifyTimeout, HostFailedSafe, RetryPending, Marked
      <3>5. CASE CommandAcknowledged
        <4> DEFINE hs == [hosts[cur] EXCEPT !.shutdown = "acknowledged"]
        <4>1. /\ PersistHost(cur, hs) /\ st' = st /\ pc' \notin Marked
              /\ done' \subseteq done \cup fleet'.settled
              /\ fleet.settled \subseteq fleet'.settled
              /\ fleet'.restored = fleet.restored
              /\ fleet'.exempt = fleet.exempt /\ fleet'.fresh = fleet.fresh
          BY <3>5 DEF CommandAcknowledged, Goto, EngineIdle, vars, OShape, Marked
        <4>2. cur \in Hosts => /\ hs.shutdown = "acknowledged"
                               /\ hs.recovery = hosts[cur].recovery
          BY WrittenFields DEF OShape
        <4> HIDE DEF hs
        <4> QED BY <4>1, <4>2, Persisted, Fleet DEF ShownKeeping
      <3> QED BY <1>6, <3>1, <3>2, <3>3, <3>4, <3>5 DEF SettleDirect
    <2> QED BY <1>0, <2>1, ShownKept
  <1>7. CASE SettleGroup /\ UNCHANGED excluded
    <2>1. ShownKeeping /\ SameButDue
      <3>0. SameButDue
        BY <1>7, GroupFleet
      <3>1. CASE RequestGroupFSD
        BY <3>0, <3>1 DEF RequestGroupFSD, Goto, EngineIdle, vars, ShownKeeping,
                          SameButDue
      <3>2. CASE ~RequestGroupFSD
        BY <1>7, <3>0, <3>2, GroupShown DEF SettleGroup
      <3> QED BY <3>1, <3>2
    <2>2. pc' \in Marked => Unsettled = {} \/ pc \in Marked
      BY <1>7, TickEnds
      DEF SettleGroup, PrepareNUTGroup, GroupFailedSafe, MarkNUTRequested,
          RequestGroupFSD, GroupFSDFailed, GroupFSDAcknowledged, Goto, Marked
    <2>3. pc' \in Marked => AllDirectSettled
      BY <1>0, <2>1, <2>2, NothingUnsettled
      DEF Shown, ShutdownShown, Marked, SameButDue
    <2>4. AllDirectSettled' <=> AllDirectSettled
      BY <1>7, <2>1 DEF AllDirectSettled, PreFSD, SameButDue
    <2> QED BY <1>0, <2>1, <2>3, <2>4, ShownKept DEF SameButDue
  <1>8. CASE BlockedRecovery \/ \E h \in HandedOut : RecoveredOnline(h) \/ WakeExhausted(h)
    <2>1. st.power = "RESTORE_HOSTS"
      BY <1>8 DEF BlockedRecovery, RecoveredOnline, WakeExhausted, WakeDue,
         Recovering, Phases, RecoveryPlaces
    <2>2. pc' \notin Marked /\ fleet'.fresh = fleet.fresh
      BY <1>8, TickEnds DEF BlockedRecovery, RecoveredOnline, WakeExhausted,
         Restored, Goto, Marked, OShape
    <2> QED BY <1>0, <1>8, <2>1, <2>2, RestoredShown, ShownKept
  <1>9. CASE \E h \in HandedOut : PrepareWake(h)
    <2>1. PICK h \in HandedOut : PrepareWake(h)
      BY <1>9
    <2> DEFINE hs == [hosts[h] EXCEPT !.wakeAttempts = @ + 1, !.recovery = "wol_sent"]
    <2>2. PersistHost(h, hs) /\ fleet' = fleet /\ done' = done /\ pc' = "wake" /\ st' = st
      BY <2>1 DEF PrepareWake, EngineIdle, vars
    <2>3. h \in Hosts => hs.shutdown = hosts[h].shutdown /\ hs.recovery = "wol_sent"
      BY AttemptFields DEF OShape
    <2> HIDE DEF hs
    <2>4. ShownKeeping
      BY <2>2, <2>3, WriteShown
    <2> QED BY <1>0, <2>2, <2>4, ShownKept DEF Marked
  <1>10. CASE SendWake
    <2>1. /\ hosts' = hosts /\ st' = st /\ done' = {} /\ pc' \notin Marked
          /\ fleet'.settled = fleet.settled /\ fleet'.restored = fleet.restored
          /\ fleet'.exempt = fleet.exempt /\ fleet'.fresh = fleet.fresh
      BY <1>10, TickEnds DEF SendWake, EngineIdle, vars, OShape, Marked
    <2>2. ShownKeeping
      BY <2>1 DEF ShownKeeping
    <2> QED BY <1>0, <2>1, <2>2, ShownKept
  <1>11. CASE UNCHANGED ovars
    BY <1>0, <1>11 DEF ovars, local, vars, Shown, ShutdownShown, RecoveryShown,
       AllDirectSettled, PreFSD, Direct
  <1> QED BY <1>1, <1>2, <1>3, <1>4, <1>5, <1>6, <1>7, <1>8, <1>9, <1>10, <1>11
      DEF ONext, Running, TickContinues, ExecuteRecoveryStep

-----------------------------------------------------------------------------
(* The theorems. *)

\* A first start.
LEMMA OInitInv ==
  ASSUME OInit
  PROVE  OInv
  <1>1. IInv
    BY InitInv DEF OInit
  <1>2. /\ hosts = [h \in Hosts |-> NoHostState] /\ fleet = NewFleet
        /\ pc = "idle" /\ done = {}
    BY DEF OInit
  <1>3. OShape /\ Phases /\ Pending
    BY <1>2 DEF OShape, NewFleet, NoHostState, HostStates, Phases, Pending,
       ShutdownPlaces, RecoveryPlaces
  <1>4. Shown
    BY <1>2 DEF Shown, NewFleet
  <1>5. \A h \in Hosts : /\ hosts[h].shutdownAttempts = 0 /\ fleet.sent[h] = 0
                         /\ hosts[h].wakeAttempts = 0 /\ fleet.woken[h] = 0
    BY <1>2 DEF NewFleet, NoHostState
  <1>6. \A h \in Hosts : 0 <= MaxDirect /\ 0 <= WakeLimit(h) /\ 0 <= 0
    BY Limits
  <1>7. CommandsCounted
    BY <1>5, <1>6 DEF CommandsCounted
  <1> QED BY <1>1, <1>3, <1>4, <1>7 DEF OInv

\* OInv is inductive.
LEMMA ONextInv ==
  ASSUME OInv, [ONext]_ovars
  PROVE  OInv'
  <1>1. IInv'
    BY StepImplements, NextInv DEF OInv
  <1>2. OShape' /\ Phases' /\ Shown'
    BY ShapeStep, PhasesStep, ShownStep DEF OInv
  <1>3. Counts'
    BY CountStep DEF OInv, Counts
  <1> QED BY <1>1, <1>2, <1>3 DEF OInv, Counts

\* The invariant of the orchestrator holds in every reachable state, for every
\* fleet, policy, probe result and exclusion.
THEOREM OrchestratorInvariance == OSpec => []OInv
  BY OInitInv, ONextInv, PTL DEF OSpec

\* Which step ends the shutdown, ends the restoration, and comes to the FSD.
LEMMA PhaseEnds ==
  ASSUME OInv, [ONext]_ovars
  PROVE  /\ st.power = "SHUTDOWN_IN_PROGRESS" /\ st'.power = "WAITING_FOR_AC"
              => CompleteShutdown
         /\ st.power = "RESTORE_HOSTS" /\ st'.power = "NORMAL" => CompleteRecovery
         /\ pc' = "groupFSD" => pc \in {"mark", "groupFSD"}
  <1> DEFINE Keeps == /\ st.power = "SHUTDOWN_IN_PROGRESS" =>
                           st'.power # "WAITING_FOR_AC"
                      /\ st.power = "RESTORE_HOSTS" => st'.power # "NORMAL"
  <1>0. st \in State
    BY DEF OInv, IInv, TypeOK
  <1>1. EngineIdle => Keeps
    BY DEF EngineIdle, vars
  <1>2. ShutdownFailedSafe \/ BeginShutdown \/ FreshOutage => Keeps
    BY <1>0 DEF ShutdownFailedSafe, BeginShutdown, FreshOutage, Persist, State
  <1>3. CASE ControllerTicks
    <2>1. PICK d, s : ControllerTick(d, s)
      BY <1>3 DEF ControllerTicks
    <2>2. StepPromise(s)
      BY <2>1, StepPromised DEF ControllerTick, Tick, OInv
    <2>3. pc' # "groupFSD"
      BY <2>1, TickEnds DEF ControllerTick
    <2> QED BY <2>2, <2>3 DEF StepPromise
  <1>4. CASE SnapshotHosts \/ BeginFreshOutage \/ BeginShutdownWork \/ ControllerFSD
    <2>1. Keeps
      BY <1>1, <1>2, <1>4 DEF SnapshotHosts, BeginFreshOutage, BeginShutdownWork,
         ControllerFSD
    <2>2. pc' # "groupFSD"
      BY <1>4, TickEnds DEF SnapshotHosts, BeginFreshOutage, BeginShutdownWork,
         ControllerFSD, Goto
    <2> QED BY <2>1, <2>2
  <1>5. CASE SettleDirect
    <2>1. Keeps
      BY <1>1, <1>2, <1>5
      DEF SettleDirect, SettleFailed, ReconcileUnknown, ReconcileOffline,
          SettleAttempt, Attempt, Settled, SendCommand, CommandFailed,
          CommandAcknowledged, VerifyDown, VerifyTimeout, HostFailedSafe, RetryPending
    <2>2. pc' # "groupFSD"
      BY <1>5, TickEnds
      DEF SettleDirect, SettleFailed, ReconcileUnknown, ReconcileOffline,
          SettleAttempt, Attempt, Settled, SendCommand, CommandFailed, Goto,
          CommandAcknowledged, VerifyDown, VerifyTimeout, HostFailedSafe, RetryPending
    <2> QED BY <2>1, <2>2
  <1>6. CASE SettleGroup
    <2>1. Keeps
      BY <1>1, <1>2, <1>6
      DEF SettleGroup, PrepareNUTGroup, GroupFailedSafe, MarkNUTRequested,
          RequestGroupFSD, GroupFSDFailed, GroupFSDAcknowledged
    <2>2. pc' = "groupFSD" => pc = "mark"
      BY <1>6, TickEnds
      DEF SettleGroup, PrepareNUTGroup, GroupFailedSafe, MarkNUTRequested,
          RequestGroupFSD, GroupFSDFailed, GroupFSDAcknowledged, Goto
    <2> QED BY <2>1, <2>2
  <1>7. CASE ExecuteRecoveryStep /\ ~CompleteRecovery
    <2>1. Keeps
      BY <1>1, <1>7
      DEF ExecuteRecoveryStep, BlockedRecovery, SendWake, NothingToWake, DelayWake,
          RecoveredOnline, WakeExhausted, PrepareWake, RecoveryWriteFails
    <2>2. pc' # "groupFSD"
      BY <1>7, TickEnds
      DEF ExecuteRecoveryStep, BlockedRecovery, SendWake, NothingToWake, DelayWake,
          RecoveredOnline, WakeExhausted, PrepareWake, RecoveryWriteFails, Goto
    <2> QED BY <2>1, <2>2
  <1>8. CASE CompleteShutdown
    <2>1. st.power # "RESTORE_HOSTS" /\ pc' # "groupFSD"
      BY <1>8, TickEnds DEF CompleteShutdown, MarkShutdownPhaseComplete
    <2> QED BY <1>8, <2>1
  <1>9. CASE CompleteRecovery
    <2>1. st.power = "RESTORE_HOSTS" /\ pc' # "groupFSD"
      BY <1>9, TickEnds DEF CompleteRecovery, MarkRecoveryComplete
    <2> QED BY <1>9, <2>1
  <1>10. CASE ControllerRestart
    BY <1>10, RestartKeepsCommit DEF ControllerRestart, OInv
  <1>11. CASE UNCHANGED ovars
    BY <1>11 DEF ovars, local, vars
  <1> QED BY <1>3, <1>4, <1>5, <1>6, <1>7, <1>8, <1>9, <1>10, <1>11
      DEF ONext, Running, TickContinues

\* However often the agent dies, no command is uncounted or over its limit,
\* and none is sent outside its durable phase: for every fleet and policy.
THEOREM IntentIsDurableFirst == OSpec => []IntentBeforeEffect
  <1>1. OInv => IntentBeforeEffect
    <2>1. SUFFICES ASSUME OInv
                   PROVE  EffectsInPhase
      BY DEF OInv, IntentBeforeEffect
    <2>2. CASE pc \in {"command", "groupFSD"}
      <3>1. st.power = "SHUTDOWN_IN_PROGRESS"
        BY <2>1, <2>2 DEF OInv, Phases, ShutdownPlaces
      <3>2. st = disk /\ st.committed
        BY <2>1, <3>1, CommitAgrees, PhaseCommitted DEF OInv
      <3> QED BY <2>2, <3>1, <3>2 DEF EffectsInPhase
    <2>3. CASE pc = "wake"
      <3>1. st.power = "RESTORE_HOSTS" /\ SafeToRestore(in)
        BY <2>1, <2>3 DEF OInv, Phases, RecoveryPlaces
      <3>2. st = disk /\ st.recovery
        BY <2>1, <3>1, CommitAgrees DEF OInv, Consistent
      <3> QED BY <2>3, <3>1, <3>2 DEF EffectsInPhase, SafeToRestore
    <2> QED BY <2>2, <2>3 DEF EffectsInPhase
  <1> QED BY <1>1, OrchestratorInvariance, PTL

\* The NUT group is forced down, and the shutdown phase ended, only after every
\* direct host was shown down or acknowledged: for every fleet and policy.
THEOREM DirectHostsComeFirst == OSpec => DirectHostsFirst
  <1>1. ASSUME OInv, [ONext]_ovars, fleet.fresh,
               \/ pc' = "groupFSD"
               \/ st.power = "SHUTDOWN_IN_PROGRESS" /\ st'.power = "WAITING_FOR_AC"
        PROVE  AllDirectSettled
    <2>1. ShutdownShown /\ Shown
      BY <1>1 DEF OInv, Shown
    <2>2. pc \in {"mark", "groupFSD", "complete"} \/ Unsettled = {}
      BY <1>1, PhaseEnds DEF CompleteShutdown
    <2>3. CASE pc \in {"mark", "groupFSD", "complete"}
      BY <2>1, <2>3 DEF ShutdownShown
    <2>4. CASE Unsettled = {}
      BY <1>1, <2>1, <2>4, NothingUnsettled
    <2> QED BY <2>2, <2>3, <2>4
  <1>2. OInv /\ [ONext]_ovars =>
          [/\ \/ pc' = "groupFSD"
              \/ st.power = "SHUTDOWN_IN_PROGRESS" /\ st'.power = "WAITING_FOR_AC"
           /\ fleet.fresh
           => AllDirectSettled]_ovars
    BY <1>1
  <1> QED BY <1>2, OrchestratorInvariance, PTL DEF OSpec, DirectHostsFirst

\* Restoration is declared complete only when every host owed a wake-up was
\* seen online, given up or exempt: for every fleet and policy.
THEOREM RestorationIsComplete == OSpec => RestorationComplete
  <1>1. ASSUME OInv, [ONext]_ovars, fleet.fresh,
               st.power = "RESTORE_HOSTS" /\ st'.power = "NORMAL",
               NEW h \in Eligible(Runtime, hosts)
        PROVE  h \in fleet.restored \cup fleet.exempt
    <2>1. RecoveryShown
      BY <1>1 DEF OInv, Shown
    <2>2. hosts[h].recovery \in {"online", "failed", "not_required"}
      BY <1>1, PhaseEnds DEF CompleteRecovery, recoverySettled
    <2>3. h \in Hosts
      <3>1. DOMAIN Runtime = Hosts
        BY Fleet DEF Runtime
      <3> QED BY <1>1, <3>1 DEF Eligible
    <2>4. EligibleForRestore(Runtime[h], hosts[h])
      BY <1>1 DEF Eligible
    <2>5. Config[h].wakeEnabled /\ Config[h].restorePolicy # "never"
      BY <2>3, <2>4, RuntimeFacts DEF EligibleForRestore
    <2> QED BY <2>1, <2>2, <2>3, <2>5 DEF RecoveryShown
  <1>2. OInv /\ [ONext]_ovars =>
          [/\ st.power = "RESTORE_HOSTS" /\ st'.power = "NORMAL" /\ fleet.fresh
           => Eligible(Runtime, hosts) \subseteq fleet.restored \cup fleet.exempt]_ovars
    BY <1>1
  <1> QED BY <1>2, OrchestratorInvariance, PTL DEF OSpec, RestorationComplete

-----------------------------------------------------------------------------
(* The spacing of wake-ups. *)

VolatileFields == {"nutWait", "fsdDone", "fsdAttempts", "fsdWait", "wakeAge",
                   "lastWake", "resumeEvaluated"}

\* What the process remembers of the last wake-up, and what really happened:
\* it never believes the last packet to be older than it is by more than the
\* lag of a packet behind the start of its tick.
Remembered ==
  fleet.lastWoken # NoHost /\ vol.resumeEvaluated =>
    /\ vol.wakeAge # Unset /\ vol.wakeAge <= fleet.wokenAge + PacketLag
    /\ vol.lastWake \in {fleet.lastWoken, Resume}

WakePending ==
  pc = "wake" => /\ cur \in Hosts /\ vol.resumeEvaluated
                 /\ fleet.lastWoken \notin {NoHost, cur} =>
                      fleet.wokenAge + PacketLag >= Config[cur].wakeDelay

Spacing ==
  /\ DOMAIN vol = VolatileFields
  /\ vol.wakeAge \in Unset .. MaxAge /\ fleet.wokenAge \in -PacketLag .. MaxAge
  /\ fleet.lastWoken # NoHost => /\ fleet.lastWoken \in Hosts
                                 /\ fleet.woken[fleet.lastWoken] > 0
  /\ Remembered
  /\ WakePending

SpacedInv == EveryWakeDelayed => Spacing

\* Nothing that the spacing is about changes.
SameSpacing ==
  /\ DOMAIN vol' = DOMAIN vol
  /\ vol'.wakeAge = vol.wakeAge /\ vol'.lastWake = vol.lastWake
  /\ vol'.resumeEvaluated = vol.resumeEvaluated
  /\ fleet'.lastWoken = fleet.lastWoken /\ fleet'.wokenAge = fleet.wokenAge
  /\ fleet'.woken = fleet.woken
  /\ pc' # "wake"

\* Such a step keeps the spacing.
LEMMA SpacingKept ==
  ASSUME Spacing, SameSpacing
  PROVE  Spacing'
  BY DEF Spacing, SameSpacing, Remembered, WakePending

\* A host handed out is a host that is woken, and so has a delay.
LEMMA HandedOutHost ==
  ASSUME EveryWakeDelayed, NEW h \in HandedOut
  PROVE  h \in Hosts /\ Config[h].wakeDelay \in Nat /\ Config[h].wakeDelay > 0
  <1>1. h \in Eligible(Runtime, hosts)
    BY HandedOutWakeable DEF HandedOut, Wakeable
  <1>2. h \in Hosts
    <2>1. DOMAIN Runtime = Hosts
      BY Fleet DEF Runtime
    <2> QED BY <1>1, <2>1 DEF Eligible
  <1>3. Runtime[h].wakeEnabled
    BY <1>1 DEF Eligible, EligibleForRestore
  <1>4. Config[h].wakeEnabled
    BY <1>2, <1>3, RuntimeFacts
  <1>5. Config[h].wakeDelay \in Nat
    BY <1>2, Fleet DEF HostConfigs
  <1> QED BY <1>2, <1>4, <1>5 DEF EveryWakeDelayed

\* A host was woken: its record says so.
LEMMA PriorWake ==
  ASSUME OInv, Spacing, fleet.lastWoken # NoHost
  PROVE  recoveryHasPriorWake
  <1> DEFINE l == fleet.lastWoken
  <1>1. l \in Hosts /\ fleet.woken[l] > 0
    BY DEF Spacing
  <1>2. fleet.woken[l] \in Nat /\ hosts[l] \in HostStates
    BY <1>1 DEF OInv, OShape
  <1>3. fleet.woken[l] <= hosts[l].wakeAttempts
    BY <1>1 DEF OInv, CommandsCounted
  <1>4. hosts[l].wakeAttempts \in Nat
    BY <1>2, AttemptFields
  <1>5. hosts[l].wakeAttempts > 0
    BY <1>1, <1>2, <1>3, <1>4
  <1> QED BY <1>1, <1>5 DEF recoveryHasPriorWake

\* With a wake-up behind it, the process hands out no host before it has set
\* the time of the last one, and no other host before its delay.
LEMMA DueIsSpaced ==
  ASSUME OInv, EveryWakeDelayed, Spacing, NEW h \in HandedOut, WakeDue(h),
         fleet.lastWoken # NoHost
  PROVE  /\ vol.resumeEvaluated
         /\ h # fleet.lastWoken => fleet.wokenAge + PacketLag >= Config[h].wakeDelay
  <1>1. h \in Hosts /\ Config[h].wakeDelay \in Nat /\ Config[h].wakeDelay > 0
    BY HandedOutHost
  <1>2. recoveryHasPriorWake
    BY PriorWake
  <1>3. vol.resumeEvaluated
    BY <1>1, <1>2 DEF WakeDue, ResumeDelay
  <1>4. ASSUME h # fleet.lastWoken
        PROVE  fleet.wokenAge + PacketLag >= Config[h].wakeDelay
    <2>1. /\ vol.wakeAge # Unset /\ vol.wakeAge <= fleet.wokenAge + PacketLag
          /\ vol.lastWake \in {fleet.lastWoken, Resume}
      BY <1>3 DEF Spacing, Remembered
    <2>2. h # Resume
      <3>1. Hosts \subseteq Nat
        BY FleetAssumption DEF Hosts
      <3> QED BY <1>1, <3>1 DEF Resume
    <2>3. ~(vol.wakeAge < Config[h].wakeDelay)
      BY <1>1, <1>4, <2>1, <2>2 DEF WakeDue, WakeTooSoon
    <2>4. vol.wakeAge \in Int /\ fleet.wokenAge \in Int
      BY MaxAgeAssumption, FleetAssumption DEF Spacing, Unset
    <2> QED BY <1>1, <2>1, <2>3, <2>4, FleetAssumption
  <1> QED BY <1>3, <1>4

\* A tick makes both ages older, the remembered one no more than the real one.
LEMMA TickSpaced ==
  ASSUME OInv, Spacing, ControllerTicks
  PROVE  Spacing'
  <1>1. PICK d \in Delays, s \in Samples : ControllerTick(d, s)
    BY DEF ControllerTicks
  <1>2. d \in Nat /\ MaxAge \in Nat /\ PacketLag \in Nat
    BY EnvironmentAssumption, MaxAgeAssumption, FleetAssumption
  <1>3. pc' # "wake" /\ vol' = AgedVolatile(d)
    BY <1>1, TickEnds DEF ControllerTick, EndTick
  <1>4. /\ DOMAIN vol' = DOMAIN vol /\ vol'.lastWake = vol.lastWake
        /\ vol'.resumeEvaluated = vol.resumeEvaluated
        /\ vol'.wakeAge = IF vol.wakeAge = Unset THEN Unset ELSE Older(vol.wakeAge, d)
    BY <1>3 DEF AgedVolatile, Spacing, VolatileFields
  <1>5. /\ fleet'.lastWoken = fleet.lastWoken /\ fleet'.woken = fleet.woken
        /\ fleet'.wokenAge = Older(fleet.wokenAge, d)
    BY <1>1 DEF ControllerTick, ObserveStep, OInv, OShape
  <1>6. /\ vol.wakeAge \in Unset .. MaxAge /\ fleet.wokenAge \in -PacketLag .. MaxAge
        /\ DOMAIN vol = VolatileFields
    BY DEF Spacing
  <1> DEFINE a == vol.wakeAge
             b == fleet.wokenAge
  <1>7. /\ Older(b, d) \in -PacketLag .. MaxAge
        /\ a # Unset => /\ Older(a, d) \in 0 .. MaxAge /\ Older(a, d) # Unset
                        /\ a <= b + PacketLag =>
                             Older(a, d) <= Older(b, d) + PacketLag
    <2>1. a \in -1 .. MaxAge /\ b \in -PacketLag .. MaxAge
      BY <1>6 DEF Unset
    <2> HIDE DEF a, b
    <2> QED BY <1>2, <2>1 DEF Older, Unset
  <1>8. vol'.wakeAge \in Unset .. MaxAge /\ fleet'.wokenAge \in -PacketLag .. MaxAge
    BY <1>2, <1>4, <1>5, <1>7 DEF Unset
  <1>9. Remembered'
    BY <1>4, <1>5, <1>7 DEF Spacing, Remembered
  <1> QED BY <1>3, <1>4, <1>5, <1>6, <1>8, <1>9 DEF Spacing, WakePending

\* The steps of executeRecoveryStep on the host handed out.
LEMMA RecoverySpaced ==
  ASSUME OInv, EveryWakeDelayed, Spacing, NEW h \in HandedOut,
         \/ DelayWake(h) \/ RecoveredOnline(h) \/ WakeExhausted(h)
         \/ PrepareWake(h) \/ RecoveryWriteFails(h)
  PROVE  Spacing'
  <1>1. /\ h \in Hosts /\ DOMAIN vol = VolatileFields
        /\ vol.wakeAge \in Unset .. MaxAge /\ fleet.wokenAge \in -PacketLag .. MaxAge
        /\ 0 <= fleet.wokenAge + PacketLag
    BY HandedOutHost, FleetAssumption, MaxAgeAssumption DEF Spacing
  <1>2. /\ fleet'.lastWoken = fleet.lastWoken /\ fleet'.wokenAge = fleet.wokenAge
        /\ fleet'.woken = fleet.woken
    BY DEF DelayWake, RecoveredOnline, WakeExhausted, PrepareWake,
       RecoveryWriteFails, Restored, OInv, OShape
  <1>3. CASE DelayWake(h)
    <2>1. pc' # "wake"
      BY <1>3, TickEnds DEF DelayWake
    <2>2. CASE vol' = [vol EXCEPT !.resumeEvaluated = TRUE, !.wakeAge = 0,
                                  !.lastWake = Resume]
      <3>1. /\ DOMAIN vol' = VolatileFields /\ vol'.wakeAge = 0
            /\ vol'.lastWake = Resume
        BY <1>1, <2>2 DEF VolatileFields
      <3>2. 0 \in Unset .. MaxAge /\ 0 # Unset /\ 0 <= fleet.wokenAge + PacketLag
        BY <1>1, MaxAgeAssumption DEF Unset
      <3> QED BY <1>2, <2>1, <3>1, <3>2 DEF Spacing, Remembered, WakePending
    <2>3. CASE ~ResumeDelay(h) /\ vol' = [vol EXCEPT !.resumeEvaluated = TRUE]
      <3>1. /\ DOMAIN vol' = VolatileFields /\ vol'.wakeAge = vol.wakeAge
            /\ vol'.lastWake = vol.lastWake
        BY <1>1, <2>3 DEF VolatileFields
      <3>2. fleet.lastWoken # NoHost => vol.resumeEvaluated
        BY <2>3, PriorWake, HandedOutHost DEF ResumeDelay
      <3> QED BY <1>2, <2>1, <3>1, <3>2 DEF Spacing, Remembered, WakePending
    <2> QED BY <1>3, <2>2, <2>3 DEF DelayWake, EndTick
  <1>4. CASE ~DelayWake(h)
    <2>1. WakeDue(h) /\ vol' = [vol EXCEPT !.resumeEvaluated = TRUE]
      BY <1>4 DEF RecoveredOnline, WakeExhausted, PrepareWake, RecoveryWriteFails,
         EndTick, evaluated
    <2>2. /\ DOMAIN vol' = VolatileFields /\ vol'.wakeAge = vol.wakeAge
          /\ vol'.lastWake = vol.lastWake /\ vol'.resumeEvaluated
      BY <1>1, <2>1 DEF VolatileFields
    <2>3. fleet.lastWoken # NoHost =>
            /\ vol.resumeEvaluated
            /\ h # fleet.lastWoken => fleet.wokenAge + PacketLag >= Config[h].wakeDelay
      BY <2>1, DueIsSpaced
    <2>4. pc' = "wake" => cur' = h
      BY <1>4, TickEnds DEF RecoveredOnline, WakeExhausted, PrepareWake,
         RecoveryWriteFails
    <2>5. Remembered'
      BY <1>2, <2>2, <2>3 DEF Spacing, Remembered
    <2>6. WakePending'
      BY <1>1, <1>2, <2>2, <2>3, <2>4 DEF WakePending
    <2> QED BY <1>2, <2>2, <2>5, <2>6 DEF Spacing
  <1> QED BY <1>3, <1>4

\* The stamp of the tick is older than the packet, by no more than the lag.
LEMMA WakeSpaced ==
  ASSUME OInv, Spacing, SendWake
  PROVE  Spacing'
  <1>1. cur \in Hosts /\ DOMAIN vol = VolatileFields /\ pc' # "wake"
    BY TickEnds DEF Spacing, WakePending, SendWake
  <1>2. /\ DOMAIN vol' = VolatileFields /\ vol'.wakeAge = 0 /\ vol'.lastWake = cur
    BY <1>1 DEF SendWake, EndTick, VolatileFields
  <1>3. /\ fleet'.lastWoken = cur /\ \E lag \in 0 .. PacketLag : fleet'.wokenAge = -lag
        /\ fleet'.woken = [fleet.woken EXCEPT ![cur] = @ + 1]
    BY DEF SendWake, OInv, OShape
  <1>4. fleet'.woken[cur] > 0
    <2>1. fleet.woken \in [Hosts -> Nat]
      BY DEF OInv, OShape
    <2>2. fleet.woken[cur] \in Nat /\ fleet'.woken[cur] = fleet.woken[cur] + 1
      BY <1>1, <1>3, <2>1
    <2> QED BY <2>2
  <1>5. /\ 0 \in Unset .. MaxAge /\ 0 # Unset
        /\ fleet'.wokenAge \in -PacketLag .. MaxAge
        /\ 0 <= fleet'.wokenAge + PacketLag
    BY <1>3, MaxAgeAssumption, FleetAssumption DEF Unset
  <1> QED BY <1>1, <1>2, <1>3, <1>4, <1>5 DEF Spacing, Remembered, WakePending

\* A process that starts, and an outage or a restoration that ends, forgets.
LEMMA ForgottenSpaced ==
  ASSUME OInv, Spacing, BeginFreshOutage \/ ControllerRestart \/ CompleteRecovery
  PROVE  Spacing'
  <1>1. pc' # "wake"
    BY TickEnds DEF BeginFreshOutage, ControllerRestart, CompleteRecovery
  <1>2. /\ DOMAIN vol' = VolatileFields /\ ~vol'.resumeEvaluated
        /\ vol'.wakeAge = Unset
    <2>1. CASE vol' = NewVolatile
      BY <2>1 DEF NewVolatile, VolatileFields
    <2>2. CASE vol' = [vol EXCEPT !.wakeAge = Unset, !.lastWake = NoHost,
                                  !.resumeEvaluated = FALSE]
      <3>1. DOMAIN vol = VolatileFields
        BY DEF Spacing
      <3> QED BY <2>2, <3>1 DEF VolatileFields
    <2> QED BY <2>1, <2>2 DEF BeginFreshOutage, ControllerRestart,
            CompleteRecovery, EndTick
  <1>3. Unset \in Unset .. MaxAge /\ MaxAge \in -PacketLag .. MaxAge
    BY MaxAgeAssumption, FleetAssumption DEF Unset
  <1>4. CASE BeginFreshOutage
    <2>1. fleet'.lastWoken = NoHost /\ fleet'.wokenAge = MaxAge
      BY <1>4 DEF BeginFreshOutage, NewFleet
    <2> QED BY <1>1, <1>2, <1>3, <2>1 DEF Spacing, Remembered, WakePending
  <1>5. CASE ControllerRestart \/ CompleteRecovery
    <2>1. /\ fleet'.lastWoken = fleet.lastWoken /\ fleet'.wokenAge = fleet.wokenAge
          /\ fleet'.woken = fleet.woken
      BY <1>5 DEF ControllerRestart, CompleteRecovery, ObserveStep, OInv, OShape
    <2> QED BY <1>1, <1>2, <1>3, <2>1 DEF Spacing, Remembered, WakePending
  <1> QED BY <1>4, <1>5

\* Every step keeps the spacing.
LEMMA SpacingStep ==
  ASSUME OInv, EveryWakeDelayed, Spacing, [ONext]_ovars
  PROVE  Spacing'
  <1> USE DEF Goto
  <1>1. CASE ControllerTicks
    BY <1>1, TickSpaced
  <1>2. CASE BeginFreshOutage \/ ControllerRestart \/ CompleteRecovery
    BY <1>2, ForgottenSpaced
  <1>3. CASE SendWake
    BY <1>3, WakeSpaced
  <1>4. CASE \E h \in HandedOut :
               \/ DelayWake(h) \/ RecoveredOnline(h) \/ WakeExhausted(h)
               \/ PrepareWake(h) \/ RecoveryWriteFails(h)
    BY <1>4, RecoverySpaced
  <1>5. CASE \/ SnapshotHosts \/ BeginShutdownWork \/ CompleteShutdown
             \/ ControllerFSD \/ BlockedRecovery \/ NothingToWake
    <2>1. pc' # "wake"
      BY <1>5, TickEnds DEF SnapshotHosts, BeginShutdownWork, CompleteShutdown,
         ControllerFSD, BlockedRecovery, NothingToWake
    <2>2. /\ fleet'.lastWoken = fleet.lastWoken /\ fleet'.wokenAge = fleet.wokenAge
          /\ fleet'.woken = fleet.woken
      BY <1>5 DEF SnapshotHosts, BeginShutdownWork, CompleteShutdown,
         ControllerFSD, BlockedRecovery, NothingToWake, Restored, OInv, OShape
    <2>3. /\ DOMAIN vol' = DOMAIN vol
          /\ vol'.wakeAge = vol.wakeAge /\ vol'.lastWake = vol.lastWake
          /\ vol'.resumeEvaluated = vol.resumeEvaluated
      BY <1>5 DEF SnapshotHosts, BeginShutdownWork, CompleteShutdown, EndTick,
         ControllerFSD, BlockedRecovery, NothingToWake, Spacing, VolatileFields
    <2> QED BY <2>1, <2>2, <2>3, SpacingKept DEF SameSpacing
  <1>6. CASE SettleDirect
    <2>1. pc' # "wake" /\ vol' = vol
      BY <1>6, TickEnds
      DEF SettleDirect, SettleFailed, ReconcileUnknown, ReconcileOffline,
          SettleAttempt, Attempt, Settled, SendCommand, CommandFailed, EndTick,
          CommandAcknowledged, VerifyDown, VerifyTimeout, HostFailedSafe, RetryPending
    <2>2. /\ fleet'.lastWoken = fleet.lastWoken /\ fleet'.wokenAge = fleet.wokenAge
          /\ fleet'.woken = fleet.woken
      BY <1>6
      DEF SettleDirect, SettleFailed, ReconcileUnknown, ReconcileOffline,
          SettleAttempt, Attempt, Settled, SendCommand, CommandFailed, OInv, OShape,
          CommandAcknowledged, VerifyDown, VerifyTimeout, HostFailedSafe, RetryPending
    <2> QED BY <2>1, <2>2, SpacingKept DEF SameSpacing
  <1>7. CASE SettleGroup
    <2>1. /\ pc' # "wake" /\ fleet'.lastWoken = fleet.lastWoken
          /\ fleet'.wokenAge = fleet.wokenAge /\ fleet'.woken = fleet.woken
      BY <1>7, TickEnds
      DEF SettleGroup, PrepareNUTGroup, GroupFailedSafe, MarkNUTRequested,
          RequestGroupFSD, GroupFSDFailed, GroupFSDAcknowledged, OInv, OShape
    <2>2. \E w : vol' \in {vol, [vol EXCEPT !.nutWait = w]}
      BY <1>7
      DEF SettleGroup, PrepareNUTGroup, GroupFailedSafe, MarkNUTRequested, EndTick,
          RequestGroupFSD, GroupFSDFailed, GroupFSDAcknowledged
    <2>3. /\ DOMAIN vol' = DOMAIN vol
          /\ vol'.wakeAge = vol.wakeAge /\ vol'.lastWake = vol.lastWake
          /\ vol'.resumeEvaluated = vol.resumeEvaluated
      BY <2>2 DEF Spacing, VolatileFields
    <2> QED BY <2>1, <2>3, SpacingKept DEF SameSpacing
  <1>8. CASE UNCHANGED ovars
    BY <1>8 DEF ovars, local, Spacing, Remembered, WakePending
  <1> QED BY <1>1, <1>2, <1>3, <1>4, <1>5, <1>6, <1>7, <1>8
      DEF ONext, Running, TickContinues, ExecuteRecoveryStep

\* In front of a packet the only step that counts one is sending it.
LEMMA OnlySendWakes ==
  ASSUME OInv, [ONext]_ovars, pc = "wake", fleet'.woken # fleet.woken
  PROVE  SendWake
  <1>1. fleet' # fleet
    OBVIOUS
  <1>2. CASE ControllerTicks \/ ControllerRestart \/ UNCHANGED ovars
    BY <1>1, <1>2 DEF ControllerTicks, ControllerTick, ControllerRestart, ovars
  <1>3. CASE SnapshotHosts \/ BeginFreshOutage \/ BeginShutdownWork \/ ControllerFSD
    BY <1>3 DEF SnapshotHosts, BeginFreshOutage, BeginShutdownWork, ControllerFSD
  <1>4. CASE SettleDirect
    BY <1>4 DEF SettleDirect, SettleFailed, ReconcileUnknown, ReconcileOffline,
       SettleAttempt, Settling, SendCommand, CommandFailed, CommandAcknowledged,
       VerifyDown, VerifyTimeout
  <1>5. CASE SettleGroup \/ CompleteShutdown
    BY <1>5 DEF SettleGroup, PrepareNUTGroup, GroupFailedSafe, MarkNUTRequested,
       RequestGroupFSD, GroupFSDFailed, GroupFSDAcknowledged, CompleteShutdown
  <1>6. CASE ExecuteRecoveryStep
    BY <1>6 DEF ExecuteRecoveryStep, BlockedRecovery, CompleteRecovery,
       NothingToWake, HandedOut
  <1> QED BY <1>2, <1>3, <1>4, <1>5, <1>6 DEF ONext, Running, TickContinues

\* In every fleet whose hosts all have a delay, a different host is sent a
\* packet only after its delay since the packet before, less the lag of a
\* packet behind the start of its tick; restarts included.
THEOREM WakesAreSpaced == OSpec => WakesSpaced
  <1>1. OInit => SpacedInv
    <2>1. SUFFICES ASSUME OInit
                   PROVE  Spacing
      BY DEF SpacedInv
    <2>2. Unset \in Unset .. MaxAge /\ MaxAge \in -PacketLag .. MaxAge
      BY MaxAgeAssumption, FleetAssumption DEF Unset
    <2> QED BY <2>1, <2>2 DEF OInit, NewVolatile, NewFleet, Spacing, VolatileFields,
            Remembered, WakePending
  <1>2. OInv /\ SpacedInv /\ [ONext]_ovars => SpacedInv'
    BY SpacingStep DEF SpacedInv, EveryWakeDelayed
  <1>3. OInv /\ SpacedInv /\ [ONext]_ovars =>
          [EveryWakeDelayed => WakeAfterDelay]_ovars
    <2> SUFFICES ASSUME OInv, SpacedInv, [ONext]_ovars, EveryWakeDelayed,
                        pc = "wake", fleet'.woken # fleet.woken,
                        fleet.lastWoken \notin {NoHost, cur}
                 PROVE  fleet.wokenAge - fleet'.wokenAge + PacketLag
                          >= Config[cur].wakeDelay
      BY DEF WakeAfterDelay, ovars
    <2>1. /\ cur \in Hosts /\ fleet.wokenAge + PacketLag >= Config[cur].wakeDelay
          /\ fleet.wokenAge \in Int
      BY FleetAssumption, MaxAgeAssumption DEF SpacedInv, Spacing, WakePending
    <2>2. SendWake
      BY OnlySendWakes
    <2>3. PICK lag \in 0 .. PacketLag : fleet'.wokenAge = -lag
      BY <2>2 DEF SendWake, OInv, OShape
    <2>4. Config[cur].wakeDelay \in Nat
      BY <2>1, Fleet DEF HostConfigs
    <2> QED BY <2>1, <2>3, <2>4, FleetAssumption
  <1> QED BY <1>1, <1>2, <1>3, OrchestratorInvariance, PTL DEF OSpec, WakesSpaced

-----------------------------------------------------------------------------
(* No command is repeated.  While a shutdown is under way, the record of a   *)
(* host that was shown to be done says so, for any restart to find.          *)

Stopping == disk.power \in {"SHUTDOWN_COMMITTED", "SHUTDOWN_IN_PROGRESS"}

Commanding == {"command", "reply", "verify"}

\* The record keeps settleDirect from sending the command again.
Spared(h) ==
  \/ hosts[h].shutdown = "completed"
  \/ ~Config[h].probed /\ hosts[h].shutdown \in {"acknowledged", "unknown"}

Unrepeated ==
  /\ fleet.settled \subseteq Direct
  /\ Stopping => \A h \in fleet.settled : Spared(h)
  /\ pc \in Commanding => cur \in Direct \ fleet.settled
  /\ pc = "bootSnapshot" => st.power = "ON_BATTERY"
  /\ pc = "snapshot" => fleet.settled = {}

\* A step that shows nothing new of a host and forgets nothing.
SparedKeeping ==
  /\ fleet'.settled \subseteq fleet.settled
  /\ Stopping' => /\ Stopping
                  /\ \A h \in fleet'.settled : Spared(h) => Spared(h)'
  /\ pc' \in Commanding => pc \in Commanding /\ cur' = cur
  /\ pc' \notin {"snapshot", "bootSnapshot"}

\* Such a step keeps Unrepeated.
LEMMA UnrepeatedKept ==
  ASSUME Unrepeated, SparedKeeping
  PROVE  Unrepeated'
  BY DEF Unrepeated, SparedKeeping, Direct

\* A tick leads into a shutdown only by committing it.
LEMMA StoppingCommits ==
  ASSUME NEW T, NEW s, IInv, owed = "none", Step(T, s), Stopping', ~Stopping
  PROVE  Commit
  <1>1. /\ st \in State /\ (st.power = "ON_BATTERY" => ~st.committed)
        /\ (st.power = "SHUTDOWN_IN_PROGRESS" => disk.power = "SHUTDOWN_IN_PROGRESS")
    BY MemoryFacts, CommitAgrees
  <1> USE <1>1 DEF Stopping, Commit, State, Hold, Persist, commitShutdown, failSafe
  <1>2. CASE StepFailedSafe(T, s) \/ StepShutdownInProgress(T, s)
    BY <1>2 DEF StepFailedSafe, StepShutdownInProgress
  <1>3. CASE StepBoot(T, s)
    <2>1. CASE s.utility = "unknown" /\ Hold(T, onlineConfirmations)
      BY <1>3, <2>1 DEF StepBoot
    <2>2. CASE BootRecovery(T, s)
      BY <1>3, <2>2 DEF StepBoot, BootRecovery
    <2>3. CASE BootCommitted(T, s)
      BY <1>3, <2>3 DEF StepBoot, BootCommitted
    <2>4. CASE BootUncommitted(T, s)
      BY <1>3, <2>4 DEF StepBoot, BootUncommitted
    <2> QED BY <1>3, <2>1, <2>2, <2>3, <2>4 DEF StepBoot
  <1>4. CASE StepFSD(T, s)
    BY <1>4 DEF StepFSD, FSDObserved
  <1>5. CASE StepNormal(T, s)
    BY <1>5 DEF StepNormal
  <1>6. CASE StepOnBattery(T, s)
    <2>1. CASE OnBatteryOnline(T, s)
      BY <1>6, <2>1 DEF StepOnBattery, OnBatteryOnline
    <2>2. CASE OnBatteryLow(T, s)
      BY <1>6, <2>2 DEF StepOnBattery, OnBatteryLow
    <2>3. CASE OnBatteryUnknown(T, s)
      BY <1>6, <2>3 DEF StepOnBattery, OnBatteryUnknown
    <2>4. CASE OnBatteryMonitor(T, s)
      BY <1>6, <2>4 DEF StepOnBattery, OnBatteryMonitor, checkpointOutage
    <2> QED BY <1>6, <2>1, <2>2, <2>3, <2>4 DEF StepOnBattery
  <1>7. CASE StepWaitingForAC(T, s)
    BY <1>7 DEF StepWaitingForAC
  <1>8. CASE StepRecoveryWait(T, s)
    BY <1>8 DEF StepRecoveryWait
  <1>9. CASE StepRecoveryStarted(T, s)
    BY <1>9 DEF StepRecoveryStarted, RecoveryStops, RecoveryContinues
  <1>10. CASE StepRestoreHosts(T, s)
    BY <1>10 DEF StepRestoreHosts, RecoveryStops, RecoveryContinues
  <1> QED
    BY <1>2, <1>3, <1>4, <1>5, <1>6, <1>7, <1>8, <1>9, <1>10 DEF Step

\* A tick keeps what is known of the hosts, or commits and starts anew.
LEMMA TickUnrepeated ==
  ASSUME OInv, Unrepeated, ControllerTicks
  PROVE  Unrepeated'
  <1>1. PICK d, s : ControllerTick(d, s)
    BY DEF ControllerTicks
  <1>2. /\ owed = "none" /\ Step(AgedBy(d), s) /\ hosts' = hosts /\ IInv
        /\ DOMAIN fleet = {"sent", "woken", "settled", "restored", "exempt",
                           "fresh", "due", "lastWoken", "wokenAge"}
    BY <1>1 DEF ControllerTick, Tick, OInv, OShape
  <1>3. /\ pc' \notin Commanding /\ pc' # "snapshot"
        /\ pc' = "bootSnapshot" => st'.power = "ON_BATTERY"
    BY <1>1, TickEnds DEF ControllerTick, Commanding
  <1>4. PICK age : fleet' = ObserveStep([fleet EXCEPT !.wokenAge = age])
    BY <1>1 DEF ControllerTick
  <1>5. CASE Commit
    <2>1. fleet'.settled = {}
      BY <1>2, <1>4, <1>5 DEF ObserveStep
    <2> QED BY <1>3, <2>1 DEF Unrepeated
  <1>6. CASE ~Commit
    <2>1. fleet'.settled = fleet.settled
      BY <1>2, <1>4, <1>6 DEF ObserveStep
    <2>2. Stopping' => Stopping
      BY <1>2, <1>6, StoppingCommits
    <2>3. \A h : Spared(h) => Spared(h)'
      BY <1>2 DEF Spared
    <2> QED BY <1>3, <2>1, <2>2, <2>3 DEF Unrepeated, Direct
  <1> QED BY <1>5, <1>6

\* The writes of settleDirect for a host that was not shown to be done.
LEMMA WriteUnrepeated ==
  ASSUME OInv, Unrepeated, NEW h, NEW hs, PersistHost(h, hs),
         h \notin fleet.settled \/ (h \in Hosts => hs.shutdown = "unknown"),
         h \in fleet.settled => hosts[h].shutdown # "completed",
         Stopping' => Stopping, fleet'.settled = fleet.settled
  PROVE  Stopping' => \A g \in fleet'.settled : Spared(g) => Spared(g)'
  <1>1. SUFFICES ASSUME NEW g \in fleet.settled, Spared(g)
                 PROVE  Spared(g)'
    OBVIOUS
  <1>2. g \in Hosts /\ OShape
    BY Fleet DEF Unrepeated, OInv
  <1>3. CASE g # h
    <2>1. hosts'[g] = hosts[g]
      BY <1>2, <1>3, Persisted
    <2> QED BY <1>1, <2>1 DEF Spared
  <1>4. CASE g = h
    <2>1. hosts'[g] = hs
      BY <1>2, <1>4, Persisted
    <2> QED BY <1>1, <1>2, <1>4, <2>1 DEF Spared
  <1> QED BY <1>3, <1>4

\* A host that is given up, or left for the next tick.
LEMMA LeftUnrepeated ==
  ASSUME OInv, Unrepeated, NEW h, HostFailedSafe(h) \/ RetryPending(h),
         h \in fleet.settled => hosts[h].shutdown # "completed"
  PROVE  Unrepeated'
  <1>1. pc' \in {"idle", "controllerFSD"} /\ fleet' = fleet
    BY TickEnds DEF HostFailedSafe, RetryPending
  <1>2. CASE HostFailedSafe(h)
    <2>1. disk'.power = "FAILED_SAFE"
      BY <1>2 DEF HostFailedSafe, ShutdownFailedSafe, Persist, OInv, IInv, TypeOK, State
    <2> QED BY <1>1, <2>1, UnrepeatedKept DEF SparedKeeping, Stopping, Commanding
  <1>3. CASE RetryPending(h)
    <2> DEFINE hs == [hosts[h] EXCEPT !.shutdown = "unknown"]
    <2>1. PersistHost(h, hs) /\ (Stopping' => Stopping)
      BY <1>3 DEF RetryPending, EngineIdle, vars, Stopping
    <2>2. h \in Hosts => hs.shutdown = "unknown"
      BY WrittenFields DEF OInv, OShape
    <2> HIDE DEF hs
    <2>3. Stopping' => \A g \in fleet'.settled : Spared(g) => Spared(g)'
      BY <1>1, <2>1, <2>2, WriteUnrepeated
    <2> QED BY <1>1, <2>1, <2>3, UnrepeatedKept DEF SparedKeeping, Commanding
  <1> QED BY <1>2, <1>3

\* A host newly shown to be done, with a record that says so.
LEMMA DoneUnrepeated ==
  ASSUME OInv, Unrepeated, NEW h \in Direct, NEW hs, PersistHost(h, hs),
         \/ hs.shutdown = "completed"
         \/ ~Config[h].probed /\ hs.shutdown = "acknowledged",
         fleet'.settled = fleet.settled \cup {h}, pc' = "shutdown", disk' = disk
  PROVE  Unrepeated'
  <1>1. OShape /\ h \in Hosts /\ fleet.settled \subseteq Hosts
    BY Fleet DEF OInv, Unrepeated
  <1>2. hosts'[h] = hs /\ \A g \in fleet.settled : g # h => hosts'[g] = hosts[g]
    BY <1>1, Persisted
  <1>3. Spared(h)' /\ \A g \in fleet.settled : g # h /\ Spared(g) => Spared(g)'
    BY <1>2 DEF Spared
  <1> QED BY <1>3 DEF Unrepeated, Stopping, Commanding, Direct

\* settleDirect sends a command only to a host not shown to be done.
LEMMA DirectUnrepeated ==
  ASSUME OInv, Unrepeated, SettleDirect
  PROVE  Unrepeated'
  <1>1. pc \in ShutdownPlaces /\ Stopping /\ OShape
    <2>1. pc \in ShutdownPlaces
      BY DEF SettleDirect, SettleFailed, ReconcileUnknown, ReconcileOffline,
         SettleAttempt, Settling, SendCommand, CommandFailed, CommandAcknowledged,
         VerifyDown, VerifyTimeout, ShutdownPlaces
    <2>2. st.power = "SHUTDOWN_IN_PROGRESS" /\ IInv /\ OShape
      BY <2>1 DEF OInv, Phases
    <2> QED BY <2>1, <2>2, CommitAgrees DEF Stopping
  <1>2. \A h \in fleet.settled : Spared(h)
    BY <1>1 DEF Unrepeated
  <1>3. ASSUME NEW h \in PreFSD, SettleFailed(h) \/ ReconcileUnknown(h)
        PROVE  Unrepeated'
    <2>1. hosts[h].shutdown # "completed"
      BY <1>3 DEF SettleFailed, ReconcileUnknown, InFlight
    <2> QED BY <1>3, <2>1, LeftUnrepeated DEF SettleFailed, ReconcileUnknown
  <1>4. ASSUME NEW h \in Direct, Settled(h)
        PROVE  Unrepeated'
    <2> DEFINE hs == [hosts[h] EXCEPT !.shutdown = "completed"]
    <2>1. /\ PersistHost(h, hs) /\ fleet'.settled = fleet.settled \cup {h}
          /\ pc' = "shutdown" /\ disk' = disk
      BY <1>1, <1>4 DEF Settled, OShape, EngineIdle, vars
    <2>2. hs.shutdown = "completed"
      BY <1>1, Fleet, WrittenFields DEF OShape
    <2> HIDE DEF hs
    <2> QED BY <2>1, <2>2, DoneUnrepeated
  <1>5. ASSUME NEW h \in PreFSD, SettleAttempt(h)
        PROVE  Unrepeated'
    <2>1. h \in Direct /\ hosts[h].shutdown # "completed"
      BY <1>5 DEF SettleAttempt, Settling, Unsettled, PreFSD, Direct
    <2>2. h \notin fleet.settled
      BY <1>2, <1>5, <2>1 DEF SettleAttempt, Spared
    <2>3. CASE HostFailedSafe(h)
      BY <2>1, <2>3, LeftUnrepeated
    <2>4. CASE ~HostFailedSafe(h)
      <3> DEFINE hs == [hosts[h] EXCEPT !.shutdownAttempts = @ + 1,
                                        !.shutdown = "requested", !.present = TRUE]
      <3>1. /\ PersistHost(h, hs) /\ pc' = "command" /\ cur' = h
            /\ fleet' = fleet /\ (Stopping' => Stopping)
        BY <1>5, <2>4 DEF SettleAttempt, Attempt, EngineIdle, vars, Stopping
      <3> HIDE DEF hs
      <3>2. Stopping' => \A g \in fleet'.settled : Spared(g) => Spared(g)'
        BY <2>2, <3>1, WriteUnrepeated
      <3> QED BY <1>2, <2>1, <2>2, <3>1, <3>2 DEF Unrepeated, Direct
    <2> QED BY <2>3, <2>4
  <1>6. CASE SendCommand
    <2>1. /\ pc' = "reply" /\ pc = "command" /\ cur' = cur /\ hosts' = hosts
          /\ disk' = disk /\ fleet'.settled = fleet.settled
      BY <1>1, <1>6 DEF SendCommand, Goto, EngineIdle, vars, OShape
    <2>2. SparedKeeping
      BY <2>1 DEF SparedKeeping, Spared, Stopping, Commanding
    <2> QED BY <2>2, UnrepeatedKept
  <1>7. ASSUME pc \in Commanding
        PROVE  cur \in Direct /\ cur \notin fleet.settled
    BY <1>7 DEF Unrepeated
  <1>8. CASE CommandFailed \/ VerifyTimeout
    BY <1>7, <1>8, LeftUnrepeated DEF CommandFailed, VerifyTimeout, Commanding
  <1>9. CASE CommandAcknowledged
    <2> DEFINE hs == [hosts[cur] EXCEPT !.shutdown = "acknowledged"]
    <2>1. /\ cur \in Direct /\ cur \notin fleet.settled /\ PersistHost(cur, hs)
          /\ disk' = disk /\ pc \in Commanding
      BY <1>7, <1>9 DEF CommandAcknowledged, Commanding, EngineIdle, vars
    <2>2. hs.shutdown = "acknowledged"
      BY <1>1, <2>1, Fleet, WrittenFields DEF OShape
    <2>3. CASE Config[cur].probed
      <3>1. pc' = "verify" /\ cur' = cur /\ fleet' = fleet
        BY <1>9, <2>3 DEF CommandAcknowledged, Goto
      <3> HIDE DEF hs
      <3>2. Stopping' => \A g \in fleet'.settled : Spared(g) => Spared(g)'
        BY <2>1, <3>1, WriteUnrepeated DEF Stopping
      <3> QED BY <2>1, <3>1, <3>2, UnrepeatedKept
          DEF SparedKeeping, Stopping, Commanding
    <2>4. CASE ~Config[cur].probed
      <3>1. pc' = "shutdown" /\ fleet'.settled = fleet.settled \cup {cur}
        BY <1>1, <1>9, <2>4 DEF CommandAcknowledged, OShape
      <3> HIDE DEF hs
      <3> QED BY <2>1, <2>2, <2>4, <3>1, DoneUnrepeated
    <2> QED BY <2>3, <2>4
  <1>10. CASE VerifyDown
    BY <1>4, <1>7, <1>10 DEF VerifyDown, Commanding
  <1>11. ASSUME NEW h \in PreFSD, ReconcileOffline(h)
         PROVE  Unrepeated'
    BY <1>4, <1>11 DEF ReconcileOffline, PreFSD, Direct
  <1> QED BY <1>3, <1>5, <1>6, <1>8, <1>9, <1>10, <1>11 DEF SettleDirect

\* Every step keeps it.
LEMMA UnrepeatedStep ==
  ASSUME OInv, Unrepeated, [ONext]_ovars
  PROVE  Unrepeated'
  <1>0. /\ IInv /\ OShape /\ Phases /\ st \in State /\ disk \in State
        /\ st.power # "BOOT_RECONCILE" => st = disk
    BY CommitAgrees DEF OInv
  <1>1. CASE ControllerTicks
    BY <1>1, TickUnrepeated
  <1>2. CASE SnapshotHosts
    <2>1. /\ disk' = disk /\ fleet'.settled = fleet.settled
          /\ pc' \in {"fresh", "idle", "controllerFSD"}
      BY <1>0, <1>2, TickEnds DEF SnapshotHosts, EngineIdle, vars, OShape, Goto
    <2>2. fleet.settled = {} \/ ~Stopping
      BY <1>0, <1>2 DEF SnapshotHosts, Unrepeated, Stopping
    <2> QED BY <2>1, <2>2 DEF Unrepeated, Stopping, Commanding, Direct
  <1>3. CASE BeginFreshOutage
    <2>1. fleet'.settled = {} /\ pc' = "snapshot"
      BY <1>3 DEF BeginFreshOutage, NewFleet
    <2> QED BY <2>1 DEF Unrepeated, Commanding
  <1>4. CASE BeginShutdownWork \/ CompleteShutdown \/ ControllerFSD \/ ControllerRestart
    <2>1. /\ hosts' = hosts /\ fleet' = fleet
          /\ pc' \in {"shutdown", "idle", "controllerFSD"}
      BY <1>4, TickEnds DEF BeginShutdownWork, CompleteShutdown, ControllerFSD,
         ControllerRestart, Goto
    <2>2. Stopping' => Stopping
      <3>1. CASE BeginShutdownWork
        BY <1>0, <3>1 DEF BeginShutdownWork, BeginShutdown, Stopping
      <3>2. CASE CompleteShutdown
        BY <1>0, <3>2 DEF CompleteShutdown, MarkShutdownPhaseComplete, Persist,
           Stopping, State
      <3>3. CASE ControllerFSD
        BY <3>3 DEF ControllerFSD, EngineIdle, vars, Stopping
      <3>4. CASE ControllerRestart
        BY <3>4 DEF ControllerRestart, Restart, Stopping
      <3> QED BY <1>4, <3>1, <3>2, <3>3, <3>4
    <2> QED BY <2>1, <2>2, UnrepeatedKept DEF SparedKeeping, Spared, Commanding
  <1>5. CASE SettleDirect
    BY <1>5, DirectUnrepeated
  <1>6. CASE SettleGroup
    <2>1. \A h \in Direct : hosts'[h] = hosts[h]
      BY <1>0, <1>6, Fleet, Persisted
      DEF SettleGroup, PrepareNUTGroup, GroupFailedSafe, MarkNUTRequested,
          RequestGroupFSD, GroupFSDFailed, GroupFSDAcknowledged
    <2>2. fleet'.settled = fleet.settled
      BY <1>0, <1>6, GroupFleet DEF SameButDue
    <2>3. Stopping' => Stopping
      BY <1>0, <1>6
      DEF SettleGroup, PrepareNUTGroup, GroupFailedSafe, MarkNUTRequested,
          RequestGroupFSD, GroupFSDFailed, GroupFSDAcknowledged, EngineIdle, vars,
          ShutdownFailedSafe, Persist, Stopping, State
    <2>4. pc' \notin Commanding \cup {"snapshot", "bootSnapshot"}
      BY <1>6, TickEnds
      DEF SettleGroup, PrepareNUTGroup, GroupFailedSafe, MarkNUTRequested,
          RequestGroupFSD, GroupFSDFailed, GroupFSDAcknowledged, Goto, Commanding
    <2>5. \A h \in fleet'.settled : Spared(h) => Spared(h)'
      BY <2>1, <2>2 DEF Unrepeated, Spared
    <2> QED BY <2>2, <2>3, <2>4, <2>5, UnrepeatedKept DEF SparedKeeping
  <1>7. CASE ExecuteRecoveryStep
    <2>1. pc \in RecoveryPlaces
      BY <1>7 DEF ExecuteRecoveryStep, BlockedRecovery, CompleteRecovery, SendWake,
         NothingToWake, HandedOut, RecoveryPlaces
    <2>2. disk.power = "RESTORE_HOSTS"
      BY <1>0, <2>1 DEF Phases
    <2>3. ~Stopping'
      <3>1. CASE CompleteRecovery
        BY <3>1 DEF CompleteRecovery, MarkRecoveryComplete, Persist, Stopping
      <3>2. CASE ~CompleteRecovery
        <4>1. EngineIdle
          BY <1>7, <3>2
          DEF ExecuteRecoveryStep, BlockedRecovery, SendWake, NothingToWake, DelayWake,
              RecoveredOnline, WakeExhausted, PrepareWake, RecoveryWriteFails
        <4> QED BY <2>2, <4>1 DEF EngineIdle, vars, Stopping
      <3> QED BY <3>1, <3>2
    <2>4. fleet'.settled \subseteq fleet.settled
      <3>1. CASE BlockedRecovery \/ \E h \in HandedOut : \/ RecoveredOnline(h)
                                                       \/ WakeExhausted(h)
        BY <1>0, <3>1 DEF BlockedRecovery, RecoveredOnline, WakeExhausted, Restored,
           OShape
      <3>2. CASE CompleteRecovery
        BY <1>0, <3>2 DEF CompleteRecovery, ObserveStep, OShape
      <3>3. CASE SendWake
        BY <1>0, <3>3 DEF SendWake, OShape
      <3>4. CASE NothingToWake \/ \E h \in HandedOut : \/ DelayWake(h) \/ PrepareWake(h)
                                                     \/ RecoveryWriteFails(h)
        BY <3>4 DEF NothingToWake, DelayWake, PrepareWake, RecoveryWriteFails
      <3> QED BY <1>7, <3>1, <3>2, <3>3, <3>4 DEF ExecuteRecoveryStep
    <2>5. pc' \notin Commanding \cup {"snapshot", "bootSnapshot"}
      BY <1>7, TickEnds
      DEF ExecuteRecoveryStep, BlockedRecovery, CompleteRecovery, SendWake,
          NothingToWake, DelayWake, RecoveredOnline, WakeExhausted, PrepareWake,
          RecoveryWriteFails, Goto, Commanding
    <2> QED BY <2>3, <2>4, <2>5, UnrepeatedKept DEF SparedKeeping
  <1>8. CASE UNCHANGED ovars
    BY <1>8 DEF ovars, local, vars, Unrepeated, Stopping, Spared, Direct
  <1> QED BY <1>1, <1>2, <1>3, <1>4, <1>5, <1>6, <1>7, <1>8
      DEF ONext, Running, TickContinues

\* For every fleet: a direct host that since the commit was seen down, or
\* acknowledged the command if it cannot be probed, is not commanded again.
THEOREM CommandsAreNotRepeated == OSpec => NoRepeatedCommand
  <1>1. OInit => Unrepeated
    BY DEF OInit, NewFleet, Unrepeated, Commanding
  <1>2. OInv /\ Unrepeated /\ [ONext]_ovars => Unrepeated'
    BY UnrepeatedStep
  <1>3. Unrepeated => [pc = "command" /\ pc' = "reply" => cur \notin fleet.settled]_ovars
    BY DEF Unrepeated, Commanding
  <1> QED BY <1>1, <1>2, <1>3, OrchestratorInvariance, PTL DEF OSpec, NoRepeatedCommand

-----------------------------------------------------------------------------
(* The two retry schedules and the attempt that is carried through the tick. *)

\* The smaller of two.
LEMMA SmallerOfTwo ==
  ASSUME NEW a \in Nat, NEW b \in Nat
  PROVE  Min({a, b}) = IF a <= b THEN a ELSE b
  <1>1. \E x \in {a, b} : \A y \in {a, b} : x <= y
    OBVIOUS
  <1>2. Min({a, b}) \in {a, b} /\ \A y \in {a, b} : Min({a, b}) <= y
    BY <1>1 DEF Min
  <1> QED BY <1>2

\* d holds the first n delays of the schedule.
Schedule(d, n) ==
  d = [i \in 1 .. n |-> IF i = 1 THEN 1 ELSE Min({2 * d[i - 1], MaxBackoff})]

\* Every prefix of the schedule exists: a shortest one that does not would
\* continue the one before it.
LEMMA ScheduleExists ==
  \A n \in Nat : \E d : Schedule(d, n)
  <1> DEFINE T == {n \in Nat : ~\E d : Schedule(d, n)}
  <1>1. SUFFICES ASSUME T # {} PROVE FALSE
    OBVIOUS
  <1>2. PICK m \in T : \A k \in T : ~(k < m)
    BY <1>1, LeastNatural
  <1>3. m # 0
    <2>1. Schedule([i \in 1 .. 0 |-> 0], 0)
      BY DEF Schedule
    <2> QED BY <2>1
  <1>4. m - 1 \in Nat /\ m - 1 \notin T /\ m \in Nat
    BY <1>2, <1>3
  <1>5. PICK d : Schedule(d, m - 1)
    BY <1>4
  <1> DEFINE After(f, i) == IF i = 1 THEN 1 ELSE Min({2 * f[i - 1], MaxBackoff})
             e == [i \in 1 .. m |-> IF i = m THEN After(d, m) ELSE d[i]]
  <1>6. Schedule(e, m)
    <2>1. \A i \in 1 .. m : e[i] = IF i = m THEN After(d, m) ELSE d[i]
      OBVIOUS
    <2>2. \A i \in 1 .. m - 1 : d[i] = After(d, i)
      BY <1>5 DEF Schedule
    <2>3. e = [i \in 1 .. m |-> e[i]]
      OBVIOUS
    <2> HIDE DEF e
    <2>4. ASSUME NEW i \in 1 .. m
          PROVE  e[i] = After(e, i)
      <3>1. CASE i = 1
        <4>1. e[1] = 1
          <5>1. CASE m = 1
            BY <2>1, <5>1
          <5>2. CASE m # 1
            <6>1. 1 \in 1 .. m - 1 /\ 1 \in 1 .. m
              BY <1>4, <5>2
            <6>2. e[1] = d[1] /\ d[1] = After(d, 1)
              BY <2>1, <2>2, <5>2, <6>1
            <6> QED BY <6>2
          <5> QED BY <5>1, <5>2
        <4> QED BY <3>1, <4>1
      <3>2. CASE i # 1
        <4>1. i - 1 \in 1 .. m - 1 /\ i - 1 \in 1 .. m /\ i - 1 # m
          BY <1>4, <3>2
        <4>2. e[i - 1] = d[i - 1]
          BY <2>1, <4>1
        <4>3. CASE i = m
          BY <2>1, <3>2, <4>2, <4>3
        <4>4. CASE i # m
          <5>1. i \in 1 .. m - 1
            BY <1>4, <4>4
          <5> QED BY <2>1, <2>2, <3>2, <4>2, <4>4, <5>1
        <4> QED BY <4>3, <4>4
      <3> QED BY <3>1, <3>2
    <2> QED BY <2>3, <2>4 DEF Schedule
  <1> QED BY <1>6

\* A retry is never further away than the cap.
LEMMA RetryIsCapped ==
  ASSUME NEW n \in Nat \ {0}
  PROVE  RetryDelay(n) \in 0 .. MaxBackoff
  <1> DEFINE d == CHOOSE f : Schedule(f, n)
  <1>1. Schedule(d, n)
    BY ScheduleExists
  <1>2. RetryDelay(n) = d[n]
    BY Zenon DEF RetryDelay, Schedule
  <1> HIDE DEF d
  <1>3. \A i \in 1 .. n : d[i] = IF i = 1 THEN 1 ELSE Min({2 * d[i - 1], MaxBackoff})
    BY <1>1 DEF Schedule
  <1>4. MaxBackoff \in Nat \ {0}
    BY FleetAssumption
  <1> DEFINE T == {i \in 1 .. n : d[i] \notin 0 .. MaxBackoff}
  <1>5. T = {}
    <2>1. SUFFICES ASSUME T # {} PROVE FALSE
      OBVIOUS
    <2>2. T \in SUBSET Nat
      OBVIOUS
    <2>3. PICK m \in T : \A k \in T : ~(k < m)
      BY <2>1, <2>2, LeastNatural
    <2>4. m # 1
      <3>1. 1 \in 1 .. n /\ 1 \in 0 .. MaxBackoff
        BY <1>4
      <3>2. d[1] = 1
        BY <1>3, <3>1
      <3> QED BY <2>3, <3>1, <3>2
    <2>5. m - 1 \in 1 .. n /\ m - 1 < m
      BY <2>3, <2>4
    <2>6. d[m - 1] \in 0 .. MaxBackoff
      BY <2>3, <2>5
    <2>7. 2 * d[m - 1] \in Nat
      BY <1>4, <2>6
    <2>8. d[m] = Min({2 * d[m - 1], MaxBackoff})
      BY <1>3, <2>3, <2>4
    <2>9. d[m] = IF 2 * d[m - 1] <= MaxBackoff THEN 2 * d[m - 1] ELSE MaxBackoff
      BY <1>4, <2>7, <2>8, SmallerOfTwo
    <2>10. d[m] \in 0 .. MaxBackoff
      BY <1>4, <2>7, <2>9
    <2> QED BY <2>3, <2>10
  <1> QED BY <1>2, <1>5

\* A bounded set of numbers has a greatest one, the one Max names.
LEMMA GreatestNatural ==
  ASSUME NEW S \in SUBSET Nat, 0 \in S, NEW b \in Nat, \A y \in S : y <= b
  PROVE  Max(S) \in S /\ \A y \in S : y <= Max(S)
  <1> DEFINE B == {c \in Nat : \A y \in S : y <= c}
  <1>1. PICK m \in B : \A k \in B : ~(k < m)
    <2>1. b \in B /\ B \in SUBSET Nat
      OBVIOUS
    <2> HIDE DEF B
    <2> QED BY <2>1, LeastNatural
  <1>2. m \in S
    <2>1. SUFFICES ASSUME m \notin S PROVE FALSE
      OBVIOUS
    <2>2. m \in Nat /\ m # 0 /\ \A y \in S : y <= m /\ y # m /\ y \in Nat
      BY <1>1, <2>1
    <2>3. m - 1 \in Nat /\ m - 1 < m /\ \A y \in S : y <= m - 1
      BY <2>2
    <2> QED BY <1>1, <2>3
  <1>3. \A y \in S : m >= y
    BY <1>1
  <1>4. \E x \in S : \A y \in S : x >= y
    BY <1>2, <1>3
  <1>5. Max(S) \in S /\ \A y \in S : Max(S) >= y
    BY <1>4 DEF Max
  <1> QED BY <1>5

\* The attempts of the NUT group have a greatest count.
LEMMA MostAttempts ==
  ASSUME hosts \in [Hosts -> HostStates]
  PROVE  maxNUTAttempts \in Nat
  <1> DEFINE a == [h \in Hosts |-> hosts[h].shutdownAttempts]
             c == [i \in 1 .. Len(Order) |-> a[Order[i]]]
  <1>1. a \in [Hosts -> Nat] /\ \A h \in Hosts : a[h] = hosts[h].shutdownAttempts
    BY DEF HostStates
  <1> HIDE DEF a
  <1>2. Len(Order) \in Nat /\ \A i \in 1 .. Len(Order) : Order[i] \in Hosts
    BY FleetAssumption DEF Hosts
  <1>3. c \in [1 .. Len(Order) -> Nat]
    BY <1>1, <1>2
  <1>4. \A h \in Hosts : \E i \in 1 .. Len(Order) : a[h] = c[i]
    BY DEF Hosts
  <1> HIDE DEF c
  <1> DEFINE T == {n \in 0 .. Len(Order) : ~\E b \in Nat : \A i \in 1 .. n : c[i] <= b}
  <1>5. T = {}
    <2>1. SUFFICES ASSUME T # {} PROVE FALSE
      OBVIOUS
    <2>2. T \in SUBSET Nat
      BY <1>2
    <2>3. PICK m \in T : \A k \in T : ~(k < m)
      BY <2>1, <2>2, LeastNatural
    <2>4. /\ m # 0 /\ m \in 0 .. Len(Order)
          /\ ~\E b \in Nat : \A i \in 1 .. m : c[i] <= b
      BY <2>3
    <2>5. m - 1 \in 0 .. Len(Order) /\ m - 1 < m /\ m \in 1 .. Len(Order)
      BY <1>2, <2>4
    <2>6. PICK b \in Nat : \A i \in 1 .. m - 1 : c[i] <= b
      BY <2>3, <2>5
    <2> HIDE DEF T
    <2>7. c[m] \in Nat /\ \A i \in 1 .. m : c[i] \in Nat
      <3>1. \A i \in 1 .. m : i \in 1 .. Len(Order)
        BY <1>2, <2>5
      <3> QED BY <1>3, <2>5, <3>1
    <2>8. b + c[m] \in Nat /\ b <= b + c[m] /\ c[m] <= b + c[m]
      BY <2>6, <2>7
    <2>9. ASSUME NEW i \in 1 .. m
          PROVE  c[i] <= b + c[m]
      <3>1. CASE i = m
        BY <2>8, <3>1
      <3>2. CASE i # m
        <4>1. i \in 1 .. m - 1 /\ c[i] \in Nat
          BY <2>5, <2>7, <3>2
        <4> QED BY <2>6, <2>8, <4>1
      <3> QED BY <3>1, <3>2
    <2> QED BY <2>4, <2>8, <2>9
  <1>6. PICK b \in Nat : \A i \in 1 .. Len(Order) : c[i] <= b
    <2>1. Len(Order) \in 0 .. Len(Order)
      BY <1>2
    <2> QED BY <1>5, <2>1
  <1> DEFINE S == {0} \cup {hosts[h].shutdownAttempts : h \in NUTGroup}
  <1>7. S \in SUBSET Nat /\ 0 \in S /\ \A y \in S : y <= b
    BY <1>1, <1>4, <1>6, Fleet
  <1>8. Max(S) \in Nat
    <2> HIDE DEF S
    <2> QED BY <1>7, GreatestNatural
  <1> QED BY <1>8 DEF maxNUTAttempts

\* The host, or the attempt of the group, that the steps of a tick hand on.
Carried ==
  /\ pc \in {"command", "reply", "verify", "wake"} => cur \in Hosts
  /\ pc \in {"mark", "groupFSD", "groupReply"} => cur \in 1 .. MaxNUT

LocalTypeOK ==
  /\ pc \in {"idle", "bootSnapshot", "snapshot", "fresh", "begin", "shutdown",
             "command", "reply", "verify", "groupFailed", "mark", "groupFSD",
             "groupReply", "complete", "controllerFSD", "restore", "recover",
             "wake"}
  /\ cur \in Hosts \cup {NoHost} \cup 1 .. MaxNUT
  /\ done \subseteq Hosts
  /\ vol \in Volatile

\* A process that starts has forgotten everything.
LEMMA NewVolatileType == NewVolatile \in Volatile
  <1>1. 0 \in 0 .. MaxBackoff /\ Unset \in Unset .. MaxAge
    BY FleetAssumption, MaxAgeAssumption DEF Unset
  <1> QED BY <1>1 DEF NewVolatile, Volatile

\* A tick that ends leaves nothing but the volatile state.
LEMMA EndedTypes ==
  ASSUME NEW v \in Volatile, EndTick(v)
  PROVE  LocalTypeOK' /\ Carried'
  BY DEF EndTick, LocalTypeOK, Carried

\* Time passes for the volatile deadlines.
LEMMA AgedTypes ==
  ASSUME vol \in Volatile, NEW d \in Delays
  PROVE  AgedVolatile(d) \in Volatile
  <1>1. d \in Nat /\ MaxAge \in Nat /\ MaxBackoff \in Nat
    BY EnvironmentAssumption, MaxAgeAssumption, FleetAssumption
  <1>2. ASSUME NEW w \in 0 .. MaxBackoff PROVE Sooner(w, d) \in 0 .. MaxBackoff
    BY <1>1 DEF Sooner
  <1>3. ASSUME NEW a \in Unset .. MaxAge, a # Unset
        PROVE  Older(a, d) \in Unset .. MaxAge
    BY <1>1, <1>3 DEF Older, Unset
  <1>4. Unset \in Unset .. MaxAge
    BY <1>1 DEF Unset
  <1>5. /\ vol.nutWait \in 0 .. MaxBackoff /\ vol.fsdWait \in 0 .. MaxBackoff
        /\ vol.wakeAge \in Unset .. MaxAge
    BY DEF Volatile
  <1> DEFINE a == Sooner(vol.nutWait, d)
             b == Sooner(vol.fsdWait, d)
             c == IF vol.wakeAge = Unset THEN Unset ELSE Older(vol.wakeAge, d)
  <1>6. a \in 0 .. MaxBackoff /\ b \in 0 .. MaxBackoff /\ c \in Unset .. MaxAge
    BY <1>2, <1>3, <1>4, <1>5
  <1>7. AgedVolatile(d) = [vol EXCEPT !.nutWait = a, !.fsdWait = b, !.wakeAge = c]
    BY DEF AgedVolatile, Volatile
  <1> HIDE DEF a, b, c
  <1> QED BY <1>6, <1>7 DEF Volatile

\* The hosts that are settled directly, and the one handed to recovery.
LEMMA HandledHosts ==
  /\ \A h \in PreFSD : h \in Hosts
  /\ \A h \in HandedOut : h \in Hosts
  <1>1. DOMAIN Runtime = Hosts
    BY Fleet DEF Runtime
  <1> QED BY <1>1, Fleet, HandedOutWakeable DEF PreFSD, Direct, HandedOut, Wakeable, Eligible

\* Settling the direct hosts.
LEMMA DirectTypes ==
  ASSUME LocalTypeOK, Carried, SettleDirect
  PROVE  LocalTypeOK' /\ Carried'
  <1> USE DEF Goto
  <1>0. vol \in Volatile
    BY DEF LocalTypeOK
  <1>1. CASE EndTick(vol)
    BY <1>0, <1>1, EndedTypes
  <1>2. CASE \E h \in PreFSD : /\ pc' = "command" /\ cur' = h
                               /\ UNCHANGED <<done, vol>>
    BY <1>2, HandledHosts DEF LocalTypeOK, Carried
  <1>3. CASE pc' = "shutdown" /\ cur' = NoHost /\ UNCHANGED <<done, vol>>
    BY <1>3 DEF LocalTypeOK, Carried
  <1>4. CASE SendCommand
    BY <1>4 DEF SendCommand, LocalTypeOK, Carried
  <1>5. CASE CommandAcknowledged
    <2>1. cur \in Hosts
      BY <1>5 DEF CommandAcknowledged, Carried
    <2> QED BY <1>5, <2>1 DEF CommandAcknowledged, LocalTypeOK, Carried
  <1> QED BY <1>1, <1>2, <1>3, <1>4, <1>5
      DEF SettleDirect, SettleFailed, ReconcileUnknown, ReconcileOffline,
          SettleAttempt, Attempt, Settled, CommandFailed, VerifyDown,
          VerifyTimeout, HostFailedSafe, RetryPending

\* Forcing the NUT group down: the attempt is numbered within its limit.
LEMMA GroupTypes ==
  ASSUME OShape, LocalTypeOK, Carried, SettleGroup
  PROVE  LocalTypeOK' /\ Carried'
  <1> USE DEF Goto
  <1>0. vol \in Volatile
    BY DEF LocalTypeOK
  <1>1. CASE PrepareNUTGroup
    <2>1. CASE EndTick(vol)
      BY <1>0, <2>1, EndedTypes
    <2>2. CASE pc' = "groupFailed" /\ UNCHANGED <<cur, done, vol>>
      BY <2>2 DEF LocalTypeOK, Carried
    <2>3. CASE /\ ~(maxNUTAttempts >= MaxNUT) /\ pc' = "mark"
               /\ cur' = maxNUTAttempts + 1 /\ done' = {} /\ UNCHANGED vol
      <3>1. maxNUTAttempts \in Nat /\ MaxNUT \in Nat
        BY MostAttempts, FleetAssumption DEF OShape
      <3>2. cur' \in 1 .. MaxNUT
        BY <2>3, <3>1
      <3> QED BY <2>3, <3>2 DEF LocalTypeOK, Carried
    <2> QED BY <1>1, <2>1, <2>2, <2>3 DEF PrepareNUTGroup
  <1>2. CASE GroupFailedSafe
    BY <1>0, <1>2, EndedTypes DEF GroupFailedSafe
  <1>3. CASE MarkNUTRequested
    <2>1. NUTGroup \subseteq Hosts
      BY Fleet
    <2> QED BY <1>3, <2>1 DEF MarkNUTRequested, LocalTypeOK, Carried
  <1>4. CASE RequestGroupFSD
    BY <1>4 DEF RequestGroupFSD, LocalTypeOK, Carried
  <1>5. CASE GroupFSDFailed
    <2>1. cur \in 1 .. MaxNUT /\ EndTick([vol EXCEPT !.nutWait = RetryDelay(cur)])
      BY <1>5 DEF GroupFSDFailed, Carried
    <2>2. cur \in Nat \ {0}
      BY <2>1, FleetAssumption
    <2>3. RetryDelay(cur) \in 0 .. MaxBackoff
      BY <2>2, RetryIsCapped
    <2>4. [vol EXCEPT !.nutWait = RetryDelay(cur)] \in Volatile
      BY <1>0, <2>3 DEF Volatile
    <2> QED BY <2>1, <2>4, EndedTypes
  <1>6. CASE GroupFSDAcknowledged
    <2>1. 0 \in 0 .. MaxBackoff
      BY FleetAssumption
    <2>2. [vol EXCEPT !.nutWait = 0] \in Volatile
      BY <1>0, <2>1 DEF Volatile
    <2> QED BY <1>6, <2>2 DEF GroupFSDAcknowledged, LocalTypeOK, Carried
  <1> QED BY <1>1, <1>2, <1>3, <1>4, <1>5, <1>6 DEF SettleGroup

\* The controller's own FSD: its retries are counted and delayed within the cap.
LEMMA FSDTypes ==
  ASSUME LocalTypeOK, ControllerFSD
  PROVE  LocalTypeOK' /\ Carried'
  <1>1. vol \in Volatile /\ MaxBackoff \in Nat \ {0} /\ 0 \in 0 .. MaxBackoff
    BY FleetAssumption DEF LocalTypeOK
  <1>2. vol' \in Volatile
    <2>1. CASE vol' = [vol EXCEPT !.fsdDone = TRUE, !.fsdWait = 0]
      BY <1>1, <2>1 DEF Volatile
    <2>2. ASSUME NEW n, n = Min({vol.fsdAttempts + 1, MaxBackoff}),
                 vol' = [vol EXCEPT !.fsdAttempts = n, !.fsdWait = RetryDelay(n)]
          PROVE  vol' \in Volatile
      <3>1. vol.fsdAttempts \in 0 .. MaxBackoff
        BY <1>1 DEF Volatile
      <3>2. vol.fsdAttempts + 1 \in Nat \ {0}
        BY <1>1, <3>1
      <3>3. n \in Nat \ {0} /\ n \in 0 .. MaxBackoff
        BY <1>1, <2>2, <3>2, SmallerOfTwo
      <3>4. RetryDelay(n) \in 0 .. MaxBackoff
        BY <3>3, RetryIsCapped
      <3> QED BY <1>1, <2>2, <3>3, <3>4 DEF Volatile
    <2> QED BY <2>1, <2>2 DEF ControllerFSD
  <1> QED BY <1>2 DEF ControllerFSD, LocalTypeOK, Carried

\* The steps of a restoration.
LEMMA RecoveryTypes ==
  ASSUME LocalTypeOK, Carried, ExecuteRecoveryStep
  PROVE  LocalTypeOK' /\ Carried'
  <1> USE DEF Goto
  <1>1. /\ vol \in Volatile /\ 0 \in Unset .. MaxAge /\ Unset \in Unset .. MaxAge
    BY MaxAgeAssumption DEF LocalTypeOK, Unset
  <1>2. evaluated \in Volatile
    BY <1>1 DEF evaluated, Volatile
  <1>3. CASE BlockedRecovery
    BY <1>3 DEF BlockedRecovery, LocalTypeOK, Carried
  <1>4. CASE CompleteRecovery
    <2>1. [vol EXCEPT !.wakeAge = Unset, !.lastWake = NoHost,
                      !.resumeEvaluated = FALSE] \in Volatile
      BY <1>1 DEF Volatile
    <2> QED BY <1>4, <2>1, EndedTypes DEF CompleteRecovery
  <1>5. CASE SendWake
    <2>1. cur \in Hosts
      BY <1>5 DEF SendWake, Carried
    <2>2. [vol EXCEPT !.wakeAge = 0, !.lastWake = cur] \in Volatile
      BY <1>1, <2>1 DEF Volatile
    <2> QED BY <1>5, <2>2, EndedTypes DEF SendWake
  <1>6. CASE NothingToWake
    BY <1>1, <1>6, EndedTypes DEF NothingToWake
  <1>7. CASE \E h \in HandedOut : DelayWake(h)
    <2>1. /\ [vol EXCEPT !.resumeEvaluated = TRUE, !.wakeAge = 0,
                         !.lastWake = Resume] \in Volatile
          /\ [vol EXCEPT !.resumeEvaluated = TRUE] \in Volatile
      BY <1>1 DEF Volatile
    <2> QED BY <1>7, <2>1, EndedTypes DEF DelayWake
  <1>8. CASE \E h \in HandedOut : RecoveredOnline(h) \/ WakeExhausted(h)
                                  \/ RecoveryWriteFails(h)
    BY <1>2, <1>8, EndedTypes DEF RecoveredOnline, WakeExhausted, RecoveryWriteFails
  <1>9. CASE \E h \in HandedOut : PrepareWake(h)
    BY <1>2, <1>9, HandledHosts DEF PrepareWake, LocalTypeOK, Carried
  <1> QED BY <1>3, <1>4, <1>5, <1>6, <1>7, <1>8, <1>9 DEF ExecuteRecoveryStep

\* No step leaves the types of the volatile state.
LEMMA LocalTypeStep ==
  ASSUME OShape, LocalTypeOK, Carried, [ONext]_ovars
  PROVE  LocalTypeOK' /\ Carried'
  <1> USE DEF Goto
  <1>0. vol \in Volatile
    BY DEF LocalTypeOK
  <1>1. CASE ControllerTicks
    <2>1. PICK d \in Delays, s \in Samples : ControllerTick(d, s)
      BY <1>1 DEF ControllerTicks
    <2>2. AgedVolatile(d) \in Volatile
      BY <1>0, AgedTypes
    <2>3. CASE EndTick(AgedVolatile(d))
      BY <2>2, <2>3, EndedTypes
    <2>4. CASE /\ pc' \in {"bootSnapshot", "fresh", "begin", "shutdown", "restore"}
               /\ vol' = AgedVolatile(d) /\ UNCHANGED <<cur, done>>
      BY <2>2, <2>4 DEF LocalTypeOK, Carried
    <2> QED BY <2>1, <2>3, <2>4 DEF ControllerTick
  <1>2. CASE SnapshotHosts
    <2>1. CASE EndTick(vol)
      BY <1>0, <2>1, EndedTypes
    <2>2. CASE pc' = "fresh" /\ UNCHANGED <<cur, done, vol>>
      BY <2>2 DEF LocalTypeOK, Carried
    <2> QED BY <1>2, <2>1, <2>2 DEF SnapshotHosts
  <1>3. CASE BeginFreshOutage
    BY <1>3, NewVolatileType DEF BeginFreshOutage, LocalTypeOK, Carried
  <1>4. CASE BeginShutdownWork
    BY <1>4 DEF BeginShutdownWork, LocalTypeOK, Carried
  <1>5. CASE SettleDirect
    BY <1>5, DirectTypes
  <1>6. CASE SettleGroup
    BY <1>6, GroupTypes
  <1>7. CASE CompleteShutdown
    BY <1>0, <1>7, EndedTypes DEF CompleteShutdown
  <1>8. CASE ControllerFSD
    BY <1>8, FSDTypes
  <1>9. CASE ExecuteRecoveryStep
    BY <1>9, RecoveryTypes
  <1>10. CASE ControllerRestart
    BY <1>10, NewVolatileType DEF ControllerRestart, LocalTypeOK, Carried
  <1>11. CASE UNCHANGED ovars
    BY <1>11 DEF ovars, local, LocalTypeOK, Carried
  <1> QED BY <1>1, <1>2, <1>3, <1>4, <1>5, <1>6, <1>7, <1>8, <1>9, <1>10, <1>11
      DEF ONext, Running, TickContinues

\* The orchestrator's type invariant for every fleet: the records of the hosts
\* stay in their states, a retry of either schedule is never further away than
\* a minute, the attempt on the NUT group is numbered within its limit, and the
\* remembered time of the last wake-up stays within its bound.
THEOREM OrchestratorTypeCorrect == OSpec => []OTypeOK
  <1> DEFINE TInv == LocalTypeOK /\ Carried /\ excluded \in Exclusions
  <1>1. OInit => TInv
    BY NewVolatileType DEF OInit, LocalTypeOK, Carried
  <1>2. OInv /\ TInv /\ [ONext]_ovars => TInv'
    <2>1. [ONext]_ovars /\ excluded \in Exclusions => excluded' \in Exclusions
      BY DEF ONext, Running, ControllerRestart, ovars
    <2> QED BY <2>1, LocalTypeStep DEF OInv
  <1>3. OInv /\ TInv => OTypeOK
    BY DEF OInv, OShape, IInv, LocalTypeOK, OTypeOK
  <1> QED BY <1>1, <1>2, <1>3, OrchestratorInvariance, PTL DEF OSpec
-----------------------------------------------------------------------------
(* Recovery never waits in vain. *)

\* What one round of markBlockedRecovery adds to the hosts X marked so far.
Blocking(n, X) ==
  {h \in {Order[n]} :
     /\ EligibleForRestore(Runtime[h], hosts[h])
     /\ hosts[h].recovery \notin {"online", "failed"}
     /\ \E dep \in Config[h].dependsOn :
          /\ EligibleForRestore(Runtime[dep], hosts[dep])
          /\ hosts[dep].recovery = "failed" \/ dep \in X}

\* A host that is to be restored, is neither back nor given up, and depends on
\* a restorable host that failed, is given up by the next pass.
LEMMA BehindFailed ==
  ASSUME NEW h \in Hosts, EligibleForRestore(Runtime[h], hosts[h]),
         hosts[h].recovery \notin {"online", "failed"},
         NEW dep \in Config[h].dependsOn,
         EligibleForRestore(Runtime[dep], hosts[dep]), hosts[dep].recovery = "failed"
  PROVE  h \in markBlockedRecovery
  <1> DEFINE N == Len(Order)
             S == SUBSET Hosts
             s0 == {}
             step == [n \in 1 .. N |-> [X \in S |-> X \cup Blocking(n, X)]]
             r == CHOOSE g : g = [n \in 0 .. N |->
                     IF n = 0 THEN {} ELSE g[n - 1] \cup Blocking(n, g[n - 1])]
  <1>1. N \in Nat
    BY FleetAssumption
  <1>2. markBlockedRecovery = r[N]
    BY Zenon DEF markBlockedRecovery, Blocking, N
  <1>3. \A n \in 1 .. N : \A X \in S : Blocking(n, X) \subseteq Hosts
    BY DEF Blocking, Hosts
  <1>4. \A n \in 1 .. N : \A X \in S : step[n][X] = X \cup Blocking(n, X)
    OBVIOUS
  <1>5. s0 \in S
    OBVIOUS
  <1> HIDE DEF N, step, s0
  <1>6. StaysIn(N, S, step)
    BY <1>3, <1>4 DEF StaysIn
  <1> HIDE DEF S
  <1>7. PICK f : IsIteration(N, S, s0, step, f)
    BY <1>1, <1>5, <1>6, IterationExists
  <1>8. /\ f \in [0 .. N -> S] /\ f[0] = {}
        /\ \A n \in 1 .. N : f[n] = f[n - 1] \cup Blocking(n, f[n - 1])
    <2>1. f \in [0 .. N -> S] /\ f[0] = {} /\ \A n \in 1 .. N : f[n] = step[n][f[n - 1]]
      BY <1>7 DEF IsIteration, s0
    <2>2. \A n \in 1 .. N : n - 1 \in 0 .. N
      BY <1>1
    <2> QED BY <1>4, <2>1, <2>2
  <1>9. r[N] = f[N]
    <2>1. f = [n \in 0 .. N |-> IF n = 0 THEN {} ELSE f[n - 1] \cup Blocking(n, f[n - 1])]
      <3>1. \A n \in 0 .. N : n = 0 \/ n \in 1 .. N
        BY <1>1
      <3>2. \A n \in 0 .. N :
              f[n] = IF n = 0 THEN {} ELSE f[n - 1] \cup Blocking(n, f[n - 1])
        BY <1>8, <3>1
      <3> QED BY <1>8, <3>2
    <2>2. r = [n \in 0 .. N |-> IF n = 0 THEN {} ELSE r[n - 1] \cup Blocking(n, r[n - 1])]
      BY Zenon, <2>1
    <2> HIDE DEF r
    <2> DEFINE T == {k \in 0 .. N : r[k] # f[k]}
    <2>3. T = {}
      <3>1. SUFFICES ASSUME T # {} PROVE FALSE
        OBVIOUS
      <3>2. T \in SUBSET Nat
        BY <1>1
      <3>3. PICK m \in T : \A k \in T : ~(k < m)
        BY <3>1, <3>2, LeastNatural
      <3>4. m \in 0 .. N /\ r[m] # f[m]
        BY <3>3
      <3>5. m # 0
        <4>1. 0 \in 0 .. N
          BY <1>1
        <4>2. r[0] = {}
          BY <2>2, <4>1
        <4> QED BY <3>4, <4>2, <1>8
      <3>6. m \in 1 .. N /\ m - 1 \in 0 .. N /\ m - 1 < m
        BY <1>1, <3>4, <3>5
      <3>7. r[m - 1] = f[m - 1]
        BY <3>3, <3>6
      <3>8. r[m] = r[m - 1] \cup Blocking(m, r[m - 1])
        BY <2>2, <3>4, <3>5
      <3> QED BY <3>4, <3>6, <3>7, <3>8, <1>8
    <2>4. N \in 0 .. N
      BY <1>1
    <2> QED BY <2>3, <2>4
  <1> HIDE DEF r
  <1>10. PICK i \in 1 .. N : h = Order[i]
    BY DEF Hosts, N
  <1>11. h \in f[i]
    <2>1. h \in Blocking(i, f[i - 1])
      BY <1>10 DEF Blocking
    <2> QED BY <1>8, <2>1
  <1> DEFINE U == {k \in i .. N : h \notin f[k]}
  <1>12. U = {}
    <2>1. SUFFICES ASSUME U # {} PROVE FALSE
      OBVIOUS
    <2>2. U \in SUBSET Nat
      BY <1>1
    <2>3. PICK m \in U : \A k \in U : ~(k < m)
      BY <2>1, <2>2, LeastNatural
    <2>4. m \in i .. N /\ h \notin f[m]
      BY <2>3
    <2>5. m - 1 \in i .. N /\ m - 1 < m /\ m \in 1 .. N
      BY <1>1, <1>11, <2>4
    <2>6. h \in f[m - 1]
      BY <2>3, <2>5
    <2> QED BY <2>4, <2>5, <2>6, <1>8
  <1>13. N \in i .. N
    BY <1>1
  <1> QED BY <1>2, <1>9, <1>12, <1>13

\* The fleet is finite.
LEMMA HostsFinite == Hosts \in SUBSET Nat /\ IsFiniteSet(Hosts)
  <1> DEFINE I == 1 .. Len(Order)
             f == [i \in I |-> Order[i]]
  <1>1. Len(Order) \in Nat /\ \A i \in I : Order[i] \in Nat
    BY FleetAssumption
  <1>2. IsFiniteSet(I)
    BY <1>1, FS_Interval
  <1>3. f \in Surjection(I, Hosts)
    BY DEF Surjection, Hosts
  <1> HIDE DEF I, f
  <1>4. IsFiniteSet(Hosts)
    BY <1>2, <1>3, FS_Surjection
  <1> QED BY <1>1, <1>4 DEF Hosts, I

\* An excluded host keeps its priority and its dependencies.
LEMMA RuntimePlan ==
  ASSUME NEW h \in Hosts
  PROVE  /\ h \in DOMAIN Runtime
         /\ Runtime[h].wakePriority = Config[h].wakePriority
         /\ Runtime[h].dependsOn = Config[h].dependsOn
         /\ Config[h].wakePriority \in Int /\ Config[h].dependsOn \subseteq Hosts
  <1>1. Config[h] \in HostConfigs(Hosts) /\ DOMAIN Config = Hosts
    BY Fleet
  <1> QED BY <1>1 DEF Runtime, HostConfigs

\* There is a plan in every state: whichever hosts the snapshot and the
\* exclusions leave to be restored, BuildRecoveryPlan never reports a cycle to
\* executeRecoveryStep, as the validation of the armed configuration refused a
\* fleet with one.
THEOREM RestorationPlan ==
  /\ Eligible(Runtime, hosts) \subseteq Hosts
  /\ Plannable(Runtime, Eligible(Runtime, hosts))
  /\ ~PlanFails(Runtime, Eligible(Runtime, hosts))
  <1> DEFINE E == Eligible(Runtime, hosts)
  <1>1. E \subseteq Hosts
    <2>1. DOMAIN Runtime = Hosts
      BY Fleet DEF Runtime
    <2> QED BY <2>1 DEF Eligible
  <1> HIDE DEF E
  <1>2. IsFiniteSet(E)
    BY <1>1, HostsFinite, FS_Subset
  <1>3. Plannable(Runtime, E)
    BY <1>1, <1>2, HostsFinite, RuntimePlan DEF Plannable
  <1>4. Plannable(Config, Hosts)
    BY Fleet, HostsFinite, RuntimePlan DEF Plannable
  <1>5. \A h \in E : Runtime[h].dependsOn = Config[h].dependsOn
    BY <1>1, RuntimePlan
  <1>6. ~PlanFails(Runtime, E)
    BY <1>1, <1>3, <1>4, <1>5, NoCycleLater, ArmedAssumption
  <1> QED BY <1>1, <1>3, <1>6 DEF E

\* When nothing is handed out, the first in the plan of the hosts that are not
\* finished depends on one that failed, and so is given up, or on one recorded
\* as not to be woken.
LEMMA WaitsBehind ==
  ASSUME ~recoverySettled, NextRecoveryHost(Runtime, hosts) = {},
         markBlockedRecovery = {}
  PROVE  \E h, d \in Eligible(Runtime, hosts) :
           /\ hosts[h].recovery \notin Finished
           /\ d \in Config[h].dependsOn /\ hosts[d].recovery = "not_required"
  <1> DEFINE E == Eligible(Runtime, hosts)
             U == {h \in E : hosts[h].recovery \notin Finished}
  <1>1. U \in SUBSET E /\ U # {}
    BY DEF recoverySettled, Finished
  <1>2. E \subseteq Hosts /\ Plannable(Runtime, E) /\ ~PlanFails(Runtime, E)
    BY RestorationPlan
  <1>3. \A h \in E : EligibleForRestore(Runtime[h], hosts[h])
    BY DEF Eligible
  <1>4. \A h \in E : h \in U <=> hosts[h].recovery \notin Finished
    OBVIOUS
  <1>5. Wakeable(Runtime, hosts) =
          {h \in U : \A d \in Runtime[h].dependsOn \cap E : hosts[d].recovery = "online"}
    BY DEF Wakeable
  <1> HIDE DEF E, U
  <1>6. PICK i \in 1 .. Cardinality(E) :
               /\ BuildRecoveryPlan(Runtime, E)[i] \in U
               /\ Runtime[BuildRecoveryPlan(Runtime, E)[i]].dependsOn \cap E \cap U = {}
    <2>1. U \in SUBSET E /\ U # {} /\ Plannable(Runtime, E) /\ ~PlanFails(Runtime, E)
      BY <1>1, <1>2
    <2> QED BY <2>1, FirstInPlan
  <1>7. PICK h \in U : Runtime[h].dependsOn \cap E \cap U = {}
    BY <1>6
  <1>8. h \in E /\ h \in Hosts /\ Runtime[h].dependsOn = Config[h].dependsOn
    BY <1>1, <1>2, RuntimePlan
  <1>9. Wakeable(Runtime, hosts) = {}
    BY <1>2, NextIfWakeable DEF E
  <1>10. PICK d \in Config[h].dependsOn \cap E : hosts[d].recovery # "online"
    BY <1>5, <1>8, <1>9
  <1>11. hosts[d].recovery \in {"failed", "not_required"}
    BY <1>4, <1>7, <1>8, <1>10 DEF Finished
  <1>12. hosts[h].recovery \notin Finished
    BY <1>4, <1>8
  <1>13. hosts[d].recovery # "failed"
    BY <1>3, <1>8, <1>10, <1>12, BehindFailed DEF Finished
  <1> QED BY <1>8, <1>10, <1>11, <1>12, <1>13 DEF E

\* Recovery is never left waiting for nothing, in any fleet: of the hosts that
\* are not finished, the first in the plan depends only on finished ones, so it
\* is handed out, or is given up behind a failed one, or depends on one whose
\* record says that it need not be woken.  Such a record of a host that is to
\* be restored was written when the snapshot found the host excluded.
THEOREM RecoveryKeepsAdvancing == OSpec => []RecoveryAdvances
  <1>1. OInv => RecoveryAdvances
    <2> SUFFICES ASSUME OInv, fleet.fresh, ~recoverySettled,
                        NextRecoveryHost(Runtime, hosts) = {}, markBlockedRecovery = {}
                 PROVE  \E h \in Eligible(Runtime, hosts) :
                          /\ hosts[h].recovery \notin Finished
                          /\ Config[h].dependsOn \cap Readmitted # {}
      BY DEF RecoveryAdvances
    <2>1. PICK h \in Eligible(Runtime, hosts), d \in Eligible(Runtime, hosts) :
                 /\ hosts[h].recovery \notin Finished
                 /\ d \in Config[h].dependsOn /\ hosts[d].recovery = "not_required"
      BY WaitsBehind
    <2>2. d \in Hosts
      BY RestorationPlan
    <2>3. Runtime[d].wakeEnabled /\ Runtime[d].restorePolicy # "never"
      BY DEF Eligible, EligibleForRestore
    <2>4. Config[d].wakeEnabled /\ Config[d].restorePolicy # "never"
      BY <2>2, <2>3, RuntimeFacts
    <2>5. d \in fleet.exempt
      BY <2>1, <2>2, <2>4 DEF OInv, Shown, RecoveryShown
    <2> QED BY <2>1, <2>5 DEF Readmitted
  <1> QED BY <1>1, OrchestratorInvariance, PTL
=============================================================================
