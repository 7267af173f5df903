------------------------- MODULE PolicyEngineProofs -------------------------
(***************************************************************************)
(* TLAPS proofs about PolicyEngine, for every value of its constants.      *)
(*                                                                         *)
(* GenerationConsistent is not inductive alone: what a boot writes depends *)
(* on memory, and what memory holds at boot depends on the generation it   *)
(* was loaded from.  The inductive invariant is the conjunction of the     *)
(* type invariant, GenerationConsistent and MemoryIsDurable.               *)
(***************************************************************************)
EXTENDS PolicyEngine, TLAPS

IInv == TypeOK /\ GenerationConsistent /\ MemoryIsDurable

TimerType == [Timers -> Unset .. MaxAge]

Duties == {"none", "begin", "fresh"}

\* What the engine may write together with the duty it leaves to its caller.
Writable(g, o) ==
  /\ g \in State
  /\ Consistent(g)
  /\ g.power # "BOOT_RECONCILE"
  /\ g.power = "ON_BATTERY" /\ o # "fresh" => ~g.committed
  /\ o = "fresh" => g.power = "ON_BATTERY"
  /\ o = "begin" <=> g.power = "SHUTDOWN_COMMITTED"

\* A durable write of a writable state establishes the invariant.
LEMMA PersistInv ==
  ASSUME NEW g, NEW T \in TimerType, NEW n \in 0 .. 1, NEW o \in Duties,
         Writable(g, o), Persist(g, T, n, o), in' \in Samples
  PROVE  IInv'
  <1>1. st' = g /\ disk' = g /\ since' = T /\ onlineConfirmations' = n /\ owed' = o
    BY DEF Persist
  <1>2. TypeOK'
    BY <1>1 DEF TypeOK, Writable, TimerType, Duties, Confirmations
  <1>3. GenerationConsistent'
    BY <1>1 DEF GenerationConsistent, Consistent, Writable
  <1>4. MemoryIsDurable'
    BY <1>1 DEF MemoryIsDurable, Writable
  <1> QED BY <1>2, <1>3, <1>4 DEF IInv

\* A decision that changes nothing durable keeps the invariant.
LEMMA HoldInv ==
  ASSUME IInv, NEW T \in TimerType, NEW n \in 0 .. 1,
         owed = "none", Hold(T, n), in' \in Samples
  PROVE  IInv'
  <1>1. /\ st' = st /\ disk' = disk /\ since' = T /\ onlineConfirmations' = n
        /\ owed' = owed
    BY DEF Hold
  <1>2. TypeOK'
    BY <1>1 DEF IInv, TypeOK, TimerType, Confirmations
  <1>3. GenerationConsistent' /\ MemoryIsDurable'
    BY <1>1 DEF IInv, GenerationConsistent, MemoryIsDurable, Consistent
  <1> QED BY <1>2, <1>3 DEF IInv

\* Ageing the timers by the time between two ticks keeps them in range.
LEMMA AgedType ==
  ASSUME TypeOK, NEW d \in Delays
  PROVE  AgedBy(d) \in TimerType
  BY MaxAgeAssumption, EnvironmentAssumption
  DEF TypeOK, AgedBy, TimerType, Unset

\* Setting or clearing one timer keeps them in range.
LEMMA TimerUpdate ==
  ASSUME NEW T \in TimerType, NEW t \in Timers
  PROVE  /\ \A v \in Unset .. MaxAge : [T EXCEPT ![t] = v] \in TimerType
         /\ StartIfUnset(T, t) \in TimerType
         /\ T[t] \in Unset .. MaxAge
         /\ StartIfUnset(T, t)[t] \in 0 .. MaxAge
         /\ 0 \in Unset .. MaxAge
         /\ Unset \in Unset .. MaxAge
  BY MaxAgeAssumption DEF TimerType, StartIfUnset, Unset


-----------------------------------------------------------------------------
(* One lemma per handler of Engine.Step.  The context of a handler: *)

InStep(T, s) ==
  /\ IInv
  /\ owed = "none"
  /\ T \in TimerType
  /\ s \in Samples
  /\ in' = s

\* FAILED_SAFE ignores its inputs.
LEMMA StepFailedSafeInv ==
  ASSUME NEW T, NEW s, InStep(T, s), StepFailedSafe(T, s)
  PROVE  IInv'
  BY HoldInv DEF InStep, StepFailedSafe, IInv, TypeOK, Confirmations

\* commitShutdown outside recovery keeps the invariant.
LEMMA CommitInv ==
  ASSUME NEW T, NEW s, InStep(T, s), NEW n \in 0 .. 1, NEW e \in Thresholds,
         ~st.recovery, commitShutdown(T, n, e)
  PROVE  IInv'
  <1> DEFINE g == [st EXCEPT !.committed = TRUE,
                             !.power = "SHUTDOWN_COMMITTED", !.elapsed = e]
  <1>1. Writable(g, "begin")
    <2>1. st \in State
      BY DEF InStep, IInv, TypeOK
    <2>2. g \in State
      BY <2>1 DEF State, PowerStates
    <2> QED BY <2>1, <2>2 DEF Writable, Consistent, State, CommittedPhases
  <1>2. Persist(g, T, n, "begin")
    BY DEF commitShutdown
  <1> QED BY <1>1, <1>2, PersistInv DEF InStep, Duties

\* What the invariant says of memory when the caller owes nothing.
LEMMA MemoryFacts ==
  ASSUME IInv, owed = "none"
  PROVE  /\ st \in State
         /\ st.recovery => st.committed
         /\ st.power = "ON_BATTERY" => ~st.committed
         /\ st.power # "SHUTDOWN_COMMITTED"
         /\ st.power # "BOOT_RECONCILE" => Consistent(st)
         /\ onlineConfirmations \in 0 .. 1
  BY DEF IInv, TypeOK, GenerationConsistent, MemoryIsDurable, Consistent,
         State, Confirmations

\* An observed forced shutdown keeps the invariant from every state.
LEMMA StepFSDInv ==
  ASSUME NEW T, NEW s, InStep(T, s), StepFSD(T, s)
  PROVE  IInv'
  <1>1. /\ st.elapsed \in Thresholds /\ ~st.recovery
        /\ onlineConfirmations \in 0 .. 1
    BY MemoryFacts DEF InStep, StepFSD, FSDObserved, State
  <1>2. commitShutdown(T, onlineConfirmations, st.elapsed)
    BY DEF StepFSD
  <1> QED BY <1>1, <1>2, CommitInv

\* NORMAL either starts watching an outage or does nothing.
LEMMA StepNormalInv ==
  ASSUME NEW T, NEW s, InStep(T, s), StepNormal(T, s)
  PROVE  IInv'
  <1> DEFINE g == [st EXCEPT !.power = "ON_BATTERY", !.elapsed = 0]
             T1 == [T EXCEPT !["onBatterySince"] = 0,
                             !["lastOutageCheckpoint"] = 0,
                             !["unknownSince"] = Unset]
  <1>1. CASE s.utility = "on_battery"
    <2>1. Writable(g, "fresh")
      BY MemoryFacts, MaxAgeAssumption
      DEF InStep, StepNormal, Writable, Consistent, State, PowerStates,
          CommittedPhases, Thresholds
    <2>2. T1 \in TimerType
      BY MaxAgeAssumption DEF InStep, TimerType, Timers, Unset
    <2>3. Persist(g, T1, 0, "fresh")
      BY <1>1 DEF StepNormal
    <2> QED BY <2>1, <2>2, <2>3, PersistInv DEF InStep, Duties
  <1>2. CASE s.utility # "on_battery"
    BY <1>2, HoldInv, MemoryFacts DEF InStep, StepNormal
  <1> QED BY <1>1, <1>2
\* checkpointOutage changes at most the durable outage age.
LEMMA CheckpointInv ==
  ASSUME NEW T, NEW s, InStep(T, s), NEW e \in Thresholds,
         st.power = "ON_BATTERY", NEW T1 \in TimerType, checkpointOutage(T1, e)
  PROVE  IInv'
  <1> DEFINE g == [st EXCEPT !.elapsed = recordOutageElapsed(e)]
             now == [T1 EXCEPT !["lastOutageCheckpoint"] = 0]
  <1>1. now \in TimerType
    BY MaxAgeAssumption DEF TimerType, Timers, Unset
  <1>2. Hold(now, 0) \/ Hold(T1, 0) \/ Persist(g, now, 0, "none")
    BY DEF checkpointOutage
  <1>3. Writable(g, "none")
    <2>1. recordOutageElapsed(e) \in Thresholds
      BY MemoryFacts DEF recordOutageElapsed, InStep, State
    <2> QED
      BY <2>1, MemoryFacts
      DEF InStep, Writable, Consistent, State, CommittedPhases
  <1>4. CASE Persist(g, now, 0, "none")
    BY <1>1, <1>3, <1>4, PersistInv DEF InStep, Duties
  <1>5. CASE Hold(now, 0) \/ Hold(T1, 0)
    BY <1>1, <1>5, HoldInv DEF InStep
  <1> QED BY <1>2, <1>4, <1>5

\* Utility back before the commit: a confirmation or the end of the outage.
LEMMA OnBatteryOnlineInv ==
  ASSUME NEW T, NEW s, InStep(T, s), st.power = "ON_BATTERY",
         OnBatteryOnline(T, s)
  PROVE  IInv'
  <1> DEFINE T1 == [T EXCEPT !["unknownSince"] = Unset]
             T2 == [T1 EXCEPT !["onBatterySince"] = Unset,
                              !["lastOutageCheckpoint"] = Unset]
             g == [st EXCEPT !.power = "NORMAL", !.elapsed = 0]
  <1>1. T1 \in TimerType /\ T2 \in TimerType
    BY MaxAgeAssumption DEF InStep, TimerType, Timers, Unset
  <1>2. ~st.committed /\ onlineConfirmations \in 0 .. 1
    BY MemoryFacts DEF InStep
  <1>3. CASE onlineConfirmations + 1 < Confirmations
    <2>1. Hold(T1, onlineConfirmations + 1)
      BY <1>2, <1>3 DEF OnBatteryOnline
    <2>2. onlineConfirmations + 1 \in 0 .. 1
      BY <1>2, <1>3 DEF Confirmations
    <2> QED BY <1>1, <2>1, <2>2, HoldInv DEF InStep
  <1>4. CASE ~(onlineConfirmations + 1 < Confirmations)
    <2>1. Persist(g, T2, 0, "none")
      BY <1>2, <1>4 DEF OnBatteryOnline
    <2>2. st \in State /\ ~st.recovery
      BY MemoryFacts DEF InStep, State
    <2>3. g \in State
      <3>1. 0 \in Thresholds
        BY MaxAgeAssumption DEF Thresholds
      <3> QED BY <2>2, <3>1 DEF State, PowerStates
    <2>4. Writable(g, "none")
      BY <1>2, <2>2, <2>3 DEF Writable, Consistent, State, CommittedPhases
    <2> QED BY <1>1, <2>1, <2>4, PersistInv DEF InStep, Duties
  <1> QED BY <1>3, <1>4

\* The handlers of ON_BATTERY: commits, checkpoints and cancellation.
LEMMA StepOnBatteryInv ==
  ASSUME NEW T, NEW s, InStep(T, s), StepOnBattery(T, s)
  PROVE  IInv'
  <1>1. /\ st.power = "ON_BATTERY" /\ ~st.recovery
        /\ st.elapsed \in Thresholds
    BY MemoryFacts DEF InStep, StepOnBattery, State
  <1>2. CASE OnBatteryOnline(T, s)
    BY <1>1, <1>2, OnBatteryOnlineInv
  <1>3. CASE OnBatteryLow(T, s)
    BY <1>1, <1>3, CommitInv DEF OnBatteryLow
  <1>4. CASE OnBatteryUnknown(T, s)
    <2> DEFINE T1 == StartIfUnset(T, "unknownSince")
    <2>1. T1 \in TimerType
      BY TimerUpdate DEF InStep, Timers
    <2>2. InStep(T1, s)
      BY <2>1 DEF InStep
    <2>3. commitShutdown(T1, 0, st.elapsed) \/ Hold(T1, 0)
      BY <1>4 DEF OnBatteryUnknown
    <2>4. CASE commitShutdown(T1, 0, st.elapsed)
      BY <1>1, <2>2, <2>4, CommitInv
    <2>5. CASE Hold(T1, 0)
      BY <2>1, <2>5, HoldInv DEF InStep
    <2> QED BY <2>3, <2>4, <2>5
  <1>5. CASE OnBatteryMonitor(T, s)
    <2> DEFINE T1 == [T EXCEPT !["unknownSince"] = Unset]
               T2 == IF T1["onBatterySince"] = Unset
                     THEN [T1 EXCEPT !["onBatterySince"] = 0,
                                     !["lastOutageCheckpoint"] = 0]
                     ELSE T1
               e == T2["onBatterySince"]
    <2>1. T1 \in TimerType
      BY TimerUpdate DEF InStep, Timers
    <2>2. T2 \in TimerType /\ e \in Thresholds
      BY <2>1, MaxAgeAssumption DEF TimerType, Timers, Unset, Thresholds
    <2>3. InStep(T2, s)
      BY <2>2 DEF InStep
    <2>4. \/ commitShutdown(T2, 0, recordOutageElapsed(e))
          \/ checkpointOutage(T2, e)
      BY <1>5 DEF OnBatteryMonitor
    <2>5. recordOutageElapsed(e) \in Thresholds
      BY <1>1, <2>2 DEF recordOutageElapsed
    <2> HIDE DEF T1, T2, e
    <2>6. CASE commitShutdown(T2, 0, recordOutageElapsed(e))
      BY <1>1, <2>3, <2>5, <2>6, CommitInv
    <2>7. CASE checkpointOutage(T2, e)
      BY <1>1, <2>2, <2>3, <2>7, CheckpointInv
    <2> QED BY <2>4, <2>6, <2>7
  <1> QED BY <1>2, <1>3, <1>4, <1>5 DEF StepOnBattery

\* A write that only moves the power state (and perhaps the recovery flag) of
\* a committed transaction is writable when its phase and flag fit.
LEMMA MoveWritable ==
  ASSUME st \in State, st.committed, NEW p \in PowerStates, NEW r \in BOOLEAN,
         NEW o \in Duties, NEW g,
         g = [st EXCEPT !.power = p, !.recovery = r],
         p \notin {"BOOT_RECONCILE", "NORMAL", "SHUTDOWN_COMMITTED"},
         o # "begin", p = "ON_BATTERY" <=> o = "fresh",
         r => p \in {"RECOVERY_STARTED", "RESTORE_HOSTS", "FAILED_SAFE"},
         p \in {"RECOVERY_STARTED", "RESTORE_HOSTS"} => r
  PROVE  Writable(g, o)
  BY DEF Writable, Consistent, State, CommittedPhases

\* A durable move of a committed transaction keeps the invariant.
LEMMA MoveInv ==
  ASSUME NEW T, NEW s, InStep(T, s), st.committed,
         NEW p \in PowerStates, NEW r \in BOOLEAN, NEW o \in Duties,
         NEW T1 \in TimerType, NEW n \in 0 .. 1,
         Persist([st EXCEPT !.power = p, !.recovery = r], T1, n, o),
         p \notin {"BOOT_RECONCILE", "NORMAL", "SHUTDOWN_COMMITTED"},
         o # "begin", p = "ON_BATTERY" <=> o = "fresh",
         r => p \in {"RECOVERY_STARTED", "RESTORE_HOSTS", "FAILED_SAFE"},
         p \in {"RECOVERY_STARTED", "RESTORE_HOSTS"} => r
  PROVE  IInv'
  <1> DEFINE g == [st EXCEPT !.power = p, !.recovery = r]
  <1>1. Writable(g, o)
    BY MemoryFacts, MoveWritable DEF InStep
  <1>2. Persist(g, T1, n, o)
    OBVIOUS
  <1> QED BY <1>1, <1>2, PersistInv DEF InStep

\* WAITING_FOR_AC moves to RECOVERY_WAIT or stays.
LEMMA StepWaitingForACInv ==
  ASSUME NEW T, NEW s, InStep(T, s), StepWaitingForAC(T, s)
  PROVE  IInv'
  <1> DEFINE T1 == [T EXCEPT !["onlineSince"] = 0, !["networkWaitSince"] = Unset]
             g == [st EXCEPT !.power = "RECOVERY_WAIT"]
  <1>1. /\ st \in State /\ Consistent(st) /\ st.power = "WAITING_FOR_AC"
        /\ onlineConfirmations \in 0 .. 1
    BY MemoryFacts DEF InStep, StepWaitingForAC
  <1>2. CASE s.utility = "online" /\ RecoveryEnabled
    <2>1. Persist(g, T1, onlineConfirmations, "none")
      BY <1>2 DEF StepWaitingForAC
    <2>2. Writable(g, "none")
      BY <1>1 DEF Writable, Consistent, State, PowerStates, CommittedPhases
    <2>3. T1 \in TimerType
      BY MaxAgeAssumption DEF InStep, TimerType, Timers, Unset
    <2> QED BY <1>1, <2>1, <2>2, <2>3, PersistInv DEF InStep, Duties
  <1>3. CASE ~(s.utility = "online" /\ RecoveryEnabled)
    <2>1. Hold(T, onlineConfirmations)
      BY <1>3 DEF StepWaitingForAC
    <2> QED BY <1>1, <2>1, HoldInv DEF InStep
  <1> QED BY <1>2, <1>3
\* stepRecoveryWait falls back, waits, times out or commits recovery.
LEMMA StepRecoveryWaitInv ==
  ASSUME NEW T, NEW s, InStep(T, s), StepRecoveryWait(T, s)
  PROVE  IInv'
  <1> DEFINE waiting == ClearGateTimers(T)
             T1 == StartStability(T)
             calm == [T1 EXCEPT !["networkWaitSince"] = Unset]
             T2 == StartIfUnset(T1, "networkWaitSince")
             n == onlineConfirmations
  <1>1. /\ st \in State /\ Consistent(st) /\ st.power = "RECOVERY_WAIT"
        /\ n \in 0 .. 1
    BY MemoryFacts DEF InStep, StepRecoveryWait
  <1>2. st.committed /\ ~st.recovery
    BY <1>1 DEF Consistent, CommittedPhases
  <1>3. /\ waiting \in TimerType /\ calm \in TimerType /\ T1 \in TimerType
        /\ T2 \in TimerType
    <2>1. T1 \in TimerType
      BY TimerUpdate DEF InStep, Timers, StartStability
    <2>2. T2 \in TimerType /\ calm \in TimerType
      BY <2>1, TimerUpdate DEF Timers
    <2>3. waiting \in TimerType
      BY MaxAgeAssumption DEF InStep, ClearGateTimers, TimerType, Timers, Unset
    <2> QED BY <2>1, <2>2, <2>3
  <1>4. \/ Persist([st EXCEPT !.power = "WAITING_FOR_AC"], waiting, n, "none")
        \/ Hold(waiting, n) \/ Hold(calm, n) \/ Hold(T2, n)
        \/ Persist([st EXCEPT !.power = "FAILED_SAFE"], T2, n, "none")
        \/ Persist([st EXCEPT !.power = "RECOVERY_STARTED", !.recovery = TRUE],
                   calm, n, "none")
    BY DEF StepRecoveryWait, failSafe, StartStability
  <1> HIDE DEF waiting, T1, calm, T2
  <1>5. CASE Hold(waiting, n) \/ Hold(calm, n) \/ Hold(T2, n)
    BY <1>1, <1>3, <1>5, HoldInv DEF InStep
  <1>6. ASSUME NEW p \in {"WAITING_FOR_AC", "FAILED_SAFE"}
        PROVE  Writable([st EXCEPT !.power = p], "none")
    <2>1. [st EXCEPT !.power = p] \in State
      BY <1>1 DEF State, PowerStates
    <2> QED
      BY <1>1, <1>2, <2>1 DEF Writable, Consistent, State, CommittedPhases
  <1>7. CASE Persist([st EXCEPT !.power = "WAITING_FOR_AC"], waiting, n, "none")
    BY <1>1, <1>3, <1>6, <1>7, PersistInv DEF InStep, Duties
  <1>8. CASE Persist([st EXCEPT !.power = "FAILED_SAFE"], T2, n, "none")
    BY <1>1, <1>3, <1>6, <1>8, PersistInv DEF InStep, Duties
  <1>9. CASE Persist([st EXCEPT !.power = "RECOVERY_STARTED",
                                !.recovery = TRUE], calm, n, "none")
    <2>1. "RECOVERY_STARTED" \in PowerStates /\ "none" \in Duties
      BY DEF PowerStates, Duties
    <2> QED BY <1>1, <1>2, <1>3, <1>9, <2>1, MoveInv
  <1> QED BY <1>4, <1>5, <1>7, <1>8, <1>9

\* The common exits of RECOVERY_STARTED and RESTORE_HOSTS.
LEMMA RecoveryStopsInv ==
  ASSUME NEW T, NEW s, InStep(T, s), st.committed, st.recovery,
         RecoveryStops(T, s)
  PROVE  IInv'
  <1> DEFINE T1 == ClearGateTimers(T)
             n == onlineConfirmations
  <1>1. T1 \in TimerType /\ T \in TimerType
    BY MaxAgeAssumption DEF InStep, ClearGateTimers, TimerType, Timers, Unset
  <1>2. /\ {"ON_BATTERY", "WAITING_FOR_AC", "FAILED_SAFE"} \subseteq PowerStates
        /\ {"none", "fresh"} \subseteq Duties
        /\ n \in 0 .. 1 /\ st \in State
    BY MemoryFacts DEF PowerStates, Duties, InStep
  <1>3. \A p : /\ [st EXCEPT !.recovery = FALSE, !.power = p]
                    = [st EXCEPT !.power = p, !.recovery = FALSE]
               /\ [st EXCEPT !.power = p]
                    = [st EXCEPT !.power = p, !.recovery = TRUE]
    BY <1>2 DEF State
  <1>4. \/ Persist([st EXCEPT !.power = "ON_BATTERY", !.recovery = FALSE],
                   T1, n, "fresh")
        \/ Persist([st EXCEPT !.power = "WAITING_FOR_AC", !.recovery = FALSE],
                   T, n, "none")
        \/ Persist([st EXCEPT !.power = "FAILED_SAFE", !.recovery = TRUE],
                   T, n, "none")
    BY <1>3 DEF RecoveryStops, failSafe
  <1> HIDE DEF T1
  <1> QED BY <1>1, <1>2, <1>4, MoveInv

\* RECOVERY_STARTED stops, waits for the network or goes on to the hosts.
LEMMA StepRecoveryStartedInv ==
  ASSUME NEW T, NEW s, InStep(T, s), StepRecoveryStarted(T, s)
  PROVE  IInv'
  <1> DEFINE T1 == StartIfUnset(T, "networkWaitSince")
             T2 == [T EXCEPT !["networkWaitSince"] = Unset]
             n == onlineConfirmations
  <1>1. /\ st \in State /\ Consistent(st) /\ st.power = "RECOVERY_STARTED"
        /\ n \in 0 .. 1
    BY MemoryFacts DEF InStep, StepRecoveryStarted
  <1>2. st.committed /\ st.recovery
    BY <1>1 DEF Consistent, CommittedPhases
  <1>3. T1 \in TimerType /\ T2 \in TimerType
    BY TimerUpdate DEF InStep, Timers
  <1>4. \/ RecoveryStops(T, s) \/ Hold(T1, n)
        \/ Persist([st EXCEPT !.power = "FAILED_SAFE"], T1, n, "none")
        \/ Persist([st EXCEPT !.power = "RESTORE_HOSTS"], T2, n, "none")
    BY DEF StepRecoveryStarted, failSafe
  <1>5. /\ {"RESTORE_HOSTS", "FAILED_SAFE"} \subseteq PowerStates
        /\ "none" \in Duties
    BY DEF PowerStates, Duties
  <1>6. ASSUME NEW p
        PROVE  [st EXCEPT !.power = p] = [st EXCEPT !.power = p, !.recovery = TRUE]
    BY <1>1, <1>2 DEF State
  <1> HIDE DEF T1, T2
  <1>7. CASE RecoveryStops(T, s)
    BY <1>2, <1>7, RecoveryStopsInv
  <1>8. CASE Hold(T1, n)
    BY <1>1, <1>3, <1>8, HoldInv DEF InStep
  <1>9. CASE Persist([st EXCEPT !.power = "FAILED_SAFE"], T1, n, "none")
    BY <1>1, <1>2, <1>3, <1>5, <1>6, <1>9, MoveInv
  <1>10. CASE Persist([st EXCEPT !.power = "RESTORE_HOSTS"], T2, n, "none")
    BY <1>1, <1>2, <1>3, <1>5, <1>6, <1>10, MoveInv
  <1> QED BY <1>4, <1>7, <1>8, <1>9, <1>10

\* RESTORE_HOSTS stops, goes back to wait for the network or stays.
LEMMA StepRestoreHostsInv ==
  ASSUME NEW T, NEW s, InStep(T, s), StepRestoreHosts(T, s)
  PROVE  IInv'
  <1> DEFINE T1 == StartIfUnset(T, "networkWaitSince")
             T2 == [T EXCEPT !["networkWaitSince"] = Unset]
             n == onlineConfirmations
  <1>1. /\ st \in State /\ Consistent(st) /\ st.power = "RESTORE_HOSTS"
        /\ n \in 0 .. 1
    BY MemoryFacts DEF InStep, StepRestoreHosts
  <1>2. st.committed /\ st.recovery
    BY <1>1 DEF Consistent, CommittedPhases
  <1>3. T1 \in TimerType /\ T2 \in TimerType
    BY TimerUpdate DEF InStep, Timers
  <1>4. \/ RecoveryStops(T, s) \/ Hold(T2, n)
        \/ Persist([st EXCEPT !.power = "RECOVERY_STARTED"], T1, n, "none")
    BY DEF StepRestoreHosts
  <1>5. "RECOVERY_STARTED" \in PowerStates /\ "none" \in Duties
    BY DEF PowerStates, Duties
  <1>6. [st EXCEPT !.power = "RECOVERY_STARTED"]
          = [st EXCEPT !.power = "RECOVERY_STARTED", !.recovery = TRUE]
    BY <1>1, <1>2 DEF State
  <1> HIDE DEF T1, T2
  <1>7. CASE RecoveryStops(T, s)
    BY <1>2, <1>7, RecoveryStopsInv
  <1>8. CASE Hold(T2, n)
    BY <1>1, <1>3, <1>8, HoldInv DEF InStep
  <1>9. CASE Persist([st EXCEPT !.power = "RECOVERY_STARTED"], T1, n, "none")
    BY <1>1, <1>2, <1>3, <1>5, <1>6, <1>9, MoveInv
  <1> QED BY <1>4, <1>7, <1>8, <1>9
\* reconcileBoot with a recovery interrupted: the flag is withdrawn.
LEMMA BootRecoveryInv ==
  ASSUME NEW T, NEW s, InStep(T, s), BootRecovery(T, s)
  PROVE  IInv'
  <1> DEFINE T1 == [T EXCEPT !["onlineSince"] = 0, !["networkWaitSince"] = Unset]
             n == onlineConfirmations
  <1>1. st \in State /\ st.committed /\ n \in 0 .. 1
    BY MemoryFacts DEF InStep, BootRecovery
  <1>2. T1 \in TimerType /\ T \in TimerType
    BY MaxAgeAssumption DEF InStep, TimerType, Timers, Unset
  <1>3. /\ {"WAITING_FOR_AC", "ON_BATTERY", "RECOVERY_WAIT"} \subseteq PowerStates
        /\ {"none", "fresh"} \subseteq Duties
    BY DEF PowerStates, Duties
  <1>4. \/ Persist([st EXCEPT !.power = "WAITING_FOR_AC", !.recovery = FALSE],
                   T, n, "none")
        \/ Persist([st EXCEPT !.power = "ON_BATTERY", !.recovery = FALSE],
                   T, n, "fresh")
        \/ Persist([st EXCEPT !.power = "RECOVERY_WAIT", !.recovery = FALSE],
                   T1, n, "none")
    <2>1. \A p : [st EXCEPT !.recovery = FALSE, !.power = p]
                   = [st EXCEPT !.power = p, !.recovery = FALSE]
      BY <1>1 DEF State
    <2> QED BY <2>1 DEF BootRecovery
  <1> HIDE DEF T1
  <1> QED BY <1>1, <1>2, <1>3, <1>4, MoveInv

\* reconcileBoot with a committed shutdown: an aborted recovery is resumed as
\* an outage, otherwise the transaction waits for power or for the gates.
LEMMA BootCommittedInv ==
  ASSUME NEW T, NEW s, InStep(T, s), BootCommitted(T, s)
  PROVE  IInv'
  <1> DEFINE T1 == [T EXCEPT !["onlineSince"] = 0, !["networkWaitSince"] = Unset]
             n == onlineConfirmations
  <1>1. st \in State /\ st.committed /\ ~st.recovery /\ n \in 0 .. 1
    BY MemoryFacts DEF InStep, BootCommitted
  <1>2. T1 \in TimerType /\ T \in TimerType
    BY MaxAgeAssumption DEF InStep, TimerType, Timers, Unset
  <1>3. /\ {"WAITING_FOR_AC", "ON_BATTERY", "RECOVERY_WAIT"} \subseteq PowerStates
        /\ {"none", "fresh"} \subseteq Duties
    BY DEF PowerStates, Duties
  <1>4. \/ Persist([st EXCEPT !.power = "WAITING_FOR_AC", !.recovery = FALSE],
                   T, n, "none")
        \/ Persist([st EXCEPT !.power = "ON_BATTERY", !.recovery = FALSE],
                   T, n, "fresh")
        \/ Persist([st EXCEPT !.power = "RECOVERY_WAIT", !.recovery = FALSE],
                   T1, n, "none")
    <2>1. \A p : [st EXCEPT !.power = p]
                   = [st EXCEPT !.power = p, !.recovery = FALSE]
      BY <1>1 DEF State
    <2> QED BY <2>1 DEF BootCommitted
  <1> HIDE DEF T1, n
  <1>5. CASE Persist([st EXCEPT !.power = "ON_BATTERY", !.recovery = FALSE],
                     T, n, "fresh")
    BY <1>1, <1>2, <1>3, <1>5, MoveInv
  <1>6. CASE Persist([st EXCEPT !.power = "WAITING_FOR_AC", !.recovery = FALSE],
                     T, n, "none")
    BY <1>1, <1>2, <1>3, <1>6, MoveInv
  <1>7. CASE Persist([st EXCEPT !.power = "RECOVERY_WAIT", !.recovery = FALSE],
                     T1, n, "none")
    BY <1>1, <1>2, <1>3, <1>7, MoveInv
  <1> QED BY <1>4, <1>5, <1>6, <1>7

\* reconcileBoot without a transaction: the outage goes on or NORMAL begins.
LEMMA BootUncommittedInv ==
  ASSUME NEW T, NEW s, InStep(T, s), BootUncommitted(T, s)
  PROVE  IInv'
  <1> DEFINE e == IF resumeState = "ON_BATTERY" /\ st.elapsed < GracePeriod
                  THEN GracePeriod ELSE st.elapsed
             T1 == [T EXCEPT !["onBatterySince"] = e,
                             !["lastOutageCheckpoint"] = 0]
             n == onlineConfirmations
             b == [st EXCEPT !.power = "ON_BATTERY"]
             m == [st EXCEPT !.power = "NORMAL", !.elapsed = 0]
  <1>1. st \in State /\ ~st.committed /\ ~st.recovery /\ n \in 0 .. 1
    BY MemoryFacts DEF InStep, BootUncommitted
  <1>2. e \in 0 .. MaxAge
    BY <1>1, ThresholdAssumption DEF State, Thresholds
  <1>3. T1 \in TimerType /\ T \in TimerType
    BY <1>2, MaxAgeAssumption DEF InStep, TimerType, Timers, Unset
  <1>4. \/ Persist(b, T1, 0, "none") \/ Persist(m, T, n, "none")
    BY DEF BootUncommitted
  <1>5. b \in State /\ m \in State
    <2>1. 0 \in Thresholds
      BY MaxAgeAssumption DEF Thresholds
    <2> QED BY <1>1, <2>1 DEF State, PowerStates
  <1>6. Writable(b, "none") /\ Writable(m, "none")
    BY <1>1, <1>5 DEF Writable, Consistent, State, CommittedPhases
  <1> HIDE DEF T1, b, m
  <1> QED BY <1>1, <1>3, <1>4, <1>6, PersistInv DEF InStep, Duties

\* Every handler of Engine.Step keeps the invariant.
LEMMA StepInv ==
  ASSUME NEW T, NEW s, InStep(T, s), Step(T, s)
  PROVE  IInv'
  <1>0. onlineConfirmations \in 0 .. 1
    BY MemoryFacts DEF InStep
  <1>1. CASE StepBoot(T, s)
    <2>1. CASE Hold(T, onlineConfirmations)
      BY <1>0, <2>1, HoldInv DEF InStep
    <2> QED
      BY <1>1, <2>1, BootRecoveryInv, BootCommittedInv, BootUncommittedInv
      DEF StepBoot
  <1>2. CASE StepShutdownInProgress(T, s)
    BY <1>0, <1>2, HoldInv DEF InStep, StepShutdownInProgress
  <1> QED
    BY <1>1, <1>2, StepFailedSafeInv, StepFSDInv, StepNormalInv,
       StepOnBatteryInv, StepWaitingForACInv, StepRecoveryWaitInv,
       StepRecoveryStartedInv, StepRestoreHostsInv
    DEF Step

-----------------------------------------------------------------------------
(* The other calls on the coordinator, and process restart. *)

\* SHUTDOWN_IN_PROGRESS is durable before the first command.
LEMMA BeginShutdownInv ==
  ASSUME IInv, BeginShutdown
  PROVE  IInv'
  <1> DEFINE g == [st EXCEPT !.power = "SHUTDOWN_IN_PROGRESS"]
  <1>1. /\ st \in State /\ Consistent(st) /\ st.power = "SHUTDOWN_COMMITTED"
        /\ since \in TimerType /\ onlineConfirmations \in 0 .. 1
        /\ in' \in Samples
    BY DEF IInv, TypeOK, GenerationConsistent, MemoryIsDurable, BeginShutdown,
           TimerType, Confirmations
  <1>2. g \in State
    BY <1>1 DEF State, PowerStates
  <1>3. Writable(g, "none")
    BY <1>1, <1>2 DEF Writable, Consistent, State, CommittedPhases
  <1>4. Persist(g, since, onlineConfirmations, "none")
    BY DEF BeginShutdown
  <1> QED BY <1>1, <1>3, <1>4, PersistInv DEF Duties

\* The first write of a fresh outage clears the earlier transaction.
LEMMA FreshOutageInv ==
  ASSUME IInv, FreshOutage
  PROVE  IInv'
  <1> DEFINE g == [st EXCEPT !.committed = FALSE, !.recovery = FALSE]
  <1>1. /\ st \in State /\ since \in TimerType /\ st.power = "ON_BATTERY"
        /\ onlineConfirmations \in 0 .. 1 /\ in' \in Samples
    BY DEF IInv, TypeOK, MemoryIsDurable, FreshOutage, TimerType, Confirmations
  <1>2. g \in State
    BY <1>1 DEF State
  <1>3. Writable(g, "none")
    BY <1>1, <1>2 DEF Writable, Consistent, State, CommittedPhases
  <1>4. Persist(g, since, onlineConfirmations, "none")
    BY DEF FreshOutage
  <1> QED BY <1>1, <1>3, <1>4, PersistInv DEF Duties

\* The end of the shutdown phase, successful or not.
LEMMA ShutdownEndsInv ==
  ASSUME IInv, MarkShutdownPhaseComplete \/ ShutdownFailedSafe
  PROVE  IInv'
  <1>1. /\ st \in State /\ Consistent(st)
        /\ st.power \in {"SHUTDOWN_IN_PROGRESS", "SHUTDOWN_COMMITTED"}
        /\ since \in TimerType /\ onlineConfirmations \in 0 .. 1
        /\ in' \in Samples
    BY DEF IInv, TypeOK, GenerationConsistent, MemoryIsDurable,
           MarkShutdownPhaseComplete, ShutdownFailedSafe, TimerType,
           Confirmations
  <1>2. PICK p \in {"WAITING_FOR_AC", "FAILED_SAFE"} :
          Persist([st EXCEPT !.power = p], since, onlineConfirmations, "none")
    BY DEF MarkShutdownPhaseComplete, ShutdownFailedSafe
  <1> DEFINE g == [st EXCEPT !.power = p]
  <1>3. g \in State
    BY <1>1 DEF State, PowerStates
  <1>4. Writable(g, "none")
    BY <1>1, <1>3 DEF Writable, Consistent, State, CommittedPhases
  <1> QED BY <1>1, <1>2, <1>4, PersistInv DEF Duties

\* MarkRecoveryComplete closes the transaction.
LEMMA MarkRecoveryCompleteInv ==
  ASSUME IInv, MarkRecoveryComplete
  PROVE  IInv'
  <1> DEFINE g == [power |-> "NORMAL", committed |-> FALSE, recovery |-> FALSE,
                   elapsed |-> 0]
  <1>1. AllUnset \in TimerType /\ 0 \in Thresholds
    BY MaxAgeAssumption DEF TimerType, AllUnset, Unset, Thresholds
  <1>2. in' \in Samples
    BY DEF IInv, TypeOK, MarkRecoveryComplete
  <1>3. Writable(g, "none")
    BY <1>1 DEF Writable, Consistent, State, PowerStates, CommittedPhases
  <1>4. Persist(g, AllUnset, 0, "none")
    BY DEF MarkRecoveryComplete
  <1> QED BY <1>1, <1>2, <1>3, <1>4, PersistInv DEF Duties

\* A restart resumes an interrupted shutdown at once and enters boot
\* reconciliation otherwise.
LEMMA RestartInv ==
  ASSUME IInv, Restart
  PROVE  IInv'
  <1>1. disk \in State /\ Consistent(disk) /\ in' \in Samples
    BY DEF IInv, TypeOK, GenerationConsistent, Restart
  <1>2. AllUnset \in TimerType /\ since' = AllUnset /\ onlineConfirmations' = 0
        /\ owed' = "none"
    BY MaxAgeAssumption DEF TimerType, AllUnset, Unset, Restart
  <1>3. CASE /\ disk.committed
             /\ disk.power \in {"SHUTDOWN_COMMITTED", "SHUTDOWN_IN_PROGRESS"}
    <2> DEFINE g == [disk EXCEPT !.power = "SHUTDOWN_IN_PROGRESS"]
    <2>1. g \in State
      BY <1>1 DEF State, PowerStates
    <2>2. Writable(g, "none")
      BY <1>1, <1>3, <2>1 DEF Writable, Consistent, State, CommittedPhases
    <2>3. Persist(g, AllUnset, 0, "none")
      BY <1>2, <1>3 DEF Restart, Persist
    <2> QED BY <1>1, <1>2, <2>2, <2>3, PersistInv DEF Duties
  <1>4. CASE ~(/\ disk.committed
               /\ disk.power \in {"SHUTDOWN_COMMITTED", "SHUTDOWN_IN_PROGRESS"})
    <2> DEFINE g == [disk EXCEPT !.power = "BOOT_RECONCILE"]
    <2>1. st' = g /\ disk' = disk
      BY <1>4 DEF Restart
    <2>2. g \in State /\ g.power = "BOOT_RECONCILE"
      BY <1>1 DEF State, PowerStates
    <2>3. TypeOK'
      BY <1>1, <1>2, <2>1, <2>2 DEF TypeOK, TimerType, Confirmations
    <2>4. GenerationConsistent' /\ MemoryIsDurable'
      BY <1>1, <1>2, <2>1, <2>2 DEF GenerationConsistent, MemoryIsDurable
    <2> QED BY <2>3, <2>4 DEF IInv
  <1> QED BY <1>3, <1>4

\* The first process start establishes the invariant.
LEMMA InitInv ==
  ASSUME Init
  PROVE  IInv
  <1>1. TypeOK
    BY MaxAgeAssumption
    DEF Init, TypeOK, NewState, State, PowerStates, Thresholds, AllUnset, Unset,
        Confirmations
  <1>2. GenerationConsistent /\ MemoryIsDurable
    BY DEF Init, GenerationConsistent, MemoryIsDurable, Consistent, NewState,
           CommittedPhases
  <1> QED BY <1>1, <1>2 DEF IInv

\* Every step keeps the invariant.
LEMMA NextInv ==
  ASSUME IInv, [Next]_vars
  PROVE  IInv'
  <1>1. CASE Ticks
    <2>1. PICK d \in Delays, s \in Samples : Tick(d, s)
      BY <1>1 DEF Ticks
    <2>2. AgedBy(d) \in TimerType
      BY AgedType DEF IInv
    <2>3. InStep(AgedBy(d), s) /\ Step(AgedBy(d), s)
      BY <2>1, <2>2 DEF Tick, InStep
    <2> QED BY <2>3, StepInv
  <1>2. CASE UNCHANGED vars
    BY <1>2 DEF vars, IInv, TypeOK, GenerationConsistent, MemoryIsDurable,
                Consistent
  <1> QED
    BY <1>1, <1>2, BeginShutdownInv, FreshOutageInv, ShutdownEndsInv,
       MarkRecoveryCompleteInv, RestartInv
    DEF Next

\* IInv is an inductive invariant of the engine.
THEOREM Invariance == Spec => []IInv
  <1>1. Init => IInv
    BY InitInv
  <1>2. IInv /\ [Next]_vars => IInv'
    BY NextInv
  <1> QED BY <1>1, <1>2, PTL DEF Spec

\* The state of engine.go keeps its type whatever the inputs and restarts.
THEOREM TypeCorrect == Spec => []TypeOK
  <1>1. IInv => TypeOK
    BY DEF IInv
  <1> QED BY <1>1, Invariance, PTL

\* Every generation the agent writes is self-consistent: validateSemantic
\* accepts it, and the commit that lets a restart resume a shutdown is there.
THEOREM GenerationsAreConsistent == Spec => []GenerationConsistent
  <1>1. IInv => GenerationConsistent
    BY DEF IInv
  <1> QED BY <1>1, Invariance, PTL

\* The engine never decides from a state that is not durable.
THEOREM DecisionsAreDurable == Spec => []MemoryIsDurable
  <1>1. IInv => MemoryIsDurable
    BY DEF IInv
  <1> QED BY <1>1, Invariance, PTL

-----------------------------------------------------------------------------
(* The commit. *)

\* No handler of Engine.Step clears a commit: each writes back the committed
\* flag it found, or sets it.
LEMMA StepKeepsCommit ==
  ASSUME NEW T, NEW s, st \in State, disk \in State,
         st.committed, disk.committed, Step(T, s)
  PROVE  disk'.committed
  <1> USE DEF State, Hold, Persist, commitShutdown, failSafe
  <1>1. CASE StepFailedSafe(T, s) \/ StepShutdownInProgress(T, s)
    BY <1>1 DEF StepFailedSafe, StepShutdownInProgress
  <1>2. CASE StepBoot(T, s)
    BY <1>2 DEF StepBoot, BootRecovery, BootCommitted, BootUncommitted
  <1>3. CASE StepFSD(T, s)
    BY <1>3 DEF StepFSD
  <1>4. CASE StepNormal(T, s)
    BY <1>4 DEF StepNormal
  <1>5. CASE StepOnBattery(T, s)
    <2>1. CASE OnBatteryOnline(T, s)
      BY <2>1 DEF OnBatteryOnline
    <2>2. CASE OnBatteryLow(T, s)
      BY <2>2 DEF OnBatteryLow
    <2>3. CASE OnBatteryUnknown(T, s)
      BY <2>3 DEF OnBatteryUnknown
    <2>4. CASE OnBatteryMonitor(T, s)
      BY <2>4 DEF OnBatteryMonitor, checkpointOutage
    <2> QED BY <1>5, <2>1, <2>2, <2>3, <2>4 DEF StepOnBattery
  <1>6. CASE StepWaitingForAC(T, s)
    BY <1>6 DEF StepWaitingForAC
  <1>7. CASE StepRecoveryWait(T, s)
    BY <1>7 DEF StepRecoveryWait
  <1>8. CASE StepRecoveryStarted(T, s)
    BY <1>8 DEF StepRecoveryStarted, RecoveryStops
  <1>9. CASE StepRestoreHosts(T, s)
    BY <1>9 DEF StepRestoreHosts, RecoveryStops
  <1> QED
    BY <1>1, <1>2, <1>3, <1>4, <1>5, <1>6, <1>7, <1>8, <1>9 DEF Step

\* A committed shutdown leaves the disk only through completed restoration or
\* through the fresh transaction of a renewed outage, restarts included.
THEOREM CommitIsKept == Spec => CommitNeverErased
  <1> DEFINE Kept == disk.committed /\ ~disk'.committed =>
                       \/ disk.power = "RESTORE_HOSTS" /\ disk'.power = "NORMAL"
                       \/ disk.power = "ON_BATTERY" /\ disk'.power = "ON_BATTERY"
  <1>1. ASSUME IInv, Next
        PROVE  Kept
    <2>1. /\ st \in State /\ disk \in State
          /\ (st.committed <=> disk.committed)
          /\ st.power # "BOOT_RECONCILE" => st = disk
          /\ owed = "fresh" => st.power = "ON_BATTERY"
      <3>1. /\ st \in State /\ disk \in State
            /\ st.power # "BOOT_RECONCILE" => st = disk
            /\ st.power = "BOOT_RECONCILE" =>
                 st = [disk EXCEPT !.power = "BOOT_RECONCILE"]
            /\ owed = "fresh" => st.power = "ON_BATTERY"
        BY <1>1 DEF IInv, TypeOK, MemoryIsDurable
      <3>2. CASE st.power # "BOOT_RECONCILE"
        BY <3>1, <3>2
      <3>3. CASE st.power = "BOOT_RECONCILE"
        <4>1. st = [disk EXCEPT !.power = "BOOT_RECONCILE"]
          BY <3>1, <3>3
        <4>2. st.committed <=> disk.committed
          BY <3>1, <4>1 DEF State
        <4> QED BY <3>1, <3>3, <4>2
      <3> QED BY <3>2, <3>3
    <2>2. CASE Ticks
      BY <2>1, <2>2, StepKeepsCommit DEF Ticks, Tick
    <2>3. CASE FreshOutage
      <3>1. disk' = [st EXCEPT !.committed = FALSE, !.recovery = FALSE]
        BY <2>3 DEF FreshOutage, Persist
      <3>2. st.power = "ON_BATTERY" /\ disk.power = "ON_BATTERY"
        BY <2>1, <2>3 DEF FreshOutage
      <3> QED BY <2>1, <3>1, <3>2 DEF State
    <2>4. CASE MarkRecoveryComplete
      BY <2>1, <2>4 DEF MarkRecoveryComplete, Persist
    <2>5. CASE BeginShutdown \/ MarkShutdownPhaseComplete \/ ShutdownFailedSafe
      BY <2>1, <2>5
      DEF BeginShutdown, MarkShutdownPhaseComplete, ShutdownFailedSafe, Persist,
          State
    <2>6. CASE Restart
      <3>1. \/ disk' = disk
            \/ disk' = [disk EXCEPT !.power = "SHUTDOWN_IN_PROGRESS"]
        BY <2>6 DEF Restart
      <3> QED BY <2>1, <3>1 DEF State
    <2> HIDE DEF Kept
    <2> QED BY <1>1, <2>2, <2>3, <2>4, <2>5, <2>6 DEF Next
  <1>2. IInv /\ [Next]_vars => [Kept]_vars
    BY <1>1
  <1>3. Spec => [][Kept]_vars
    BY <1>2, Invariance, PTL DEF Spec
  <1> QED BY <1>3 DEF CommitNeverErased

=============================================================================
