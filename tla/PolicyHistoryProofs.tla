------------------------- MODULE PolicyHistoryProofs -------------------------
(***************************************************************************)
(* TLAPS proofs about PolicyHistory: the timers of engine.go agree with    *)
(* what an observer of the UPS measured, for every configuration, every    *)
(* time between two ticks and every set of samples.                        *)
(*                                                                         *)
(* The argument.  The engine's ages and the observer's start together and  *)
(* are aged together, so they can part only where the engine starts,       *)
(* clears or carries over a time stamp.  HInv says, for the states in      *)
(* which an age is used, on which side of the observer's it is; in the     *)
(* others the engine's ages may be anything.                               *)
(***************************************************************************)
EXTENDS PolicyHistory, PolicyEngineProofs

HType ==
  /\ quiet \in Thresholds
  /\ unknownFor \in Unset .. MaxAge
  /\ outage \in [origin : {"none", "normal", "boot", "abort"}, age : Thresholds]

\* A process starts with no time stamp and sets none before it has reconciled.
BootIsClean == st.power = "BOOT_RECONCILE" => since = AllUnset

\* The stability interval is never believed longer than it was.
StabilityMeasured ==
  st.power = "RECOVERY_WAIT" => since["onlineSince"] <= quiet

\* Communication loss is never believed shorter than it was.
LossMeasured ==
  st.power = "ON_BATTERY" => unknownFor <= since["unknownSince"]

\* An outage that did not follow an aborted recovery: its age, the length of a
\* communication loss and the debt to the next checkpoint are what the observer
\* says.
OutageMeasured ==
  st.power = "ON_BATTERY" /\ outage.origin \in {"normal", "boot"} =>
    /\ since["unknownSince"] = unknownFor
    /\ outage.age <= since["onBatterySince"]
    /\ outage.origin = "normal" => since["onBatterySince"] <= outage.age
    /\ since["lastOutageCheckpoint"] # Unset
    /\ outage.age - st.elapsed <= since["lastOutageCheckpoint"]
    /\ in.utility = "on_battery" => outage.age - st.elapsed < CheckpointInterval

\* A confirmation counted in ON_BATTERY is the sample before, or was carried
\* into an outage that has seen no sample yet.
ConfirmationMeasured ==
  st.power = "ON_BATTERY" =>
    \/ onlineConfirmations = 0
    \/ in.utility = "online"
    \/ outage.origin = "abort" /\ outage.age = 0

HInv ==
  /\ IInv /\ HType /\ BootIsClean /\ StabilityMeasured /\ LossMeasured
  /\ OutageMeasured /\ ConfirmationMeasured /\ CommunicationLossBounded

-----------------------------------------------------------------------------
(* The observer's clock. *)

\* Two ages that run together keep their order, and an age keeps below its
\* start by as much as it did before, up to the saturation of both.
LEMMA LaterFacts ==
  ASSUME NEW d \in Delays, NEW a \in Thresholds
  PROVE  /\ Later(a, d) \in Thresholds
         /\ \A b \in Thresholds : a <= b => Later(a, d) <= Later(b, d)
         /\ \A b \in Thresholds, e \in Thresholds :
              a - e <= b => Later(a, d) - e <= Later(b, d)
  BY MaxAgeAssumption, EnvironmentAssumption DEF Later, Thresholds

\* A running time stamp is aged like the observer's clocks.
LEMMA AgedAt ==
  ASSUME TypeOK, NEW d \in Delays, NEW t \in Timers
  PROVE  /\ since[t] \in Unset .. MaxAge
         /\ since[t] = Unset => AgedBy(d)[t] = Unset
         /\ since[t] # Unset => /\ since[t] \in Thresholds
                                /\ AgedBy(d)[t] = Later(since[t], d)
         /\ AgedBy(d)[t] \in Unset .. MaxAge
  <1>1. since[t] \in Unset .. MaxAge
    BY DEF TypeOK
  <1>2. AgedBy(d)[t] = IF since[t] = Unset THEN Unset ELSE Later(since[t], d)
    BY DEF AgedBy, Later
  <1>3. since[t] # Unset => since[t] \in Thresholds
    BY <1>1 DEF Unset, Thresholds
  <1>4. AgedBy(d)[t] \in Unset .. MaxAge
    BY AgedType DEF TimerType
  <1> QED BY <1>1, <1>2, <1>3, <1>4

\* The context of a tick.
HTick(d, s) ==
  /\ HInv /\ owed = "none"
  /\ d \in Delays /\ s \in Samples /\ in' = s
  /\ ObserveTick(d, s)

\* The clauses of HInv that compare the engine with the observer.
Measured ==
  /\ BootIsClean /\ StabilityMeasured /\ LossMeasured
  /\ OutageMeasured /\ ConfirmationMeasured /\ CommunicationLossBounded

\* The observer's clocks keep their type.
LEMMA HTypeTick ==
  ASSUME NEW d, NEW s, HTick(d, s)
  PROVE  HType'
  <1>1. /\ quiet \in Thresholds /\ unknownFor \in Unset .. MaxAge
        /\ outage \in [origin : {"none", "normal", "boot", "abort"},
                       age : Thresholds]
        /\ d \in Delays /\ ObserveTick(d, s) /\ st \in State /\ 0 \in Thresholds
    BY MaxAgeAssumption DEF HTick, HInv, HType, IInv, TypeOK, Thresholds
  <1>2. quiet' \in Thresholds
    BY <1>1, LaterFacts DEF ObserveTick
  <1>3. unknownFor' \in Unset .. MaxAge
    <2>1. unknownFor # Unset => unknownFor \in Thresholds
      BY <1>1 DEF Unset, Thresholds
    <2>2. \A x \in Thresholds : x \in Unset .. MaxAge
      BY DEF Unset, Thresholds
    <2>3. Unset \in Unset .. MaxAge
      BY MaxAgeAssumption DEF Unset
    <2>4. unknownFor # Unset => Later(unknownFor, d) \in Thresholds
      BY <1>1, <2>1, LaterFacts
    <2> QED BY <1>1, <2>2, <2>3, <2>4 DEF ObserveTick
  <1>4. outage' \in [origin : {"none", "normal", "boot", "abort"},
                     age : Thresholds]
    <2>1. Later(outage.age, d) \in Thresholds /\ st.elapsed \in Thresholds
      BY <1>1, LaterFacts DEF State
    <2>2. CASE st.power = "ON_BATTERY"
      BY <1>1, <2>1, <2>2 DEF ObserveTick
    <2>3. CASE st.power # "ON_BATTERY"
      BY <1>1, <2>1, <2>3 DEF ObserveTick, NoOutage, Origin
    <2> QED BY <2>2, <2>3
  <1> QED BY <1>2, <1>3, <1>4 DEF HType

-----------------------------------------------------------------------------
(* The ways a tick can establish the comparison. *)

\* Where no age is used there is nothing to compare.
LEMMA Elsewhere ==
  ASSUME st'.power \notin {"BOOT_RECONCILE", "RECOVERY_WAIT", "ON_BATTERY"}
  PROVE  Measured'
  BY DEF Measured, BootIsClean, StabilityMeasured, LossMeasured, OutageMeasured,
         ConfirmationMeasured, CommunicationLossBounded

\* The stability interval is begun or begun again.
LEMMA StabilityBegins ==
  ASSUME NEW d, NEW s, HTick(d, s), st'.power = "RECOVERY_WAIT",
         since'["onlineSince"] \in {0, Unset}
  PROVE  Measured'
  <1>1. quiet' \in Thresholds
    BY HTypeTick DEF HType
  <1>2. since'["onlineSince"] <= quiet'
    BY <1>1 DEF Thresholds, Unset
  <1> QED
    BY <1>2 DEF Measured, BootIsClean, StabilityMeasured, LossMeasured,
                OutageMeasured, ConfirmationMeasured, CommunicationLossBounded

\* An aborted recovery becomes an outage without a measured beginning.
LEMMA AbortedOutage ==
  ASSUME NEW d, NEW s, HTick(d, s), st'.power = "ON_BATTERY",
         st.power # "ON_BATTERY", Origin = "abort",
         since'["unknownSince"] \in Unset .. MaxAge
  PROVE  Measured'
  <1>1. unknownFor' = Unset /\ outage'.origin = "abort" /\ outage'.age = 0
    BY DEF HTick, ObserveTick
  <1>2. LossMeasured'
    BY <1>1 DEF LossMeasured, Unset
  <1>3. CommunicationLossBounded'
    BY <1>1, ThresholdAssumption DEF CommunicationLossBounded, Unset, Thresholds
  <1> QED
    BY <1>1, <1>2, <1>3 DEF Measured, BootIsClean, StabilityMeasured,
                            OutageMeasured, ConfirmationMeasured

\* An outage whose beginning is seen starts its clocks with the observer's.
LEMMA MeasuredOutage ==
  ASSUME NEW d, NEW s, HTick(d, s), st'.power = "ON_BATTERY",
         st.power # "ON_BATTERY", Origin \in {"normal", "boot"},
         since'["unknownSince"] = Unset, since'["lastOutageCheckpoint"] = 0,
         outage'.age <= since'["onBatterySince"],
         Origin = "normal" => since'["onBatterySince"] <= outage'.age,
         outage'.age = st'.elapsed, onlineConfirmations' = 0
  PROVE  Measured'
  <1>1. unknownFor' = Unset /\ outage'.origin = Origin
    BY DEF HTick, ObserveTick
  <1>2. LossMeasured'
    BY <1>1 DEF LossMeasured, Unset
  <1>3. CommunicationLossBounded'
    BY <1>1, ThresholdAssumption DEF CommunicationLossBounded, Unset, Thresholds
  <1>4. outage'.age - st'.elapsed = 0
    <2>1. outage'.age \in Int
      BY HTypeTick DEF HType, Thresholds
    <2> QED BY <2>1
  <1>5. OutageMeasured'
    BY <1>1, <1>4, ThresholdAssumption DEF OutageMeasured, Unset
  <1> QED
    BY <1>2, <1>3, <1>5 DEF Measured, BootIsClean, StabilityMeasured,
                            ConfirmationMeasured

-----------------------------------------------------------------------------
(* One lemma per handler of Engine.Step. *)

\* What a handler knows of the state it runs in.
LEMMA HTickFacts ==
  ASSUME NEW d, NEW s, HTick(d, s)
  PROVE  /\ InStep(AgedBy(d), s) /\ AgedBy(d) \in TimerType
         /\ st \in State /\ (st.recovery => st.committed)
         /\ st.power # "BOOT_RECONCILE" => Consistent(st)
  <1>1. IInv /\ owed = "none" /\ d \in Delays /\ s \in Samples /\ in' = s
    BY DEF HTick, HInv
  <1>2. AgedBy(d) \in TimerType
    BY <1>1, AgedType DEF IInv
  <1> QED BY <1>1, <1>2, MemoryFacts DEF InStep

\* Boot reconciliation of a recovery: an aborted outage or a new interval.
LEMMA BootRecoveryMeasured ==
  ASSUME NEW d, NEW s, HTick(d, s), st.power = "BOOT_RECONCILE",
         BootRecovery(AgedBy(d), s)
  PROVE  Measured'
  <1> DEFINE T == AgedBy(d)
             T1 == [T EXCEPT !["onlineSince"] = 0, !["networkWaitSince"] = Unset]
             n == onlineConfirmations
  <1>1. st \in State /\ T \in TimerType /\ st.committed
    BY HTickFacts DEF BootRecovery
  <1>2. \/ Persist([st EXCEPT !.recovery = FALSE, !.power = "WAITING_FOR_AC"],
                   T, n, "none")
        \/ Persist([st EXCEPT !.recovery = FALSE, !.power = "ON_BATTERY"],
                   T, n, "fresh")
        \/ Persist([st EXCEPT !.recovery = FALSE, !.power = "RECOVERY_WAIT"],
                   T1, n, "none")
    BY DEF BootRecovery
  <1>3. \/ st'.power = "WAITING_FOR_AC"
        \/ st'.power = "ON_BATTERY" /\ since' = T
        \/ st'.power = "RECOVERY_WAIT" /\ since' = T1
    BY <1>1, <1>2 DEF Persist, State
  <1>4. T1["onlineSince"] = 0 /\ T["unknownSince"] \in Unset .. MaxAge
    BY <1>1 DEF TimerType, Timers
  <1>5. Origin = "abort"
    BY <1>1 DEF Origin
  <1> HIDE DEF T, T1
  <1>6. CASE st'.power = "WAITING_FOR_AC"
    BY <1>6, Elsewhere
  <1>7. CASE st'.power = "ON_BATTERY" /\ since' = T
    BY <1>4, <1>5, <1>7, AbortedOutage
  <1>8. CASE st'.power = "RECOVERY_WAIT" /\ since' = T1
    BY <1>4, <1>8, StabilityBegins
  <1> QED BY <1>3, <1>6, <1>7, <1>8

\* Boot reconciliation of a committed shutdown: the same three ways.
LEMMA BootCommittedMeasured ==
  ASSUME NEW d, NEW s, HTick(d, s), st.power = "BOOT_RECONCILE",
         BootCommitted(AgedBy(d), s)
  PROVE  Measured'
  <1> DEFINE T == AgedBy(d)
             T1 == [T EXCEPT !["onlineSince"] = 0, !["networkWaitSince"] = Unset]
             n == onlineConfirmations
  <1>1. st \in State /\ T \in TimerType /\ st.committed
    BY HTickFacts DEF BootCommitted
  <1>2. \/ Persist([st EXCEPT !.power = "WAITING_FOR_AC"], T, n, "none")
        \/ Persist([st EXCEPT !.power = "ON_BATTERY"], T, n, "fresh")
        \/ Persist([st EXCEPT !.power = "RECOVERY_WAIT"], T1, n, "none")
    BY DEF BootCommitted
  <1>3. \/ st'.power = "WAITING_FOR_AC"
        \/ st'.power = "ON_BATTERY" /\ since' = T
        \/ st'.power = "RECOVERY_WAIT" /\ since' = T1
    BY <1>1, <1>2 DEF Persist, State
  <1>4. T1["onlineSince"] = 0 /\ T["unknownSince"] \in Unset .. MaxAge
    BY <1>1 DEF TimerType, Timers
  <1>5. Origin = "abort"
    BY <1>1 DEF Origin
  <1> HIDE DEF T, T1
  <1>6. CASE st'.power = "WAITING_FOR_AC"
    BY <1>6, Elsewhere
  <1>7. CASE st'.power = "ON_BATTERY" /\ since' = T
    BY <1>4, <1>5, <1>7, AbortedOutage
  <1>8. CASE st'.power = "RECOVERY_WAIT" /\ since' = T1
    BY <1>4, <1>8, StabilityBegins
  <1> QED BY <1>3, <1>6, <1>7, <1>8

\* An outage resumed at boot is believed at least as old as its checkpoint.
LEMMA BootUncommittedMeasured ==
  ASSUME NEW d, NEW s, HTick(d, s), st.power = "BOOT_RECONCILE",
         BootUncommitted(AgedBy(d), s)
  PROVE  Measured'
  <1> DEFINE T == AgedBy(d)
             e == IF resumeState = "ON_BATTERY" /\ st.elapsed < GracePeriod
                  THEN GracePeriod ELSE st.elapsed
             T1 == [T EXCEPT !["onBatterySince"] = e,
                             !["lastOutageCheckpoint"] = 0]
             b == [st EXCEPT !.power = "ON_BATTERY"]
             m == [st EXCEPT !.power = "NORMAL", !.elapsed = 0]
  <1>1. /\ st \in State /\ T \in TimerType /\ ~st.committed
        /\ since = AllUnset /\ TypeOK /\ d \in Delays
    BY HTickFacts DEF BootUncommitted, HTick, HInv, BootIsClean, IInv
  <1>2. Persist(b, T1, 0, "none") \/ Persist(m, T, onlineConfirmations, "none")
    BY DEF BootUncommitted
  <1>3. CASE Persist(m, T, onlineConfirmations, "none")
    <2>1. st'.power = "NORMAL"
      BY <1>1, <1>3 DEF Persist, State
    <2> QED BY <2>1, Elsewhere
  <1>4. CASE Persist(b, T1, 0, "none")
    <2>1. /\ st'.power = "ON_BATTERY" /\ st'.elapsed = st.elapsed
          /\ since' = T1 /\ onlineConfirmations' = 0
      BY <1>1, <1>4 DEF Persist, State
    <2>2. T["unknownSince"] = Unset
      <3>1. since["unknownSince"] = Unset /\ "unknownSince" \in Timers
        BY <1>1 DEF AllUnset, Timers
      <3> QED BY <1>1, <3>1, AgedAt
    <2>3. /\ T1["unknownSince"] = Unset /\ T1["lastOutageCheckpoint"] = 0
          /\ T1["onBatterySince"] = e
      BY <1>1, <2>2 DEF TimerType, Timers
    <2>4. st.elapsed <= e /\ st.elapsed \in Thresholds
      BY <1>1, ThresholdAssumption DEF State, Thresholds
    <2>5. Origin = "boot"
      BY <1>1 DEF Origin
    <2>6. outage'.age = st.elapsed
      BY <2>1, <2>5 DEF HTick, ObserveTick
    <2> HIDE DEF T1, e
    <2>7. /\ since'["unknownSince"] = Unset
          /\ since'["lastOutageCheckpoint"] = 0
          /\ outage'.age <= since'["onBatterySince"]
      BY <2>1, <2>3, <2>4, <2>6
    <2> QED BY <2>1, <2>5, <2>6, <2>7, MeasuredOutage
  <1> HIDE DEF T1, b, m
  <1> QED BY <1>2, <1>3, <1>4

\* Boot reconciliation, the wait for a known sample included.
LEMMA StepBootMeasured ==
  ASSUME NEW d, NEW s, HTick(d, s), StepBoot(AgedBy(d), s)
  PROVE  Measured'
  <1>1. CASE Hold(AgedBy(d), onlineConfirmations)
    <2>1. since = AllUnset /\ st.power = "BOOT_RECONCILE"
      BY DEF HTick, HInv, BootIsClean, StepBoot
    <2>2. AgedBy(d) = AllUnset
      BY <2>1 DEF AgedBy, AllUnset
    <2>3. st'.power = "BOOT_RECONCILE" /\ since' = AllUnset
      BY <1>1, <2>1, <2>2 DEF Hold
    <2> QED
      BY <2>3 DEF Measured, BootIsClean, StabilityMeasured, LossMeasured,
                  OutageMeasured, ConfirmationMeasured,
                  CommunicationLossBounded, AllUnset
  <1> QED
    BY <1>1, BootRecoveryMeasured, BootCommittedMeasured,
       BootUncommittedMeasured
    DEF StepBoot

\* NORMAL starts every clock of an outage with the sample that shows it.
LEMMA StepNormalMeasured ==
  ASSUME NEW d, NEW s, HTick(d, s), StepNormal(AgedBy(d), s)
  PROVE  Measured'
  <1> DEFINE T == AgedBy(d)
             T1 == [T EXCEPT !["onBatterySince"] = 0,
                             !["lastOutageCheckpoint"] = 0,
                             !["unknownSince"] = Unset]
             b == [st EXCEPT !.power = "ON_BATTERY", !.elapsed = 0]
  <1>1. st \in State /\ T \in TimerType /\ st.power = "NORMAL"
    BY HTickFacts DEF StepNormal
  <1>2. Persist(b, T1, 0, "fresh") \/ Hold(T, onlineConfirmations)
    BY DEF StepNormal
  <1>3. CASE Hold(T, onlineConfirmations)
    <2>1. st'.power = "NORMAL"
      BY <1>1, <1>3 DEF Hold
    <2> QED BY <2>1, Elsewhere
  <1>4. CASE Persist(b, T1, 0, "fresh")
    <2>1. /\ st'.power = "ON_BATTERY" /\ st'.elapsed = 0
          /\ since' = T1 /\ onlineConfirmations' = 0
      BY <1>1, <1>4 DEF Persist, State
    <2>2. /\ T1["unknownSince"] = Unset /\ T1["lastOutageCheckpoint"] = 0
          /\ T1["onBatterySince"] = 0
      BY <1>1 DEF TimerType, Timers
    <2>3. Origin = "normal"
      BY <1>1 DEF Origin
    <2>4. outage'.age = 0
      BY <1>1, <2>1, <2>3 DEF HTick, ObserveTick
    <2> HIDE DEF T1
    <2>5. /\ since'["unknownSince"] = Unset
          /\ since'["lastOutageCheckpoint"] = 0
          /\ outage'.age <= since'["onBatterySince"]
          /\ since'["onBatterySince"] <= outage'.age
      BY <2>1, <2>2, <2>4
    <2>6. outage'.age = st'.elapsed
      BY <2>1, <2>4
    <2>7. st.power # "ON_BATTERY" /\ Origin \in {"normal", "boot"}
      BY <1>1, <2>3
    <2> QED BY <2>1, <2>5, <2>6, <2>7, MeasuredOutage
  <1> HIDE DEF T1, b
  <1> QED BY <1>2, <1>3, <1>4

\* WAITING_FOR_AC begins the stability interval at the first online sample.
LEMMA StepWaitingForACMeasured ==
  ASSUME NEW d, NEW s, HTick(d, s), StepWaitingForAC(AgedBy(d), s)
  PROVE  Measured'
  <1> DEFINE T == AgedBy(d)
             T1 == [T EXCEPT !["onlineSince"] = 0, !["networkWaitSince"] = Unset]
  <1>1. st \in State /\ T \in TimerType /\ st.power = "WAITING_FOR_AC"
    BY HTickFacts DEF StepWaitingForAC
  <1>2. \/ Hold(T, onlineConfirmations)
        \/ Persist([st EXCEPT !.power = "RECOVERY_WAIT"], T1,
                   onlineConfirmations, "none")
    BY DEF StepWaitingForAC
  <1>3. CASE Hold(T, onlineConfirmations)
    <2>1. st'.power = "WAITING_FOR_AC"
      BY <1>1, <1>3 DEF Hold
    <2> QED BY <2>1, Elsewhere
  <1>4. CASE Persist([st EXCEPT !.power = "RECOVERY_WAIT"], T1,
                     onlineConfirmations, "none")
    <2>1. st'.power = "RECOVERY_WAIT" /\ since' = T1
      BY <1>1, <1>4 DEF Persist, State
    <2>2. T1["onlineSince"] = 0
      BY <1>1 DEF TimerType, Timers
    <2> HIDE DEF T1
    <2> QED BY <2>1, <2>2, StabilityBegins
  <1> QED BY <1>2, <1>3, <1>4

\* The stability interval a calm sample is judged by is not longer than the
\* observer's.
LEMMA StableForMeasured ==
  ASSUME NEW d, NEW s, HTick(d, s), st.power = "RECOVERY_WAIT", ~unsafeUPS(s)
  PROVE  StartStability(AgedBy(d))["onlineSince"] <= quiet'
  <1> DEFINE T == AgedBy(d)
  <1>1. /\ T \in TimerType /\ TypeOK /\ d \in Delays /\ quiet \in Thresholds
        /\ since["onlineSince"] <= quiet /\ "onlineSince" \in Timers
    BY HTickFacts
    DEF HTick, HInv, HType, StabilityMeasured, IInv, Timers
  <1>2. quiet' = Later(quiet, d) /\ quiet' \in Thresholds
    BY HTypeTick DEF HTick, ObserveTick, HType
  <1>3. StartStability(T)["onlineSince"] =
          IF T["onlineSince"] = Unset THEN 0 ELSE T["onlineSince"]
    BY <1>1 DEF StartStability, StartIfUnset, TimerType
  <1>4. CASE since["onlineSince"] = Unset
    <2>1. T["onlineSince"] = Unset
      BY <1>1, <1>4, AgedAt
    <2> QED BY <1>2, <1>3, <2>1 DEF Thresholds
  <1>5. CASE since["onlineSince"] # Unset
    <2>1. /\ since["onlineSince"] \in Thresholds
          /\ T["onlineSince"] = Later(since["onlineSince"], d)
      BY <1>1, <1>5, AgedAt
    <2>2. Later(since["onlineSince"], d) <= quiet'
      BY <1>1, <1>2, <2>1, LaterFacts
    <2> QED BY <1>2, <1>3, <2>1, <2>2 DEF Thresholds
  <1> QED BY <1>4, <1>5

\* stepRecoveryWait: the interval is begun again by every sample that is not
\* calm, and carried on by a calm one.
LEMMA StepRecoveryWaitMeasured ==
  ASSUME NEW d, NEW s, HTick(d, s), StepRecoveryWait(AgedBy(d), s)
  PROVE  Measured'
  <1> DEFINE T == AgedBy(d)
             waiting == ClearGateTimers(T)
             T1 == StartStability(T)
             calm == [T1 EXCEPT !["networkWaitSince"] = Unset]
             T2 == StartIfUnset(T1, "networkWaitSince")
             n == onlineConfirmations
  <1>1. st \in State /\ T \in TimerType /\ st.power = "RECOVERY_WAIT"
    BY HTickFacts DEF StepRecoveryWait
  <1>2. \/ Persist([st EXCEPT !.power = "WAITING_FOR_AC"], waiting, n, "none")
        \/ Hold(waiting, n)
        \/ ~unsafeUPS(s) /\ (Hold(calm, n) \/ Hold(T2, n))
        \/ Persist([st EXCEPT !.power = "FAILED_SAFE"], T2, n, "none")
        \/ Persist([st EXCEPT !.power = "RECOVERY_STARTED", !.recovery = TRUE],
                   calm, n, "none")
    BY DEF StepRecoveryWait, failSafe, StartStability
  <1>3. waiting["onlineSince"] = Unset
    BY <1>1 DEF ClearGateTimers, TimerType, Timers
  <1>4. /\ calm["onlineSince"] = T1["onlineSince"]
        /\ T2["onlineSince"] = T1["onlineSince"]
    BY <1>1 DEF StartStability, StartIfUnset, TimerType, Timers
  <1>5. ~unsafeUPS(s) => T1["onlineSince"] <= quiet'
    BY <1>1, StableForMeasured
  <1> HIDE DEF waiting, T1, calm, T2
  <1>6. \/ st'.power \in {"WAITING_FOR_AC", "FAILED_SAFE", "RECOVERY_STARTED"}
        \/ st'.power = "RECOVERY_WAIT" /\ since' = waiting
        \/ /\ st'.power = "RECOVERY_WAIT"
           /\ ~unsafeUPS(s) /\ since' \in {calm, T2}
    BY <1>1, <1>2 DEF Persist, Hold, State
  <1>7. CASE st'.power \in {"WAITING_FOR_AC", "FAILED_SAFE", "RECOVERY_STARTED"}
    BY <1>7, Elsewhere
  <1>8. CASE st'.power = "RECOVERY_WAIT" /\ since' = waiting
    BY <1>3, <1>8, StabilityBegins
  <1>9. CASE /\ st'.power = "RECOVERY_WAIT"
             /\ ~unsafeUPS(s) /\ since' \in {calm, T2}
    <2>1. since'["onlineSince"] <= quiet'
      BY <1>4, <1>5, <1>9
    <2> QED
      BY <1>9, <2>1 DEF Measured, BootIsClean, StabilityMeasured, LossMeasured,
                        OutageMeasured, ConfirmationMeasured,
                        CommunicationLossBounded
  <1> QED BY <1>6, <1>7, <1>8, <1>9

\* RECOVERY_STARTED and RESTORE_HOSTS: an outage that comes back aborts.
LEMMA StepRecoveringMeasured ==
  ASSUME NEW d, NEW s, HTick(d, s),
         StepRecoveryStarted(AgedBy(d), s) \/ StepRestoreHosts(AgedBy(d), s)
  PROVE  Measured'
  <1> DEFINE T == AgedBy(d)
  <1>1. /\ st \in State /\ T \in TimerType
        /\ st.power \in {"RECOVERY_STARTED", "RESTORE_HOSTS"}
    BY HTickFacts DEF StepRecoveryStarted, StepRestoreHosts
  <1>2. Origin = "abort"
    BY <1>1 DEF Origin
  <1>3. \/ st'.power \in {"WAITING_FOR_AC", "FAILED_SAFE", "RECOVERY_STARTED",
                          "RESTORE_HOSTS"}
        \/ st'.power = "ON_BATTERY" /\ since' = ClearGateTimers(T)
    BY <1>1 DEF StepRecoveryStarted, StepRestoreHosts, RecoveryStops, failSafe,
                Persist, Hold, State
  <1>4. ClearGateTimers(T)["unknownSince"] \in Unset .. MaxAge
    BY <1>1 DEF ClearGateTimers, TimerType, Timers
  <1> HIDE DEF T
  <1>5. CASE st'.power = "ON_BATTERY" /\ since' = ClearGateTimers(T)
    BY <1>1, <1>2, <1>4, <1>5, AbortedOutage
  <1> QED BY <1>3, <1>5, Elsewhere

-----------------------------------------------------------------------------
(* ON_BATTERY. *)

\* The observer's view of the outage after a tick in ON_BATTERY, compared
\* with the aged time stamps before the handler looks at them.
LEMMA AgedOutage ==
  ASSUME NEW d, NEW s, HTick(d, s), st.power = "ON_BATTERY",
         outage.origin \in {"normal", "boot"}
  PROVE  LET T == AgedBy(d) IN
         /\ outage'.age <= T["onBatterySince"]
         /\ outage.origin = "normal" => T["onBatterySince"] <= outage'.age
         /\ T["onBatterySince"] \in Thresholds
         /\ T["lastOutageCheckpoint"] \in Thresholds
         /\ outage'.age - st.elapsed <= T["lastOutageCheckpoint"]
  <1> DEFINE T == AgedBy(d)
             b == since["onBatterySince"]
             c == since["lastOutageCheckpoint"]
  <1>1. /\ TypeOK /\ d \in Delays /\ st.elapsed \in Thresholds
        /\ outage.age \in Thresholds
        /\ outage.age <= b /\ (outage.origin = "normal" => b <= outage.age)
        /\ c # Unset /\ outage.age - st.elapsed <= c
        /\ {"onBatterySince", "lastOutageCheckpoint"} \subseteq Timers
    BY DEF HTick, HInv, HType, IInv, TypeOK, State, OutageMeasured, Timers
  <1>2. b \in Thresholds /\ T["onBatterySince"] = Later(b, d)
    <2>1. b \in Unset .. MaxAge
      BY <1>1 DEF TypeOK
    <2>2. b # Unset
      BY <1>1, <2>1 DEF Unset, Thresholds
    <2> QED BY <1>1, <2>2, AgedAt
  <1>3. c \in Thresholds /\ T["lastOutageCheckpoint"] = Later(c, d)
    BY <1>1, AgedAt
  <1>4. outage'.age = Later(outage.age, d)
    BY <1>1 DEF HTick, ObserveTick, HInv, HType
  <1> HIDE DEF b, c, T
  <1>5. /\ Later(outage.age, d) <= Later(b, d)
        /\ outage.origin = "normal" => Later(b, d) <= Later(outage.age, d)
        /\ Later(outage.age, d) - st.elapsed <= Later(c, d)
        /\ Later(b, d) \in Thresholds /\ Later(c, d) \in Thresholds
    BY <1>1, <1>2, <1>3, LaterFacts
  <1> QED BY <1>2, <1>3, <1>4, <1>5 DEF T

\* The age of a communication loss as stepOnBattery computes it for an unknown
\* sample, compared with the observer's.
LEMMA AgedLoss ==
  ASSUME NEW d, NEW s, HTick(d, s), st.power = "ON_BATTERY",
         s.utility = "unknown"
  PROVE  LET u == StartIfUnset(AgedBy(d), "unknownSince")["unknownSince"] IN
         /\ unknownFor' <= u /\ unknownFor' \in Thresholds /\ u \in Thresholds
         /\ outage.origin \in {"normal", "boot"} => unknownFor' = u
  <1> DEFINE T == AgedBy(d)
             u == StartIfUnset(T, "unknownSince")["unknownSince"]
             w == since["unknownSince"]
  <1>1. /\ TypeOK /\ d \in Delays /\ T \in TimerType
        /\ unknownFor \in Unset .. MaxAge
        /\ unknownFor <= w /\ "unknownSince" \in Timers /\ 0 \in Thresholds
        /\ outage.origin \in {"normal", "boot"} => unknownFor = w
    BY HTickFacts, MaxAgeAssumption
    DEF HTick, HInv, HType, IInv, LossMeasured, OutageMeasured, Timers,
        Thresholds
  <1>2. unknownFor' = IF unknownFor = Unset THEN 0 ELSE Later(unknownFor, d)
    BY DEF HTick, ObserveTick
  <1>3. u = IF T["unknownSince"] = Unset THEN 0 ELSE T["unknownSince"]
    BY <1>1 DEF StartIfUnset, TimerType
  <1>4. w \in Unset .. MaxAge
    BY <1>1 DEF TypeOK
  <1>5. CASE w = Unset
    <2>1. unknownFor = Unset
      BY <1>1, <1>4, <1>5 DEF Unset
    <2>2. T["unknownSince"] = Unset
      BY <1>1, <1>5, AgedAt
    <2> QED BY <1>1, <1>2, <1>3, <2>1, <2>2 DEF Thresholds
  <1>6. CASE w # Unset
    <2>1. w \in Thresholds /\ T["unknownSince"] = Later(w, d)
      BY <1>1, <1>6, AgedAt
    <2>2. Later(w, d) \in Thresholds
      BY <1>1, <2>1, LaterFacts
    <2>3. Later(w, d) # Unset
      BY <2>2 DEF Unset, Thresholds
    <2>4. u = Later(w, d)
      BY <1>3, <2>1, <2>3
    <2>5. CASE unknownFor = Unset
      <3>1. unknownFor' = 0 /\ 0 <= Later(w, d)
        BY <1>2, <2>2, <2>5 DEF Thresholds
      <3> HIDE DEF u, w
      <3>2. outage.origin \notin {"normal", "boot"}
        BY <1>1, <1>6, <2>5
      <3> QED BY <1>1, <2>2, <2>4, <3>1, <3>2 DEF u
    <2>6. CASE unknownFor # Unset
      <3>1. unknownFor \in Thresholds /\ unknownFor' = Later(unknownFor, d)
        BY <1>1, <1>2, <2>6 DEF Unset, Thresholds
      <3> HIDE DEF u, w
      <3>2. Later(unknownFor, d) <= Later(w, d)
        BY <1>1, <2>1, <3>1, LaterFacts
      <3>3. Later(unknownFor, d) \in Thresholds
        BY <1>1, <3>1, LaterFacts
      <3> QED BY <1>1, <2>2, <2>4, <3>1, <3>2, <3>3 DEF u
    <2> QED BY <2>5, <2>6
  <1> QED BY <1>5, <1>6

\* A tick that stays in ON_BATTERY and only touches the loss and the
\* confirmations: the comparison holds when the sample is not on battery.
LEMMA OutageHeld ==
  ASSUME NEW d, NEW s, HTick(d, s), st.power = "ON_BATTERY", st' = st,
         since'["onBatterySince"] = AgedBy(d)["onBatterySince"],
         since'["lastOutageCheckpoint"] = AgedBy(d)["lastOutageCheckpoint"],
         unknownFor' <= since'["unknownSince"],
         outage.origin \in {"normal", "boot"} =>
           unknownFor' = since'["unknownSince"],
         CommunicationLossGrace > 0 => unknownFor' < CommunicationLossGrace,
         s.utility # "on_battery",
         onlineConfirmations' = 0 \/ s.utility = "online"
  PROVE  Measured'
  <1>1. in' = s /\ outage'.origin = outage.origin
    BY DEF HTick, ObserveTick, HInv, HType
  <1>2. ASSUME outage.origin \in {"normal", "boot"}
        PROVE  /\ outage'.age <= since'["onBatterySince"]
               /\ outage.origin = "normal" =>
                    since'["onBatterySince"] <= outage'.age
               /\ since'["lastOutageCheckpoint"] # Unset
               /\ outage'.age - st'.elapsed <= since'["lastOutageCheckpoint"]
    BY <1>2, AgedOutage DEF Unset, Thresholds
  <1>3. OutageMeasured'
    BY <1>1, <1>2 DEF OutageMeasured
  <1>4. LossMeasured' /\ CommunicationLossBounded'
    BY DEF LossMeasured, CommunicationLossBounded
  <1>5. BootIsClean' /\ StabilityMeasured' /\ ConfirmationMeasured'
    BY <1>1 DEF BootIsClean, StabilityMeasured, ConfirmationMeasured
  <1> QED BY <1>3, <1>4, <1>5 DEF Measured

\* A first online sample keeps the outage, a second one ends it.
LEMMA OnBatteryOnlineMeasured ==
  ASSUME NEW d, NEW s, HTick(d, s), st.power = "ON_BATTERY",
         OnBatteryOnline(AgedBy(d), s)
  PROVE  Measured'
  <1> DEFINE T == AgedBy(d)
             T1 == [T EXCEPT !["unknownSince"] = Unset]
             T2 == [T1 EXCEPT !["onBatterySince"] = Unset,
                              !["lastOutageCheckpoint"] = Unset]
             m == [st EXCEPT !.power = "NORMAL", !.elapsed = 0]
  <1>1. st \in State /\ T \in TimerType /\ s.utility = "online"
    BY HTickFacts DEF OnBatteryOnline
  <1>2. \/ Hold(T1, 0) \/ Hold(T1, onlineConfirmations + 1)
        \/ Persist(m, T2, 0, "none")
    BY DEF OnBatteryOnline
  <1>3. CASE Persist(m, T2, 0, "none")
    <2>1. st'.power = "NORMAL"
      BY <1>1, <1>3 DEF Persist, State
    <2> QED BY <2>1, Elsewhere
  <1>4. CASE Hold(T1, 0) \/ Hold(T1, onlineConfirmations + 1)
    <2>1. st' = st /\ since' = T1
      BY <1>4 DEF Hold
    <2>2. /\ T1["onBatterySince"] = T["onBatterySince"]
          /\ T1["lastOutageCheckpoint"] = T["lastOutageCheckpoint"]
          /\ T1["unknownSince"] = Unset
      BY <1>1 DEF TimerType, Timers
    <2>3. unknownFor' = Unset
      BY <1>1 DEF HTick, ObserveTick
    <2>4. Unset <= Unset /\ (CommunicationLossGrace > 0 =>
                               Unset < CommunicationLossGrace)
      BY ThresholdAssumption DEF Unset, Thresholds
    <2> HIDE DEF T1
    <2>5. /\ since'["onBatterySince"] = AgedBy(d)["onBatterySince"]
          /\ since'["lastOutageCheckpoint"] = AgedBy(d)["lastOutageCheckpoint"]
          /\ unknownFor' <= since'["unknownSince"]
          /\ unknownFor' = since'["unknownSince"]
          /\ CommunicationLossGrace > 0 => unknownFor' < CommunicationLossGrace
      BY <2>1, <2>2, <2>3, <2>4
    <2> QED BY <1>1, <2>1, <2>5, OutageHeld
  <1> HIDE DEF T1, T2, m
  <1> QED BY <1>2, <1>3, <1>4

\* commitShutdown leaves ON_BATTERY, and with it every comparison.
LEMMA CommitMeasured ==
  ASSUME NEW T, NEW n, NEW e, st \in State, commitShutdown(T, n, e)
  PROVE  Measured'
  <1>1. st'.power = "SHUTDOWN_COMMITTED"
    BY DEF commitShutdown, Persist, State
  <1> QED BY <1>1, Elsewhere

\* An unknown sample runs or starts the loss timer; one as old as the grace
\* commits, so the ones that are held are younger.
LEMMA OnBatteryUnknownMeasured ==
  ASSUME NEW d, NEW s, HTick(d, s), st.power = "ON_BATTERY",
         OnBatteryUnknown(AgedBy(d), s)
  PROVE  Measured'
  <1> DEFINE T == AgedBy(d)
             T1 == StartIfUnset(T, "unknownSince")
             u == T1["unknownSince"]
  <1>1. st \in State /\ T \in TimerType /\ s.utility = "unknown"
    BY HTickFacts DEF OnBatteryUnknown
  <1>2. \/ commitShutdown(T1, 0, st.elapsed)
        \/ Hold(T1, 0) /\ (CommunicationLossGrace > 0 =>
                             ~(u >= CommunicationLossGrace))
    BY DEF OnBatteryUnknown
  <1>3. /\ T1["onBatterySince"] = T["onBatterySince"]
        /\ T1["lastOutageCheckpoint"] = T["lastOutageCheckpoint"]
    BY <1>1 DEF StartIfUnset, TimerType, Timers
  <1>4. /\ unknownFor' <= u /\ unknownFor' \in Thresholds /\ u \in Thresholds
        /\ outage.origin \in {"normal", "boot"} => unknownFor' = u
    BY <1>1, AgedLoss
  <1> HIDE DEF T1
  <1>5. CASE /\ Hold(T1, 0)
             /\ CommunicationLossGrace > 0 => ~(u >= CommunicationLossGrace)
    <2>1. st' = st /\ since' = T1 /\ onlineConfirmations' = 0
      BY <1>5 DEF Hold
    <2>2. since'["unknownSince"] = u
      BY <2>1
    <2> HIDE DEF u
    <2>3. CommunicationLossGrace > 0 => unknownFor' < CommunicationLossGrace
      BY <1>4, <1>5, ThresholdAssumption DEF Thresholds
    <2>4. /\ unknownFor' <= since'["unknownSince"]
          /\ outage.origin \in {"normal", "boot"} =>
               unknownFor' = since'["unknownSince"]
      BY <1>4, <2>2
    <2> QED BY <1>1, <1>3, <2>1, <2>3, <2>4, OutageHeld
  <1> QED BY <1>1, <1>2, <1>5, CommitMeasured

\* A sample on battery ends a communication loss and pays the checkpoint debt
\* when it has grown to the interval.
LEMMA OnBatteryMonitorMeasured ==
  ASSUME NEW d, NEW s, HTick(d, s), st.power = "ON_BATTERY",
         OnBatteryMonitor(AgedBy(d), s)
  PROVE  Measured'
  <1> DEFINE T == AgedBy(d)
             T1 == [T EXCEPT !["unknownSince"] = Unset]
             T2 == IF T1["onBatterySince"] = Unset
                   THEN [T1 EXCEPT !["onBatterySince"] = 0,
                                   !["lastOutageCheckpoint"] = 0]
                   ELSE T1
             now == [T2 EXCEPT !["lastOutageCheckpoint"] = 0]
             e == T2["onBatterySince"]
             r == recordOutageElapsed(e)
             g == [st EXCEPT !.elapsed = r]
  <1>1. st \in State /\ T \in TimerType /\ s.utility = "on_battery" /\ in' = s
    BY HTickFacts DEF OnBatteryMonitor, HTick
  <1>2. commitShutdown(T2, 0, r) \/ checkpointOutage(T2, e)
    BY DEF OnBatteryMonitor
  <1>3. CASE commitShutdown(T2, 0, r)
    BY <1>1, <1>3, CommitMeasured
  <1>4. CASE checkpointOutage(T2, e)
    <2>1. T2 \in TimerType /\ T2["unknownSince"] = Unset
      BY <1>1, MaxAgeAssumption DEF TimerType, Timers, Unset
    <2>2. \/ T2["lastOutageCheckpoint"] = Unset /\ Hold(now, 0)
          \/ T2["lastOutageCheckpoint"] < CheckpointInterval /\ Hold(T2, 0)
          \/ Persist(g, now, 0, "none")
          \/ g = st /\ Hold(now, 0)
      BY <1>4 DEF checkpointOutage
    <2>3. ASSUME outage.origin \in {"normal", "boot"}
          PROVE  /\ T["onBatterySince"] \in Thresholds
                 /\ T["lastOutageCheckpoint"] \in Thresholds
                 /\ outage'.age <= T["onBatterySince"]
                 /\ outage.origin = "normal" => T["onBatterySince"] <= outage'.age
                 /\ outage'.age - st.elapsed <= T["lastOutageCheckpoint"]
                 /\ T2["onBatterySince"] = T["onBatterySince"]
                 /\ T2["lastOutageCheckpoint"] = T["lastOutageCheckpoint"]
      <3>1. /\ T["onBatterySince"] \in Thresholds
            /\ T["lastOutageCheckpoint"] \in Thresholds
            /\ outage'.age <= T["onBatterySince"]
            /\ outage.origin = "normal" => T["onBatterySince"] <= outage'.age
            /\ outage'.age - st.elapsed <= T["lastOutageCheckpoint"]
        BY <2>3, AgedOutage
      <3>2. T["onBatterySince"] # Unset
        BY <3>1 DEF Unset, Thresholds
      <3>3. T2 = T1
        BY <1>1, <3>2 DEF TimerType, Timers
      <3>4. /\ T1["onBatterySince"] = T["onBatterySince"]
            /\ T1["lastOutageCheckpoint"] = T["lastOutageCheckpoint"]
        BY <1>1 DEF TimerType, Timers
      <3> QED BY <3>1, <3>3, <3>4
    <2>4. /\ now["unknownSince"] = Unset /\ now["lastOutageCheckpoint"] = 0
          /\ now["onBatterySince"] = T2["onBatterySince"]
      BY <2>1 DEF TimerType, Timers
    <2>5. unknownFor' = Unset /\ outage'.origin = outage.origin
      BY <1>1 DEF HTick, ObserveTick, HInv, HType
    <2>6. outage'.age \in Thresholds /\ st.elapsed \in Thresholds
      BY <1>1, HTypeTick DEF HType, State
    <2> HIDE DEF T1, T2, now, T
    <2>7. /\ since' \in {T2, now} /\ onlineConfirmations' = 0
          /\ st'.power = "ON_BATTERY"
      BY <1>1, <2>2 DEF Hold, Persist, State
    <2>8. since'["unknownSince"] = Unset
      BY <2>1, <2>4, <2>7
    <2>9. ASSUME outage.origin \in {"normal", "boot"}
          PROVE  /\ since'["lastOutageCheckpoint"] # Unset
                 /\ outage'.age - st'.elapsed <= since'["lastOutageCheckpoint"]
                 /\ outage'.age - st'.elapsed < CheckpointInterval
      <3>1. CASE T2["lastOutageCheckpoint"] = Unset /\ Hold(now, 0)
        BY <2>3, <2>9, <3>1 DEF Unset, Thresholds
      <3>2. CASE T2["lastOutageCheckpoint"] < CheckpointInterval /\ Hold(T2, 0)
        <4>1. st' = st /\ since' = T2
          BY <3>2 DEF Hold
        <4> QED
          BY <2>3, <2>6, <2>9, <3>2, <4>1, ThresholdAssumption
          DEF Unset, Thresholds
      <3>3. r \in Thresholds /\ e <= r
        BY <2>3, <2>6, <2>9 DEF recordOutageElapsed, Thresholds
      <3>4. CASE Persist(g, now, 0, "none") \/ (g = st /\ Hold(now, 0))
        <4>1. st' = g /\ since' = now
          BY <3>4 DEF Persist, Hold
        <4>2. g.elapsed = r
          BY <1>1 DEF State
        <4>3. st'.elapsed = r /\ since'["lastOutageCheckpoint"] = 0
          BY <2>4, <4>1, <4>2
        <4>4. outage'.age - r <= 0
          <5>1. outage'.age <= e
            BY <2>3, <2>9
          <5> HIDE DEF r
          <5>2. e \in Thresholds
            BY <2>3, <2>9
          <5> QED BY <2>6, <3>3, <5>1, <5>2 DEF Thresholds
        <4> HIDE DEF r
        <4> QED
          BY <2>6, <3>3, <4>3, <4>4, ThresholdAssumption DEF Unset, Thresholds
      <3> QED BY <2>2, <3>1, <3>2, <3>4
    <2>10. since'["onBatterySince"] = T2["onBatterySince"]
      BY <2>4, <2>7
    <2>11. OutageMeasured'
      BY <2>3, <2>5, <2>7, <2>8, <2>9, <2>10 DEF OutageMeasured
    <2>12. LossMeasured' /\ CommunicationLossBounded'
      BY <2>5, <2>8, ThresholdAssumption
      DEF LossMeasured, CommunicationLossBounded, Unset, Thresholds
    <2>13. BootIsClean' /\ StabilityMeasured' /\ ConfirmationMeasured'
      BY <2>7 DEF BootIsClean, StabilityMeasured, ConfirmationMeasured
    <2> QED BY <2>11, <2>12, <2>13 DEF Measured
  <1> HIDE DEF T2, e, r
  <1> QED BY <1>2, <1>3, <1>4

\* Every handler of Engine.Step keeps the comparison.
LEMMA StepMeasured ==
  ASSUME NEW d, NEW s, HTick(d, s), Step(AgedBy(d), s)
  PROVE  Measured'
  <1>0. st \in State
    BY HTickFacts
  <1>1. CASE StepFailedSafe(AgedBy(d), s) \/ StepShutdownInProgress(AgedBy(d), s)
    <2>1. st'.power \in {"FAILED_SAFE", "SHUTDOWN_IN_PROGRESS"}
      BY <1>1 DEF StepFailedSafe, StepShutdownInProgress, Hold
    <2> QED BY <2>1, Elsewhere
  <1>2. CASE StepFSD(AgedBy(d), s)
    BY <1>0, <1>2, CommitMeasured DEF StepFSD
  <1>3. CASE StepOnBattery(AgedBy(d), s)
    <2>1. CASE OnBatteryLow(AgedBy(d), s)
      BY <1>0, <2>1, CommitMeasured DEF OnBatteryLow
    <2> QED
      BY <1>3, <2>1, OnBatteryOnlineMeasured, OnBatteryUnknownMeasured,
         OnBatteryMonitorMeasured
      DEF StepOnBattery
  <1> QED
    BY <1>1, <1>2, <1>3, StepBootMeasured, StepNormalMeasured,
       StepWaitingForACMeasured, StepRecoveryWaitMeasured,
       StepRecoveringMeasured
    DEF Step

-----------------------------------------------------------------------------
(* The invariant. *)

\* The first process start establishes the invariant.
LEMMA HInitInv ==
  ASSUME HInit
  PROVE  HInv
  <1>1. IInv
    BY InitInv DEF HInit
  <1>2. st.power = "BOOT_RECONCILE" /\ since = AllUnset
    BY DEF HInit, Init, NewState
  <1>3. HType
    BY MaxAgeAssumption DEF HInit, HType, NoOutage, Unset, Thresholds
  <1> QED
    BY <1>1, <1>2, <1>3 DEF HInv, BootIsClean, StabilityMeasured, LossMeasured,
                            OutageMeasured, ConfirmationMeasured,
                            CommunicationLossBounded

\* The orchestrator's calls touch neither the clocks nor an outage's age.
LEMMA CallsMeasured ==
  ASSUME HInv, UNCHANGED history,
         \/ BeginShutdown \/ FreshOutage \/ MarkShutdownPhaseComplete
         \/ ShutdownFailedSafe \/ MarkRecoveryComplete
  PROVE  Measured' /\ HType'
  <1>0. HType' /\ st \in State
    BY DEF HInv, HType, history, IInv, TypeOK
  <1>1. CASE FreshOutage
    <2>1. st.power = "ON_BATTERY"
      BY <1>1 DEF HInv, IInv, MemoryIsDurable, FreshOutage
    <2>2. /\ st'.power = "ON_BATTERY" /\ st'.elapsed = st.elapsed
          /\ since' = since /\ onlineConfirmations' = onlineConfirmations
          /\ in' = in
      BY <1>0, <1>1, <2>1 DEF FreshOutage, Persist, State
    <2>3. OutageMeasured'
      BY <2>1, <2>2 DEF HInv, OutageMeasured, history
    <2> QED
      BY <1>0, <2>1, <2>2, <2>3
      DEF HInv, Measured, BootIsClean, StabilityMeasured, LossMeasured,
          ConfirmationMeasured, CommunicationLossBounded, history
  <1>2. CASE \/ BeginShutdown \/ MarkShutdownPhaseComplete
             \/ ShutdownFailedSafe \/ MarkRecoveryComplete
    <2>1. st'.power \in {"SHUTDOWN_IN_PROGRESS", "WAITING_FOR_AC",
                         "FAILED_SAFE", "NORMAL"}
      BY <1>0, <1>2 DEF BeginShutdown, MarkShutdownPhaseComplete,
         ShutdownFailedSafe, MarkRecoveryComplete, Persist, State
    <2> QED BY <1>0, <2>1, Elsewhere
  <1> QED BY <1>1, <1>2

\* A restart forgets every time stamp, and the observer starts again with it.
LEMMA RestartMeasured ==
  ASSUME HInv, Restart, ObserveRestart
  PROVE  Measured' /\ HType'
  <1>1. disk \in State
    BY DEF HInv, IInv, TypeOK
  <1>2. /\ st'.power \in {"SHUTDOWN_IN_PROGRESS", "BOOT_RECONCILE"}
        /\ since' = AllUnset
    BY <1>1 DEF Restart, State
  <1>3. HType'
    BY MaxAgeAssumption DEF ObserveRestart, HType, NoOutage, Unset, Thresholds
  <1> QED
    BY <1>2, <1>3 DEF Measured, BootIsClean, StabilityMeasured, LossMeasured,
                      OutageMeasured, ConfirmationMeasured,
                      CommunicationLossBounded, AllUnset

\* A step of the observed engine is a step of the engine.
LEMMA HNextIsNext ==
  ASSUME [HNext]_hvars
  PROVE  [Next]_vars
  BY DEF HNext, hvars, Next, Ticks

\* Every step keeps the invariant.
LEMMA HNextInv ==
  ASSUME HInv, [HNext]_hvars
  PROVE  HInv'
  <1>1. IInv'
    BY HNextIsNext, NextInv DEF HInv
  <1>2. Measured' /\ HType'
    <2>1. CASE \E d \in Delays, s \in Samples : Tick(d, s) /\ ObserveTick(d, s)
      <3>1. PICK d \in Delays, s \in Samples : Tick(d, s) /\ ObserveTick(d, s)
        BY <2>1
      <3>2. HTick(d, s) /\ Step(AgedBy(d), s)
        BY <3>1 DEF HTick, Tick
      <3> QED BY <3>2, StepMeasured, HTypeTick
    <2>2. CASE Restart /\ ObserveRestart
      BY <2>2, RestartMeasured
    <2>3. CASE UNCHANGED hvars
      BY <2>3 DEF hvars, vars, history, HInv, HType, Measured, BootIsClean,
                  StabilityMeasured, LossMeasured, OutageMeasured,
                  ConfirmationMeasured, CommunicationLossBounded
    <2> QED BY <2>1, <2>2, <2>3, CallsMeasured DEF HNext
  <1> QED BY <1>1, <1>2 DEF HInv, Measured

\* HInv is an inductive invariant of the observed engine.
THEOREM HistoryInvariance == HSpec => []HInv
  <1>1. HInit => HInv
    BY HInitInv
  <1>2. HInv /\ [HNext]_hvars => HInv'
    BY HNextInv
  <1> QED BY <1>1, <1>2, PTL DEF HSpec

\* A reboot loses less than one checkpoint interval of the time on battery:
\* the debt to the disk is below it whenever the UPS reports battery.
THEOREM OutagesAreCheckpointed == HSpec => []OutageCheckpointed
  <1>1. ASSUME HInv, st.power = "ON_BATTERY" PROVE disk.elapsed = st.elapsed
    BY <1>1 DEF HInv, IInv, MemoryIsDurable
  <1>2. HInv => OutageCheckpointed
    BY <1>1 DEF HInv, OutageMeasured, OutageCheckpointed
  <1> QED BY <1>2, HistoryInvariance, PTL

\* A communication loss during an outage is cut by a commit before it is as
\* old as its grace, whatever the outage's origin and the ticks' spacing.
THEOREM CommunicationLossIsBounded == HSpec => []CommunicationLossBounded
  <1>1. HInv => CommunicationLossBounded
    BY DEF HInv
  <1> QED BY <1>1, HistoryInvariance, PTL

-----------------------------------------------------------------------------
(* What a step may never do. *)

\* Memory and disk agree on both commit flags.
LEMMA SameFlags ==
  ASSUME IInv
  PROVE  /\ st \in State /\ disk \in State
         /\ st.committed = disk.committed /\ st.recovery = disk.recovery
  <1>1. /\ st \in State /\ disk \in State
        /\ st.power # "BOOT_RECONCILE" => st = disk
        /\ st.power = "BOOT_RECONCILE" =>
             st = [disk EXCEPT !.power = "BOOT_RECONCILE"]
    BY DEF IInv, TypeOK, MemoryIsDurable
  <1>2. CASE st.power # "BOOT_RECONCILE"
    BY <1>1, <1>2
  <1>3. CASE st.power = "BOOT_RECONCILE"
    <2>1. st = [disk EXCEPT !.power = "BOOT_RECONCILE"]
      BY <1>1, <1>3
    <2> QED BY <1>1, <2>1 DEF State
  <1> QED BY <1>2, <1>3

\* No call but a tick sets a commit flag, and none ends an outage.
LEMMA OnlyTicksDecide ==
  ASSUME IInv,
         \/ BeginShutdown \/ FreshOutage \/ MarkShutdownPhaseComplete
         \/ ShutdownFailedSafe \/ MarkRecoveryComplete \/ Restart
  PROVE  /\ st'.committed => st.committed
         /\ st'.recovery => st.recovery
         /\ st.power = "ON_BATTERY" => st'.power # "NORMAL"
  <1>1. /\ st \in State /\ disk \in State
        /\ st.committed = disk.committed /\ st.recovery = disk.recovery
    BY SameFlags
  <1>2. CASE Restart
    BY <1>1, <1>2 DEF Restart, State
  <1>3. CASE FreshOutage
    <2>1. st' = [st EXCEPT !.committed = FALSE, !.recovery = FALSE]
      BY <1>3 DEF FreshOutage, Persist
    <2> QED BY <1>1, <2>1 DEF State
  <1>4. CASE MarkRecoveryComplete
    BY <1>4 DEF MarkRecoveryComplete, Persist
  <1>5. CASE BeginShutdown \/ MarkShutdownPhaseComplete \/ ShutdownFailedSafe
    BY <1>1, <1>5
    DEF BeginShutdown, MarkShutdownPhaseComplete, ShutdownFailedSafe, Persist,
        State
  <1> QED BY <1>2, <1>3, <1>4, <1>5

\* The handlers that write neither commit flag and do not run in ON_BATTERY.
Undeciding(T, s) ==
  \/ StepFailedSafe(T, s) \/ StepBoot(T, s) \/ StepNormal(T, s)
  \/ StepShutdownInProgress(T, s) \/ StepWaitingForAC(T, s)
  \/ StepRecoveryStarted(T, s) \/ StepRestoreHosts(T, s)

\* They neither commit nor start a recovery.
LEMMA UndecidingSteps ==
  ASSUME NEW T, NEW s, st \in State, Undeciding(T, s)
  PROVE  /\ st'.committed => st.committed
         /\ st'.recovery => st.recovery
         /\ st.power # "ON_BATTERY"
  <1> USE DEF State, Persist, Hold
  <1>1. CASE StepFailedSafe(T, s) \/ StepShutdownInProgress(T, s)
    BY <1>1 DEF StepFailedSafe, StepShutdownInProgress
  <1>2. CASE StepBoot(T, s)
    BY <1>2 DEF StepBoot, BootRecovery, BootCommitted, BootUncommitted
  <1>3. CASE StepNormal(T, s) \/ StepWaitingForAC(T, s)
    BY <1>3 DEF StepNormal, StepWaitingForAC
  <1>4. CASE StepRecoveryStarted(T, s)
    BY <1>4 DEF StepRecoveryStarted, RecoveryStops, failSafe
  <1>5. CASE StepRestoreHosts(T, s)
    BY <1>5 DEF StepRestoreHosts, RecoveryStops, failSafe
  <1> QED BY <1>1, <1>2, <1>3, <1>4, <1>5 DEF Undeciding

\* A tick that starts a recovery comes out of stepRecoveryWait with a calm
\* sample and an interval long enough.
LEMMA RecoveryStarts ==
  ASSUME NEW T, NEW s, st \in State, Step(T, s), ~st.recovery, st'.recovery
  PROVE  /\ st.power = "RECOVERY_WAIT" /\ ~unsafeUPS(s)
         /\ StartStability(T)["onlineSince"] >= UtilityStable
  <1>1. CASE Undeciding(T, s)
    BY <1>1, UndecidingSteps
  <1>2. CASE StepFSD(T, s)
    BY <1>2 DEF StepFSD, commitShutdown, Persist, State
  <1>3. CASE StepOnBattery(T, s)
    <2> USE DEF State, Persist, Hold, commitShutdown
    <2>1. CASE OnBatteryOnline(T, s) \/ OnBatteryLow(T, s)
      BY <2>1 DEF OnBatteryOnline, OnBatteryLow
    <2>2. CASE OnBatteryUnknown(T, s)
      BY <2>2 DEF OnBatteryUnknown
    <2>3. CASE OnBatteryMonitor(T, s)
      BY <2>3 DEF OnBatteryMonitor, checkpointOutage
    <2> QED BY <1>3, <2>1, <2>2, <2>3 DEF StepOnBattery
  <1>4. CASE StepRecoveryWait(T, s)
    BY <1>4 DEF StepRecoveryWait, failSafe, Persist, Hold, State
  <1> QED BY <1>1, <1>2, <1>3, <1>4 DEF Step, Undeciding

\* Recovery is committed only after the whole stability interval without an
\* unsafe sample and without a restart, for every pattern of bounces.
THEOREM RecoveryIsStable == HSpec => StableBeforeRecovery
  <1> DEFINE A == ~st.recovery /\ st'.recovery =>
                    quiet' >= UtilityStable /\ ~unsafeUPS(in')
  <1>1. ASSUME HInv, [HNext]_hvars PROVE [A]_hvars
    <2>1. CASE \E d \in Delays, s \in Samples : Tick(d, s) /\ ObserveTick(d, s)
      <3> SUFFICES ASSUME ~st.recovery, st'.recovery
                   PROVE  quiet' >= UtilityStable /\ ~unsafeUPS(in')
        OBVIOUS
      <3>1. PICK d \in Delays, s \in Samples : Tick(d, s) /\ ObserveTick(d, s)
        BY <2>1
      <3>2. HTick(d, s) /\ Step(AgedBy(d), s) /\ in' = s
        BY <1>1, <3>1 DEF HTick, Tick
      <3>3. st \in State /\ AgedBy(d) \in TimerType
        BY <3>2, HTickFacts
      <3>4. /\ st.power = "RECOVERY_WAIT" /\ ~unsafeUPS(s)
            /\ StartStability(AgedBy(d))["onlineSince"] >= UtilityStable
        BY <3>2, <3>3, RecoveryStarts
      <3>5. StartStability(AgedBy(d))["onlineSince"] <= quiet'
        BY <3>2, <3>4, StableForMeasured
      <3>6. /\ StartStability(AgedBy(d))["onlineSince"] \in 0 .. MaxAge
            /\ quiet' \in Thresholds
        BY <3>2, <3>3, TimerUpdate, HTypeTick DEF StartStability, Timers, HType
      <3> QED
        BY <3>2, <3>4, <3>5, <3>6, ThresholdAssumption DEF Thresholds
    <2>2. CASE UNCHANGED hvars
      BY <2>2
    <2>3. CASE \/ BeginShutdown \/ FreshOutage \/ MarkShutdownPhaseComplete
               \/ ShutdownFailedSafe \/ MarkRecoveryComplete \/ Restart
      BY <1>1, <2>3, OnlyTicksDecide DEF HInv
    <2> QED BY <1>1, <2>1, <2>2, <2>3 DEF HNext
  <1>2. HSpec => [][A]_hvars
    BY <1>1, HistoryInvariance, PTL DEF HSpec
  <1> QED BY <1>2 DEF StableBeforeRecovery

\* A tick that commits without an FSD or a low battery comes out of one of
\* the two timers of stepOnBattery, which has run out.
LEMMA TimedCommits ==
  ASSUME NEW T, NEW s, st \in State, T \in TimerType, Step(T, s),
         ~st.committed, st'.committed, ~s.lowBattery, ~s.fsd
  PROVE  /\ st.power = "ON_BATTERY"
         /\ \/ /\ s.utility = "on_battery"
               /\ T["onBatterySince"] # Unset =>
                    T["onBatterySince"] >= GracePeriod
            \/ /\ s.utility = "unknown"
               /\ StartIfUnset(T, "unknownSince")["unknownSince"]
                    >= CommunicationLossGrace
  <1>1. CASE Undeciding(T, s)
    BY <1>1, UndecidingSteps
  <1>2. CASE StepFSD(T, s)
    BY <1>2 DEF StepFSD, FSDObserved
  <1>3. CASE StepOnBattery(T, s)
    <2> USE DEF State, Persist, Hold, commitShutdown
    <2>0. st.power = "ON_BATTERY"
      BY <1>3 DEF StepOnBattery
    <2>1. CASE OnBatteryOnline(T, s) \/ OnBatteryLow(T, s)
      BY <2>1 DEF OnBatteryOnline, OnBatteryLow
    <2>2. CASE OnBatteryUnknown(T, s)
      BY <2>0, <2>2 DEF OnBatteryUnknown
    <2>3. CASE OnBatteryMonitor(T, s)
      <3> DEFINE T1 == [T EXCEPT !["unknownSince"] = Unset]
                 T2 == IF T1["onBatterySince"] = Unset
                       THEN [T1 EXCEPT !["onBatterySince"] = 0,
                                       !["lastOutageCheckpoint"] = 0]
                       ELSE T1
                 e == T2["onBatterySince"]
      <3>1. \/ e >= GracePeriod \/ checkpointOutage(T2, e)
        BY <2>3 DEF OnBatteryMonitor
      <3>2. ~checkpointOutage(T2, e)
        BY DEF checkpointOutage
      <3>3. T["onBatterySince"] # Unset => e = T["onBatterySince"]
        BY DEF TimerType, Timers
      <3>4. s.utility = "on_battery"
        BY <2>3 DEF OnBatteryMonitor
      <3> HIDE DEF e, T2
      <3> QED BY <2>0, <3>1, <3>2, <3>3, <3>4
    <2> QED BY <1>3, <2>1, <2>2, <2>3 DEF StepOnBattery
  <1>4. CASE StepRecoveryWait(T, s)
    BY <1>4 DEF StepRecoveryWait, failSafe, Persist, Hold, State
  <1> QED BY <1>1, <1>2, <1>3, <1>4 DEF Step, Undeciding

\* A commit by the outage timers alone comes after the whole grace period of
\* an outage that began in NORMAL.
THEOREM GraceIsKept == HSpec => GraceBeforeTimedCommit
  <1> DEFINE A == TimedCommit /\ outage.origin = "normal" =>
                    outage'.age >= GracePeriod
  <1>1. ASSUME HInv, [HNext]_hvars PROVE [A]_hvars
    <2>1. CASE \E d \in Delays, s \in Samples : Tick(d, s) /\ ObserveTick(d, s)
      <3> SUFFICES ASSUME TimedCommit, outage.origin = "normal"
                   PROVE  outage'.age >= GracePeriod
        OBVIOUS
      <3>1. PICK d \in Delays, s \in Samples : Tick(d, s) /\ ObserveTick(d, s)
        BY <2>1
      <3>2. HTick(d, s) /\ Step(AgedBy(d), s) /\ in' = s
        BY <1>1, <3>1 DEF HTick, Tick
      <3>3. st \in State /\ AgedBy(d) \in TimerType
        BY <3>2, HTickFacts
      <3>4. /\ ~st.committed /\ st'.committed
            /\ s.utility = "on_battery" /\ ~s.lowBattery /\ ~s.fsd
        BY <3>2 DEF TimedCommit, Commits
      <3> DEFINE b == AgedBy(d)["onBatterySince"]
      <3>5. st.power = "ON_BATTERY" /\ (b # Unset => b >= GracePeriod)
        BY <3>2, <3>3, <3>4, TimedCommits
      <3>6. b \in Thresholds /\ b <= outage'.age
        BY <3>2, <3>5, AgedOutage
      <3>7. outage'.age \in Thresholds
        BY <3>2, HTypeTick DEF HType
      <3> HIDE DEF b
      <3> QED
        BY <3>5, <3>6, <3>7, ThresholdAssumption DEF Thresholds, Unset
    <2>2. CASE UNCHANGED hvars
      BY <2>2
    <2>3. CASE \/ BeginShutdown \/ FreshOutage \/ MarkShutdownPhaseComplete
               \/ ShutdownFailedSafe \/ MarkRecoveryComplete \/ Restart
      BY <1>1, <2>3, OnlyTicksDecide DEF HInv, TimedCommit, Commits
    <2> QED BY <1>1, <2>1, <2>2, <2>3 DEF HNext
  <1>2. HSpec => [][A]_hvars
    BY <1>1, HistoryInvariance, PTL DEF HSpec
  <1> QED BY <1>2 DEF GraceBeforeTimedCommit

\* Communication loss alone commits only after its whole grace.
THEOREM LossGraceIsKept == HSpec => CommunicationLossGraceKept
  <1> DEFINE A == /\ Commits /\ outage.origin \in {"normal", "boot"}
                  /\ in'.utility = "unknown" /\ ~in'.lowBattery /\ ~in'.fsd
                  => unknownFor' >= CommunicationLossGrace
  <1>1. ASSUME HInv, [HNext]_hvars PROVE [A]_hvars
    <2>1. CASE \E d \in Delays, s \in Samples : Tick(d, s) /\ ObserveTick(d, s)
      <3> SUFFICES ASSUME Commits, outage.origin \in {"normal", "boot"},
                          in'.utility = "unknown", ~in'.lowBattery, ~in'.fsd
                   PROVE  unknownFor' >= CommunicationLossGrace
        OBVIOUS
      <3>1. PICK d \in Delays, s \in Samples : Tick(d, s) /\ ObserveTick(d, s)
        BY <2>1
      <3>2. HTick(d, s) /\ Step(AgedBy(d), s) /\ in' = s
        BY <1>1, <3>1 DEF HTick, Tick
      <3>3. st \in State /\ AgedBy(d) \in TimerType
        BY <3>2, HTickFacts
      <3>4. /\ ~st.committed /\ st'.committed
            /\ s.utility = "unknown" /\ ~s.lowBattery /\ ~s.fsd
        BY <3>2 DEF Commits
      <3> DEFINE u == StartIfUnset(AgedBy(d), "unknownSince")["unknownSince"]
      <3>5. st.power = "ON_BATTERY" /\ u >= CommunicationLossGrace
        BY <3>2, <3>3, <3>4, TimedCommits
      <3>6. unknownFor' = u
        BY <3>2, <3>4, <3>5, AgedLoss
      <3> HIDE DEF u
      <3> QED BY <3>5, <3>6
    <2>2. CASE UNCHANGED hvars
      BY <2>2
    <2>3. CASE \/ BeginShutdown \/ FreshOutage \/ MarkShutdownPhaseComplete
               \/ ShutdownFailedSafe \/ MarkRecoveryComplete \/ Restart
      BY <1>1, <2>3, OnlyTicksDecide DEF HInv, Commits
    <2> QED BY <1>1, <2>1, <2>2, <2>3 DEF HNext
  <1>2. HSpec => [][A]_hvars
    BY <1>1, HistoryInvariance, PTL DEF HSpec
  <1> QED BY <1>2 DEF CommunicationLossGraceKept

\* A tick that cancels an outage saw an online sample after another one.
LEMMA Cancels ==
  ASSUME NEW T, NEW s, st \in State, Step(T, s), onlineConfirmations \in 0 .. 1,
         st.power = "ON_BATTERY", st'.power = "NORMAL"
  PROVE  s.utility = "online" /\ (st.committed \/ onlineConfirmations = 1)
  <1>1. CASE Undeciding(T, s)
    BY <1>1, UndecidingSteps
  <1>2. CASE StepFSD(T, s)
    BY <1>2 DEF StepFSD, commitShutdown, Persist, State
  <1>3. CASE StepOnBattery(T, s)
    <2> USE DEF State, Persist, Hold, commitShutdown
    <2>1. CASE OnBatteryOnline(T, s)
      BY <2>1 DEF OnBatteryOnline, Confirmations
    <2>2. CASE OnBatteryLow(T, s)
      BY <2>2 DEF OnBatteryLow
    <2>3. CASE OnBatteryUnknown(T, s)
      BY <2>3 DEF OnBatteryUnknown
    <2>4. CASE OnBatteryMonitor(T, s)
      BY <2>4 DEF OnBatteryMonitor, checkpointOutage
    <2> QED BY <1>3, <2>1, <2>2, <2>3, <2>4 DEF StepOnBattery
  <1>4. CASE StepRecoveryWait(T, s)
    BY <1>4 DEF StepRecoveryWait
  <1> QED BY <1>1, <1>2, <1>3, <1>4 DEF Step, Undeciding

\* An outage is cancelled only by two consecutive online samples, except that
\* the first sample of an outage after an aborted recovery may do it alone.
THEOREM CancellationIsConfirmed == HSpec => CancelNeedsTwoOnline
  <1> DEFINE A == st.power = "ON_BATTERY" /\ st'.power = "NORMAL" =>
                    /\ in'.utility = "online"
                    /\ \/ in.utility = "online"
                       \/ outage.origin = "abort" /\ outage.age = 0
  <1>1. ASSUME HInv, [HNext]_hvars PROVE [A]_hvars
    <2>1. CASE \E d \in Delays, s \in Samples : Tick(d, s) /\ ObserveTick(d, s)
      <3> SUFFICES ASSUME st.power = "ON_BATTERY", st'.power = "NORMAL"
                   PROVE  /\ in'.utility = "online"
                          /\ \/ in.utility = "online"
                             \/ outage.origin = "abort" /\ outage.age = 0
        OBVIOUS
      <3>1. PICK d \in Delays, s \in Samples : Tick(d, s) /\ ObserveTick(d, s)
        BY <2>1
      <3>2. /\ Step(AgedBy(d), s) /\ in' = s /\ owed = "none" /\ IInv
            /\ \/ onlineConfirmations = 0
               \/ in.utility = "online"
               \/ outage.origin = "abort" /\ outage.age = 0
        BY <1>1, <3>1 DEF Tick, HInv, ConfirmationMeasured
      <3>3. st \in State /\ ~st.committed /\ onlineConfirmations \in 0 .. 1
        BY <3>2, MemoryFacts
      <3>4. s.utility = "online" /\ onlineConfirmations = 1
        BY <3>2, <3>3, Cancels
      <3> QED BY <3>2, <3>4
    <2>2. CASE UNCHANGED hvars
      BY <2>2
    <2>3. CASE \/ BeginShutdown \/ FreshOutage \/ MarkShutdownPhaseComplete
               \/ ShutdownFailedSafe \/ MarkRecoveryComplete \/ Restart
      BY <1>1, <2>3, OnlyTicksDecide DEF HInv
    <2> QED BY <1>1, <2>1, <2>2, <2>3 DEF HNext
  <1>2. HSpec => [][A]_hvars
    BY <1>1, HistoryInvariance, PTL DEF HSpec
  <1> QED BY <1>2 DEF CancelNeedsTwoOnline
=============================================================================
