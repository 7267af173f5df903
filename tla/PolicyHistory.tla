--------------------------- MODULE PolicyHistory ---------------------------
(***************************************************************************)
(* PolicyEngine with history variables: what an observer of the UPS would  *)
(* have measured.  The engine's own timers are compared with them, so a    *)
(* timer that is started late, not cleared, or carried over from an        *)
(* earlier outage shows as a disagreement.                                 *)
(***************************************************************************)
EXTENDS PolicyEngine

VARIABLES
  quiet,       \* time since the last unsafe sample, or since process start
  outage,      \* the stay in ON_BATTERY: how it began and how old it is
  unknownFor   \* length of the run of unknown samples handled in ON_BATTERY

history == <<quiet, outage, unknownFor>>
hvars == <<vars, history>>

Later(a, d) == IF a + d > MaxAge THEN MaxAge ELSE a + d

NoOutage == [origin |-> "none", age |-> 0]

\* How the outage being watched was entered by the step from st to st'.
Origin ==
  IF st.power = "NORMAL" THEN "normal"
  ELSE IF st.power = "BOOT_RECONCILE" /\ ~st.committed THEN "boot"
  ELSE "abort"

ObserveTick(d, s) ==
  /\ quiet' = IF unsafeUPS(s) THEN 0 ELSE Later(quiet, d)
  /\ unknownFor' =
       IF st.power = "ON_BATTERY" /\ s.utility = "unknown"
       THEN IF unknownFor = Unset THEN 0 ELSE Later(unknownFor, d)
       ELSE Unset
  /\ outage' =
       IF st.power = "ON_BATTERY"
       THEN [outage EXCEPT !.age = Later(@, d)]
       ELSE IF st'.power = "ON_BATTERY"
       THEN [origin |-> Origin,
             age |-> IF Origin = "boot" THEN st.elapsed ELSE 0]
       ELSE NoOutage

ObserveRestart ==
  /\ quiet' = 0
  /\ unknownFor' = Unset
  /\ outage' = NoOutage

HInit ==
  /\ Init
  /\ quiet = 0
  /\ outage = NoOutage
  /\ unknownFor = Unset

HNext ==
  \/ \E d \in Delays, s \in Samples : Tick(d, s) /\ ObserveTick(d, s)
  \/ BeginShutdown /\ UNCHANGED history
  \/ FreshOutage /\ UNCHANGED history
  \/ MarkShutdownPhaseComplete /\ UNCHANGED history
  \/ ShutdownFailedSafe /\ UNCHANGED history
  \/ MarkRecoveryComplete /\ UNCHANGED history
  \/ Restart /\ ObserveRestart

HSpec == HInit /\ [][HNext]_hvars

HFairSpec == HSpec /\ Fairness

-----------------------------------------------------------------------------
Commits == ~st.committed /\ st'.committed

\* A commit decided by the outage timers alone: on battery, no LB, no FSD.
TimedCommit ==
  /\ Commits
  /\ in'.utility = "on_battery" /\ ~in'.lowBattery /\ ~in'.fsd

\* POWER_POLICY 7 and 8: recovery is committed only when no unsafe sample and
\* no restart happened for the whole utility_stable interval, whatever mix of
\* bounces, unknown samples and restarts came before.
StableBeforeRecovery ==
  [][~st.recovery /\ st'.recovery => quiet' >= UtilityStable /\ ~unsafeUPS(in')]_hvars

\* An outage that began in NORMAL gets its whole grace period before the
\* engine's timers commit a shutdown (stepOnBattery).
GraceBeforeTimedCommit ==
  [][TimedCommit /\ outage.origin = "normal" => outage'.age >= GracePeriod]_hvars

\* POWER_POLICY 4, for every outage: it is cancelled only on two consecutive
\* online samples.  The exception is what the code does and the policy does
\* not say: the first sample of an outage that follows an aborted recovery may
\* cancel it alone, because an FSD commit and the abort keep the confirmation
\* counted in the outage before.
CancelNeedsTwoOnline ==
  [][st.power = "ON_BATTERY" /\ st'.power = "NORMAL" =>
       /\ in'.utility = "online"
       /\ \/ in.utility = "online"
          \/ outage.origin = "abort" /\ outage.age = 0]_hvars

\* POWER_POLICY 3, one side: communication loss cannot leave an outage
\* unresolved; a run of unknown samples in ON_BATTERY, whatever the outage's
\* origin, is cut by a commit when it is as old as the grace.
CommunicationLossBounded ==
  CommunicationLossGrace > 0 /\ st.power = "ON_BATTERY" =>
    unknownFor < CommunicationLossGrace

\* POWER_POLICY 3, the other side: in an outage that does not follow an aborted
\* recovery, communication loss alone commits only after the whole grace.
CommunicationLossGraceKept ==
  [][/\ Commits /\ outage.origin \in {"normal", "boot"}
     /\ in'.utility = "unknown" /\ ~in'.lowBattery /\ ~in'.fsd
     => unknownFor' >= CommunicationLossGrace]_hvars

\* POWER_POLICY 6: while the UPS reports battery, the time on battery that a
\* reboot would lose stays below one checkpoint interval.  Outages that follow
\* an aborted recovery are excluded: they are not timed from their beginning.
OutageCheckpointed ==
  /\ st.power = "ON_BATTERY" /\ in.utility = "on_battery"
  /\ outage.origin \in {"normal", "boot"}
  => outage.age - disk.elapsed < CheckpointInterval
=============================================================================
