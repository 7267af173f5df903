---------------------------- MODULE Orchestrator ----------------------------
(***************************************************************************)
(* Controller.Tick (internal/orchestrator), with the recovery executor     *)
(* (internal/host) and the controller's own forced shutdown (app/armed.go) *)
(* on top of the policy engine.                                            *)
(*                                                                         *)
(* One goroutine runs the tick from beginning to end, but every durable    *)
(* write and every command to the outside is a step of its own, so that    *)
(* the process may die between any two of them.  `pc' is the place in the  *)
(* tick, "idle" between ticks.  Writes that leave no trace a later step    *)
(* could tell apart (the host loops of the NUT group) are one step.        *)
(***************************************************************************)
EXTENDS PolicyEngine, HostPlan
LOCAL INSTANCE SequencesExt
LOCAL INSTANCE FiniteSetsExt

CONSTANTS
  Order,         \* the host IDs in the order of the configuration file
  Config,        \* the configuration of each host
  MaxDirect,     \* maxDirectShutdownAttempts
  MaxNUT,        \* maxNUTFSDShutdownAttempts
  MaxBackoff,    \* time.Minute of the two retry schedules, in base delays
  RemoteClient,  \* nut.profile = "remote-client"
  PacketLag,     \* bound on the time from the start of a tick to its packet
  ProbeResults,  \* what the probes of a snapshot may find
  Exclusions     \* the sets of SSH hosts a start may find without a usable key

Hosts == {Order[i] : i \in 1 .. Len(Order)}

\* StatusChecker.Check; an error is no observation, like Known = false.
ProbeOutcomes == {"online", "offline", "unknown"}

ASSUME FleetAssumption ==
  /\ Order \in Seq(Nat)
  /\ Config \in [Hosts -> HostConfigs(Hosts)]
  /\ MaxDirect \in Nat \ {0} /\ MaxNUT \in Nat \ {0} /\ MaxBackoff \in Nat \ {0}
  /\ RemoteClient \in BOOLEAN /\ PacketLag \in Nat
  /\ \A h \in Hosts : Config[h].wakeDelay <= MaxAge
  /\ ProbeResults \subseteq [Hosts -> ProbeOutcomes]
  /\ Exclusions \subseteq SUBSET {h \in Hosts : Config[h].method = "ssh"}

\* What validateStaticArmedCapabilities and the configuration rules refuse.
ASSUME ArmedAssumption ==
  /\ \A h \in Hosts : RecoveryEnabled /\ Config[h].wakeEnabled => Config[h].probed
  /\ ~PlanFails(Config, Hosts)

NoHost == -1
Resume == -2     \* lastRecoveryWakeHostID = "__resume__"

HostStates ==
  [present : BOOLEAN, wasOnline : {"unset", "yes", "no"},
   shutdown : {"", "planned", "not_required", "requested", "acknowledged",
               "unknown", "completed", "failed"},
   recovery : {"", "waiting", "not_required", "wol_sent", "online", "failed"},
   shutdownAttempts : Nat, wakeAttempts : Nat]

NoHostState ==
  [present |-> FALSE, wasOnline |-> "unset", shutdown |-> "", recovery |-> "",
   shutdownAttempts |-> 0, wakeAttempts |-> 0]

Volatile ==
  [nutWait : 0 .. MaxBackoff, fsdDone : BOOLEAN, fsdAttempts : 0 .. MaxBackoff,
   fsdWait : 0 .. MaxBackoff, wakeAge : Unset .. MaxAge,
   lastWake : Hosts \cup {NoHost, Resume}, resumeEvaluated : BOOLEAN]

NewVolatile ==
  [nutWait |-> 0, fsdDone |-> FALSE, fsdAttempts |-> 0, fsdWait |-> 0,
   wakeAge |-> Unset, lastWake |-> NoHost, resumeEvaluated |-> FALSE]

VARIABLES
  hosts,   \* State.Hosts, durable
  pc,      \* where Controller.Tick is
  cur,     \* the host being handled, or the number of the FSD attempt
  done,    \* hosts the loop under way has passed
  vol,     \* fields of Controller and controllerFSDTracker
  excluded,  \* hosts left out by the process that runs
  fleet    \* what the outside has received and shown, for the properties

local == <<pc, cur, done, vol>>
ovars == <<vars, hosts, local, excluded, fleet>>

-----------------------------------------------------------------------------
(* The outside.  sent and woken count the commands of the outage             *)
(* transaction; settled (restored) are the hosts whose shutdown (return) was *)
(* shown or given up since the latest commit; exempt are the hosts excluded  *)
(* when the snapshot wrote their record; fresh says that the host table      *)
(* was started anew for the outage; due are the hosts to be restored that    *)
(* were seen down in a committed shutdown and neither seen online nor given  *)
(* up since; wokenAge is the time since lastWoken was sent a packet, at the  *)
(* start of the tick: negative in the tick that sent it.                     *)

NewFleet ==
  [sent |-> [h \in Hosts |-> 0], woken |-> [h \in Hosts |-> 0],
   settled |-> {}, restored |-> {}, exempt |-> {}, fresh |-> FALSE, due |-> {},
   lastWoken |-> NoHost, wokenAge |-> MaxAge]

\* RuntimeConfigWithExclusions: what the controller of this process works with.
Runtime ==
  IF excluded = {} THEN Config
  ELSE [h \in Hosts |->
          IF h \in excluded
          THEN [Config[h] EXCEPT !.method = "none", !.wakeEnabled = FALSE]
          ELSE Config[h]]

Commit == ~st.committed /\ st'.committed

ObserveStep(f) ==
  IF Commit THEN [f EXCEPT !.settled = {}, !.restored = {}]
  ELSE IF st'.power = "NORMAL" THEN [f EXCEPT !.fresh = FALSE]
  ELSE IF st.power # "ON_BATTERY" /\ st'.power = "ON_BATTERY" /\ owed' = "fresh"
  THEN [f EXCEPT !.fresh = FALSE]
  ELSE f

-----------------------------------------------------------------------------
(* Helpers *)

\* BuildShutdownPlan of the runtime configuration: an excluded host, method
\* none, is left out and the order of the others stays.
shutdownPlan == BuildShutdownPlan(Config)
PreFSD == DirectHosts(Config) \ excluded
NUTGroup == NUTManaged(Config)

\* Name_bug, here and below: Name with a plausible error, used by no module.
Unsettled_acknowledgedIsDone ==
  {h \in PreFSD \ done :
     hosts[h].shutdown \notin {"completed", "not_required", "acknowledged"}}

\* The hosts settleDirect still has to look at.
Unsettled ==
  {h \in PreFSD \ done : hosts[h].shutdown \notin {"completed", "not_required"}}

maxNUTAttempts ==
  Max({0} \cup {hosts[h].shutdownAttempts : h \in NUTGroup})

RetryDelay_uncapped(n) == 2 ^ n

\* min(base * 2^(n-1), one minute): both retry schedules.
RetryDelay(n) ==
  LET doubled[i \in 1 .. n] == IF i = 1 THEN 1 ELSE Min({2 * doubled[i - 1], MaxBackoff})
  IN  doubled[n]

\* persistHost: a store write of one host's record.
PersistHost(h, hs) == hosts' = [hosts EXCEPT ![h] = hs]

Restored(S) == fleet' = [fleet EXCEPT !.restored = @ \cup S, !.due = @ \ S]

\* A committed shutdown saw the hosts of S down.
SeenDown(S) == fleet.due \cup (S \cap Eligible(Runtime, hosts))

recoverySettled_sentIsEnough ==
  \A h \in Eligible(Runtime, hosts) : hosts[h].recovery \notin {"", "waiting"}

recoverySettled_onlineOnly ==
  \A h \in Eligible(Runtime, hosts) : hosts[h].recovery = "online"

recoverySettled ==
  \A h \in Eligible(Runtime, hosts) :
    hosts[h].recovery \in {"online", "failed", "not_required"}

\* The hosts one pass of markBlockedRecovery, in configuration order, marks
\* failed: a host marked earlier in the pass already blocks its dependants.
markBlockedRecovery ==
  LET marked[n \in 0 .. Len(Order)] ==
        IF n = 0 THEN {}
        ELSE marked[n - 1] \cup
               {h \in {Order[n]} :
                  /\ EligibleForRestore(Runtime[h], hosts[h])
                  /\ hosts[h].recovery \notin {"online", "failed"}
                  /\ \E dep \in Config[h].dependsOn :
                       /\ EligibleForRestore(Runtime[dep], hosts[dep])
                       /\ \/ hosts[dep].recovery = "failed"
                          \/ dep \in marked[n - 1]}
  IN  marked[Len(Order)]

recoveryHasPriorWake ==
  \E h \in Hosts : \/ hosts[h].wakeAttempts > 0
                   \/ hosts[h].recovery \in {"wol_sent", "online"}

\* The last lines of armedPowerTick: with no NUT-managed host the controller
\* asks its own upsmon for FSD once the shutdown phase is over.
FSDDue(v) ==
  /\ st'.committed /\ st'.power = "WAITING_FOR_AC"
  /\ in'.utility = "on_battery" /\ ~RemoteClient /\ NUTGroup = {}
  /\ ~v.fsdDone /\ v.fsdWait = 0

EndTick(v) ==
  /\ vol' = v
  /\ pc' = IF FSDDue(v) THEN "controllerFSD" ELSE "idle"
  /\ cur' = NoHost
  /\ done' = {}

Goto(l) == pc' = l /\ UNCHANGED <<cur, done, vol>>

EngineIdle == UNCHANGED vars

-----------------------------------------------------------------------------
(* The tick: Coordinator.Step, then the work its decision asks for. *)

Sooner(w, d) == IF w > d THEN w - d ELSE 0
Older(age, d) == IF age + d > MaxAge THEN MaxAge ELSE age + d

\* The volatile deadlines, d later.
AgedVolatile(d) ==
  [vol EXCEPT !.nutWait = Sooner(@, d), !.fsdWait = Sooner(@, d),
              !.wakeAge = IF @ = Unset THEN Unset ELSE Older(@, d)]

ControllerTick(d, s) ==
  /\ pc = "idle"
  /\ Tick(d, s)
  /\ fleet' = ObserveStep([fleet EXCEPT !.wokenAge = Older(@, d)])
  /\ UNCHANGED hosts
  /\ LET work == IF st.power = "BOOT_RECONCILE" /\ st'.power = "ON_BATTERY"
                 THEN "bootSnapshot"
                 ELSE IF owed' = "fresh" THEN "fresh"
                 ELSE IF owed' = "begin" THEN "begin"
                 ELSE IF st'.power = "SHUTDOWN_IN_PROGRESS" THEN "shutdown"
                 ELSE IF st'.power = "RESTORE_HOSTS" THEN "restore"
                 ELSE "none"
     IN  IF work = "none" THEN EndTick(AgedVolatile(d))
         ELSE /\ pc' = work
              /\ vol' = AgedVolatile(d)
              /\ UNCHANGED <<cur, done>>

\* A host seen up or down by an earlier snapshot is not looked at again.
Snapshotted == {h \in Hosts : hosts[h].present /\ hosts[h].wasOnline # "unset"}

\* snapshotHosts for the probe results p; offlineKnown = FALSE after a boot.
Snapshot(p, offlineKnown) ==
  [h \in Hosts |->
     IF h \in Snapshotted THEN hosts[h]
     ELSE [hosts[h] EXCEPT
             !.present = TRUE,
             !.shutdown = IF Runtime[h].method = "none" THEN "not_required"
                          ELSE "planned",
             !.recovery = IF \/ ~Runtime[h].wakeEnabled
                             \/ Config[h].restorePolicy = "never"
                          THEN "not_required" ELSE "waiting",
             !.wasOnline = IF ~Config[h].probed THEN "unset"
                           ELSE IF p[h] = "online" THEN "yes"
                           ELSE IF p[h] = "offline" /\ offlineKnown THEN "no"
                           ELSE "unset"]]

SnapshotHosts ==
  /\ pc \in {"snapshot", "bootSnapshot"}
  /\ EngineIdle
  /\ \E p \in ProbeResults :
       LET up == {h \in Hosts \ Snapshotted : Config[h].probed /\ p[h] = "online"}
       IN  /\ hosts' = Snapshot(p, pc = "snapshot")
           /\ fleet' = [fleet EXCEPT !.exempt = (@ \cap Snapshotted)
                                                \cup (excluded \ Snapshotted),
                                     !.due = @ \ up]
  /\ IF owed = "fresh" THEN Goto("fresh") ELSE EndTick(vol)

\* beginFreshOutage: the new transaction, durable before its snapshot.
BeginFreshOutage ==
  /\ pc = "fresh"
  /\ FreshOutage
  /\ hosts' = [h \in Hosts |-> NoHostState]
  /\ vol' = NewVolatile
  /\ fleet' = [NewFleet EXCEPT !.fresh = TRUE, !.due = fleet.due]
  /\ pc' = "snapshot"
  /\ UNCHANGED <<cur, done>>

BeginShutdownWork ==
  /\ pc = "begin"
  /\ BeginShutdown
  /\ Goto("shutdown")
  /\ UNCHANGED <<hosts, fleet>>

-----------------------------------------------------------------------------
(* executeShutdown: the direct hosts, one settleDirect after the other. *)


\* enterShutdownFailedSafe: the host and the power state in one write.
HostFailedSafe(h) ==
  /\ ShutdownFailedSafe
  /\ PersistHost(h, [hosts[h] EXCEPT !.shutdown = "failed", !.present = TRUE])
  /\ EndTick(vol)
  /\ UNCHANGED fleet

\* errDirectShutdownRetryPending: the host is unknown until the next tick.
RetryPending(h) ==
  /\ EngineIdle
  /\ PersistHost(h, [hosts[h] EXCEPT !.shutdown = "unknown"])
  /\ EndTick(vol)
  /\ UNCHANGED fleet

Attempt_uncounted(h) ==
  /\ PersistHost(h, [hosts[h] EXCEPT !.shutdown = "requested", !.present = TRUE])
  /\ pc' = "command"
  /\ cur' = h
  /\ EngineIdle /\ UNCHANGED <<done, vol, fleet>>

\* The attempt is counted and durable before the command is issued.
Attempt(h) ==
  IF hosts[h].shutdownAttempts >= MaxDirect
  THEN HostFailedSafe(h)
  ELSE /\ PersistHost(h, [hosts[h] EXCEPT !.shutdownAttempts = @ + 1,
                                          !.shutdown = "requested",
                                          !.present = TRUE])
       /\ pc' = "command"
       /\ cur' = h
       /\ EngineIdle /\ UNCHANGED <<done, vol, fleet>>

Settled(h) ==
  /\ PersistHost(h, [hosts[h] EXCEPT !.shutdown = "completed"])
  /\ fleet' = [fleet EXCEPT !.settled = @ \cup {h}, !.due = SeenDown({h})]
  /\ pc' = "shutdown"
  /\ cur' = NoHost
  /\ EngineIdle /\ UNCHANGED <<done, vol>>

InFlight == {"requested", "acknowledged", "unknown"}

\* The next host of the plan that is not settled.
Settling(h) ==
  /\ pc = "shutdown" /\ h \in Unsettled
  /\ \E i \in DOMAIN shutdownPlan.preFSD :
       /\ h = shutdownPlan.preFSD[i]
       /\ \A j \in 1 .. i - 1 : shutdownPlan.preFSD[j] \notin Unsettled

\* A host that exhausted its attempts in this or an earlier transaction.
SettleFailed(h) ==
  /\ Settling(h)
  /\ hosts[h].shutdown = "failed"
  /\ HostFailedSafe(h)

\* An earlier request is reconciled by a probe before anything is repeated.
ReconcileUnknown(h) ==
  /\ Settling(h)
  /\ hosts[h].shutdown \in InFlight
  /\ RetryPending(h)

ReconcileOffline(h) ==
  /\ Settling(h)
  /\ hosts[h].shutdown \in InFlight
  /\ Config[h].probed
  /\ Settled(h)

SettleAttempt_repeats(h) ==
  /\ Settling(h)
  /\ hosts[h].shutdown \in {"", "planned"} \cup InFlight
  /\ Attempt(h)

SettleAttempt(h) ==
  /\ Settling(h)
  /\ \/ hosts[h].shutdown \in {"", "planned"}
     \/ hosts[h].shutdown \in InFlight /\ Config[h].probed
  /\ Attempt(h)

SendCommand ==
  /\ pc = "command"
  /\ fleet' = [fleet EXCEPT !.sent[cur] = @ + 1]
  /\ Goto("reply")
  /\ EngineIdle /\ UNCHANGED hosts

\* ssh failed or timed out; whether the host got the command is not known.
CommandFailed ==
  /\ pc = "reply"
  /\ IF hosts[cur].shutdownAttempts >= MaxDirect
     THEN HostFailedSafe(cur)
     ELSE RetryPending(cur)

CommandAcknowledged ==
  /\ pc = "reply"
  /\ PersistHost(cur, [hosts[cur] EXCEPT !.shutdown = "acknowledged"])
  /\ IF Config[cur].probed
     THEN Goto("verify") /\ UNCHANGED fleet
     ELSE /\ done' = done \cup {cur}
          /\ fleet' = [fleet EXCEPT !.settled = @ \cup {cur}]
          /\ pc' = "shutdown"
          /\ cur' = NoHost
          /\ UNCHANGED vol
  /\ EngineIdle

\* Probe.Wait: the host stays down for the configured number of probes, or
\* the wait times out.
VerifyDown == pc = "verify" /\ Settled(cur)

VerifyTimeout == pc = "verify" /\ RetryPending(cur)

-----------------------------------------------------------------------------
(* executeShutdown: the NUT group and the end of the phase. *)

\* With a remote-client profile executeShutdown returns an error at the group and
\* the process ends: no step but ControllerRestart.
CanRequestFSD == ~RemoteClient

\* prepareNUTGroup completes the hosts seen offline; then the attempts are
\* exhausted, or the retry is not due, or the hosts are marked and FSD follows.
PrepareNUTGroup ==
  /\ pc = "shutdown" /\ Unsettled = {} /\ NUTGroup # {} /\ CanRequestFSD
  /\ EngineIdle
  /\ \E off \in SUBSET {h \in NUTGroup : Config[h].probed} :
       /\ hosts' = [h \in Hosts |->
                      IF h \in off
                      THEN [hosts[h] EXCEPT !.shutdown = "completed",
                                            !.present = TRUE]
                      ELSE hosts[h]]
       /\ fleet' = [fleet EXCEPT !.due = SeenDown(off)]
  /\ IF maxNUTAttempts >= MaxNUT THEN Goto("groupFailed")
     ELSE IF vol.nutWait > 0 THEN EndTick(vol)
     ELSE pc' = "mark" /\ cur' = maxNUTAttempts + 1 /\ done' = {} /\ UNCHANGED vol

\* enterNUTGroupFailedSafe
GroupFailedSafe ==
  /\ pc = "groupFailed"
  /\ ShutdownFailedSafe
  /\ hosts' = [h \in Hosts |->
                 IF h \in NUTGroup /\ hosts[h].shutdown # "completed"
                 THEN [hosts[h] EXCEPT !.shutdown = "failed", !.present = TRUE]
                 ELSE hosts[h]]
  /\ EndTick(vol)
  /\ UNCHANGED fleet

\* markNUTRequested, one durable write per host in the order of the IDs; `cur'
\* keeps the attempt.
MarkNUTRequested ==
  /\ pc = "mark"
  /\ LET rest == {h \in NUTGroup \ done : hosts[h].shutdown # "completed"}
     IN  \/ rest = {} /\ Goto("groupFSD") /\ UNCHANGED hosts
         \/ \E h \in rest :
              /\ \A g \in rest : h <= g
              /\ PersistHost(h, [hosts[h] EXCEPT !.shutdownAttempts = @ + 1,
                                                !.shutdown = "requested",
                                                !.present = TRUE])
              /\ done' = done \cup {h}
              /\ UNCHANGED <<pc, cur, vol>>
  /\ EngineIdle /\ UNCHANGED fleet

RequestGroupFSD ==
  /\ pc = "groupFSD"
  /\ Goto("groupReply")
  /\ EngineIdle /\ UNCHANGED <<hosts, fleet>>

GroupFSDFailed ==
  /\ pc = "groupReply"
  /\ EngineIdle
  /\ hosts' = [h \in Hosts |->
                 IF h \in NUTGroup /\ hosts[h].shutdown # "completed"
                 THEN [hosts[h] EXCEPT !.shutdown = "unknown"] ELSE hosts[h]]
  /\ EndTick([vol EXCEPT !.nutWait = RetryDelay(cur)])
  /\ UNCHANGED fleet

\* markNUTAcknowledged and verifyNUTGroup: a host that is probed is completed
\* or unknown, the others stay acknowledged.  The phase ends either way.
GroupFSDAcknowledged ==
  /\ pc = "groupReply"
  /\ \E down \in SUBSET {h \in NUTGroup : /\ Config[h].probed
                                           /\ hosts[h].shutdown # "completed"} :
       /\ hosts' = [h \in Hosts |->
                      IF h \notin NUTGroup \/ hosts[h].shutdown = "completed"
                      THEN hosts[h]
                      ELSE [hosts[h] EXCEPT !.shutdown =
                              IF ~Config[h].probed THEN "acknowledged"
                              ELSE IF h \in down THEN "completed" ELSE "unknown"]]
       /\ fleet' = [fleet EXCEPT !.due = SeenDown(down)]
  /\ pc' = "complete"
  /\ vol' = [vol EXCEPT !.nutWait = 0]
  /\ EngineIdle /\ UNCHANGED <<cur, done>>

\* MarkShutdownPhaseComplete, after the group or with no NUT-managed host.
CompleteShutdown ==
  /\ \/ pc = "complete"
     \/ pc = "shutdown" /\ Unsettled = {} /\ NUTGroup = {}
  /\ MarkShutdownPhaseComplete
  /\ EndTick(vol)
  /\ UNCHANGED <<hosts, fleet>>

\* The controller's own FSD request; the outcome is kept in memory only.
ControllerFSD ==
  /\ pc = "controllerFSD"
  /\ \E ok \in BOOLEAN :
       vol' = IF ok THEN [vol EXCEPT !.fsdDone = TRUE, !.fsdWait = 0]
              ELSE LET n == Min({vol.fsdAttempts + 1, MaxBackoff})
                   IN  [vol EXCEPT !.fsdAttempts = n, !.fsdWait = RetryDelay(n)]
  /\ pc' = "idle"
  /\ EngineIdle /\ UNCHANGED <<hosts, cur, done, fleet>>

-----------------------------------------------------------------------------
(* executeRecoveryStep and RecoveryExecutor.RunNext *)

BlockedRecovery ==
  /\ pc = "restore"
  /\ \E blocked \in {markBlockedRecovery} :
       /\ hosts' = [h \in Hosts |->
                      IF h \in blocked
                      THEN [hosts[h] EXCEPT !.recovery = "failed", !.present = TRUE]
                      ELSE hosts[h]]
       /\ Restored(blocked)
  /\ Goto("recover")
  /\ EngineIdle

CompleteRecovery ==
  /\ pc = "recover"
  /\ recoverySettled
  /\ MarkRecoveryComplete
  /\ fleet' = ObserveStep(fleet)
  /\ EndTick([vol EXCEPT !.wakeAge = Unset, !.lastWake = NoHost,
                         !.resumeEvaluated = FALSE])
  /\ UNCHANGED hosts

\* The host the tick hands to the recovery executor, if there is one; the
\* actions on a host h below are about this one.
HandedOut ==
  IF pc # "recover" \/ recoverySettled THEN {}
  ELSE NextRecoveryHost(Runtime, hosts)

Recovering == pc = "recover"

ResumeDelay_forgotten(h) == FALSE

\* After a restart one full delay is applied before the first wake.
ResumeDelay(h) ==
  /\ ~vol.resumeEvaluated /\ recoveryHasPriorWake /\ Config[h].wakeDelay > 0

WakeTooSoon(h) ==
  /\ Config[h].wakeDelay > 0 /\ vol.wakeAge # Unset /\ h # vol.lastWake
  /\ vol.wakeAge < Config[h].wakeDelay

DelayWake(h) ==
  /\ Recovering
  /\ EngineIdle
  /\ \/ /\ ResumeDelay(h)
        /\ EndTick([vol EXCEPT !.resumeEvaluated = TRUE, !.wakeAge = 0,
                               !.lastWake = Resume])
     \/ /\ ~ResumeDelay(h) /\ WakeTooSoon(h)
        /\ EndTick([vol EXCEPT !.resumeEvaluated = TRUE])
  /\ UNCHANGED <<hosts, fleet>>

WakeDue(h) == Recovering /\ ~ResumeDelay(h) /\ ~WakeTooSoon(h)

evaluated == [vol EXCEPT !.resumeEvaluated = TRUE]

RecoveredOnline(h) ==
  /\ WakeDue(h)
  /\ EngineIdle
  /\ PersistHost(h, [hosts[h] EXCEPT !.recovery = "online"])
  /\ Restored({h})
  /\ EndTick(evaluated)

\* WakeMaxAttempts, 5 when it is not set.
WakeLimit(h) ==
  IF Config[h].wakeMaxAttempts = 0 THEN 5 ELSE Config[h].wakeMaxAttempts

WakeExhausted(h) ==
  /\ WakeDue(h)
  /\ EngineIdle
  /\ hosts[h].wakeAttempts >= WakeLimit(h)
  /\ PersistHost(h, [hosts[h] EXCEPT !.recovery = "failed"])
  /\ Restored({h})
  /\ EndTick(evaluated)

\* The attempt and wol_sent are durable before the packet.
PrepareWake(h) ==
  /\ WakeDue(h)
  /\ hosts[h].wakeAttempts < WakeLimit(h)
  /\ PersistHost(h, [hosts[h] EXCEPT !.wakeAttempts = @ + 1,
                                     !.recovery = "wol_sent"])
  /\ pc' = "wake"
  /\ cur' = h
  /\ vol' = evaluated
  /\ EngineIdle /\ UNCHANGED <<done, fleet>>

\* A failed store write inside RunNext is swallowed: nothing is sent and the
\* next tick tries again.
RecoveryWriteFails(h) ==
  /\ pc = "recover"
  /\ EngineIdle
  /\ EndTick(evaluated)
  /\ UNCHANGED <<hosts, fleet>>
  /\ WakeDue(h)

\* The packet leaves some time after the tick read the clock: the network check,
\* the probe of the host and the store write come before it.  What is kept for
\* the next delay is the start of the tick.
SendWake ==
  /\ pc = "wake"
  /\ EngineIdle
  /\ \E lag \in 0 .. PacketLag :
       fleet' = [fleet EXCEPT !.woken[cur] = @ + 1, !.lastWoken = cur,
                              !.wokenAge = -lag]
  /\ EndTick([vol EXCEPT !.wakeAge = 0, !.lastWake = cur])
  /\ UNCHANGED hosts

\* Nothing to hand out yet: a chain behind a failed host is marked blocked one
\* pass per tick.
NothingToWake ==
  /\ pc = "recover" /\ ~recoverySettled /\ NextRecoveryHost(Runtime, hosts) = {}
  /\ EngineIdle
  /\ EndTick(vol)
  /\ UNCHANGED <<hosts, fleet>>

-----------------------------------------------------------------------------
\* The agent dies and starts again; the fleet and the disk remain, and
\* RuntimeArmedExclusions looks at the SSH keys anew.
ControllerRestart ==
  /\ Restart
  /\ pc' = "idle" /\ cur' = NoHost /\ done' = {}
  /\ vol' = NewVolatile
  /\ excluded' \in Exclusions
  /\ UNCHANGED <<hosts, fleet>>

OInit ==
  /\ Init
  /\ hosts = [h \in Hosts |-> NoHostState]
  /\ pc = "idle" /\ cur = NoHost /\ done = {}
  /\ vol = NewVolatile
  /\ excluded \in Exclusions
  /\ fleet = NewFleet

ControllerTicks == \E d \in Delays, s \in Samples : ControllerTick(d, s)

SettleDirect ==
  \/ \E h \in PreFSD : \/ SettleFailed(h) \/ ReconcileUnknown(h)
                       \/ ReconcileOffline(h) \/ SettleAttempt(h)
  \/ SendCommand \/ CommandFailed \/ CommandAcknowledged
  \/ VerifyDown \/ VerifyTimeout

SettleGroup ==
  \/ PrepareNUTGroup \/ GroupFailedSafe \/ MarkNUTRequested
  \/ RequestGroupFSD \/ GroupFSDFailed \/ GroupFSDAcknowledged

ExecuteRecoveryStep ==
  \/ BlockedRecovery \/ CompleteRecovery \/ SendWake \/ NothingToWake
  \/ \E h \in HandedOut :
       \/ DelayWake(h) \/ RecoveredOnline(h) \/ WakeExhausted(h)
       \/ PrepareWake(h) \/ RecoveryWriteFails(h)

TickContinues ==
  \/ SnapshotHosts \/ BeginFreshOutage \/ BeginShutdownWork
  \/ SettleDirect \/ SettleGroup \/ CompleteShutdown \/ ControllerFSD
  \/ ExecuteRecoveryStep

Running == (ControllerTicks \/ TickContinues) /\ UNCHANGED excluded

ONext == Running \/ ControllerRestart

OSpec == OInit /\ [][ONext]_ovars

\* The power ticker fires for ever and a tick runs to its end.  Nothing is
\* assumed of the probes, of the commands' outcomes or of restarts.
OFairSpec == OSpec /\ WF_ovars(Running)

-----------------------------------------------------------------------------
(* Properties *)

\* The type invariant: retry waits within their cap, ages within MaxAge.
OTypeOK ==
  /\ TypeOK
  /\ hosts \in [Hosts -> HostStates]
  /\ pc \in {"idle", "bootSnapshot", "snapshot", "fresh", "begin", "shutdown",
             "command", "reply", "verify", "groupFailed", "mark", "groupFSD",
             "groupReply", "complete", "controllerFSD", "restore", "recover",
             "wake"}
  /\ cur \in Hosts \cup {NoHost} \cup 1 .. MaxNUT
  /\ done \subseteq Hosts
  /\ vol \in Volatile
  /\ excluded \in Exclusions

\* No command is sent that the host's durable attempts do not count.
CommandsCounted ==
  /\ \A h \in Hosts \ NUTGroup : /\ fleet.sent[h] <= hosts[h].shutdownAttempts
                                 /\ hosts[h].shutdownAttempts <= MaxDirect
  /\ \A h \in Hosts : /\ fleet.woken[h] <= hosts[h].wakeAttempts
                      /\ hosts[h].wakeAttempts <= WakeLimit(h)

\* No command is sent outside the durable phase it belongs to.
EffectsInPhase ==
  /\ pc \in {"command", "groupFSD"} =>
       disk.committed /\ disk.power = "SHUTDOWN_IN_PROGRESS"
  /\ pc = "wake" =>
       /\ disk.recovery /\ disk.power = "RESTORE_HOSTS"
       /\ ~unsafeUPS(in) /\ in.networkReady /\ in.healthSafe

\* Intent before effect (controller.go, recovery.go): however often the agent
\* dies between writing and sending, the durable counters cover every command
\* a host received in the transaction and keep their limits; a host is told to
\* stop only inside a durable shutdown in progress, and woken only inside a
\* durable restoration, on a sample that was safe.
IntentBeforeEffect == CommandsCounted /\ EffectsInPhase

AllDirectSettled == PreFSD \subseteq fleet.settled \cup fleet.exempt

\* In an outage that got its own host table, the NUT group is forced down and
\* the shutdown phase ended only after every direct host was seen down, or
\* acknowledged the command if it cannot be probed, since the commit; or it
\* is, or was at the snapshot of the outage, excluded for want of a usable key.
DirectHostsFirst ==
  [][/\ \/ pc' = "groupFSD"
        \/ st.power = "SHUTDOWN_IN_PROGRESS" /\ st'.power = "WAITING_FOR_AC"
     /\ fleet.fresh
     => AllDirectSettled]_ovars

\* Restoration is declared complete only when every host owed a wake-up was
\* seen online, or was given up, since the shutdown was committed; or it was
\* excluded at the snapshot of the outage, and so not shut down.
RestorationComplete ==
  [][/\ st.power = "RESTORE_HOSTS" /\ st'.power = "NORMAL" /\ fleet.fresh
     => Eligible(Runtime, hosts) \subseteq fleet.restored \cup fleet.exempt]_ovars

\* Excluded at the snapshot of the outage, and restorable since a restart found
\* its key.
Readmitted == Eligible(Runtime, hosts) \cap fleet.exempt

\* executeRecoveryStep never waits in vain: when restoration is not settled and
\* NextRecoveryHost hands out nothing, the next pass of markBlockedRecovery
\* gives up a host behind a failed one.  The one exception is a host that
\* depends on a readmitted one, whose record says that it need not be woken and
\* will never say that it is online.
RecoveryAdvances ==
  /\ pc = "recover" /\ fleet.fresh /\ ~recoverySettled
  /\ NextRecoveryHost(Runtime, hosts) = {}
  => \/ markBlockedRecovery # {}
     \/ \E h \in Eligible(Runtime, hosts) : /\ hosts[h].recovery \notin Finished
                                           /\ Config[h].dependsOn \cap Readmitted # {}

\* The time between two packets, with what the stamp of the tick may lose.
WakeAfterDelay ==
  /\ pc = "wake" /\ fleet'.woken # fleet.woken
  /\ fleet.lastWoken \notin {NoHost, cur}
  => fleet.wokenAge - fleet'.wokenAge + PacketLag >= Config[cur].wakeDelay

EveryWakeDelayed == \A h \in Hosts : Config[h].wakeEnabled => Config[h].wakeDelay > 0

\* wake.delay_after_previous_seconds: in a fleet whose hosts all have a delay, a
\* different host is sent a packet only after its delay since the packet before,
\* less the lag of a packet behind the start of its tick, from which the code
\* counts; restarts in between included.
WakesSpaced == [][EveryWakeDelayed => WakeAfterDelay]_ovars

\* settleDirect does not repeat what is done: a direct host that since the
\* commit was seen down, or acknowledged the command if it cannot be probed, is
\* not sent the command again, whatever timed out or restarted in between.
NoRepeatedCommand ==
  [][pc = "command" /\ pc' = "reply" => cur \notin fleet.settled]_ovars

FiniteRestarts == <>[][~ControllerRestart]_ovars


\* When power, network and health stay good in the end and restarts and failed
\* writes stop, restoration ends, whatever the hosts do, by completing unless
\* an outage or a fault had ended it before.
RestorationEnds ==
  /\ FiniteRestarts
  /\ <>[][~\E h \in HandedOut : RecoveryWriteFails(h)]_ovars
  /\ <>[](~unsafeUPS(in) /\ in.networkReady /\ in.healthSafe)
  => [](st.power = "RESTORE_HOSTS" =>
           <>(st.power \in {"NORMAL", "ON_BATTERY", "FAILED_SAFE"}))

-----------------------------------------------------------------------------
(* What the documentation says and the code does not do. *)

\* POWER_POLICY 12: a host is not skipped in an outage because the shutdown of
\* an earlier one was already marked complete.
NoStaleCompletion ==
  [][st.power = "SHUTDOWN_IN_PROGRESS" /\ st'.power = "WAITING_FOR_AC"
       => AllDirectSettled]_ovars

\* BOOT_RECOVERY_REQUIREMENTS 13: on a later stable recovery a host that was
\* still waiting, or only sent a packet, is looked at again: the policy is not
\* back to NORMAL while a host taken down by a committed shutdown is due.
RestorationNotForgotten ==
  [][st.power # "NORMAL" /\ st'.power = "NORMAL" => fleet'.due = {}]_ovars

\* NUT_SHUTDOWN_MODEL 12: with a direct host unresolved after its attempts the
\* project does not advance to FSD.
NoFSDPastFailedHost ==
  pc = "controllerFSD" => \A h \in PreFSD : hosts[h].shutdown # "failed"
=============================================================================
