-------------------------- MODULE HealthSupervisor --------------------------
(***************************************************************************)
(* The control-stack health supervisor (agent/internal/health) as the      *)
(* cockpit-ups-wol-health timer runs it, and the gate through which its    *)
(* snapshot opens or closes the recovery of hosts                          *)
(* (app/system_health_gate.go).                                            *)
(*                                                                         *)
(* A run reads the snapshot of the run before, checks the units in name    *)
(* order, starts the failed ones within the limits of the repair circuit,  *)
(* and saves.  Units fail and come back at any moment, a run can die or    *)
(* fail to save, the snapshot can become unreadable, and the wall clock    *)
(* can be set.  The times in a snapshot are times of the wall clock, kept  *)
(* here as their distance from its present reading: time that passes and a *)
(* clock that is set both change them.  The timer, and the times in the    *)
(* histories, are real time.                                               *)
(***************************************************************************)
EXTENDS Integers, FiniteSets

CONSTANTS
  N,                  \* units 1 .. N, numbered in the order of their names
  Critical,           \* safetyCriticalUnit
  Repairable,         \* units with a repairer, when autofix is on
  MaxRepairAttempts,
  BaseBackoff, MaxBackoff,
  MaxAge,             \* SystemHealthMaxAge
  Period,             \* OnUnitActiveSec of the timer
  RunTime,            \* bound: how long one run takes at most
  ClockSteps,         \* by how much the wall clock may be set at once
  OffTimes,           \* how long the machine may be off
  MaxFaults           \* bound: lost runs, damaged snapshots, clock steps

Units == 1 .. N

ASSUME HealthAssumption ==
  /\ N \in Nat \ {0} /\ Critical \subseteq Units /\ Repairable \subseteq Units
  /\ MaxRepairAttempts \in Nat \ {0}
  /\ BaseBackoff \in Nat \ {0} /\ MaxBackoff \in Nat \ {0}
  /\ Period \in Nat \ {0} /\ RunTime \in Nat /\ MaxAge \in Nat \ {0}
  /\ ClockSteps \subseteq Nat \ {0} /\ OffTimes \subseteq Nat \ {0}
  /\ MaxFaults \in Nat

\* Two runs in a row fit into the age a snapshot may have: OnUnitActiveSec is
\* 60 s and the gate accepts 3 min.
ASSUME TimerAssumption == Period + 2 * RunTime <= MaxAge

VARIABLES
  up,       \* the units that are enabled and active
  file,     \* system-health.json: readable or not, and the snapshot in it
  run,      \* the run in progress: its next unit, its snapshot, its time left
  timer,    \* time to the next run
  seen,     \* history: time since a check found the critical unit up
  repairs,  \* history: repairs of the unit since a check found it up
  since,    \* history: time since the last of these repairs, at most MaxBackoff
  lost,     \* runs that ended without a snapshot, and reboots
  damaged,  \* snapshots that became unreadable
  forward,  \* times the wall clock was set forward
  back      \* times the wall clock was set back

environment == <<lost, damaged, forward, back>>
history == <<seen, since, repairs>>
vars == <<up, file, run, timer, history, environment>>

Idle == 0
Saving == N + 1

Later(age, k, cap) == IF age + k < cap THEN age + k ELSE cap
Old == MaxAge + 1
Faults == lost + damaged + forward + back

-----------------------------------------------------------------------------
(* Snapshots *)

\* age: CheckedAt before the present reading of the wall clock, negative when
\* it lies in the future; failed: the Results that are not OK; wait: until
\* NextAllowedUTC, set exactly while there are attempts.  setBack is a history:
\* the clock was set back after CheckedAt was taken.
NewSnapshot ==
  [state |-> "HEALTHY", age |-> 0, setBack |-> FALSE, failed |-> {},
   attempts |-> [u \in Units |-> 0], wait |-> [u \in Units |-> 0]]

\* Doubled per attempt; the cap is applied before the doubling can pass it.
backoff(attempt) ==
  LET d[i \in 1 .. attempt] ==
        IF i = 1 THEN BaseBackoff
        ELSE IF 2 * d[i - 1] >= MaxBackoff THEN MaxBackoff ELSE 2 * d[i - 1]
  IN  IF d[attempt] > MaxBackoff THEN MaxBackoff ELSE d[attempt]

\* A failed check is noted before anything is repaired: a critical one always
\* makes the state DEGRADED, another one only if everything was well so far.
Noted(s, u) ==
  [s EXCEPT !.failed = @ \cup {u},
            !.state = IF u \in Critical \/ @ = "HEALTHY" THEN "DEGRADED" ELSE @]

\* Name_bug, here and below: Name with a plausible error, used by no module.
Exhausted_anyUnit(s, u) == [s EXCEPT !.state = "FAILED_SAFE"]

Exhausted(s, u) ==
  IF u \in Critical THEN [s EXCEPT !.state = "FAILED_SAFE"] ELSE s

Retrying(s) ==
  IF s.state = "FAILED_SAFE" THEN s ELSE [s EXCEPT !.state = "RECOVERING"]

Attempted(s, u) ==
  [s EXCEPT !.attempts[u] = @ + 1, !.wait[u] = backoff(s.attempts[u] + 1)]

\* systemHealthSafe: what the agent asks before it restores hosts.  A snapshot
\* from the future is refused like an old one.
systemHealthSafe ==
  /\ file.readable
  /\ file.snap.age >= 0 /\ file.snap.age <= MaxAge
  /\ file.snap.state # "FAILED_SAFE"
  /\ file.snap.failed \cap Critical = {}

-----------------------------------------------------------------------------
(* The environment *)

UnitFails(u) ==
  /\ u \in up /\ up' = up \ {u}
  /\ UNCHANGED <<file, run, timer, history, environment>>

UnitStarts(u) ==
  /\ u \notin up /\ up' = up \cup {u}
  /\ UNCHANGED <<file, run, timer, history, environment>>

\* The file decays; Save itself replaces it atomically.
SnapshotDamaged ==
  /\ Faults < MaxFaults /\ file.readable
  /\ damaged' = damaged + 1
  /\ file' = [file EXCEPT !.readable = FALSE]
  /\ UNCHANGED <<up, run, timer, history, lost, forward, back>>

\* The reading of the wall clock is k later.
Aged(s, k) ==
  [s EXCEPT !.age = Later(@, k, Old),
            !.wait = [u \in Units |-> IF @[u] > k THEN @[u] - k ELSE 0]]

\* The reading is k earlier.  An age at its cap, and a wait that is over, do not
\* tell by how much they are past it: rest is what is left of such a wait.
AgesBack(s, k) == IF s.age = Old THEN Old - k .. Old ELSE {s.age - k}

WaitsBack(s, k, rest) ==
  [u \in Units |-> IF s.attempts[u] = 0 THEN 0
                   ELSE IF s.wait[u] = 0 THEN rest[u] ELSE s.wait[u] + k]

SetBackBy(s, k, age, rest) ==
  [s EXCEPT !.age = age, !.wait = WaitsBack(s, k, rest), !.setBack = TRUE]

Passed(k) ==
  /\ seen' = [u \in Critical |-> Later(seen[u], k, Old)]
  /\ since' = [u \in Repairable |-> Later(since[u], k, MaxBackoff)]

\* Time passes between two runs, or while a check or a repair of a run waits
\* for systemctl, whose timeouts bound the run.
Tick ==
  /\ IF run.next = Idle
     THEN timer > 0 /\ timer' = timer - 1 /\ run' = run
     ELSE /\ run.left > 0 /\ timer' = timer
          /\ run' = [run EXCEPT !.left = @ - 1, !.snap = Aged(@, 1)]
  /\ file' = [file EXCEPT !.snap = Aged(@, 1)]
  /\ Passed(1)
  /\ UNCHANGED <<up, repairs, environment>>

\* The wall clock is set while the system runs, by hand or by network time.
ClockSetForward(k) ==
  /\ Faults < MaxFaults /\ forward' = forward + 1
  /\ file' = [file EXCEPT !.snap = Aged(@, k)]
  /\ run' = IF run.next = Idle THEN run ELSE [run EXCEPT !.snap = Aged(@, k)]
  /\ UNCHANGED <<up, timer, history, lost, damaged, back>>

ClockSetBack(k) ==
  /\ Faults < MaxFaults /\ back' = back + 1
  /\ \E age \in AgesBack(file.snap, k), rest \in [Units -> 0 .. k] :
       file' = [file EXCEPT !.snap = SetBackBy(@, k, age, rest)]
  /\ \/ run.next = Idle /\ run' = run
     \/ /\ run.next # Idle
        /\ \E age \in AgesBack(run.snap, k), rest \in [Units -> 0 .. k] :
             run' = [run EXCEPT !.snap = SetBackBy(@, k, age, rest)]
  /\ UNCHANGED <<up, timer, history, lost, damaged, forward>>

-----------------------------------------------------------------------------
(* Supervisor.Run *)

EndRun ==
  /\ run' = [next |-> Idle, left |-> 0, snap |-> NewSnapshot]
  /\ timer' = Period

\* The circuit of the last snapshot is kept, its results are not; an unreadable
\* snapshot counts as none.  CheckedAt is the start of the run.
RunBegin ==
  /\ run.next = Idle /\ timer = 0
  /\ LET last == IF file.readable THEN file.snap ELSE NewSnapshot
     IN  run' = [next |-> 1, left |-> RunTime,
                 snap |-> [last EXCEPT !.state = "HEALTHY", !.age = 0,
                                       !.setBack = FALSE, !.failed = {}]]
  /\ UNCHANGED <<up, file, timer, history, environment>>

Continue(u, s) ==
  /\ run' = [run EXCEPT !.next = u + 1, !.snap = s]
  /\ UNCHANGED <<file, timer, environment>>

\* is-enabled and is-active both say yes: the circuit of the unit is closed.
CheckOK(u) ==
  /\ run.next = u /\ u \in up
  /\ Continue(u, [run.snap EXCEPT !.attempts[u] = 0, !.wait[u] = 0])
  /\ seen' = [seen EXCEPT ![u] = 0]
  /\ repairs' = [repairs EXCEPT ![u] = 0]
  /\ since' = [since EXCEPT ![u] = MaxBackoff]
  /\ up' = up

CheckFailed(u) == run.next = u /\ u \notin up

\* No autofix, not repairable, or no repairer.
CheckNotRepairable(u) ==
  /\ CheckFailed(u) /\ u \notin Repairable
  /\ Continue(u, Noted(run.snap, u))
  /\ UNCHANGED <<up, history>>

CheckExhausted_closesAgain(u) ==
  /\ CheckFailed(u) /\ u \in Repairable
  /\ run.snap.attempts[u] >= MaxRepairAttempts
  /\ Continue(u, [Exhausted(Noted(run.snap, u), u) EXCEPT
                    !.attempts[u] = 0, !.wait[u] = MaxBackoff])
  /\ UNCHANGED <<up, history>>

CheckExhausted(u) ==
  /\ CheckFailed(u) /\ u \in Repairable
  /\ run.snap.attempts[u] >= MaxRepairAttempts
  /\ Continue(u, Exhausted(Noted(run.snap, u), u))
  /\ UNCHANGED <<up, history>>

CheckBackingOff_waitRenewed(u) ==
  /\ CheckFailed(u) /\ u \in Repairable
  /\ run.snap.attempts[u] < MaxRepairAttempts
  /\ run.snap.wait[u] > 0
  /\ Continue(u, [Retrying(Noted(run.snap, u)) EXCEPT
                    !.wait[u] = backoff(run.snap.attempts[u])])
  /\ UNCHANGED <<up, history>>

CheckBackingOff(u) ==
  /\ CheckFailed(u) /\ u \in Repairable
  /\ run.snap.attempts[u] < MaxRepairAttempts
  /\ run.snap.wait[u] > 0
  /\ Continue(u, Retrying(Noted(run.snap, u)))
  /\ UNCHANGED <<up, history>>

RepairDue_noBackoff(u) ==
  /\ CheckFailed(u) /\ u \in Repairable
  /\ run.snap.attempts[u] < MaxRepairAttempts

RepairDue(u) ==
  /\ CheckFailed(u) /\ u \in Repairable
  /\ run.snap.attempts[u] < MaxRepairAttempts
  /\ run.snap.wait[u] = 0

\* systemctl enable --now.  Its answer says nothing about the unit staying up,
\* and a command that timed out may have worked.
CheckRepair(u) ==
  /\ RepairDue(u)
  /\ LET s == Attempted(Noted(run.snap, u), u)
     IN  \/ Continue(u, Retrying(s))
         \/ Continue(u, IF s.attempts[u] >= MaxRepairAttempts /\ u \in Critical
                        THEN Exhausted(s, u) ELSE Retrying(s))
  /\ up' \in {up, up \cup {u}}
  /\ since' = [since EXCEPT ![u] = 0]
  /\ repairs' = [repairs EXCEPT ![u] = @ + 1]
  /\ UNCHANGED seen

Save_stampsNow ==
  /\ run.next = Saving
  /\ file' = [readable |-> TRUE, snap |-> [run.snap EXCEPT !.age = 0]]
  /\ EndRun
  /\ UNCHANGED <<up, history, environment>>

Save ==
  /\ run.next = Saving
  /\ file' = [readable |-> TRUE, snap |-> run.snap]
  /\ EndRun
  /\ UNCHANGED <<up, history, environment>>

\* A failed system call; the last one, the sync of the directory, fails with
\* the new file already in place.
SaveFails ==
  /\ run.next = Saving /\ Faults < MaxFaults
  /\ lost' = lost + 1
  /\ file' \in {file, [readable |-> TRUE, snap |-> run.snap]}
  /\ EndRun
  /\ UNCHANGED <<up, history, damaged, forward, back>>

\* The process is killed, at any point of the run.
RunDies ==
  /\ run.next # Idle /\ Faults < MaxFaults
  /\ lost' = lost + 1
  /\ EndRun
  /\ UNCHANGED <<up, file, history, damaged, forward, back>>

\* The machine is off for d.  Its clock went on, or stood still because there
\* is no clock chip, as if it had been set back by d.  OnBootSec is Period.
Reboot(d) ==
  /\ Faults < MaxFaults /\ lost' = lost + 1
  /\ \/ file' = [file EXCEPT !.snap = Aged(@, d)]
     \/ file' = [file EXCEPT !.snap.setBack = TRUE]
  /\ EndRun
  /\ Passed(d)
  /\ UNCHANGED <<up, repairs, damaged, forward, back>>

-----------------------------------------------------------------------------
\* After installation: no snapshot, and the timer has not fired.
Init ==
  /\ up \in SUBSET Units
  /\ file = [readable |-> FALSE, snap |-> NewSnapshot]
  /\ run = [next |-> Idle, left |-> 0, snap |-> NewSnapshot]
  /\ timer = Period
  /\ seen = [u \in Critical |-> Old]
  /\ since = [u \in Repairable |-> MaxBackoff]
  /\ repairs = [u \in Repairable |-> 0]
  /\ lost = 0 /\ damaged = 0 /\ forward = 0 /\ back = 0

Check ==
  \E u \in Units :
    \/ CheckOK(u) \/ CheckNotRepairable(u) \/ CheckExhausted(u)
    \/ CheckBackingOff(u) \/ CheckRepair(u)

Environment ==
  \/ \E u \in Units : UnitFails(u) \/ UnitStarts(u)
  \/ SnapshotDamaged \/ SaveFails \/ RunDies
  \/ \E k \in ClockSteps : ClockSetForward(k) \/ ClockSetBack(k)
  \/ \E d \in OffTimes : Reboot(d)

Next == Tick \/ RunBegin \/ Check \/ Save \/ Environment

Spec == Init /\ [][Next]_vars

\* The timer fires, the bounded checks and repairs return, and time goes on.
FairSpec == Spec /\ WF_vars(Tick) /\ WF_vars(RunBegin \/ Check \/ Save)

-----------------------------------------------------------------------------
(* Properties *)

\* system_health_gate.go, "fail closed": recovery is let through only while
\* every safety-critical unit was really seen up no longer than
\* SystemHealthMaxAge ago, however long the runs take, whatever is lost and
\* however often the machine reboots or the clock is set forward.  The exception
\* is a snapshot since whose CheckedAt the wall clock was set back, or stood
\* still with the machine off: the age that system_health_gate.go:33 computes
\* from two readings of that clock is then too small, and old evidence passes
\* until the next run saves.
GateNeedsFreshEvidence ==
  systemHealthSafe /\ ~file.snap.setBack => \A u \in Critical : seen[u] <= MaxAge

\* RELIABILITY_REQUIREMENTS 5: the circuit breaker bounds the repairs of a unit
\* that does not come back.  A run that dies after a repair costs one more, an
\* unreadable snapshot forgets the count once.
RepairsBounded ==
  \A u \in Repairable :
    repairs[u] <= MaxRepairAttempts * (damaged + 1) + lost

Repaired(u) == repairs'[u] = repairs[u] + 1

\* While no snapshot is lost, two repairs of a unit that was not seen up in
\* between are at least the backoff of the first one apart.  NextAllowedUTC is
\* a time of the wall clock: set back it lengthens the wait, set forward it
\* ends it early, so no step forward is allowed.
RepairsSpaced ==
  [][\A u \in Repairable :
       /\ Repaired(u) /\ repairs[u] > 0
       /\ lost = 0 /\ damaged = 0 /\ forward = 0
       => since[u] >= backoff(repairs[u])]_vars

\* main.go: "stopping [Cockpit] must never prevent [...] a safe power
\* recovery".  With the critical units up for good the gate opens and stays
\* open, whatever the other units and their exhausted circuits do, and with no
\* gap between two runs.
GateOpensForGood ==
  <>[](Critical \subseteq up) => <>[]systemHealthSafe

\* "Exhaustion [...] rather than an endless restart loop": a critical unit that
\* stays down is in the end never repaired again and keeps recovery closed.
GivenUpForGood ==
  \A u \in Critical \cap Repairable :
    <>[](u \notin up) =>
      /\ <>[][~Repaired(u)]_vars
      /\ <>[](~systemHealthSafe /\ file.snap.attempts[u] = MaxRepairAttempts)
=============================================================================
