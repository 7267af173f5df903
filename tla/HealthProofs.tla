---------------------------- MODULE HealthProofs ----------------------------
(***************************************************************************)
(* TLAPS proofs about HealthSupervisor, for any number of units and all    *)
(* limits.                                                                 *)
(*                                                                         *)
(* The argument.  A snapshot never claims more than was seen: a critical   *)
(* unit it does not list as failed was seen up no longer ago than the      *)
(* snapshot is old, in the file for all units and in a run for those       *)
(* already checked (FileEvidence, RunEvidence); nothing is claimed once    *)
(* the clock was set back after its stamp.  And a snapshot never counts    *)
(* fewer attempts than repairs, but for what lost runs and unreadable      *)
(* snapshots account for (FileCounts, RunCounts); between the repair and   *)
(* Save the file is one behind.                                            *)
(*                                                                         *)
(* The spacing of repairs rests on the snapshot the next repair is decided *)
(* on (SpaceInv), and on the cap of the backoff.                           *)
(***************************************************************************)
EXTENDS HealthSupervisor, WellFoundedInduction, TLAPS

IsSnapshot(s) ==
  /\ DOMAIN s = {"state", "age", "setBack", "failed", "attempts", "wait"}
  /\ s.age \in Int /\ s.age <= Old
  /\ s.setBack \in BOOLEAN /\ (~s.setBack => s.age >= 0)
  /\ s.attempts \in [Units -> 0 .. MaxRepairAttempts]

HealthTypeOK ==
  /\ up \subseteq Units
  /\ DOMAIN file = {"readable", "snap"} /\ file.readable \in BOOLEAN
  /\ IsSnapshot(file.snap)
  /\ DOMAIN run = {"next", "left", "snap"} /\ run.next \in 0 .. N + 1
  /\ IsSnapshot(run.snap)
  /\ seen \in [Critical -> 0 .. Old]
  /\ repairs \in [Repairable -> Nat]
  /\ lost \in Nat /\ damaged \in Nat /\ forward \in Nat

FileEvidence ==
  file.readable /\ ~file.snap.setBack =>
    \A u \in Critical : u \notin file.snap.failed => seen[u] <= file.snap.age

RunEvidence ==
  ~run.snap.setBack =>
    \A u \in Critical :
      u < run.next /\ u \notin run.snap.failed => seen[u] <= run.snap.age

\* The repairs that runs without a snapshot and unreadable snapshots excuse.
Excused == MaxRepairAttempts * damaged + lost

Recorded(u) == IF file.readable THEN file.snap.attempts[u] ELSE 0

FileCounts ==
  \A u \in Repairable :
    repairs[u] <= Recorded(u) + Excused + (IF u < run.next THEN 1 ELSE 0)

RunCounts ==
  run.next # Idle =>
    \A u \in Repairable : repairs[u] <= run.snap.attempts[u] + Excused

HealthInv ==
  HealthTypeOK /\ FileEvidence /\ RunEvidence /\ FileCounts /\ RunCounts

\* The constants as the provers need them.
LEMMA Sizes ==
  /\ N \in Nat \ {0} /\ Units = 1 .. N /\ Old \in Nat /\ Old = MaxAge + 1
  /\ MaxAge \in Nat /\ Critical \subseteq Units /\ Repairable \subseteq Units
  /\ MaxRepairAttempts \in Nat \ {0}
  BY HealthAssumption DEF Units, Old

\* One more lost run excuses one repair more, one more unreadable snapshot a
\* whole circuit.
LEMMA Excuses ==
  ASSUME HealthTypeOK
  PROVE  /\ Excused \in Nat
         /\ damaged' = damaged /\ lost' = lost => Excused' = Excused
         /\ damaged' = damaged /\ lost' = lost + 1 => Excused' = Excused + 1
         /\ damaged' = damaged + 1 /\ lost' = lost =>
              Excused' = Excused + MaxRepairAttempts
  BY Sizes DEF HealthTypeOK, Excused

\* What a check does to a snapshot: the age and the attempts stay, and only the
\* checked unit is added to the failed ones.
LEMMA NotedSnapshot ==
  ASSUME NEW s, NEW u \in Units, IsSnapshot(s)
  PROVE  /\ IsSnapshot(Noted(s, u)) /\ Noted(s, u).age = s.age
         /\ Noted(s, u).setBack = s.setBack
         /\ Noted(s, u).attempts = s.attempts
         /\ Noted(s, u).failed = s.failed \cup {u}
  BY DEF Noted, IsSnapshot

\* Giving a unit up changes the state of the snapshot only.
LEMMA ExhaustedSnapshot ==
  ASSUME NEW s, NEW u \in Units, IsSnapshot(s)
  PROVE  /\ IsSnapshot(Exhausted(s, u)) /\ Exhausted(s, u).age = s.age
         /\ Exhausted(s, u).setBack = s.setBack
         /\ Exhausted(s, u).attempts = s.attempts
         /\ Exhausted(s, u).failed = s.failed
  BY DEF Exhausted, IsSnapshot

\* So does a unit that is still tried.
LEMMA RetryingSnapshot ==
  ASSUME NEW s, IsSnapshot(s)
  PROVE  /\ IsSnapshot(Retrying(s)) /\ Retrying(s).age = s.age
         /\ Retrying(s).setBack = s.setBack
         /\ Retrying(s).attempts = s.attempts /\ Retrying(s).failed = s.failed
  BY DEF Retrying, IsSnapshot

\* A repair is counted while the circuit is not exhausted.
LEMMA AttemptedSnapshot ==
  ASSUME NEW s, NEW u \in Units, IsSnapshot(s), s.attempts[u] < MaxRepairAttempts
  PROVE  /\ IsSnapshot(Attempted(s, u)) /\ Attempted(s, u).age = s.age
         /\ Attempted(s, u).setBack = s.setBack
         /\ Attempted(s, u).failed = s.failed
         /\ Attempted(s, u).attempts = [s.attempts EXCEPT ![u] = @ + 1]
  BY Sizes DEF Attempted, IsSnapshot

\* Time passes for a snapshot: its age, and the waits in it.
LEMMA AgedSnapshot ==
  ASSUME NEW s, IsSnapshot(s), NEW k \in Nat
  PROVE  /\ IsSnapshot(Aged(s, k)) /\ Aged(s, k).age = Later(s.age, k, Old)
         /\ Aged(s, k).setBack = s.setBack
         /\ Aged(s, k).attempts = s.attempts /\ Aged(s, k).failed = s.failed
  BY Sizes DEF Aged, IsSnapshot, Later

SetBackFrom(s, k, t) ==
  \E a \in AgesBack(s, k), rest \in [Units -> 0 .. k] : t = SetBackBy(s, k, a, rest)

\* A clock set back changes ages and waits, and leaves its mark.
LEMMA SetBackSnapshot ==
  ASSUME NEW s, IsSnapshot(s), NEW k \in Nat, NEW t, SetBackFrom(s, k, t)
  PROVE  /\ IsSnapshot(t) /\ t.setBack = TRUE
         /\ t.attempts = s.attempts /\ t.failed = s.failed
  <1>1. PICK a \in AgesBack(s, k), rest \in [Units -> 0 .. k] :
          t = SetBackBy(s, k, a, rest)
    BY DEF SetBackFrom
  <1>2. a \in Int /\ a <= Old
    BY Sizes DEF IsSnapshot, AgesBack
  <1> QED BY <1>1, <1>2 DEF IsSnapshot, SetBackBy

\* The snapshot before the first run claims and counts nothing.
LEMMA NewIsSnapshot ==
  /\ IsSnapshot(NewSnapshot) /\ NewSnapshot.failed = {}
  /\ \A u \in Units : NewSnapshot.attempts[u] = 0
  BY Sizes DEF NewSnapshot, IsSnapshot

-----------------------------------------------------------------------------
(* What each step does to the parts of the state the invariant speaks of. *)

Checked(u) ==
  /\ run.next = u /\ DOMAIN run' = {"next", "left", "snap"} /\ run'.next = u + 1
  /\ IsSnapshot(run'.snap) /\ run'.snap.age = run.snap.age
  /\ run'.snap.setBack = run.snap.setBack
  /\ UNCHANGED <<file, lost, damaged, forward>>

\* A unit found up: its circuit is closed and it counts as seen.
LEMMA OKCheck ==
  ASSUME HealthTypeOK, NEW u \in Units, CheckOK(u)
  PROVE  /\ Checked(u) /\ up' = up
         /\ run'.snap.failed = run.snap.failed
         /\ run'.snap.attempts = [run.snap.attempts EXCEPT ![u] = 0]
         /\ seen' = [seen EXCEPT ![u] = 0] /\ repairs' = [repairs EXCEPT ![u] = 0]
  <1> DEFINE s == [run.snap EXCEPT !.attempts[u] = 0, !.wait[u] = 0]
  <1>1. /\ IsSnapshot(s) /\ s.age = run.snap.age /\ s.failed = run.snap.failed
        /\ s.setBack = run.snap.setBack
        /\ s.attempts = [run.snap.attempts EXCEPT ![u] = 0]
    BY Sizes DEF HealthTypeOK, IsSnapshot
  <1>2. /\ run.next = u /\ run' = [run EXCEPT !.next = u + 1, !.snap = s]
        /\ UNCHANGED <<file, lost, damaged, forward>> /\ up' = up
        /\ seen' = [seen EXCEPT ![u] = 0] /\ repairs' = [repairs EXCEPT ![u] = 0]
    BY DEF CheckOK, Continue, environment
  <1> HIDE DEF s
  <1> QED BY <1>1, <1>2 DEF Checked, HealthTypeOK

\* A failed unit that is not repaired in this run is only noted.
LEMMA FailedCheck ==
  ASSUME HealthTypeOK, NEW u \in Units,
         CheckNotRepairable(u) \/ CheckExhausted(u) \/ CheckBackingOff(u)
  PROVE  /\ Checked(u) /\ up' = up
         /\ run'.snap.failed = run.snap.failed \cup {u}
         /\ run'.snap.attempts = run.snap.attempts
         /\ UNCHANGED <<seen, repairs>>
  <1>1. IsSnapshot(run.snap)
    BY DEF HealthTypeOK
  <1>2. /\ IsSnapshot(Noted(run.snap, u)) /\ Noted(run.snap, u).age = run.snap.age
        /\ Noted(run.snap, u).setBack = run.snap.setBack
        /\ Noted(run.snap, u).attempts = run.snap.attempts
        /\ Noted(run.snap, u).failed = run.snap.failed \cup {u}
    BY <1>1, NotedSnapshot
  <1>3. PICK s : /\ run' = [run EXCEPT !.next = u + 1, !.snap = s]
                 /\ s \in {Noted(run.snap, u), Exhausted(Noted(run.snap, u), u),
                           Retrying(Noted(run.snap, u))}
    BY DEF CheckNotRepairable, CheckExhausted, CheckBackingOff, Continue
  <1>4. /\ IsSnapshot(s) /\ s.age = run.snap.age /\ s.setBack = run.snap.setBack
        /\ s.attempts = run.snap.attempts /\ s.failed = run.snap.failed \cup {u}
    BY <1>2, <1>3, ExhaustedSnapshot, RetryingSnapshot
  <1>5. run.next = u /\ UNCHANGED <<file, lost, damaged, forward, up, seen, repairs>>
    BY DEF CheckNotRepairable, CheckExhausted, CheckBackingOff, CheckFailed,
           Continue, environment, history
  <1> QED BY <1>3, <1>4, <1>5 DEF Checked, HealthTypeOK

\* A repair is counted in the history and in the snapshot of the run.
LEMMA RepairCheck ==
  ASSUME HealthTypeOK, NEW u \in Units, CheckRepair(u)
  PROVE  /\ Checked(u) /\ up' \subseteq Units /\ u \in Repairable
         /\ run'.snap.failed = run.snap.failed \cup {u}
         /\ run'.snap.attempts = [run.snap.attempts EXCEPT ![u] = @ + 1]
         /\ repairs' = [repairs EXCEPT ![u] = @ + 1] /\ seen' = seen
  <1> DEFINE n == Noted(run.snap, u)
             a == Attempted(n, u)
  <1>1. IsSnapshot(run.snap) /\ run.snap.attempts[u] < MaxRepairAttempts
    BY DEF HealthTypeOK, CheckRepair, RepairDue
  <1>2. /\ IsSnapshot(n) /\ n.age = run.snap.age /\ n.setBack = run.snap.setBack
        /\ n.attempts = run.snap.attempts /\ n.failed = run.snap.failed \cup {u}
    BY <1>1, NotedSnapshot
  <1>3. /\ IsSnapshot(a) /\ a.age = run.snap.age /\ a.setBack = run.snap.setBack
        /\ a.attempts = [run.snap.attempts EXCEPT ![u] = @ + 1]
        /\ a.failed = run.snap.failed \cup {u}
    <2> HIDE DEF n
    <2> QED BY <1>1, <1>2, AttemptedSnapshot
  <1>4. PICK s : /\ run' = [run EXCEPT !.next = u + 1, !.snap = s]
                 /\ s \in {Exhausted(a, u), Retrying(a)}
    BY DEF CheckRepair, Continue
  <1>5. /\ IsSnapshot(s) /\ s.age = run.snap.age /\ s.setBack = run.snap.setBack
        /\ s.attempts = [run.snap.attempts EXCEPT ![u] = @ + 1]
        /\ s.failed = run.snap.failed \cup {u}
    <2> HIDE DEF a
    <2> QED BY <1>3, <1>4, ExhaustedSnapshot, RetryingSnapshot
  <1>6. /\ run.next = u /\ u \in Repairable /\ UNCHANGED <<file, lost, damaged, forward, seen>>
        /\ repairs' = [repairs EXCEPT ![u] = @ + 1] /\ up' \in {up, up \cup {u}}
    BY DEF CheckRepair, RepairDue, CheckFailed, Continue, environment
  <1> HIDE DEF a, n
  <1> QED BY <1>4, <1>5, <1>6 DEF Checked, HealthTypeOK

\* The run is over: nothing of it is left to speak of.
LEMMA RunEnds ==
  ASSUME EndRun
  PROVE  /\ DOMAIN run' = {"next", "left", "snap"} /\ run'.next = 0
         /\ IsSnapshot(run'.snap)
  BY NewIsSnapshot DEF EndRun, Idle

-----------------------------------------------------------------------------
(* Preservation *)

\* Ages grow together, so what was younger stays younger.
LEMMA LaterIsMonotone ==
  ASSUME NEW k \in Nat, NEW a \in 0 .. Old, NEW b \in Int, b <= Old, a <= b
  PROVE  Later(a, k, Old) <= Later(b, k, Old)
  BY Sizes DEF Later

\* Real time passes for what was seen.
LEMMA SeenLater ==
  ASSUME HealthTypeOK, NEW k \in Nat, Passed(k)
  PROVE  /\ seen' = [u \in Critical |-> Later(seen[u], k, Old)]
         /\ seen' \in [Critical -> 0 .. Old]
  BY Sizes DEF HealthTypeOK, Passed, Later

\* Snapshot s became t without a check: it counts and lists the same, and what
\* it claims is still so, unless it claims nothing any more.
Moved(s, t) ==
  /\ IsSnapshot(t) /\ t.attempts = s.attempts /\ t.failed = s.failed
  /\ ~t.setBack => /\ ~s.setBack
                   /\ \A u \in Critical : seen[u] <= s.age => seen'[u] <= t.age

FileMoved ==
  /\ DOMAIN file' = {"readable", "snap"} /\ file'.readable = file.readable
  /\ Moved(file.snap, file'.snap)

RunMoved ==
  /\ DOMAIN run' = {"next", "left", "snap"} /\ run'.next = run.next
  /\ IF run.next = Idle THEN run'.snap = run.snap ELSE Moved(run.snap, run'.snap)

\* Time that passes, for everything alike, moves a snapshot.
LEMMA PassedMoves ==
  ASSUME HealthTypeOK, NEW k \in Nat, Passed(k), NEW s, IsSnapshot(s)
  PROVE  Moved(s, Aged(s, k))
  <1>1. \A u \in Critical : seen[u] \in 0 .. Old /\ seen'[u] = Later(seen[u], k, Old)
    BY SeenLater DEF HealthTypeOK
  <1>2. ASSUME NEW u \in Critical, seen[u] <= s.age
        PROVE  seen'[u] <= Aged(s, k).age
    BY <1>1, <1>2, AgedSnapshot, LaterIsMonotone DEF IsSnapshot
  <1> QED BY <1>2, AgedSnapshot DEF Moved

\* So does a clock that is set forward, with no time passing,
LEMMA ForwardMoves ==
  ASSUME HealthTypeOK, NEW k \in Nat, seen' = seen, NEW s, IsSnapshot(s)
  PROVE  Moved(s, Aged(s, k))
  <1>1. ASSUME NEW u \in Critical, seen[u] <= s.age
        PROVE  seen'[u] <= Aged(s, k).age
    <2>1. Aged(s, k).age = Later(s.age, k, Old) /\ seen[u] \in 0 .. Old
      BY AgedSnapshot DEF HealthTypeOK
    <2> QED BY <1>1, <2>1, Sizes DEF Later, IsSnapshot
  <1> QED BY <1>1, AgedSnapshot DEF Moved

\* and one that is set back, which ends what the snapshot claims.
LEMMA BackMoves ==
  ASSUME NEW k \in Nat, NEW s, IsSnapshot(s), NEW t, SetBackFrom(s, k, t)
  PROVE  Moved(s, t)
  BY SetBackSnapshot DEF Moved

\* A step that moves the snapshots keeps the invariant.
LEMMA MovedStep ==
  ASSUME HealthInv, FileMoved, RunMoved, seen' \in [Critical -> 0 .. Old],
         UNCHANGED <<up, repairs, lost, damaged>>, forward' \in Nat
  PROVE  HealthInv'
  <1> USE Sizes DEF HealthInv
  <1>1. HealthTypeOK'
    BY DEF HealthTypeOK, FileMoved, RunMoved, Moved
  <1>2. FileEvidence'
    BY DEF FileEvidence, FileMoved, Moved
  <1>3. RunEvidence'
    <2> SUFFICES ASSUME ~run'.snap.setBack, NEW u \in Critical,
                        u < run'.next, u \notin run'.snap.failed
                 PROVE  seen'[u] <= run'.snap.age
      BY DEF RunEvidence
    <2>1. run.next # Idle
      BY DEF RunMoved, Idle
    <2> QED BY <2>1 DEF RunEvidence, RunMoved, Moved
  <1>4. Excused' = Excused
    BY Excuses
  <1>5. FileCounts'
    <2>1. \A u \in Repairable : Recorded(u)' = Recorded(u)
      BY DEF Recorded, FileMoved, Moved
    <2> QED BY <1>4, <2>1 DEF FileCounts, RunMoved
  <1>6. RunCounts'
    BY <1>4 DEF RunCounts, RunMoved, Moved
  <1> QED BY <1>1, <1>2, <1>3, <1>5, <1>6

\* Time passes: nothing is counted, every age grows alike.
LEMMA TickStep ==
  ASSUME HealthInv, Tick
  PROVE  HealthInv'
  <1>1. /\ HealthTypeOK /\ IsSnapshot(file.snap) /\ IsSnapshot(run.snap)
        /\ DOMAIN file = {"readable", "snap"} /\ DOMAIN run = {"next", "left", "snap"}
    BY DEF HealthInv, HealthTypeOK
  <1>2. /\ Passed(1) /\ 1 \in Nat /\ file' = [file EXCEPT !.snap = Aged(file.snap, 1)]
        /\ UNCHANGED <<up, repairs, lost, damaged, forward>>
    BY DEF Tick, environment
  <1>3. FileMoved
    BY <1>1, <1>2, PassedMoves DEF FileMoved
  <1>4. RunMoved
    <2>1. CASE run.next = Idle
      BY <1>1, <2>1 DEF Tick, RunMoved
    <2>2. CASE run.next # Idle
      <3>1. run' = [run EXCEPT !.left = @ - 1, !.snap = Aged(run.snap, 1)]
        BY <2>2 DEF Tick
      <3>2. run'.snap = Aged(run.snap, 1) /\ run'.next = run.next
            /\ DOMAIN run' = {"next", "left", "snap"}
        BY <1>1, <3>1
      <3> QED BY <1>1, <1>2, <2>2, <3>2, PassedMoves DEF RunMoved
    <2> QED BY <2>1, <2>2
  <1>5. seen' \in [Critical -> 0 .. Old] /\ forward' \in Nat
    BY <1>1, <1>2, SeenLater DEF HealthTypeOK
  <1> QED BY <1>2, <1>3, <1>4, <1>5, MovedStep

\* The wall clock is set: nothing was seen or counted.
LEMMA ClockStep ==
  ASSUME HealthInv, NEW k \in ClockSteps, ClockSetForward(k) \/ ClockSetBack(k)
  PROVE  HealthInv'
  <1>1. /\ HealthTypeOK /\ IsSnapshot(file.snap) /\ IsSnapshot(run.snap)
        /\ DOMAIN file = {"readable", "snap"} /\ DOMAIN run = {"next", "left", "snap"}
    BY DEF HealthInv, HealthTypeOK
  <1>2. /\ k \in Nat /\ UNCHANGED <<up, seen, repairs, lost, damaged>>
        /\ forward' \in Nat
    BY <1>1, HealthAssumption
    DEF ClockSetForward, ClockSetBack, history, HealthTypeOK
  <1>3. CASE ClockSetForward(k)
    <2>1. /\ file' = [file EXCEPT !.snap = Aged(file.snap, k)]
          /\ run' = IF run.next = Idle THEN run
                    ELSE [run EXCEPT !.snap = Aged(run.snap, k)]
      BY <1>3 DEF ClockSetForward
    <2>2. FileMoved
      BY <1>1, <1>2, <2>1, ForwardMoves DEF FileMoved
    <2>3. RunMoved
      <3>1. run.next # Idle => run'.snap = Aged(run.snap, k)
        BY <1>1, <2>1
      <3>2. run'.next = run.next /\ DOMAIN run' = {"next", "left", "snap"}
        BY <1>1, <2>1
      <3> QED BY <1>1, <1>2, <2>1, <3>1, <3>2, ForwardMoves DEF RunMoved
    <2> QED BY <1>1, <1>2, <2>2, <2>3, MovedStep DEF HealthTypeOK
  <1>4. CASE ClockSetBack(k)
    <2>1. FileMoved
      <3>1. PICK s : SetBackFrom(file.snap, k, s) /\ file' = [file EXCEPT !.snap = s]
        BY <1>4 DEF ClockSetBack, SetBackFrom
      <3> QED BY <1>1, <1>2, <3>1, BackMoves DEF FileMoved
    <2>2. RunMoved
      <3>1. CASE run.next = Idle
        BY <1>1, <1>4, <3>1 DEF ClockSetBack, RunMoved
      <3>2. CASE run.next # Idle
        <4>1. PICK s : SetBackFrom(run.snap, k, s) /\ run' = [run EXCEPT !.snap = s]
          BY <1>4, <3>2 DEF ClockSetBack, SetBackFrom
        <4> QED BY <1>1, <1>2, <3>2, <4>1, BackMoves DEF RunMoved
      <3> QED BY <3>1, <3>2
    <2> QED BY <1>1, <1>2, <2>1, <2>2, MovedStep DEF HealthTypeOK
  <1> QED BY <1>3, <1>4

\* A run begins with the counts of the last snapshot and with no claims.
LEMMA RunBeginStep ==
  ASSUME HealthInv, RunBegin
  PROVE  HealthInv'
  <1> USE Sizes DEF HealthInv, HealthTypeOK
  <1> DEFINE last == IF file.readable THEN file.snap ELSE NewSnapshot
             s == [last EXCEPT !.state = "HEALTHY", !.age = 0, !.setBack = FALSE,
                               !.failed = {}]
  <1>1. /\ IsSnapshot(s) /\ s.attempts = last.attempts
    BY NewIsSnapshot DEF IsSnapshot
  <1>2. /\ run.next = Idle /\ run' = [next |-> 1, left |-> RunTime, snap |-> s]
        /\ UNCHANGED <<up, file, seen, repairs, lost, damaged, forward>>
    BY DEF RunBegin, history, environment
  <1>3. \A u \in Repairable : s.attempts[u] = Recorded(u)
    BY <1>1, NewIsSnapshot DEF Recorded
  <1> HIDE DEF s
  <1>4. HealthTypeOK'
    BY <1>1, <1>2
  <1>5. FileEvidence'
    BY <1>2 DEF FileEvidence
  <1>6. RunEvidence'
    BY <1>2 DEF RunEvidence
  <1>7. Excused' = Excused /\ Excused \in Nat
    BY <1>2, Excuses
  <1>8. FileCounts'
    <2>1. \A u \in Repairable : Recorded(u)' = Recorded(u) /\ ~(u < run'.next)
      BY <1>2 DEF Recorded
    <2>2. \A u \in Repairable : ~(u < run.next)
      BY <1>2 DEF Idle
    <2> QED BY <1>2, <1>7, <2>1, <2>2 DEF FileCounts
  <1>9. RunCounts'
    <2>1. \A u \in Repairable : repairs[u] <= Recorded(u) + Excused
      <3> TAKE u \in Repairable
      <3>1. ~(u < run.next)
        BY <1>2 DEF Idle
      <3>2. Recorded(u) \in Nat
        <4>1. s.attempts \in [Units -> 0 .. MaxRepairAttempts]
          BY <1>1 DEF IsSnapshot
        <4> QED BY <1>3, <4>1
      <3> QED BY <1>7, <3>1, <3>2 DEF FileCounts
    <2> QED BY <1>2, <1>3, <1>7, <2>1 DEF RunCounts
  <1> QED BY <1>4, <1>5, <1>6, <1>8, <1>9

\* A check adds one unit to what the run claims and counts.
LEMMA CheckStep ==
  ASSUME HealthInv, NEW u \in Units,
         \/ CheckOK(u) \/ CheckNotRepairable(u) \/ CheckExhausted(u)
         \/ CheckBackingOff(u) \/ CheckRepair(u)
  PROVE  HealthInv'
  <1> USE Sizes DEF HealthInv
  <1>1. /\ Checked(u) /\ up' \subseteq Units
        /\ seen' \in [Critical -> 0 .. Old] /\ repairs' \in [Repairable -> Nat]
        /\ \A v \in Critical : seen'[v] <= seen[v]
        /\ \A v \in Critical : v \notin run'.snap.failed =>
             v \notin run.snap.failed /\ (v = u => seen'[v] = 0)
        /\ \A v \in Repairable : \/ repairs'[v] = 0
                                 \/ /\ repairs'[v] = repairs[v]
                                    /\ run'.snap.attempts[v] = run.snap.attempts[v]
                                 \/ /\ v = u /\ repairs'[v] = repairs[v] + 1
                                    /\ run'.snap.attempts[v] = run.snap.attempts[v] + 1
    <2>1. /\ HealthTypeOK /\ up \subseteq Units /\ seen \in [Critical -> 0 .. Old]
          /\ repairs \in [Repairable -> Nat] /\ run.snap.attempts \in [Units -> Nat]
      <3>1. IsSnapshot(run.snap)
        BY DEF HealthTypeOK
      <3>2. run.snap.attempts \in [Units -> Nat]
        BY <3>1 DEF IsSnapshot
      <3> QED BY <3>2 DEF HealthTypeOK
    <2>2. CASE CheckOK(u)
      <3>1. /\ Checked(u) /\ up' = up
            /\ run'.snap.failed = run.snap.failed
            /\ run'.snap.attempts = [run.snap.attempts EXCEPT ![u] = 0]
            /\ seen' = [seen EXCEPT ![u] = 0] /\ repairs' = [repairs EXCEPT ![u] = 0]
        BY <2>1, <2>2, OKCheck
      <3>2. seen' \in [Critical -> 0 .. Old] /\ \A v \in Critical : seen'[v] <= seen[v]
        <4>1. \A v \in Critical : seen'[v] \in {0, seen[v]} /\ seen[v] \in 0 .. Old
          BY <2>1, <3>1
        <4>2. seen' \in [Critical -> 0 .. Old]
          <5>1. 0 \in 0 .. Old
            OBVIOUS
          <5> HIDE Sizes
          <5> QED BY <2>1, <3>1, <5>1
        <4> QED BY <4>1, <4>2
      <3>3. repairs' \in [Repairable -> Nat]
        BY <2>1, <3>1
      <3>4. \A v \in Critical : v \notin run'.snap.failed =>
             v \notin run.snap.failed /\ (v = u => seen'[v] = 0)
        BY <2>1, <3>1
      <3>5. \A v \in Repairable :
              \/ repairs'[v] = 0
              \/ repairs'[v] = repairs[v] /\ run'.snap.attempts[v] = run.snap.attempts[v]
              \/ /\ v = u /\ repairs'[v] = repairs[v] + 1
                 /\ run'.snap.attempts[v] = run.snap.attempts[v] + 1
        BY <2>1, <3>1
      <3> QED BY <2>1, <3>1, <3>2, <3>3, <3>4, <3>5
    <2>3. CASE CheckNotRepairable(u) \/ CheckExhausted(u) \/ CheckBackingOff(u)
      <3>1. /\ Checked(u) /\ up' = up
            /\ run'.snap.failed = run.snap.failed \cup {u}
            /\ run'.snap.attempts = run.snap.attempts
            /\ UNCHANGED <<seen, repairs>>
        BY <2>1, <2>3, FailedCheck
      <3>2. seen' \in [Critical -> 0 .. Old] /\ \A v \in Critical : seen'[v] <= seen[v]
        BY <2>1, <3>1
      <3>3. repairs' \in [Repairable -> Nat]
        BY <2>1, <3>1
      <3>4. \A v \in Critical : v \notin run'.snap.failed =>
             v \notin run.snap.failed /\ (v = u => seen'[v] = 0)
        BY <2>1, <3>1
      <3>5. \A v \in Repairable :
              \/ repairs'[v] = 0
              \/ repairs'[v] = repairs[v] /\ run'.snap.attempts[v] = run.snap.attempts[v]
              \/ /\ v = u /\ repairs'[v] = repairs[v] + 1
                 /\ run'.snap.attempts[v] = run.snap.attempts[v] + 1
        BY <2>1, <3>1
      <3> QED BY <2>1, <3>1, <3>2, <3>3, <3>4, <3>5
    <2>4. CASE CheckRepair(u)
      <3>1. /\ Checked(u) /\ up' \subseteq Units /\ u \in Repairable
            /\ run'.snap.failed = run.snap.failed \cup {u}
            /\ run'.snap.attempts = [run.snap.attempts EXCEPT ![u] = @ + 1]
            /\ repairs' = [repairs EXCEPT ![u] = @ + 1] /\ seen' = seen
        BY <2>1, <2>4, RepairCheck
      <3>2. seen' \in [Critical -> 0 .. Old] /\ \A v \in Critical : seen'[v] <= seen[v]
        BY <2>1, <3>1
      <3>3. repairs' \in [Repairable -> Nat]
        BY <2>1, <3>1
      <3>4. \A v \in Critical : v \notin run'.snap.failed =>
             v \notin run.snap.failed /\ (v = u => seen'[v] = 0)
        BY <2>1, <3>1
      <3>5. \A v \in Repairable :
              \/ repairs'[v] = 0
              \/ repairs'[v] = repairs[v] /\ run'.snap.attempts[v] = run.snap.attempts[v]
              \/ /\ v = u /\ repairs'[v] = repairs[v] + 1
                 /\ run'.snap.attempts[v] = run.snap.attempts[v] + 1
        BY <2>1, <3>1
      <3> QED BY <2>1, <3>1, <3>2, <3>3, <3>4, <3>5
    <2> QED BY <2>2, <2>3, <2>4
  <1>2. HealthTypeOK'
    BY <1>1 DEF HealthTypeOK, Checked
  <1>3. FileEvidence'
    BY <1>1 DEF FileEvidence, Checked, HealthTypeOK, IsSnapshot
  <1>4. RunEvidence'
    <2> SUFFICES ASSUME ~run'.snap.setBack, NEW v \in Critical, v < run'.next,
                        v \notin run'.snap.failed
                 PROVE  seen'[v] <= run'.snap.age
      BY DEF RunEvidence
    <2>1. CASE v = u
      BY <1>1, <2>1 DEF Checked, IsSnapshot
    <2>2. CASE v # u
      <3>1. v < run.next
        BY <1>1, <2>2 DEF Checked
      <3> QED BY <1>1, <3>1 DEF RunEvidence, Checked, HealthTypeOK, IsSnapshot
    <2> QED BY <2>1, <2>2
  <1>5. Excused' = Excused /\ Excused \in Nat
    BY <1>1, Excuses DEF Checked
  <1>6. FileCounts'
    <2> SUFFICES ASSUME NEW v \in Repairable
                 PROVE  repairs'[v] <= Recorded(v)' + Excused'
                                         + (IF v < run'.next THEN 1 ELSE 0)
      BY DEF FileCounts
    <2>1. Recorded(v)' = Recorded(v) /\ Recorded(v) \in Nat
      BY <1>1 DEF Recorded, Checked, HealthTypeOK, IsSnapshot
    <2>2. repairs[v] <= Recorded(v) + Excused + (IF v < run.next THEN 1 ELSE 0)
      BY DEF FileCounts
    <2>3. run.next = u /\ run'.next = u + 1
      BY <1>1 DEF Checked
    <2>4. repairs[v] \in Nat
      BY DEF HealthTypeOK
    <2>5. repairs'[v] = 0 \/ repairs'[v] = repairs[v] \/ (v = u /\ repairs'[v] = repairs[v] + 1)
      BY <1>1
    <2> QED BY <1>5, <2>1, <2>2, <2>3, <2>4, <2>5
  <1>7. RunCounts'
    <2> SUFFICES ASSUME NEW v \in Repairable
                 PROVE  repairs'[v] <= run'.snap.attempts[v] + Excused'
      BY DEF RunCounts
    <2>1. run'.snap.attempts[v] \in Nat /\ run.snap.attempts[v] \in Nat /\ repairs[v] \in Nat
      <3>1. IsSnapshot(run.snap) /\ IsSnapshot(run'.snap)
        BY <1>1 DEF HealthTypeOK, Checked
      <3>2. run.snap.attempts[v] \in Nat
        BY <3>1 DEF IsSnapshot
      <3>3. run'.snap.attempts[v] \in Nat
        BY <3>1 DEF IsSnapshot
      <3> QED BY <3>2, <3>3 DEF HealthTypeOK
    <2>2. repairs[v] <= run.snap.attempts[v] + Excused
      BY <1>1 DEF RunCounts, Checked, Idle
    <2>3. \/ repairs'[v] = 0
          \/ repairs'[v] = repairs[v] /\ run'.snap.attempts[v] = run.snap.attempts[v]
          \/ /\ repairs'[v] = repairs[v] + 1
             /\ run'.snap.attempts[v] = run.snap.attempts[v] + 1
      BY <1>1
    <2>4. repairs'[v] <= run'.snap.attempts[v] + Excused
      <3> HIDE Sizes DEF HealthInv
      <3>1. PICK a \in Nat : run'.snap.attempts[v] = a
        BY <2>1
      <3>2. CASE repairs'[v] = 0
        BY <1>5, <3>1, <3>2
      <3>3. CASE repairs'[v] = repairs[v] /\ a = run.snap.attempts[v]
        BY <1>5, <2>1, <2>2, <3>1, <3>3
      <3>4. CASE repairs'[v] = repairs[v] + 1 /\ a = run.snap.attempts[v] + 1
        BY <1>5, <2>1, <2>2, <3>1, <3>4
      <3> QED BY <2>3, <3>1, <3>2, <3>3, <3>4
    <2> QED BY <1>5, <2>4
  <1> QED BY <1>2, <1>3, <1>4, <1>6, <1>7

\* The snapshot of a complete run claims no more than the run saw.
LEMMA SavedSnapshot ==
  ASSUME HealthInv, run.next = Saving, EndRun,
         file' = [readable |-> TRUE, snap |-> run.snap],
         UNCHANGED <<up, seen, repairs, damaged, forward>>, lost' \in Nat,
         lost' = lost \/ lost' = lost + 1
  PROVE  HealthInv'
  <1> USE Sizes DEF HealthInv
  <1>1. /\ file'.readable = TRUE /\ file'.snap = run.snap
        /\ DOMAIN file' = {"readable", "snap"}
    OBVIOUS
  <1>2. HealthTypeOK'
    BY <1>1, RunEnds DEF HealthTypeOK
  <1>3. FileEvidence'
    BY <1>1 DEF FileEvidence, RunEvidence, Saving
  <1>4. RunEvidence'
    BY RunEnds DEF RunEvidence
  <1>5. Excused \in Nat /\ (Excused' = Excused \/ Excused' = Excused + 1)
    BY Excuses
  <1>6. FileCounts'
    <2> SUFFICES ASSUME NEW v \in Repairable
                 PROVE  repairs[v] <= Recorded(v)' + Excused'
                                        + (IF v < run'.next THEN 1 ELSE 0)
      BY DEF FileCounts
    <2>3. ~(v < run'.next)
      BY RunEnds
    <2>1. Recorded(v)' = run.snap.attempts[v] /\ run.snap.attempts[v] \in Nat
      BY <1>1 DEF Recorded, HealthTypeOK, IsSnapshot
    <2>2. repairs[v] <= run.snap.attempts[v] + Excused /\ repairs[v] \in Nat
      BY DEF RunCounts, Saving, Idle, HealthTypeOK
    <2> QED BY <1>5, <2>1, <2>2, <2>3
  <1>7. RunCounts'
    BY RunEnds DEF RunCounts, Idle
  <1> QED BY <1>2, <1>3, <1>4, <1>6, <1>7

\* A run that ends without a snapshot leaves the file at most one behind, and
\* excuses one repair.
LEMMA LostRun ==
  ASSUME HealthInv, EndRun, FileMoved, seen' \in [Critical -> 0 .. Old],
         UNCHANGED <<up, repairs, damaged, forward>>, lost' = lost + 1
  PROVE  HealthInv'
  <1> USE Sizes DEF HealthInv
  <1>1. HealthTypeOK'
    BY RunEnds DEF HealthTypeOK, FileMoved, Moved
  <1>2. FileEvidence'
    BY DEF FileEvidence, FileMoved, Moved
  <1>3. RunEvidence'
    BY RunEnds DEF RunEvidence
  <1>4. Excused \in Nat /\ Excused' = Excused + 1
    BY Excuses
  <1>5. FileCounts'
    <2> SUFFICES ASSUME NEW v \in Repairable
                 PROVE  repairs[v] <= Recorded(v)' + Excused'
                                        + (IF v < run'.next THEN 1 ELSE 0)
      BY DEF FileCounts
    <2>3. ~(v < run'.next)
      BY RunEnds
    <2>1. Recorded(v)' = Recorded(v) /\ Recorded(v) \in Nat
      BY DEF Recorded, FileMoved, Moved, HealthTypeOK, IsSnapshot
    <2>2. repairs[v] <= Recorded(v) + Excused + 1 /\ repairs[v] \in Nat
      BY <1>4, <2>1 DEF FileCounts, HealthTypeOK
    <2> QED BY <1>4, <2>1, <2>2, <2>3
  <1>6. RunCounts'
    BY RunEnds DEF RunCounts, Idle
  <1> QED BY <1>1, <1>2, <1>3, <1>5, <1>6

\* The machine was off: as if time had passed, and with the clock standing still
\* as if it had been set back as well.
LEMMA RebootStep ==
  ASSUME HealthInv, NEW d \in OffTimes, Reboot(d)
  PROVE  HealthInv'
  <1>1. /\ HealthTypeOK /\ IsSnapshot(file.snap)
        /\ DOMAIN file = {"readable", "snap"}
    BY DEF HealthInv, HealthTypeOK
  <1>2. /\ d \in Nat /\ Passed(d) /\ EndRun /\ lost' = lost + 1
        /\ UNCHANGED <<up, repairs, damaged, forward>>
    BY HealthAssumption DEF Reboot
  <1>3. FileMoved
    <2>1. CASE file' = [file EXCEPT !.snap = Aged(file.snap, d)]
      BY <1>1, <1>2, <2>1, PassedMoves DEF FileMoved
    <2>2. CASE file' = [file EXCEPT !.snap.setBack = TRUE]
      <3>1. file'.snap = [file.snap EXCEPT !.setBack = TRUE]
        BY <1>1, <2>2
      <3>2. Moved(file.snap, [file.snap EXCEPT !.setBack = TRUE])
        BY <1>1 DEF Moved, IsSnapshot
      <3> QED BY <1>1, <2>2, <3>1, <3>2 DEF FileMoved
    <2> QED BY <2>1, <2>2 DEF Reboot
  <1> QED BY <1>1, <1>2, <1>3, SeenLater, LostRun

\* An unreadable snapshot claims nothing and forgets one circuit.
LEMMA DamagedStep ==
  ASSUME HealthInv, SnapshotDamaged
  PROVE  HealthInv'
  <1> USE Sizes DEF HealthInv
  <1>1. /\ file' = [file EXCEPT !.readable = FALSE]
        /\ damaged' = damaged + 1
        /\ UNCHANGED <<up, run, seen, repairs, lost, forward>>
    BY DEF SnapshotDamaged, history
  <1>2. file'.readable = FALSE /\ file'.snap = file.snap
    BY <1>1 DEF HealthTypeOK
  <1>3. HealthTypeOK'
    BY <1>1, <1>2 DEF HealthTypeOK
  <1>4. FileEvidence' /\ RunEvidence'
    BY <1>1, <1>2 DEF FileEvidence, RunEvidence
  <1>5. Excused \in Nat /\ Excused' = Excused + MaxRepairAttempts
    BY <1>1, Excuses
  <1>6. FileCounts'
    <2> SUFFICES ASSUME NEW v \in Repairable
                 PROVE  repairs[v] <= Recorded(v)' + Excused'
                                        + (IF v < run.next THEN 1 ELSE 0)
      BY <1>1 DEF FileCounts
    <2>1. /\ Recorded(v)' = 0
          /\ Recorded(v) \in Nat /\ Recorded(v) <= MaxRepairAttempts
      BY <1>2 DEF Recorded, HealthTypeOK, IsSnapshot
    <2>2. /\ repairs[v] <= Recorded(v) + Excused + (IF v < run.next THEN 1 ELSE 0)
          /\ repairs[v] \in Nat
      BY DEF FileCounts, HealthTypeOK
    <2> QED BY <1>5, <2>1, <2>2
  <1>7. RunCounts'
    <2> SUFFICES ASSUME NEW v \in Repairable, run.next # Idle
                 PROVE  repairs[v] <= run.snap.attempts[v] + Excused'
      BY <1>1 DEF RunCounts
    <2>1. /\ repairs[v] <= run.snap.attempts[v] + Excused
          /\ repairs[v] \in Nat /\ run.snap.attempts[v] \in Nat
      BY DEF RunCounts, HealthTypeOK, IsSnapshot
    <2> QED BY <1>5, <2>1
  <1> QED BY <1>3, <1>4, <1>6, <1>7

\* Nothing the invariant speaks of changes, but the units that are up.
LEMMA UnitsChange ==
  ASSUME HealthInv, up' \subseteq Units,
         UNCHANGED <<file, run, seen, repairs, lost, damaged, forward>>
  PROVE  HealthInv'
  BY DEF HealthInv, HealthTypeOK, FileEvidence, RunEvidence, FileCounts, RunCounts,
         Recorded, Excused

\* After installation nothing is claimed or counted.
LEMMA HealthInit ==
  Init => HealthInv
  <1> SUFFICES ASSUME Init PROVE HealthInv
    OBVIOUS
  <1>1. HealthTypeOK
    BY Sizes, NewIsSnapshot DEF Init, HealthTypeOK, Idle
  <1>2. FileEvidence
    BY DEF Init, FileEvidence
  <1>3. RunEvidence
    BY Sizes DEF Init, RunEvidence, Idle
  <1>4. Excused \in Nat
    BY Sizes DEF Excused, Init
  <1>5. FileCounts
    <2>1. \A u \in Repairable : repairs[u] = 0 /\ Recorded(u) = 0
      BY DEF Init, Recorded
    <2> QED BY <1>4, <2>1 DEF FileCounts
  <1>6. RunCounts
    BY DEF Init, RunCounts, Idle
  <1> QED BY <1>1, <1>2, <1>3, <1>5, <1>6 DEF HealthInv

\* The invariant is inductive.
LEMMA HealthStep ==
  HealthInv /\ [Next]_vars => HealthInv'
  <1> SUFFICES ASSUME HealthInv, [Next]_vars
               PROVE  HealthInv'
    OBVIOUS
  <1>1. CASE Tick
    BY <1>1, TickStep
  <1>2. CASE RunBegin
    BY <1>2, RunBeginStep
  <1>3. CASE Check
    BY <1>3, CheckStep DEF Check
  <1>4. /\ lost \in Nat /\ up \subseteq Units
        /\ file' = file /\ seen' = seen =>
             FileMoved /\ seen' \in [Critical -> 0 .. Old]
    BY DEF HealthInv, HealthTypeOK, FileMoved, Moved
  <1>5. CASE Save
    BY <1>4, <1>5, SavedSnapshot DEF Save, history, environment
  <1>6. CASE \E u \in Units : UnitFails(u) \/ UnitStarts(u)
    BY <1>4, <1>6, UnitsChange DEF UnitFails, UnitStarts, history, environment
  <1>7. CASE SnapshotDamaged
    BY <1>7, DamagedStep
  <1>8. CASE SaveFails
    <2>1. CASE file' = file
      BY <1>4, <1>8, <2>1, LostRun DEF SaveFails, history
    <2>2. CASE file' = [readable |-> TRUE, snap |-> run.snap]
      BY <1>4, <1>8, <2>2, SavedSnapshot DEF SaveFails, history
    <2> QED BY <1>8, <2>1, <2>2 DEF SaveFails
  <1>9. CASE RunDies
    BY <1>4, <1>9, LostRun DEF RunDies, history
  <1>10. CASE \E k \in ClockSteps : ClockSetForward(k) \/ ClockSetBack(k)
    BY <1>10, ClockStep
  <1>11. CASE \E d \in OffTimes : Reboot(d)
    BY <1>11, RebootStep
  <1>12. CASE UNCHANGED vars
    BY <1>4, <1>12, UnitsChange DEF vars, history, environment
  <1> QED BY <1>1, <1>2, <1>3, <1>5, <1>6, <1>7, <1>8, <1>9, <1>10, <1>11, <1>12
      DEF Next, Environment

\* The invariant holds in every reachable state.
LEMMA HealthInvariance ==
  Spec => []HealthInv
  BY HealthInit, HealthStep, PTL DEF Spec

-----------------------------------------------------------------------------
(* The backoff.  Induction is by the least counterexample. *)

\* A set of natural numbers has a least element.
LEMMA LeastNatural ==
  ASSUME NEW T \in SUBSET Nat, T # {}
  PROVE  \E m \in T : \A k \in T : ~(k < m)
  <1>1. PICK m \in T : \A k \in T : <<k, m>> \notin OpToRel(<, Nat)
    BY NatLessThanWellFounded, WFMin
  <1>2. \A k \in T : ~(k < m)
    BY <1>1 DEF OpToRel
  <1> QED BY <1>2

\* d is the schedule of the first n delays.
Doubles(d, n) ==
  d = [i \in 1 .. n |->
         IF i = 1 THEN BaseBackoff
         ELSE IF 2 * d[i - 1] >= MaxBackoff THEN MaxBackoff ELSE 2 * d[i - 1]]

\* Every prefix of the schedule exists: a least length without one would have a
\* predecessor, whose schedule can be continued.
LEMMA DoublingExists ==
  \A n \in Nat : \E d : Doubles(d, n)
  <1> DEFINE T == {n \in Nat : ~\E d : Doubles(d, n)}
  <1>1. SUFFICES ASSUME T # {} PROVE FALSE
    OBVIOUS
  <1>2. PICK m \in T : \A k \in T : ~(k < m)
    BY <1>1, LeastNatural
  <1>3. m # 0
    <2>1. Doubles([i \in 1 .. 0 |-> 0], 0)
      BY DEF Doubles
    <2> QED BY <2>1
  <1>4. m - 1 \in Nat /\ m - 1 \notin T /\ m \in Nat
    BY <1>2, <1>3
  <1>5. PICK d : Doubles(d, m - 1)
    BY <1>4
  <1> DEFINE Step(f, i) ==
               IF i = 1 THEN BaseBackoff
               ELSE IF 2 * f[i - 1] >= MaxBackoff THEN MaxBackoff ELSE 2 * f[i - 1]
             e == [i \in 1 .. m |-> IF i = m THEN Step(d, m) ELSE d[i]]
  <1>6. Doubles(e, m)
    <2>1. \A i \in 1 .. m : e[i] = IF i = m THEN Step(d, m) ELSE d[i]
      OBVIOUS
    <2>2. \A i \in 1 .. m - 1 : d[i] = Step(d, i)
      BY <1>5 DEF Doubles
    <2>3. e = [i \in 1 .. m |-> e[i]]
      OBVIOUS
    <2> HIDE DEF e
    <2>4. ASSUME NEW i \in 1 .. m
          PROVE  e[i] = Step(e, i)
      <3>1. CASE i = 1
        BY <1>4, <2>1, <2>2, <3>1
      <3>2. CASE i # 1
        <4>1. i - 1 \in 1 .. m - 1 /\ i - 1 \in 1 .. m /\ i - 1 # m
          BY <1>4, <3>2
        <4>2. e[i - 1] = d[i - 1]
          BY <2>1, <4>1
        <4>3. CASE i = m
          BY <2>1, <3>2, <4>2, <4>3
        <4>4. CASE i # m
          <5>1. i \in 1 .. m - 1
            BY <1>4, <4>4
          <5> QED BY <2>1, <2>2, <3>2, <4>2, <4>4, <5>1
        <4> QED BY <4>3, <4>4
      <3> QED BY <3>1, <3>2
    <2> QED BY <2>3, <2>4 DEF Doubles
  <1> QED BY <1>6

\* The delay before the next repair never exceeds its cap.
LEMMA BackoffIsCapped ==
  ASSUME NEW n \in Nat \ {0}
  PROVE  backoff(n) \in 0 .. MaxBackoff
  <1> DEFINE d == CHOOSE f : Doubles(f, n)
  <1>1. Doubles(d, n)
    BY DoublingExists
  <1>2. backoff(n) = IF d[n] > MaxBackoff THEN MaxBackoff ELSE d[n]
    BY Zenon DEF backoff, Doubles
  <1> HIDE DEF d
  <1>3. \A i \in 1 .. n :
          d[i] = IF i = 1 THEN BaseBackoff
                 ELSE IF 2 * d[i - 1] >= MaxBackoff THEN MaxBackoff ELSE 2 * d[i - 1]
    BY <1>1 DEF Doubles
  <1> DEFINE T == {i \in 1 .. n : d[i] \notin Nat}
  <1>4. T = {}
    <2>1. SUFFICES ASSUME T # {} PROVE FALSE
      OBVIOUS
    <2>2. T \in SUBSET Nat
      OBVIOUS
    <2>3. PICK m \in T : \A k \in T : ~(k < m)
      BY <2>1, <2>2, LeastNatural
    <2>4. m # 1
      BY <1>3, <2>3, HealthAssumption
    <2>5. m - 1 \in 1 .. n /\ m - 1 < m
      BY <2>3, <2>4
    <2>6. d[m - 1] \in Nat
      BY <2>3, <2>5
    <2> QED BY <1>3, <2>3, <2>4, <2>6, HealthAssumption
  <1>5. d[n] \in Nat
    BY <1>4
  <1> QED BY <1>2, <1>5, HealthAssumption

-----------------------------------------------------------------------------
(* The spacing of repairs, while no snapshot is lost and the clock is not set *)
(* forward. *)

\* n repairs, the last one t ago, against a count of a and a wait of w.
Spacing(n, t, a, w) == n = a /\ (n > 0 => t + w >= backoff(n))

Spaced(s) ==
  \A u \in Repairable : Spacing(repairs[u], since[u], s.attempts[u], s.wait[u])

Waits(s) == s.wait \in [Units -> Nat]

\* The snapshot the next repair will be decided on says when it is due: that of
\* the run, and between two runs the file.
Undisturbed == lost = 0 /\ damaged = 0 /\ forward = 0

SpaceInv ==
  /\ Waits(file.snap) /\ Waits(run.snap)
  /\ since \in [Repairable -> 0 .. MaxBackoff]
  /\ Undisturbed =>
       /\ run.next # Idle => Spaced(run.snap)
       /\ run.next = Idle /\ file.readable => Spaced(file.snap)
       /\ run.next = Idle /\ ~file.readable => \A u \in Repairable : repairs[u] = 0

\* Time passes for the wait and for the time since the repair alike.
LEMMA SpacingAges ==
  ASSUME NEW n \in Nat, NEW t \in 0 .. MaxBackoff, NEW a,
         NEW w \in Nat, Spacing(n, t, a, w)
  PROVE  Spacing(n, Later(t, 1, MaxBackoff), a, IF w > 1 THEN w - 1 ELSE 0)
  <1>1. n > 0 => backoff(n) \in 0 .. MaxBackoff
    BY BackoffIsCapped
  <1>2. /\ Later(t, 1, MaxBackoff) \in Nat
        /\ \/ Later(t, 1, MaxBackoff) = MaxBackoff
           \/ Later(t, 1, MaxBackoff) = t + 1
    BY HealthAssumption DEF Later
  <1> HIDE DEF Later
  <1> QED BY <1>1, <1>2, HealthAssumption DEF Spacing

\* What the operations on a snapshot do to its waits.
LEMMA WaitsKept ==
  ASSUME NEW s, NEW u \in Units, IsSnapshot(s)
  PROVE  /\ Noted(s, u).wait = s.wait /\ Exhausted(s, u).wait = s.wait
         /\ Retrying(s).wait = s.wait
         /\ Attempted(s, u).wait = [s.wait EXCEPT ![u] = backoff(s.attempts[u] + 1)]
  BY DEF Noted, Exhausted, Retrying, Attempted, IsSnapshot

\* A later reading of the clock shortens every wait alike.
LEMMA WaitsShortened ==
  ASSUME NEW s, IsSnapshot(s), NEW k
  PROVE  Aged(s, k).wait =
           [v \in Units |-> IF s.wait[v] > k THEN s.wait[v] - k ELSE 0]
  BY DEF Aged, IsSnapshot

\* A function keeps its range when one value is replaced by another of it.
LEMMA Updated ==
  ASSUME NEW D, NEW R, NEW f \in [D -> R], NEW d, NEW r \in R
  PROVE  [f EXCEPT ![d] = r] \in [D -> R]
  OBVIOUS

\* The first snapshot makes nobody wait.
LEMMA NewWaits == Waits(NewSnapshot)
  BY HealthAssumption DEF Waits, NewSnapshot

\* A run that ends leaves no wait behind.
LEMMA EndedWaits ==
  ASSUME EndRun
  PROVE  Waits(run.snap)' /\ run'.next = Idle
  BY NewWaits DEF EndRun, Waits

\* A later reading of the clock leaves waits waits.
LEMMA AgedWaits ==
  ASSUME NEW s, IsSnapshot(s), Waits(s), NEW k \in Nat
  PROVE  Waits(Aged(s, k))
  <1>1. s.wait \in [Units -> Nat]
    BY DEF Waits
  <1>2. Aged(s, k).wait = [v \in Units |-> IF s.wait[v] > k THEN s.wait[v] - k ELSE 0]
    BY WaitsShortened
  <1>3. [v \in Units |-> IF s.wait[v] > k THEN s.wait[v] - k ELSE 0] \in [Units -> Nat]
    BY <1>1
  <1> QED BY <1>2, <1>3 DEF Waits

\* The clock is set back: a wait of a circuit that is open is not shortened.
LEMMA SetBackWaits ==
  ASSUME NEW s, IsSnapshot(s), Waits(s), NEW k \in Nat, NEW t, SetBackFrom(s, k, t)
  PROVE  /\ Waits(t)
         /\ \A u \in Units : s.attempts[u] # 0 => t.wait[u] >= s.wait[u]
  <1>1. PICK a \in AgesBack(s, k), rest \in [Units -> 0 .. k] :
          t = SetBackBy(s, k, a, rest)
    BY DEF SetBackFrom
  <1>2. t.wait = WaitsBack(s, k, rest)
    BY <1>1 DEF IsSnapshot, SetBackBy
  <1>3. /\ s.wait \in [Units -> Nat]
        /\ \A u \in Units : rest[u] \in Nat
    BY DEF Waits
  <1>4. \A u \in Units : t.wait[u] = IF s.attempts[u] = 0 THEN 0
                            ELSE IF s.wait[u] = 0 THEN rest[u] ELSE s.wait[u] + k
    BY <1>2 DEF WaitsBack
  <1>5. WaitsBack(s, k, rest) \in [Units -> Nat]
    BY <1>3 DEF WaitsBack
  <1> QED BY <1>2, <1>3, <1>4, <1>5 DEF Waits

\* Time passes.
LEMMA TickSpaces ==
  ASSUME HealthInv, SpaceInv, Tick
  PROVE  SpaceInv'
  <1> USE Sizes, HealthAssumption
  <1>1. /\ IsSnapshot(file.snap) /\ IsSnapshot(run.snap)
        /\ DOMAIN file = {"readable", "snap"} /\ DOMAIN run = {"next", "left", "snap"}
        /\ repairs \in [Repairable -> Nat]
    BY DEF HealthInv, HealthTypeOK
  <1>2. /\ Waits(file.snap) /\ Waits(run.snap)
        /\ since \in [Repairable -> 0 .. MaxBackoff]
    BY DEF SpaceInv
  <1>3. /\ since' = [u \in Repairable |-> Later(since[u], 1, MaxBackoff)]
        /\ UNCHANGED <<repairs, lost, damaged, forward>>
    BY DEF Tick, Passed, environment
  <1>4. since' \in [Repairable -> 0 .. MaxBackoff]
    BY <1>2, <1>3 DEF Later
  <1>5. ASSUME NEW s, IsSnapshot(s), Waits(s)
        PROVE  /\ Waits(Aged(s, 1)) /\ Aged(s, 1).attempts = s.attempts
               /\ Spaced(s) => \A u \in Repairable :
                    Spacing(repairs'[u], since'[u], Aged(s, 1).attempts[u],
                            Aged(s, 1).wait[u])
    <2> DEFINE a == Aged(s, 1)
    <2>1. /\ a.attempts = s.attempts
          /\ a.wait = [v \in Units |-> IF s.wait[v] > 1 THEN s.wait[v] - 1 ELSE 0]
      <3>1. a.attempts = s.attempts
        <4>1. 1 \in Nat
          OBVIOUS
        <4> QED BY <1>5, <4>1, AgedSnapshot
      <3>2. a.wait = [v \in Units |-> IF s.wait[v] > 1 THEN s.wait[v] - 1 ELSE 0]
        BY <1>5, WaitsShortened
      <3> QED BY <3>1, <3>2
    <2> HIDE DEF a
    <2>2. Waits(a)
      BY <1>5, <2>1 DEF Waits
    <2>3. ASSUME Spaced(s), NEW u \in Repairable
          PROVE  Spacing(repairs'[u], since'[u], a.attempts[u], a.wait[u])
      <3>1. /\ repairs'[u] = repairs[u] /\ repairs[u] \in Nat
            /\ since'[u] = Later(since[u], 1, MaxBackoff)
            /\ since[u] \in 0 .. MaxBackoff
            /\ a.attempts[u] = s.attempts[u] /\ s.wait[u] \in Nat
            /\ a.wait[u] = IF s.wait[u] > 1 THEN s.wait[u] - 1 ELSE 0
        BY <1>1, <1>2, <1>3, <1>5, <2>1 DEF Waits
      <3>2. Spacing(repairs[u], since[u], s.attempts[u], s.wait[u])
        BY <2>3 DEF Spaced
      <3> QED BY <3>1, <3>2, SpacingAges
    <2> QED BY <2>1, <2>2, <2>3 DEF a
  <1>6. file'.snap = Aged(file.snap, 1) /\ file'.readable = file.readable
    BY <1>1 DEF Tick
  <1>7. /\ run'.next = run.next
        /\ run'.snap = IF run.next = Idle THEN run.snap ELSE Aged(run.snap, 1)
    BY <1>1 DEF Tick
  <1>8. Waits(file.snap)' /\ Waits(run.snap)'
    BY <1>1, <1>2, <1>5, <1>6, <1>7 DEF Waits
  <1>9. ASSUME Undisturbed
        PROVE  /\ run.next # Idle => Spaced(run.snap)'
               /\ run.next = Idle /\ file.readable => Spaced(file.snap)'
               /\ run.next = Idle /\ ~file.readable =>
                    \A u \in Repairable : repairs'[u] = 0
    BY <1>1, <1>2, <1>3, <1>5, <1>6, <1>7, <1>9 DEF SpaceInv, Spaced
  <1> QED BY <1>3, <1>4, <1>6, <1>7, <1>8, <1>9 DEF SpaceInv, Undisturbed

\* The clock is set back: no wait ends early.
LEMMA SetBackSpaces ==
  ASSUME HealthInv, SpaceInv, NEW k \in ClockSteps, ClockSetBack(k)
  PROVE  SpaceInv'
  <1> USE Sizes, HealthAssumption
  <1>1. /\ IsSnapshot(file.snap) /\ IsSnapshot(run.snap)
        /\ DOMAIN file = {"readable", "snap"} /\ DOMAIN run = {"next", "left", "snap"}
        /\ repairs \in [Repairable -> Nat] /\ Waits(file.snap) /\ Waits(run.snap)
        /\ since \in [Repairable -> 0 .. MaxBackoff] /\ k \in Nat
    BY DEF HealthInv, HealthTypeOK, SpaceInv
  <1>2. UNCHANGED <<since, repairs, lost, damaged, forward>>
    BY DEF ClockSetBack, history
  <1>3. ASSUME NEW s, IsSnapshot(s), Waits(s), NEW t, SetBackFrom(s, k, t)
        PROVE  Waits(t) /\ (Spaced(s) => Spaced(t))
    <2>1. /\ Waits(t) /\ t.attempts = s.attempts
          /\ \A u \in Units : s.attempts[u] # 0 => t.wait[u] >= s.wait[u]
      BY <1>1, <1>3, SetBackWaits, SetBackSnapshot
    <2>2. ASSUME Spaced(s), NEW u \in Repairable
          PROVE  Spacing(repairs[u], since[u], t.attempts[u], t.wait[u])
      <3>1. Spacing(repairs[u], since[u], s.attempts[u], s.wait[u])
        BY <2>2 DEF Spaced
      <3>2. /\ s.wait[u] \in Nat /\ t.wait[u] \in Nat /\ since[u] \in Nat
            /\ repairs[u] \in Nat /\ t.attempts[u] = s.attempts[u]
            /\ s.attempts[u] # 0 => t.wait[u] >= s.wait[u]
        <4>1. s.wait \in [Units -> Nat] /\ t.wait \in [Units -> Nat]
          BY <1>3, <2>1 DEF Waits
        <4>2. since[u] \in 0 .. MaxBackoff /\ repairs[u] \in Nat
          BY <1>1
        <4> QED BY <2>1, <4>1, <4>2
      <3>3. repairs[u] > 0 => backoff(repairs[u]) \in Nat
        BY <3>2, BackoffIsCapped
      <3> QED BY <3>1, <3>2, <3>3 DEF Spacing
    <2> QED BY <2>1, <2>2 DEF Spaced
  <1>4. /\ file'.readable = file.readable /\ Waits(file'.snap)
        /\ Spaced(file.snap) => Spaced(file'.snap)
    <2>1. PICK t : SetBackFrom(file.snap, k, t) /\ file' = [file EXCEPT !.snap = t]
      BY DEF ClockSetBack, SetBackFrom
    <2> QED BY <1>1, <1>3, <2>1
  <1>5. /\ run'.next = run.next /\ Waits(run'.snap)
        /\ Spaced(run.snap) => Spaced(run'.snap)
    <2>1. CASE run' = run
      BY <1>1, <2>1
    <2>2. CASE run' # run
      <3>1. PICK t : SetBackFrom(run.snap, k, t) /\ run' = [run EXCEPT !.snap = t]
        BY <2>2 DEF ClockSetBack, SetBackFrom
      <3> QED BY <1>1, <1>3, <3>1
    <2> QED BY <2>1, <2>2
  <1>6. /\ Spaced(file'.snap) => Spaced(file.snap)'
        /\ Spaced(run'.snap) => Spaced(run.snap)'
    BY <1>2 DEF Spaced
  <1> QED BY <1>1, <1>2, <1>4, <1>5, <1>6 DEF SpaceInv, Undisturbed, Waits

\* After a lost snapshot or a clock set forward the spacing is given up.
LEMMA DisturbedSpaces ==
  ASSUME ~Undisturbed', Waits(file.snap)', Waits(run.snap)',
         since' \in [Repairable -> 0 .. MaxBackoff]
  PROVE  SpaceInv'
  BY DEF SpaceInv

\* The clock is set forward.
LEMMA SetForwardSpaces ==
  ASSUME HealthInv, SpaceInv, NEW k \in ClockSteps, ClockSetForward(k)
  PROVE  SpaceInv'
  <1> USE Sizes, HealthAssumption
  <1>1. /\ IsSnapshot(file.snap) /\ IsSnapshot(run.snap)
        /\ DOMAIN file = {"readable", "snap"} /\ DOMAIN run = {"next", "left", "snap"}
        /\ Waits(file.snap) /\ Waits(run.snap) /\ k \in Nat /\ forward \in Nat
        /\ since \in [Repairable -> 0 .. MaxBackoff]
    BY DEF HealthInv, HealthTypeOK, SpaceInv
  <1>2. /\ file' = [file EXCEPT !.snap = Aged(file.snap, k)]
        /\ run' = IF run.next = Idle THEN run
                  ELSE [run EXCEPT !.snap = Aged(run.snap, k)]
        /\ since' = since /\ forward' = forward + 1
    BY DEF ClockSetForward, history
  <1>3. ~Undisturbed'
    BY <1>1, <1>2 DEF Undisturbed
  <1>4. file'.snap = Aged(file.snap, k) /\ run'.snap \in {run.snap, Aged(run.snap, k)}
    BY <1>1, <1>2
  <1>5. Waits(file.snap)' /\ Waits(run.snap)'
    BY <1>1, <1>4, AgedWaits DEF Waits
  <1> QED BY <1>1, <1>2, <1>3, <1>5, DisturbedSpaces

\* The machine was off.
LEMMA RebootSpaces ==
  ASSUME HealthInv, SpaceInv, NEW d \in OffTimes, Reboot(d)
  PROVE  SpaceInv'
  <1> USE Sizes, HealthAssumption
  <1>1. /\ IsSnapshot(file.snap) /\ DOMAIN file = {"readable", "snap"}
        /\ Waits(file.snap) /\ d \in Nat /\ lost \in Nat
        /\ since \in [Repairable -> 0 .. MaxBackoff]
    BY DEF HealthInv, HealthTypeOK, SpaceInv
  <1>2. /\ \/ file' = [file EXCEPT !.snap = Aged(file.snap, d)]
           \/ file' = [file EXCEPT !.snap.setBack = TRUE]
        /\ since' = [u \in Repairable |-> Later(since[u], d, MaxBackoff)]
        /\ lost' = lost + 1 /\ EndRun
    BY DEF Reboot, Passed
  <1>3. ~Undisturbed'
    BY <1>1, <1>2 DEF Undisturbed
  <1>4. since' \in [Repairable -> 0 .. MaxBackoff]
    BY <1>1, <1>2 DEF Later
  <1>5. Waits(file'.snap)
    <2>1. CASE file' = [file EXCEPT !.snap = Aged(file.snap, d)]
      BY <1>1, <2>1, AgedWaits
    <2>2. CASE file' = [file EXCEPT !.snap.setBack = TRUE]
      <3>1. file'.snap.wait = file.snap.wait
        BY <1>1, <2>2 DEF IsSnapshot
      <3> QED BY <1>1, <3>1 DEF Waits
    <2> QED BY <1>2, <2>1, <2>2
  <1> QED BY <1>2, <1>3, <1>4, <1>5, EndedWaits, DisturbedSpaces DEF Waits

\* A run begins with the counts and waits of the last snapshot.
LEMMA RunBeginSpaces ==
  ASSUME HealthInv, SpaceInv, RunBegin
  PROVE  SpaceInv'
  <1> USE Sizes, HealthAssumption
  <1> DEFINE l == IF file.readable THEN file.snap ELSE NewSnapshot
             s == [l EXCEPT !.state = "HEALTHY", !.age = 0, !.setBack = FALSE,
                            !.failed = {}]
  <1>1. /\ run.next = Idle /\ run' = [next |-> 1, left |-> RunTime, snap |-> s]
        /\ UNCHANGED <<file, since, repairs, lost, damaged, forward>>
    BY DEF RunBegin, history, environment
  <1>2. s.attempts = l.attempts /\ s.wait = l.wait
    BY NewIsSnapshot DEF HealthInv, HealthTypeOK, IsSnapshot
  <1>3. run'.next = 1 /\ run'.snap = s
    BY <1>1
  <1>4. Waits(l)
    BY NewWaits DEF SpaceInv
  <1>5. l = IF file.readable THEN file.snap ELSE NewSnapshot
    OBVIOUS
  <1> HIDE DEF l, s
  <1>6. ASSUME Undisturbed
        PROVE  Spaced(s)
    <2>1. CASE file.readable
      BY <1>1, <1>2, <1>5, <1>6, <2>1 DEF SpaceInv, Spaced
    <2>2. CASE ~file.readable
      <3>1. \A u \in Repairable : repairs[u] = 0 /\ s.attempts[u] = 0
        BY <1>1, <1>2, <1>5, <1>6, <2>2, NewIsSnapshot DEF SpaceInv
      <3> QED BY <3>1 DEF Spaced, Spacing
    <2> QED BY <2>1, <2>2
  <1>7. Waits(s)
    BY <1>2, <1>4 DEF Waits
  <1> QED BY <1>1, <1>3, <1>6, <1>7 DEF SpaceInv, Undisturbed, Waits, Spaced, Idle

\* A check: the circuit of the unit is closed, left alone, or moved on by one.
LEMMA CheckSpaces ==
  ASSUME HealthInv, SpaceInv, NEW u \in Units,
         \/ CheckOK(u) \/ CheckNotRepairable(u) \/ CheckExhausted(u)
         \/ CheckBackingOff(u) \/ CheckRepair(u)
  PROVE  SpaceInv'
  <1> USE Sizes, HealthAssumption
  <1>1. /\ HealthTypeOK /\ IsSnapshot(run.snap) /\ DOMAIN run = {"next", "left", "snap"}
        /\ repairs \in [Repairable -> Nat] /\ Waits(run.snap) /\ Waits(file.snap)
        /\ since \in [Repairable -> 0 .. MaxBackoff]
        /\ run.snap.attempts \in [Units -> 0 .. MaxRepairAttempts]
    BY DEF HealthInv, HealthTypeOK, SpaceInv, IsSnapshot
  <1>2. /\ run.next = u /\ run.next # Idle /\ run'.next = u + 1 /\ run'.next # Idle
        /\ UNCHANGED <<file, lost, damaged, forward>>
    <2>1. Checked(u)
      BY <1>1, OKCheck, FailedCheck, RepairCheck
    <2> QED BY <2>1 DEF Checked, Idle
  <1>3. Undisturbed => Spaced(run.snap)
    BY <1>2 DEF SpaceInv
  <1>4. SUFFICES /\ Waits(run.snap)' /\ since' \in [Repairable -> 0 .. MaxBackoff]
                 /\ Spaced(run.snap) => Spaced(run.snap)'
    BY <1>1, <1>2, <1>3 DEF SpaceInv, Undisturbed, Waits
  <1>5. CASE CheckOK(u)
    <2> DEFINE s == [run.snap EXCEPT !.attempts[u] = 0, !.wait[u] = 0]
    <2>1. /\ s.attempts = [run.snap.attempts EXCEPT ![u] = 0]
          /\ s.wait = [run.snap.wait EXCEPT ![u] = 0]
      BY <1>1 DEF IsSnapshot
    <2>2. /\ run'.snap = s /\ repairs' = [repairs EXCEPT ![u] = 0]
          /\ since' = [since EXCEPT ![u] = MaxBackoff]
      BY <1>1, <1>5 DEF CheckOK, Continue
    <2> HIDE DEF s
    <2>3. Waits(s)
      <3>1. 0 \in Nat
        OBVIOUS
      <3>2. [run.snap.wait EXCEPT ![u] = 0] \in [Units -> Nat]
        BY <1>1, <3>1, Updated DEF Waits
      <3> QED BY <2>1, <3>2 DEF Waits
    <2>5. since' \in [Repairable -> 0 .. MaxBackoff]
      <3>1. MaxBackoff \in 0 .. MaxBackoff
        OBVIOUS
      <3> QED BY <1>1, <2>2, <3>1, Updated
    <2>4. ASSUME NEW v \in Repairable, Spaced(run.snap)
          PROVE  Spacing(repairs'[v], since'[v], s.attempts[v], s.wait[v])
      <3>1. CASE v = u
        BY <1>1, <2>1, <2>2, <3>1 DEF Spacing
      <3>2. CASE v # u
        <4>1. /\ repairs'[v] = repairs[v] /\ since'[v] = since[v]
              /\ s.attempts[v] = run.snap.attempts[v] /\ s.wait[v] = run.snap.wait[v]
          BY <1>1, <2>1, <2>2, <3>2 DEF Waits
        <4> QED BY <2>4, <4>1 DEF Spaced
      <3> QED BY <3>1, <3>2
    <2> QED BY <1>1, <2>2, <2>3, <2>4, <2>5 DEF Spaced, Waits
  <1>6. CASE CheckNotRepairable(u) \/ CheckExhausted(u) \/ CheckBackingOff(u)
    <2>1. run'.snap.attempts = run.snap.attempts /\ repairs' = repairs
      BY <1>1, <1>6, FailedCheck
    <2>2. since' = since
      BY <1>6 DEF CheckNotRepairable, CheckExhausted, CheckBackingOff, history
    <2>3. run'.snap.wait = run.snap.wait
      <3>1. IsSnapshot(Noted(run.snap, u)) /\ Noted(run.snap, u).wait = run.snap.wait
        BY <1>1, NotedSnapshot, WaitsKept
      <3>2. run'.snap \in {Noted(run.snap, u), Exhausted(Noted(run.snap, u), u),
                           Retrying(Noted(run.snap, u))}
        BY <1>1, <1>6 DEF CheckNotRepairable, CheckExhausted, CheckBackingOff, Continue
      <3> DEFINE m == Noted(run.snap, u)
      <3> HIDE DEF m
      <3>3. Exhausted(m, u).wait = m.wait /\ Retrying(m).wait = m.wait
        <4>1. IsSnapshot(m)
          BY <3>1 DEF m
        <4> QED BY <4>1, WaitsKept
      <3>4. run'.snap \in {m, Exhausted(m, u), Retrying(m)} /\ m.wait = run.snap.wait
        BY <3>1, <3>2 DEF m
      <3> QED BY <3>3, <3>4
    <2> QED BY <1>1, <2>1, <2>2, <2>3 DEF Waits, Spaced
  <1>7. CASE CheckRepair(u)
    <2> DEFINE n == run.snap.attempts[u] + 1
    <2>1. /\ u \in Repairable /\ repairs' = [repairs EXCEPT ![u] = @ + 1]
          /\ run'.snap.attempts = [run.snap.attempts EXCEPT ![u] = @ + 1]
      BY <1>1, <1>7, RepairCheck
    <2>2. since' = [since EXCEPT ![u] = 0]
      BY <1>7 DEF CheckRepair
    <2>3. run'.snap.wait = [run.snap.wait EXCEPT ![u] = backoff(n)]
      <3> DEFINE m == Noted(run.snap, u)
                 a == Attempted(m, u)
      <3>1. /\ IsSnapshot(m) /\ m.wait = run.snap.wait
            /\ m.attempts = run.snap.attempts
        BY <1>1, NotedSnapshot, WaitsKept
      <3>2. run.snap.attempts[u] < MaxRepairAttempts
        BY <1>7 DEF CheckRepair, RepairDue
      <3>3. run'.snap \in {Exhausted(a, u), Retrying(a)}
        BY <1>1, <1>7 DEF CheckRepair, Continue
      <3> HIDE DEF m
      <3>4. IsSnapshot(a) /\ a.wait = [run.snap.wait EXCEPT ![u] = backoff(n)]
        <4>1. m.attempts[u] < MaxRepairAttempts /\ m.attempts[u] + 1 = n
          BY <3>1, <3>2
        <4>2. IsSnapshot(a)
          BY <3>1, <4>1, AttemptedSnapshot
        <4>3. a.wait = [m.wait EXCEPT ![u] = backoff(m.attempts[u] + 1)]
          BY <3>1, WaitsKept
        <4> QED BY <3>1, <4>1, <4>2, <4>3
      <3> HIDE DEF a
      <3>5. Exhausted(a, u).wait = a.wait /\ Retrying(a).wait = a.wait
        BY <3>4, WaitsKept
      <3> QED BY <3>3, <3>4, <3>5
    <2>4. n \in Nat \ {0} /\ backoff(n) \in 0 .. MaxBackoff
      BY <1>1, BackoffIsCapped
    <2> HIDE DEF n
    <2>5. Waits(run.snap)'
      <3>1. backoff(n) \in Nat
        BY <2>4
      <3> QED BY <1>1, <2>3, <3>1, Updated DEF Waits
    <2>6. since' \in [Repairable -> 0 .. MaxBackoff]
      <3>1. 0 \in 0 .. MaxBackoff
        OBVIOUS
      <3> QED BY <1>1, <2>2, <3>1, Updated
    <2>7. ASSUME NEW v \in Repairable, Spaced(run.snap)
          PROVE  Spacing(repairs'[v], since'[v], run'.snap.attempts[v], run'.snap.wait[v])
      <3>0. Spacing(repairs[v], since[v], run.snap.attempts[v], run.snap.wait[v])
        BY <2>7 DEF Spaced
      <3>1. CASE v = u
        <4>1. /\ repairs'[v] = repairs[v] + 1 /\ since'[v] = 0
              /\ run'.snap.attempts[v] = run.snap.attempts[v] + 1
              /\ run'.snap.wait[v] = backoff(n)
          BY <1>1, <2>1, <2>2, <2>3, <3>1 DEF Waits
        <4>2. repairs'[v] = n /\ run'.snap.attempts[v] = n
          BY <3>0, <3>1, <4>1 DEF Spacing, n
        <4> QED BY <2>4, <4>1, <4>2 DEF Spacing
      <3>2. CASE v # u
        <4>1. /\ repairs'[v] = repairs[v] /\ since'[v] = since[v]
              /\ run'.snap.attempts[v] = run.snap.attempts[v]
              /\ run'.snap.wait[v] = run.snap.wait[v]
          BY <1>1, <2>1, <2>2, <2>3, <3>2 DEF Waits
        <4> QED BY <3>0, <4>1
      <3> QED BY <3>1, <3>2
    <2> QED BY <2>5, <2>6, <2>7 DEF Spaced
  <1> QED BY <1>5, <1>6, <1>7

\* A run that ends, with or without a snapshot.
LEMMA EndSpaces ==
  ASSUME HealthInv, SpaceInv, run.next # Idle, EndRun, UNCHANGED <<since, repairs, damaged, forward>>,
         \/ /\ file' = [readable |-> TRUE, snap |-> run.snap] /\ lost' = lost
         \/ /\ file' \in {file, [readable |-> TRUE, snap |-> run.snap]}
            /\ lost' = lost + 1
  PROVE  SpaceInv'
  <1>1. /\ Waits(run.snap)' /\ run'.next = Idle
    BY EndedWaits
  <1>2. file' = file \/ (file'.snap = run.snap /\ file'.readable = TRUE)
    OBVIOUS
  <1>3. Waits(file.snap)' /\ since' \in [Repairable -> 0 .. MaxBackoff]
    BY <1>2 DEF SpaceInv, Waits
  <1>4. CASE lost' = lost + 1
    <2>1. lost' # 0
      BY <1>4 DEF HealthInv, HealthTypeOK
    <2> QED BY <1>1, <1>3, <2>1 DEF SpaceInv, Undisturbed
  <1>5. CASE file' = [readable |-> TRUE, snap |-> run.snap] /\ lost' = lost
    <2>1. file'.snap = run.snap /\ file'.readable = TRUE
      BY <1>5
    <2>2. Undisturbed => Spaced(run.snap)
      BY DEF SpaceInv
    <2>3. Undisturbed' => Spaced(file.snap)'
      BY <1>5, <2>1, <2>2 DEF Spaced, Undisturbed
    <2> QED BY <1>1, <1>3, <2>1, <2>3 DEF SpaceInv
  <1> QED BY <1>4, <1>5

\* SpaceInv is inductive, given HealthInv.
LEMMA SpaceStep ==
  HealthInv /\ SpaceInv /\ [Next]_vars => SpaceInv'
  <1> SUFFICES ASSUME HealthInv, SpaceInv, [Next]_vars
               PROVE  SpaceInv'
    OBVIOUS
  <1>1. CASE Tick
    BY <1>1, TickSpaces
  <1>2. CASE RunBegin
    BY <1>2, RunBeginSpaces
  <1>3. CASE Check
    BY <1>3, CheckSpaces DEF Check
  <1>4. CASE Save \/ SaveFails \/ RunDies
    <2>1. run.next = Saving => run.next # Idle
      BY Sizes DEF Saving, Idle
    <2> QED BY <1>4, <2>1, EndSpaces DEF Save, SaveFails, RunDies, history, environment
  <1>5. CASE SnapshotDamaged
    <2>1. /\ file' = [file EXCEPT !.readable = FALSE] /\ damaged' = damaged + 1
          /\ UNCHANGED <<run, since>>
      BY <1>5 DEF SnapshotDamaged, history
    <2>2. damaged' # 0 /\ file'.snap = file.snap
      BY <2>1 DEF HealthInv, HealthTypeOK
    <2> QED BY <2>1, <2>2 DEF SpaceInv, Undisturbed, Waits
  <1>6. CASE (\E u \in Units : UnitFails(u) \/ UnitStarts(u)) \/ UNCHANGED vars
    <2>1. UNCHANGED <<file, run, since, repairs, lost, damaged, forward>>
      BY <1>6 DEF UnitFails, UnitStarts, vars, history, environment
    <2> QED BY <2>1 DEF SpaceInv, Undisturbed, Waits, Spaced
  <1>7. CASE \E k \in ClockSteps : ClockSetForward(k) \/ ClockSetBack(k)
    BY <1>7, SetForwardSpaces, SetBackSpaces
  <1>8. CASE \E d \in OffTimes : Reboot(d)
    BY <1>8, RebootSpaces
  <1> QED BY <1>1, <1>2, <1>3, <1>4, <1>5, <1>6, <1>7, <1>8 DEF Next, Environment

\* Nothing has been repaired at the start.
LEMMA SpaceInit == Init => SpaceInv
  <1> SUFFICES ASSUME Init PROVE SpaceInv
    OBVIOUS
  <1>1. /\ file.snap = NewSnapshot /\ ~file.readable /\ run.snap = NewSnapshot
        /\ run.next = Idle /\ since = [u \in Repairable |-> MaxBackoff]
        /\ repairs = [u \in Repairable |-> 0]
    BY DEF Init
  <1>2. since \in [Repairable -> 0 .. MaxBackoff]
    BY <1>1, HealthAssumption
  <1> QED BY <1>1, <1>2, NewWaits DEF SpaceInv

-----------------------------------------------------------------------------
(* Theorems *)

\* For any number of units and all limits: systemHealthSafe never lets recovery
\* through on evidence older than SystemHealthMaxAge, whatever the runs, their
\* losses, reboots, a clock set forward and the decay of the snapshot do, unless
\* the wall clock was set back, or stood still with the machine off, after the
\* snapshot was stamped.
THEOREM RecoveryNeedsFreshEvidence == Spec => []GateNeedsFreshEvidence
  <1>1. HealthInv => GateNeedsFreshEvidence
    BY Sizes DEF HealthInv, HealthTypeOK, IsSnapshot, FileEvidence,
                 GateNeedsFreshEvidence, systemHealthSafe
  <1> QED BY <1>1, HealthInvariance, PTL

\* For any number of units and all limits: between two sightings a unit is
\* repaired at most MaxRepairAttempts times for every snapshot that was read,
\* and once more for every run that ended without one.
THEOREM CircuitBreakerHolds == Spec => []RepairsBounded
  <1>1. HealthInv => RepairsBounded
    <2> SUFFICES ASSUME HealthInv, NEW u \in Repairable
                 PROVE  repairs[u] <= MaxRepairAttempts * (damaged + 1) + lost
      BY DEF RepairsBounded
    <2> USE Sizes DEF HealthInv
    <2>1. MaxRepairAttempts * (damaged + 1) + lost = MaxRepairAttempts + Excused
      BY DEF Excused, HealthTypeOK
    <2>2. Excused \in Nat
      BY Excuses
    <2>3. /\ run.snap.attempts[u] \in 0 .. MaxRepairAttempts
          /\ Recorded(u) \in 0 .. MaxRepairAttempts /\ repairs[u] \in Nat
      BY DEF HealthTypeOK, IsSnapshot, Recorded
    <2>4. CASE run.next = Idle
      <3>1. repairs[u] <= Recorded(u) + Excused
        BY <2>2, <2>3, <2>4 DEF FileCounts, Idle
      <3> QED BY <2>1, <2>2, <2>3, <3>1
    <2>5. CASE run.next # Idle
      <3>1. repairs[u] <= run.snap.attempts[u] + Excused
        BY <2>5 DEF RunCounts
      <3> QED BY <2>1, <2>2, <2>3, <3>1
    <2> QED BY <2>4, <2>5
  <1> QED BY <1>1, HealthInvariance, PTL

\* For any number of units, base and cap: while no snapshot is lost and the clock
\* is not set forward, two repairs of a unit that was not seen up in between are
\* at least the backoff of the first one apart, however often the clock is set
\* back and however the runs and their checks are spread over time.
THEOREM RepairsAreSpaced == Spec => RepairsSpaced
  <1> DEFINE A == \A u \in Repairable :
                    /\ Repaired(u) /\ repairs[u] > 0
                    /\ lost = 0 /\ damaged = 0 /\ forward = 0
                    => since[u] >= backoff(repairs[u])
  <1>1. HealthInv /\ SpaceInv /\ [Next]_vars => [A]_vars
    <2> SUFFICES ASSUME HealthInv, SpaceInv, Next, NEW u \in Repairable,
                        Repaired(u), repairs[u] > 0, Undisturbed
                 PROVE  since[u] >= backoff(repairs[u])
      BY DEF Undisturbed
    <2>1. repairs \in [Repairable -> Nat] /\ HealthTypeOK
      BY DEF HealthInv, HealthTypeOK
    <2>2. repairs'[u] # repairs[u] /\ repairs'[u] # 0
      BY <2>1 DEF Repaired
    <2>3. PICK v \in Units : CheckOK(v) \/ CheckRepair(v)
      BY <2>2 DEF Next, Tick, RunBegin, Check, CheckNotRepairable, CheckExhausted,
                  CheckBackingOff, Save, Environment, UnitFails, UnitStarts,
                  SnapshotDamaged, SaveFails, RunDies, ClockSetForward,
                  ClockSetBack, Reboot, history
    <2>4. CheckRepair(u)
      <3>1. CASE CheckOK(v)
        <4>1. repairs' = [repairs EXCEPT ![v] = 0]
          BY <3>1 DEF CheckOK
        <4> QED BY <2>1, <2>2, <4>1
      <3>2. CASE CheckRepair(v)
        <4>1. repairs' = [repairs EXCEPT ![v] = @ + 1]
          BY <3>2 DEF CheckRepair
        <4>2. u = v
          BY <2>1, <2>2, <4>1
        <4> QED BY <3>2, <4>2
      <3> QED BY <2>3, <3>1, <3>2
    <2>5. run.snap.wait[u] = 0 /\ run.next # Idle
      BY <2>3, <2>4, Sizes DEF CheckRepair, RepairDue, CheckFailed, Idle
    <2>6. Spacing(repairs[u], since[u], run.snap.attempts[u], run.snap.wait[u])
      BY <2>5 DEF SpaceInv, Spaced
    <2>7. since[u] \in Nat
      BY HealthAssumption DEF SpaceInv
    <2> QED BY <2>5, <2>6, <2>7 DEF Spacing
  <1> HIDE DEF A
  <1>2. Spec => []SpaceInv
    BY SpaceInit, SpaceStep, HealthInvariance, PTL DEF Spec
  <1>3. Spec => [][A]_vars
    BY <1>1, <1>2, HealthInvariance, PTL DEF Spec
  <1> QED BY <1>3 DEF A, RepairsSpaced
=============================================================================
