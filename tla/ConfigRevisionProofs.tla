------------------------ MODULE ConfigRevisionProofs ------------------------
(***************************************************************************)
(* TLAPS proofs about ConfigRevision, for every set of configurations,     *)
(* number of revisions, retention, and number of failures and outages.     *)
(*                                                                         *)
(* The argument.  What the disk promises (RollbackTargetsIntact,           *)
(* KnownGoodWasProved) is kept by a write only because of what the         *)
(* operation made sure of before it, several steps earlier.  OpInv says    *)
(* for each place of an operation what that is, DiskInv what every write   *)
(* keeps.  Both speak of any disk and any operation, so that the three     *)
(* outcomes of a writeAtomic (done, failed, failed after taking effect)    *)
(* are three instances of them.  Damage may break only what DiskInv says   *)
(* of an undamaged disk.                                                   *)
(***************************************************************************)
EXTENDS ConfigRevision, WellFoundedInduction, TLAPS

Statuses == {"candidate", "validating", "failed", "rolled-back", "known-good"}
OnTrial == {"candidate", "validating", "failed"}
Texts == Contents \cup {Garbage, Gone}
Manifests == {NoManifest, Unreadable} \cup [st : Statuses, sha : Texts]

DiskType ==
  [file : Texts, ptr : [Pointers -> Bad .. MaxRev],
   man : [Revs -> Manifests], body : [Revs -> Texts]]

Beginning == {"begin.body", "begin.manifest"}
Trying ==
  {"activate.file", "activate.active", "activate.validating", "activate.apply",
   "activate.await", "activate.healthy", "activate.probation", "activate.fail",
   "rollback.manifest", "rollback.file", "rollback.active", "rollback.apply",
   "rollback.await", "rollback.healthy", "rollback.done"}
\* The candidate is in the active file, and then in the restarted agent.
Filed ==
  {"activate.active", "activate.validating", "activate.apply",
   "activate.await", "activate.healthy", "activate.probation"}
Restarted == {"activate.await", "activate.healthy", "activate.probation"}
Promoting == {"promote.prev", "promote.lkg", "promote.active"}
RollingBack ==
  {"rollback.file", "rollback.active", "rollback.apply", "rollback.await",
   "rollback.healthy", "rollback.done"}
RolledBack ==
  {"rollback.apply", "rollback.await", "rollback.healthy", "rollback.done"}
Manual ==
  {"manual.file", "manual.active", "manual.apply", "manual.await",
   "manual.healthy", "manual.prev", "manual.lkg",
   "restore.file", "restore.active", "restore.lkg", "restore.apply",
   "restore.await", "restore.healthy"}
Repairing == {"start.lkg", "start.file", "start.active", "start.fix"}
Accepting == {"start.prev", "start.promote"}
Reconciled ==
  {"free", "start.recover", "start.lkg", "start.prev", "start.promote",
   "start.verify", "start.fail", "start.done"}

Places ==
  Beginning \cup Trying \cup Promoting \cup Manual \cup Repairing
  \cup Reconciled \cup {"bootstrap.active", "promote.manifest", "prune"}

OpType ==
  [kind : {"none", "begin", "bootstrap", "activate", "rollback", "startup"},
   pc : Places, rev : 0 .. MaxRev, sha : Texts, to : 0 .. MaxRev,
   oldA : 0 .. MaxRev, oldL : 0 .. MaxRev, late : BOOLEAN, repair : BOOLEAN,
   victims : SUBSET Revs]

\* A revision that was promoted, whatever damage did to its manifest since.
Trusted(d, r) == r \in Revs /\ d.man[r].st \in {"known-good", Garbage}

\* A revision whose manifest can be read and whose content is the one it names.
Whole(d, r) ==
  r \in Revs /\ d.man[r].st \in Statuses /\ d.man[r].sha = d.body[r]

\* A revision the pointers last-known-good and previous may name.
Target(d, r) == Trusted(d, r) /\ (~damaged => Whole(d, r))

\* A revision the active pointer may name.
Runnable(d, r) ==
  /\ r \in Revs => d.man[r].st \notin {"rolled-back", Gone}
  /\ ~damaged => Whole(d, r)

\* What pointer p may hold.
Pointable(d, p, r) ==
  r # None => IF p = "active" THEN Runnable(d, r)
              ELSE Target(d, r) \/ (damaged /\ r = Bad)

\* The active file is that of a known-good active revision.
Settled(d) ==
  d.ptr["active"] # None =>
    /\ d.ptr["active"] \in Revs
    /\ d.man[d.ptr["active"]].st = "known-good"
    /\ d.man[d.ptr["active"]].sha = d.file

DiskInv(d) ==
  /\ d \in DiskType
  /\ \A r \in Revs : r > created => d.man[r] = NoManifest /\ d.body[r] = Gone
  /\ \A r \in Revs : d.man[r].st = "known-good" => d.man[r].sha \in proved
  /\ \A p \in Pointers : Pointable(d, p, d.ptr[p])
  /\ ~damaged => \A r \in Revs :
       d.man[r].st \in Statuses \ {"known-good"} => d.man[r].sha = d.body[r]

OpInv(d, o, a) ==
  /\ o \in OpType
  /\ o.pc \in Beginning =>
       /\ o.rev \in Revs /\ o.rev <= created /\ d.man[o.rev] = NoManifest
       /\ o.kind = "bootstrap" => o.sha \in proved
       /\ o.pc = "begin.manifest" => d.body[o.rev] = o.sha
  /\ o.pc \in Trying =>
       /\ o.rev \in Revs /\ o.rev <= created
       /\ d.man[o.rev].st \in OnTrial
       /\ ~damaged => d.body[o.rev] = o.sha
  /\ o.pc \in Filed => d.file = o.sha
  /\ o.pc \in Restarted /\ a.st = "up" => a.content = o.sha
  /\ o.pc = "promote.manifest" =>
       /\ o.rev \in Revs /\ o.rev <= created /\ o.sha \in proved
       /\ ~damaged => d.body[o.rev] = o.sha
  /\ o.pc \in Promoting =>
       d.man[o.rev].st = "known-good" /\ Target(d, o.rev)
  /\ o.pc = "prune" => \A r \in o.victims :
       /\ \A p \in Pointers : d.ptr[p] # r
       /\ d.man[r].st \in {"known-good", Gone}
  /\ o.pc \in RollingBack \cup {"bootstrap.active"} => Target(d, o.to)
  /\ o.pc \in RolledBack => d.ptr["active"] = o.to
  /\ o.pc \in Manual =>
       /\ d.man[o.rev].st = "known-good" /\ Target(d, o.rev)
       /\ o.oldL # None => Target(d, o.oldL)
       /\ o.oldA # None => Runnable(d, o.oldA)
       /\ o.pc = "restore.file" => o.oldA # None
  /\ o.pc \in Repairing => Target(d, o.to)
  /\ o.pc = "start.lkg" => d.ptr["active"] # Bad
  /\ o.pc = "start.fix" => d.ptr["active"] = o.to
  /\ o.pc \in Accepting =>
       d.ptr["active"] \in Revs /\ d.man[d.ptr["active"]].st = "known-good"
  /\ o.pc = "start.verify" /\ d.ptr["active"] \in Revs =>
       Trusted(d, d.ptr["active"])
  /\ o.pc = "start.done" => Settled(d)

\* Since a start-up that reconciled, only start-ups and Begin touched the disk.
LastInv(d, o) ==
  last = "startup" =>
    /\ Settled(d)
    /\ o.pc \in Reconciled \/ (o.pc \in Beginning /\ o.kind = "begin")

AgentInv ==
  /\ agent \in [st : {"down", "starting", "load", "up", "failed"},
                content : Texts]
  /\ txn \in [rev : Texts, busy : BOOLEAN, under : Texts]
  /\ agent.st = "up" => txn.rev = agent.content
  /\ txn.busy => txn.under = txn.rev

CInv ==
  /\ created \in 0 .. MaxRev
  /\ DiskInv(disk) /\ OpInv(disk, op, agent) /\ LastInv(disk, op)
  /\ AgentInv

-----------------------------------------------------------------------------
(* Steps of the lock's holder in general. *)

\* What is true of a disk and an operation stays true when nothing else moves.
LEMMA Frame ==
  ASSUME NEW d, NEW o, NEW a, DiskInv(d), OpInv(d, o, a), LastInv(d, o),
         UNCHANGED <<created, damaged, proved, last>>,
         disk' = d, op' = o, agent' = a
  PROVE  DiskInv(disk)' /\ OpInv(disk, op, agent)' /\ LastInv(disk, op)'
  <1>1. DiskInv(disk)'
    BY DEF DiskInv, Pointable, Target, Runnable, Trusted, Whole
  <1>2. OpInv(disk, op, agent)'
    BY DEF OpInv, Target, Runnable, Trusted, Whole, Settled
  <1>3. LastInv(disk, op)'
    BY DEF LastInv, Settled
  <1> QED BY <1>1, <1>2, <1>3

\* A writeAtomic keeps the invariant when each of its three outcomes does.
LEMMA WriteInv ==
  ASSUME CInv, NEW l, NEW d, NEW ok, NEW err, Write(l, d, ok, err),
         DiskInv(d), OpInv(d, ok, agent), LastInv(d, ok),
         OpInv(d, err, agent), LastInv(d, err),
         OpInv(disk, err, agent), LastInv(disk, err)
  PROVE  CInv'
  <1>1. UNCHANGED <<created, agent, txn, damaged, proved, last>>
    BY DEF Write
  <1>2. \/ disk' = d /\ op' = ok
        \/ disk' = d /\ op' = err
        \/ disk' = disk /\ op' = err
    BY DEF Write
  <1>3. DiskInv(disk)' /\ OpInv(disk, op, agent)' /\ LastInv(disk, op)'
    <2>1. CASE disk' = d /\ op' = ok
      BY <1>1, <2>1, Frame
    <2>2. CASE disk' = d /\ op' = err
      BY <1>1, <2>2, Frame
    <2>3. CASE disk' = disk /\ op' = err
      BY <1>1, <2>3, Frame DEF CInv
    <2> QED BY <1>2, <2>1, <2>2, <2>3
  <1>4. AgentInv' /\ (created \in 0 .. MaxRev)'
    BY <1>1 DEF CInv, AgentInv
  <1> QED BY <1>3, <1>4 DEF CInv

-----------------------------------------------------------------------------
(* The four writes. *)

\* d holds the revisions of disk.
SameRevisions(d) == d.man = disk.man /\ d.body = disk.body

\* Writing the active file.
LEMMA FileWrite ==
  ASSUME DiskInv(disk), NEW c \in Texts
  PROVE  /\ DiskInv(SetFile(c)) /\ SameRevisions(SetFile(c))
         /\ SetFile(c).ptr = disk.ptr /\ SetFile(c).file = c
  <1> DEFINE d == SetFile(c)
  <1>1. disk \in DiskType
    BY DEF DiskInv
  <1>2. /\ d \in DiskType /\ d.file = c /\ d.ptr = disk.ptr
        /\ d.man = disk.man /\ d.body = disk.body
    BY <1>1 DEF DiskType, SetFile
  <1> HIDE DEF d
  <1>3. DiskInv(d)
    BY <1>2 DEF DiskInv, Pointable, Target, Runnable, Trusted, Whole
  <1> QED BY <1>2, <1>3 DEF SameRevisions, d

\* Writing a pointer.
LEMMA PointWrite ==
  ASSUME DiskInv(disk), NEW p \in Pointers, NEW r \in Bad .. MaxRev,
         Pointable(disk, p, r)
  PROVE  LET d == Point(p, r) IN
         /\ DiskInv(d) /\ SameRevisions(d) /\ d.file = disk.file
         /\ d.ptr[p] = r /\ \A q \in Pointers \ {p} : d.ptr[q] = disk.ptr[q]
  <1> DEFINE d == Point(p, r)
  <1>1. disk \in DiskType
    BY DEF DiskInv
  <1>2. /\ d \in DiskType /\ d.file = disk.file
        /\ d.ptr = [disk.ptr EXCEPT ![p] = r]
        /\ d.man = disk.man /\ d.body = disk.body
    BY <1>1 DEF DiskType, Point
  <1>3. d.ptr[p] = r /\ \A q \in Pointers \ {p} : d.ptr[q] = disk.ptr[q]
    BY <1>1, <1>2 DEF DiskType
  <1> HIDE DEF d
  <1>4. ASSUME NEW q \in Pointers
        PROVE  Pointable(d, q, d.ptr[q])
    <2>1. Pointable(disk, q, d.ptr[q])
      BY <1>3 DEF DiskInv
    <2> QED
      BY <1>2, <2>1 DEF Pointable, Target, Runnable, Trusted, Whole
  <1>5. DiskInv(d)
    BY <1>2, <1>4 DEF DiskInv
  <1> QED BY <1>2, <1>3, <1>5 DEF SameRevisions, d

\* Writing the manifest of the operation's revision.
LEMMA MarkWrite ==
  ASSUME DiskInv(disk), op \in OpType, NEW s \in Statuses,
         op.rev \in Revs, op.rev <= created, created \in 0 .. MaxRev,
         s = "known-good" => op.sha \in proved,
         s # "known-good" => ~Trusted(disk, op.rev),
         s = "rolled-back" => disk.ptr["active"] # op.rev,
         ~damaged => disk.body[op.rev] = op.sha
  PROVE  LET d == Mark(op.rev, s) IN
         /\ DiskInv(d) /\ d.file = disk.file /\ d.ptr = disk.ptr
         /\ d.body = disk.body
         /\ d.man[op.rev] = [st |-> s, sha |-> op.sha]
         /\ \A r \in Revs \ {op.rev} : d.man[r] = disk.man[r]
  <1> DEFINE d == Mark(op.rev, s)
             m == [st |-> s, sha |-> op.sha]
  <1>1. disk \in DiskType /\ op.sha \in Texts
    BY DEF DiskInv, OpType
  <1>2. m \in Manifests /\ m.st = s /\ m.sha = op.sha
    BY <1>1 DEF Manifests
  <1> HIDE DEF m
  <1>3. /\ d \in DiskType /\ d.file = disk.file /\ d.ptr = disk.ptr
        /\ d.man = [disk.man EXCEPT ![op.rev] = m]
        /\ d.body = disk.body
    BY <1>1, <1>2 DEF DiskType, Mark, m
  <1>4. /\ d.man[op.rev] = m
        /\ \A r \in Revs \ {op.rev} : d.man[r] = disk.man[r]
    BY <1>1, <1>3 DEF DiskType
  <1> HIDE DEF d
  <1>5. ASSUME NEW p \in Pointers
        PROVE  Pointable(d, p, d.ptr[p])
    <2>1. Pointable(disk, p, d.ptr[p])
      BY <1>3 DEF DiskInv
    <2>2. CASE d.ptr[p] # op.rev
      BY <1>3, <1>4, <2>1, <2>2
      DEF Pointable, Target, Runnable, Trusted, Whole
    <2>3. CASE d.ptr[p] = op.rev
      <3>1. ~damaged => Whole(d, op.rev)
        BY <1>2, <1>3, <1>4 DEF Whole
      <3>2. CASE p = "active"
        <4>1. s \notin {"rolled-back", Gone}
          BY <1>3, <2>3, <3>2 DEF Statuses, Gone
        <4> QED BY <1>2, <1>4, <2>3, <3>1, <3>2, <4>1 DEF Pointable, Runnable
      <3>3. CASE p # "active"
        <4>1. Trusted(disk, op.rev)
          BY <2>1, <2>3, <3>3
          DEF Pointable, Target, Revs, None, Bad
        <4>2. s = "known-good"
          BY <4>1
        <4> QED
          BY <1>2, <1>4, <2>3, <3>1, <3>3, <4>2 DEF Pointable, Target, Trusted
      <3> QED BY <3>2, <3>3
    <2> QED BY <2>2, <2>3
  <1>6. \A r \in Revs : r > created => d.man[r] = NoManifest /\ d.body[r] = Gone
    BY <1>3, <1>4 DEF DiskInv, Revs
  <1>7. \A r \in Revs : d.man[r].st = "known-good" => d.man[r].sha \in proved
    BY <1>2, <1>4 DEF DiskInv
  <1>8. ~damaged => \A r \in Revs :
          d.man[r].st \in Statuses \ {"known-good"} => d.man[r].sha = d.body[r]
    BY <1>2, <1>3, <1>4 DEF DiskInv
  <1>9. DiskInv(d)
    BY <1>3, <1>5, <1>6, <1>7, <1>8 DEF DiskInv
  <1> QED BY <1>3, <1>4, <1>9 DEF d, m

\* A revision without a manifest is named by no pointer.
LEMMA UnmarkedIsUnnamed ==
  ASSUME DiskInv(disk), NEW r \in Revs, disk.man[r] = NoManifest
  PROVE  ~Trusted(disk, r) /\ \A p \in Pointers : disk.ptr[p] # r
  <1>1. disk.man[r].st = Gone
    BY DEF NoManifest
  <1>2. ~Trusted(disk, r) /\ ~Runnable(disk, r)
    BY <1>1 DEF Trusted, Runnable, Gone, Garbage
  <1> QED BY <1>2 DEF DiskInv, Pointable, Target, Revs, None, Bad

\* Writing the content of a revision that has no manifest yet.
LEMMA BodyWrite ==
  ASSUME DiskInv(disk), NEW r \in Revs, r <= created, created \in 0 .. MaxRev,
         disk.man[r] = NoManifest, NEW c \in Texts
  PROVE  LET d == SetBody(r, c) IN
         /\ DiskInv(d) /\ d.file = disk.file /\ d.ptr = disk.ptr
         /\ d.man = disk.man /\ d.body[r] = c
  <1> DEFINE d == SetBody(r, c)
  <1>1. disk \in DiskType
    BY DEF DiskInv
  <1>2. /\ d \in DiskType /\ d.file = disk.file /\ d.ptr = disk.ptr
        /\ d.man = disk.man /\ d.body = [disk.body EXCEPT ![r] = c]
    BY <1>1 DEF DiskType, SetBody
  <1>3. d.body[r] = c /\ \A q \in Revs \ {r} : d.body[q] = disk.body[q]
    BY <1>1, <1>2 DEF DiskType
  <1> HIDE DEF d
  <1>4. disk.man[r].st = Gone /\ Gone \notin Statuses
    BY DEF NoManifest, Statuses, Gone
  <1>5. ASSUME NEW p \in Pointers
        PROVE  Pointable(d, p, d.ptr[p])
    <2>1. Pointable(disk, p, d.ptr[p]) /\ d.ptr[p] # r
      BY <1>2, UnmarkedIsUnnamed DEF DiskInv
    <2> QED
      BY <1>2, <1>3, <2>1 DEF Pointable, Target, Runnable, Trusted, Whole
  <1>6. \A q \in Revs : q > created => d.man[q] = NoManifest /\ d.body[q] = Gone
    BY <1>2, <1>3 DEF DiskInv, Revs
  <1>7. ~damaged => \A q \in Revs :
          d.man[q].st \in Statuses \ {"known-good"} => d.man[q].sha = d.body[q]
    BY <1>2, <1>3, <1>4 DEF DiskInv
  <1>8. DiskInv(d)
    BY <1>2, <1>5, <1>6, <1>7 DEF DiskInv
  <1> QED BY <1>2, <1>3, <1>8 DEF d

-----------------------------------------------------------------------------
(* What an operation must have made sure of, by the place it is at. *)

\* The groups of places are places.
LEMMA PlaceGroups ==
  /\ Beginning \subseteq Places /\ Trying \subseteq Places
  /\ Promoting \subseteq Places /\ Manual \subseteq Places
  /\ Repairing \subseteq Places /\ Accepting \subseteq Places
  /\ Reconciled \subseteq Places
  /\ {"bootstrap.active", "promote.manifest", "prune"} \subseteq Places
  BY DEF Places, Accepting, Reconciled

\* Going on to another place changes nothing else.
LEMMA GoFacts ==
  ASSUME op \in OpType, NEW l \in Places
  PROVE  LET o == Go(l) IN
         /\ o \in OpType /\ o.pc = l /\ o.kind = op.kind /\ o.rev = op.rev
         /\ o.sha = op.sha /\ o.to = op.to /\ o.oldA = op.oldA
         /\ o.oldL = op.oldL /\ o.victims = op.victims
  BY DEF Go, OpType

\* The lock is free: nothing is owed to anybody.
LEMMA AtIdle ==
  ASSUME NEW d, NEW a
  PROVE  /\ OpInv(d, Idle, a)
         /\ (last = "startup" => Settled(d)) => LastInv(d, Idle)
  <1>1. Idle \in OpType /\ Idle.pc = "free"
    BY ConfigAssumption DEF Idle, OpType, Places, Reconciled, Texts, None
  <1>2. OpInv(d, Idle, a)
    BY <1>1 DEF OpInv, Beginning, Trying, Filed, Restarted, Promoting,
       RollingBack, RolledBack, Manual, Repairing, Accepting
  <1>3. (last = "startup" => Settled(d)) => LastInv(d, Idle)
    BY <1>1 DEF LastInv, Reconciled
  <1> QED BY <1>2, <1>3

\* A candidate on trial, and its rollback.
LEMMA AtTrying ==
  ASSUME NEW d, NEW a, NEW o \in OpType, o.pc \in Trying,
         o.rev \in Revs, o.rev <= created,
         d.man[o.rev].st \in OnTrial,
         ~damaged => d.body[o.rev] = o.sha,
         o.pc \in Filed => d.file = o.sha,
         o.pc \in Restarted /\ a.st = "up" => a.content = o.sha,
         o.pc \in RollingBack => Target(d, o.to),
         o.pc \in RolledBack => d.ptr["active"] = o.to
  PROVE  OpInv(d, o, a)
  <1>1. /\ o.pc \notin Beginning /\ o.pc \notin Promoting /\ o.pc \notin Manual
        /\ o.pc \notin Repairing /\ o.pc \notin Accepting
        /\ o.pc \notin {"promote.manifest", "prune", "bootstrap.active",
                        "start.lkg", "start.fix", "start.verify",
                        "start.done"}
    BY DEF Beginning, Trying, Promoting, Manual, Repairing, Accepting
  <1> QED BY <1>1 DEF OpInv

\* A revision being promoted.
LEMMA AtPromoting ==
  ASSUME NEW d, NEW a, NEW o \in OpType, o.pc \in Promoting,
         d.man[o.rev].st = "known-good", Target(d, o.rev)
  PROVE  OpInv(d, o, a)
  <1>1. /\ o.pc \notin Beginning /\ o.pc \notin Trying /\ o.pc \notin Manual
        /\ o.pc \notin Repairing /\ o.pc \notin Accepting
        /\ o.pc \notin Filed /\ o.pc \notin Restarted
        /\ o.pc \notin RollingBack /\ o.pc \notin RolledBack
        /\ o.pc \notin {"promote.manifest", "prune", "bootstrap.active",
                        "start.lkg", "start.fix", "start.verify",
                        "start.done"}
    BY DEF Beginning, Trying, Promoting, Manual, Repairing, Accepting, Filed,
           Restarted, RollingBack, RolledBack
  <1> QED BY <1>1 DEF OpInv

\* The operator's rollback and the undoing of it.
LEMMA AtManual ==
  ASSUME NEW d, NEW a, NEW o \in OpType, o.pc \in Manual,
         d.man[o.rev].st = "known-good", Target(d, o.rev),
         o.oldL # None => Target(d, o.oldL),
         o.oldA # None => Runnable(d, o.oldA),
         o.pc = "restore.file" => o.oldA # None
  PROVE  OpInv(d, o, a)
  <1>1. /\ o.pc \notin Beginning /\ o.pc \notin Trying /\ o.pc \notin Promoting
        /\ o.pc \notin Repairing /\ o.pc \notin Accepting
        /\ o.pc \notin Filed /\ o.pc \notin Restarted
        /\ o.pc \notin RollingBack /\ o.pc \notin RolledBack
        /\ o.pc \notin {"promote.manifest", "prune", "bootstrap.active",
                        "start.lkg", "start.fix", "start.verify",
                        "start.done"}
    BY DEF Beginning, Trying, Promoting, Manual, Repairing, Accepting, Filed,
           Restarted, RollingBack, RolledBack
  <1> QED BY <1>1 DEF OpInv

Starting == Repairing \cup Accepting \cup Reconciled

\* Reconciliation at start-up.
LEMMA AtStarting ==
  ASSUME NEW d, NEW a, NEW o \in OpType, o.pc \in Starting,
         o.pc \in Repairing => Target(d, o.to),
         o.pc = "start.lkg" => d.ptr["active"] # Bad,
         o.pc = "start.fix" => d.ptr["active"] = o.to,
         o.pc \in Accepting =>
           d.ptr["active"] \in Revs /\ d.man[d.ptr["active"]].st = "known-good",
         o.pc = "start.verify" /\ d.ptr["active"] \in Revs =>
           Trusted(d, d.ptr["active"]),
         o.pc = "start.done" => Settled(d)
  PROVE  OpInv(d, o, a)
  <1>1. /\ o.pc \notin Beginning /\ o.pc \notin Trying /\ o.pc \notin Promoting
        /\ o.pc \notin Manual /\ o.pc \notin Filed /\ o.pc \notin Restarted
        /\ o.pc \notin RollingBack /\ o.pc \notin RolledBack
        /\ o.pc \notin {"promote.manifest", "prune", "bootstrap.active"}
    BY DEF Beginning, Trying, Promoting, Manual, Repairing, Accepting, Filed,
           Restarted, RollingBack, RolledBack, Reconciled, Starting
  <1> QED BY <1>1 DEF OpInv

\* The other places.
LEMMA AtOthers ==
  ASSUME NEW d, NEW a, NEW o \in OpType,
         o.pc \in Beginning
           \cup {"bootstrap.active", "promote.manifest", "prune"},
         o.pc \in Beginning =>
           /\ o.rev \in Revs /\ o.rev <= created /\ d.man[o.rev] = NoManifest
           /\ o.kind = "bootstrap" => o.sha \in proved
           /\ o.pc = "begin.manifest" => d.body[o.rev] = o.sha,
         o.pc = "promote.manifest" =>
           /\ o.rev \in Revs /\ o.rev <= created /\ o.sha \in proved
           /\ ~damaged => d.body[o.rev] = o.sha,
         o.pc = "prune" => \A r \in o.victims :
           /\ \A p \in Pointers : d.ptr[p] # r
           /\ d.man[r].st \in {"known-good", Gone},
         o.pc = "bootstrap.active" => Target(d, o.to)
  PROVE  OpInv(d, o, a)
  <1>1. /\ o.pc \notin Trying /\ o.pc \notin Promoting /\ o.pc \notin Manual
        /\ o.pc \notin Repairing /\ o.pc \notin Accepting
        /\ o.pc \notin Filed /\ o.pc \notin Restarted
        /\ o.pc \notin RollingBack /\ o.pc \notin RolledBack
        /\ o.pc \notin {"start.lkg", "start.fix", "start.verify", "start.done"}
    BY DEF Beginning, Trying, Promoting, Manual, Repairing, Accepting, Filed,
           Restarted, RollingBack, RolledBack
  <1> QED BY <1>1 DEF OpInv

\* While an operation that changes the configuration runs, the last decision
\* about the active file is not a start-up's.
LEMMA NoStartup ==
  ASSUME CInv, op.pc \in Trying \cup Promoting \cup Manual
                 \cup {"bootstrap.active", "promote.manifest", "prune"}
  PROVE  last # "startup" /\ \A d, o : LastInv(d, o)
  <1>1. op.pc \notin Reconciled \cup Beginning
    BY DEF Reconciled, Beginning, Trying, Promoting, Manual
  <1> QED BY <1>1 DEF CInv, LastInv

\* A step that writes no file keeps the invariant when the place it leads to
\* asks for nothing new; a restart of the agent is such a step.
LEMMA MoveInv ==
  ASSUME CInv, NEW o, op' = o, OpInv(disk, o, agent'), LastInv(disk, o),
         UNCHANGED <<disk, created, txn, damaged, proved, last>>,
         agent' \in {agent, Down}
  PROVE  CInv'
  <1>1. DiskInv(disk)' /\ OpInv(disk, op, agent)' /\ LastInv(disk, op)'
    BY Frame DEF CInv
  <1>2. AgentInv' /\ (created \in 0 .. MaxRev)'
    BY DEF CInv, AgentInv, Down, Texts
  <1> QED BY <1>1, <1>2 DEF CInv

\* Control flow only.
LEMMA ControlInv ==
  ASSUME CInv, NEW l, NEW ok, NEW err,
         Await(l, ok, err) \/ Healthy(l, ok, err),
         OpInv(disk, ok, agent), LastInv(disk, ok),
         OpInv(disk, err, agent), LastInv(disk, err)
  PROVE  CInv'
  <1>1. /\ UNCHANGED <<disk, created, agent, txn, damaged, proved, last>>
        /\ op' = ok \/ op' = err
    BY DEF Await, Healthy
  <1> QED BY <1>1, MoveInv

\* A restart of the agent, or its refusal by an expired context.
LEMMA ApplyInv ==
  ASSUME CInv, NEW l, NEW wait, NEW err, Apply(l, wait, err),
         OpInv(disk, wait, Down), LastInv(disk, wait),
         OpInv(disk, err, agent), LastInv(disk, err)
  PROVE  CInv'
  <1>1. /\ UNCHANGED <<disk, created, txn, damaged, proved, last>>
        /\ \/ op' = wait /\ agent' = Down
           \/ op' = err /\ agent' = agent
    BY DEF Apply
  <1> QED BY <1>1, MoveInv

\* An operation begins: it takes the lock, and no file changes yet.
LEMMA TakesInv ==
  ASSUME CInv, NEW o, op' = o, OpInv(disk, o, agent'), LastInv(disk, op)',
         UNCHANGED <<disk, created, damaged, proved>>, AgentInv'
  PROVE  CInv'
  <1>1. DiskInv(disk)'
    BY DEF CInv, DiskInv, Pointable, Target, Runnable, Trusted, Whole
  <1>2. OpInv(disk, op, agent)'
    BY DEF OpInv, Target, Runnable, Trusted, Whole, Settled
  <1>3. (created \in 0 .. MaxRev)'
    BY DEF CInv
  <1> QED BY <1>1, <1>2, <1>3 DEF CInv

\* The fields of an operation that has just begun.
LEMMA TakeFacts ==
  ASSUME NEW k \in {"none", "begin", "bootstrap", "activate", "rollback", "startup"},
         NEW l \in Places, NEW r \in 0 .. MaxRev, NEW c \in Texts
  PROVE  LET o == Take(k, l, r, c) IN
         /\ o \in OpType /\ o.kind = k /\ o.pc = l /\ o.rev = r /\ o.sha = c
         /\ o.oldA = None /\ o.oldL = None
  <1>1. Idle \in OpType
    BY AtIdle DEF OpInv
  <1>2. Idle.oldA = None /\ Idle.oldL = None
    BY DEF Idle
  <1> QED BY <1>1, <1>2 DEF Take, OpType

-----------------------------------------------------------------------------
(* A candidate on trial. *)

\* What is known of the candidate.
LEMMA TryingFacts ==
  ASSUME CInv, op.pc \in Trying
  PROVE  /\ op \in OpType /\ op.sha \in Texts
         /\ DiskInv(disk) /\ disk \in DiskType /\ created \in 0 .. MaxRev
         /\ op.rev \in Revs /\ op.rev <= created
         /\ disk.man[op.rev].st \in OnTrial
         /\ ~Trusted(disk, op.rev)
         /\ ~damaged => disk.body[op.rev] = op.sha
         /\ \A d, o : LastInv(d, o)
  <1>1. /\ op \in OpType /\ DiskInv(disk) /\ created \in 0 .. MaxRev
        /\ op.rev \in Revs /\ op.rev <= created
        /\ disk.man[op.rev].st \in OnTrial
        /\ ~damaged => disk.body[op.rev] = op.sha
    BY DEF CInv, OpInv
  <1>2. op.sha \in Texts /\ disk \in DiskType
    BY <1>1 DEF OpType, DiskInv
  <1>3. ~Trusted(disk, op.rev)
    BY <1>1 DEF Trusted, OnTrial, Garbage
  <1> QED BY <1>1, <1>2, <1>3, NoStartup

\* The trial goes on at place l, on a disk that still holds its revisions.
LEMMA TrialGoesOn ==
  ASSUME CInv, op.pc \in Trying, NEW d, SameRevisions(d), NEW a,
         NEW l \in Trying \ RollingBack,
         l \in Filed => d.file = op.sha,
         l \in Restarted /\ a.st = "up" => a.content = op.sha
  PROVE  OpInv(d, Go(l), a)
  <1> DEFINE o == Go(l)
  <1>1. /\ o \in OpType /\ o.pc = l /\ o.rev = op.rev /\ o.sha = op.sha
    BY TryingFacts, GoFacts, PlaceGroups
  <1>2. l \notin RollingBack /\ l \notin RolledBack
    BY DEF RollingBack, RolledBack
  <1>3. /\ op.rev \in Revs /\ op.rev <= created
        /\ d.man[op.rev].st \in OnTrial
        /\ ~damaged => d.body[op.rev] = op.sha
    BY TryingFacts DEF SameRevisions
  <1> HIDE DEF o
  <1>4. OpInv(d, o, a)
    BY <1>1, <1>2, <1>3, AtTrying
  <1> QED BY <1>4 DEF o

\* The trial is over.
LEMMA TrialIsOver ==
  ASSUME CInv, op.pc \in Trying
  PROVE  \A d, a : OpInv(d, Idle, a) /\ LastInv(d, Idle)
  BY AtIdle, TryingFacts

\* failLocked and the last write of a rollback mark the candidate.
LEMMA TrialEndsInv ==
  ASSUME CInv, failLocked \/ RollbackDone
  PROVE  CInv'
  <1>1. PICK s \in {"failed", "rolled-back"} :
          /\ s = "failed" => Write("activate.fail", Mark(op.rev, s), Idle, Idle)
          /\ s = "rolled-back" =>
               Write("rollback.done", Mark(op.rev, s), Idle, Idle)
    BY DEF failLocked, RollbackDone
  <1>2. op.pc \in Trying /\ (s = "rolled-back" => op.pc = "rollback.done")
    BY <1>1 DEF Write, Trying
  <1>3. s = "rolled-back" => disk.ptr["active"] # op.rev
    <2>1. ASSUME op.pc = "rollback.done"
          PROVE  disk.ptr["active"] = op.to /\ Trusted(disk, op.to)
      BY <2>1 DEF CInv, OpInv, RolledBack, RollingBack, Target
    <2> QED BY <1>2, <2>1, TryingFacts
  <1>4. DiskInv(Mark(op.rev, s))
    BY <1>2, <1>3, TryingFacts, MarkWrite DEF Statuses
  <1> QED BY <1>1, <1>2, <1>4, TrialIsOver, WriteInv

\* The candidate is written to the active file, and pointed at.
LEMMA ActivateFileInv ==
  ASSUME CInv, ActivateFile \/ ActivatePointer \/ ActivateValidating
  PROVE  CInv'
  <1>0. op.pc \in Trying
    BY DEF ActivateFile, ActivatePointer, ActivateValidating, Write, Trying
  <1>1. CASE ActivateFile
    <2> DEFINE d == SetFile(op.sha)
    <2>1. DiskInv(d) /\ SameRevisions(d) /\ d.file = op.sha
      BY <1>0, TryingFacts, FileWrite
    <2>2. SameRevisions(disk)
      BY DEF SameRevisions
    <2>3. /\ "activate.active" \in Trying \ RollingBack
          /\ "activate.fail" \in Trying \ RollingBack
          /\ "activate.active" \notin Restarted /\ "activate.fail" \notin Filed
          /\ "activate.fail" \notin Restarted
      BY DEF Trying, RollingBack, Filed, Restarted
    <2> HIDE DEF d
    <2>4. OpInv(d, Go("activate.active"), agent)
      BY <1>0, <2>1, <2>3, TrialGoesOn
    <2>5. /\ OpInv(d, Go("activate.fail"), agent)
          /\ OpInv(disk, Go("activate.fail"), agent)
      BY <1>0, <2>1, <2>2, <2>3, TrialGoesOn
    <2>6. Write("activate.file", d, Go("activate.active"), Go("activate.fail"))
      BY <1>1 DEF ActivateFile, d
    <2> QED BY <1>0, <2>1, <2>4, <2>5, <2>6, TryingFacts, WriteInv
  <1>2. CASE ActivatePointer
    <2> DEFINE d == Point("active", op.rev)
    <2>1. Pointable(disk, "active", op.rev)
      <3>1. /\ disk.man[op.rev].st \in OnTrial
            /\ ~damaged => disk.man[op.rev].sha = disk.body[op.rev]
        BY <1>0, TryingFacts DEF DiskInv, OnTrial, Statuses
      <3> QED
        BY <1>0, <3>1, TryingFacts
        DEF Pointable, Runnable, Whole, OnTrial, Statuses, Gone
    <2>2. "active" \in Pointers /\ op.rev \in Bad .. MaxRev
      BY <1>0, TryingFacts DEF Pointers, Revs, Bad
    <2>3. DiskInv(d) /\ SameRevisions(d) /\ d.file = disk.file
      BY <1>0, <2>1, <2>2, TryingFacts, PointWrite
    <2>4. SameRevisions(disk) /\ disk.file = op.sha
      BY <1>2 DEF SameRevisions, ActivatePointer, Write, CInv, OpInv, Filed
    <2>5. /\ "activate.validating" \in Trying \ RollingBack
          /\ "rollback.manifest" \in Trying \ RollingBack
          /\ "activate.validating" \notin Restarted
          /\ "rollback.manifest" \notin Filed
          /\ "rollback.manifest" \notin Restarted
      BY DEF Trying, RollingBack, Filed, Restarted
    <2> HIDE DEF d
    <2>6. OpInv(d, Go("activate.validating"), agent)
      BY <1>0, <2>3, <2>4, <2>5, TrialGoesOn
    <2>7. /\ OpInv(d, Go("rollback.manifest"), agent)
          /\ OpInv(disk, Go("rollback.manifest"), agent)
      BY <1>0, <2>3, <2>4, <2>5, TrialGoesOn
    <2>8. Write("activate.active", d, Go("activate.validating"),
                Go("rollback.manifest"))
      BY <1>2 DEF ActivatePointer, d
    <2> QED BY <1>0, <2>3, <2>6, <2>7, <2>8, TryingFacts, WriteInv
  <1>3. CASE ActivateValidating
    <2> DEFINE d == Mark(op.rev, "validating")
               o == Go("activate.apply")
    <2>1. DiskInv(d) /\ d.file = disk.file /\ d.body = disk.body
          /\ d.man[op.rev] = [st |-> "validating", sha |-> op.sha]
      BY <1>0, TryingFacts, MarkWrite DEF Statuses
    <2>2. disk.file = op.sha
      BY <1>3 DEF ActivateValidating, Write, CInv, OpInv, Filed
    <2>3. /\ o.pc \in Trying /\ o.pc \notin Restarted
          /\ o.pc \notin RollingBack /\ o.pc \notin RolledBack
          /\ o \in OpType /\ o.rev = op.rev /\ o.sha = op.sha
      BY <1>0, TryingFacts, GoFacts, PlaceGroups
      DEF Trying, RollingBack, RolledBack, Restarted
    <2>4. d.man[op.rev].st \in OnTrial
      BY <2>1 DEF OnTrial
    <2>5. Write("activate.validating", d, o, Idle)
      BY <1>3 DEF ActivateValidating
    <2> HIDE DEF d, o
    <2>6. OpInv(d, o, agent)
      BY <1>0, <2>1, <2>2, <2>3, <2>4, TryingFacts, AtTrying
    <2> QED BY <1>0, <2>1, <2>5, <2>6, TryingFacts, TrialIsOver, WriteInv
  <1> QED BY <1>1, <1>2, <1>3

\* The agent is restarted with the candidate, awaited and found healthy.
LEMMA ActivateRunInv ==
  ASSUME CInv, ActivateApply \/ ActivateAwait \/ ActivateHealthy
  PROVE  CInv'
  <1>1. /\ op.pc \in {"activate.apply", "activate.await", "activate.healthy"}
        /\ ActivateAwait \/ ActivateHealthy => op.pc \in Restarted
    BY DEF ActivateApply, ActivateAwait, ActivateHealthy, Apply, Await, Healthy,
           Restarted
  <1>2. op.pc \in Trying /\ disk.file = op.sha
    BY <1>1 DEF Trying, CInv, OpInv, Filed
  <1>3. SameRevisions(disk)
    BY DEF SameRevisions
  <1>4. OpInv(disk, Go("rollback.manifest"), agent)
    <2>1. /\ "rollback.manifest" \in Trying \ RollingBack
          /\ "rollback.manifest" \notin Filed
          /\ "rollback.manifest" \notin Restarted
      BY DEF Trying, RollingBack, Filed, Restarted
    <2> QED BY <1>2, <1>3, <2>1, TrialGoesOn
  <1>5. Restarted \subseteq Trying \ RollingBack
    BY DEF Trying, RollingBack, Restarted
  <1>6. CASE ActivateApply
    <2>1. "activate.await" \in Trying \ RollingBack /\ Down.st # "up"
      BY DEF Trying, RollingBack, Down
    <2>2. OpInv(disk, Go("activate.await"), Down)
      BY <1>2, <1>3, <2>1, TrialGoesOn
    <2>3. Apply("activate.apply", Go("activate.await"), Go("rollback.manifest"))
      BY <1>6 DEF ActivateApply
    <2> QED BY <1>2, <1>4, <2>2, <2>3, TryingFacts, ApplyInv
  <1>7. CASE ActivateAwait \/ ActivateHealthy
    <2>1. agent.st = "up" => agent.content = op.sha
      BY <1>1, <1>7 DEF CInv, OpInv
    <2>2. /\ OpInv(disk, Go("activate.healthy"), agent)
          /\ OpInv(disk, Go("activate.probation"), agent)
      <3>1. {"activate.healthy", "activate.probation"} \subseteq Restarted
        BY DEF Restarted
      <3> QED BY <1>2, <1>3, <1>5, <2>1, <3>1, TrialGoesOn
    <2> QED
      BY <1>2, <1>4, <1>7, <2>2, TryingFacts, ControlInv
      DEF ActivateAwait, ActivateHealthy
  <1> QED BY <1>6, <1>7

\* The end of the probation: the candidate that ran through it is promoted.
LEMMA ProbationInv ==
  ASSUME CInv, Probation
  PROVE  CInv'
  <1>1. /\ op.pc \in Trying /\ op.pc \in Restarted
        /\ UNCHANGED <<disk, created, agent, txn, damaged, last>>
    BY DEF Probation, Trying, Restarted
  <1>2. CASE op' = Go("rollback.manifest") /\ UNCHANGED proved
    <2>1. /\ "rollback.manifest" \in Trying \ RollingBack
          /\ "rollback.manifest" \notin Filed
          /\ "rollback.manifest" \notin Restarted
          /\ SameRevisions(disk)
      BY DEF Trying, RollingBack, Filed, Restarted, SameRevisions
    <2>2. OpInv(disk, Go("rollback.manifest"), agent)
      BY <1>1, <2>1, TrialGoesOn
    <2> QED BY <1>1, <1>2, <2>2, TryingFacts, MoveInv
  <1>3. CASE /\ op' = Go("promote.manifest") /\ agent.st = "up"
             /\ proved' = proved \cup {agent.content}
    <2> DEFINE o == Go("promote.manifest")
    <2>1. agent.content = op.sha
      BY <1>1, <1>3 DEF CInv, OpInv
    <2>2. /\ o \in OpType /\ o.pc = "promote.manifest"
          /\ o.rev = op.rev /\ o.sha = op.sha
      BY <1>1, TryingFacts, GoFacts, PlaceGroups
    <2>3. op' = o
      BY <1>3
    <2> HIDE DEF o
    <2>4. DiskInv(disk)'
      BY <1>1, <1>3, TryingFacts
      DEF DiskInv, Pointable, Target, Runnable, Trusted, Whole
    <2>5. OpInv(disk, op, agent)'
      <3>1. /\ op'.pc \notin Beginning /\ op'.pc \notin Trying
            /\ op'.pc \notin Promoting /\ op'.pc \notin Manual
            /\ op'.pc \notin Repairing /\ op'.pc \notin Accepting
            /\ op'.pc \notin Filed /\ op'.pc \notin Restarted
            /\ op'.pc \notin RollingBack /\ op'.pc \notin RolledBack
            /\ op'.pc \notin {"prune", "bootstrap.active", "start.lkg", "start.fix",
                              "start.verify", "start.done"}
        BY <2>2, <2>3 DEF Beginning, Trying, Promoting, Manual, Repairing,
           Accepting, Filed, Restarted, RollingBack, RolledBack
      <3>2. /\ op'.rev \in Revs /\ op'.rev <= created' /\ op'.sha \in proved'
            /\ ~damaged' => disk'.body[op'.rev] = op'.sha
        BY <1>1, <1>3, <2>1, <2>2, <2>3, TryingFacts
      <3> QED BY <2>2, <2>3, <3>1, <3>2 DEF OpInv
    <2>6. LastInv(disk, op)' /\ AgentInv' /\ (created \in 0 .. MaxRev)'
      BY <1>1, NoStartup DEF LastInv, CInv, AgentInv
    <2> QED BY <2>4, <2>5, <2>6 DEF CInv
  <1> QED BY <1>2, <1>3 DEF Probation

-----------------------------------------------------------------------------
(* rollbackLocked. *)

\* A promoted revision may be run.
LEMMA TargetIsRunnable ==
  ASSUME NEW d, NEW r, Target(d, r)
  PROVE  Runnable(d, r) /\ r \in Revs /\ r # None /\ r \in Bad .. MaxRev
  BY DEF Target, Trusted, Runnable, Garbage, Gone, Revs, None, Bad

\* A pointer to a promoted revision that can be followed leads to one.
LEMMA PointerFacts ==
  ASSUME DiskInv(disk), NEW p \in {"lkg", "prev"}
  PROVE  /\ PointerOrEmpty(p) \in 0 .. MaxRev
         /\ PointerOrEmpty(p) # None => Target(disk, PointerOrEmpty(p))
         /\ disk.ptr[p] \in Bad .. MaxRev
  <1>1. disk.ptr[p] \in Bad .. MaxRev /\ Pointable(disk, p, disk.ptr[p])
    BY DEF DiskInv, DiskType, Pointers
  <1>2. disk.ptr[p] # None =>
          Target(disk, disk.ptr[p]) \/ (damaged /\ disk.ptr[p] = Bad)
    BY <1>1 DEF Pointable
  <1> QED BY <1>1, <1>2, ConfigAssumption DEF PointerOrEmpty, Bad, None

\* Where the revisions are the same, so is what they may be used for.
LEMMA SameUse ==
  ASSUME NEW d, SameRevisions(d)
  PROVE  \A r : /\ Target(d, r) <=> Target(disk, r)
                /\ Runnable(d, r) <=> Runnable(disk, r)
                /\ Trusted(d, r) <=> Trusted(disk, r)
  BY DEF SameRevisions, Target, Runnable, Trusted, Whole

\* The rollback of a candidate goes on at place l.
LEMMA RollbackGoesOn ==
  ASSUME CInv, op.pc \in RollingBack, NEW d, SameRevisions(d), NEW a,
         NEW l \in RollingBack, l \in RolledBack => d.ptr["active"] = op.to
  PROVE  OpInv(d, Go(l), a)
  <1> DEFINE o == Go(l)
  <1>1. op.pc \in Trying /\ l \in Trying /\ l \notin Filed /\ l \notin Restarted
    BY DEF Trying, RollingBack, Filed, Restarted
  <1>2. /\ o \in OpType /\ o.pc = l /\ o.rev = op.rev /\ o.sha = op.sha
        /\ o.to = op.to
    BY <1>1, TryingFacts, GoFacts, PlaceGroups
  <1>3. /\ op.rev \in Revs /\ op.rev <= created
        /\ d.man[op.rev].st \in OnTrial
        /\ ~damaged => d.body[op.rev] = op.sha
    BY <1>1, TryingFacts DEF SameRevisions
  <1>4. Target(d, op.to)
    BY SameUse DEF CInv, OpInv
  <1> HIDE DEF o
  <1>5. OpInv(d, o, a)
    BY <1>1, <1>2, <1>3, <1>4, AtTrying
  <1> QED BY <1>5 DEF o

\* The candidate is marked failed, and the last-known-good is looked up.
LEMMA RollbackManifestInv ==
  ASSUME CInv, RollbackManifest
  PROVE  CInv'
  <1> DEFINE lkg == PointerOrEmpty("lkg")
             back == [Go("rollback.file") EXCEPT !.to = lkg]
             d == Mark(op.rev, "failed")
             next == IF lkg = None \/ disk.body[lkg] = Gone THEN Idle ELSE back
  <1>1. op.pc \in Trying /\ Write("rollback.manifest", d, next, next)
    BY DEF RollbackManifest, Write, Trying
  <1>2. /\ DiskInv(d) /\ d.body = disk.body
        /\ d.man[op.rev] = [st |-> "failed", sha |-> op.sha]
        /\ \A r \in Revs \ {op.rev} : d.man[r] = disk.man[r]
    BY <1>1, TryingFacts, MarkWrite DEF Statuses
  <1>3. lkg \in 0 .. MaxRev /\ (lkg # None => Target(disk, lkg))
    BY <1>1, TryingFacts, PointerFacts
  <1>4. d.man[op.rev].st \in OnTrial
    BY <1>2 DEF OnTrial
  <1>5. ASSUME lkg # None
        PROVE  OpInv(d, back, agent) /\ OpInv(disk, back, agent)
    <2>1. Target(d, lkg)
      <3>1. lkg # op.rev /\ lkg \in Revs
        BY <1>1, <1>3, <1>5, TryingFacts DEF Target, Trusted
      <3> QED BY <1>2, <1>3, <1>5, <3>1 DEF Target, Trusted, Whole
    <2>2. /\ Go("rollback.file") \in OpType /\ Go("rollback.file").rev = op.rev
          /\ Go("rollback.file").sha = op.sha
          /\ Go("rollback.file").pc = "rollback.file"
      <3>1. "rollback.file" \in Places
        BY PlaceGroups DEF Trying
      <3> QED BY <1>1, <3>1, TryingFacts, GoFacts
    <2>3. /\ back \in OpType /\ back.pc = "rollback.file" /\ back.to = lkg
          /\ back.rev = op.rev /\ back.sha = op.sha
      BY <1>3, <2>2 DEF OpType
    <2>4. /\ "rollback.file" \in Trying /\ "rollback.file" \notin RolledBack
          /\ "rollback.file" \notin Filed /\ "rollback.file" \notin Restarted
      BY DEF Trying, RolledBack, Filed, Restarted
    <2> HIDE DEF back, d, lkg
    <2>5. OpInv(d, back, agent)
      BY <1>1, <1>2, <1>4, <2>1, <2>3, <2>4, TryingFacts, AtTrying
    <2>6. OpInv(disk, back, agent)
      BY <1>1, <1>3, <1>5, <2>3, <2>4, TryingFacts, AtTrying
    <2> QED BY <2>5, <2>6
  <1>6. next = Idle \/ (next = back /\ lkg # None)
    OBVIOUS
  <1> HIDE DEF back, d, lkg, next
  <1>7. OpInv(d, next, agent) /\ OpInv(disk, next, agent)
    BY <1>1, <1>5, <1>6, TrialIsOver
  <1> QED BY <1>1, <1>2, <1>7, TryingFacts, WriteInv

\* The last-known-good is written back, pointed at and run.
LEMMA RollbackInv ==
  ASSUME CInv, \/ RollbackFile \/ RollbackActive \/ RollbackApply
               \/ RollbackAwait \/ RollbackHealthy
  PROVE  CInv'
  <1>1. op.pc \in RollingBack /\ op.pc \in Trying
    BY DEF RollbackFile, RollbackActive, RollbackApply, RollbackAwait,
           RollbackHealthy, Write, Apply, Await, Healthy, RollingBack, Trying
  <1>2. /\ Target(disk, op.to) /\ op.to \in Revs
        /\ op.to \in Bad .. MaxRev /\ Pointable(disk, "active", op.to)
    <2>1. Target(disk, op.to)
      BY <1>1 DEF CInv, OpInv
    <2> QED BY <2>1, TargetIsRunnable DEF Pointable
  <1>3. SameRevisions(disk)
    BY DEF SameRevisions
  <1>4. CASE RollbackFile
    <2> DEFINE d == SetFile(disk.body[op.to])
    <2>1. disk.body[op.to] \in Texts
      BY <1>1, <1>2, TryingFacts DEF DiskType
    <2>2. DiskInv(d) /\ SameRevisions(d)
      BY <1>1, <2>1, TryingFacts, FileWrite
    <2>3. Write("rollback.file", d, Go("rollback.active"), Idle)
      BY <1>4 DEF RollbackFile
    <2>4. "rollback.active" \in RollingBack /\ "rollback.active" \notin RolledBack
      BY DEF RollingBack, RolledBack
    <2> HIDE DEF d
    <2>5. OpInv(d, Go("rollback.active"), agent)
      BY <1>1, <2>2, <2>4, RollbackGoesOn
    <2> QED
      BY <1>1, <2>2, <2>3, <2>5, TryingFacts, TrialIsOver, WriteInv
  <1>5. CASE RollbackActive
    <2> DEFINE d == Point("active", op.to)
    <2>1. DiskInv(d) /\ SameRevisions(d) /\ d.ptr["active"] = op.to
      <3>1. "active" \in Pointers
        BY DEF Pointers
      <3> QED BY <1>1, <1>2, <3>1, TryingFacts, PointWrite
    <2>2. Write("rollback.active", d, Go("rollback.apply"), Idle)
      BY <1>5 DEF RollbackActive
    <2>3. "rollback.apply" \in RollingBack
      BY DEF RollingBack
    <2> HIDE DEF d
    <2>4. OpInv(d, Go("rollback.apply"), agent)
      BY <1>1, <2>1, <2>3, RollbackGoesOn
    <2> QED
      BY <1>1, <2>1, <2>2, <2>4, TryingFacts, TrialIsOver, WriteInv
  <1>6. CASE RollbackApply \/ RollbackAwait \/ RollbackHealthy
    <2>1. disk.ptr["active"] = op.to
      <3>1. op.pc \in RolledBack
        BY <1>6 DEF RollbackApply, RollbackAwait, RollbackHealthy, Apply, Await,
                    Healthy, RolledBack
      <3> QED BY <3>1 DEF CInv, OpInv
    <2>2. \A a : /\ OpInv(disk, Go("rollback.await"), a)
                 /\ OpInv(disk, Go("rollback.healthy"), a)
                 /\ OpInv(disk, Go("rollback.done"), a)
      <3>1. {"rollback.await", "rollback.healthy", "rollback.done"}
              \subseteq RollingBack
        BY DEF RollingBack
      <3> QED BY <1>1, <1>3, <2>1, <3>1, RollbackGoesOn
    <2>3. CASE RollbackApply
      BY <1>1, <2>2, <2>3, TryingFacts, TrialIsOver, ApplyInv DEF RollbackApply
    <2>4. CASE RollbackAwait \/ RollbackHealthy
      BY <1>1, <2>2, <2>4, TryingFacts, TrialIsOver, ControlInv
      DEF RollbackAwait, RollbackHealthy
    <2> QED BY <1>6, <2>3, <2>4
  <1> QED BY <1>4, <1>5, <1>6

-----------------------------------------------------------------------------
(* Promotion and pruning. *)

\* The proved revision is marked known-good.
LEMMA PromoteManifestInv ==
  ASSUME CInv, promoteLocked
  PROVE  CInv'
  <1> DEFINE l == IF PointerOrEmpty("lkg") \in {None, op.rev}
                  THEN "promote.lkg" ELSE "promote.prev"
             d == Mark(op.rev, "known-good")
             o == Go(l)
  <1>1. /\ Write("promote.manifest", d, o, Idle)
        /\ op.pc = "promote.manifest"
    BY DEF promoteLocked, Write
  <1>2. /\ op \in OpType /\ DiskInv(disk) /\ created \in 0 .. MaxRev
        /\ op.rev \in Revs /\ op.rev <= created /\ op.sha \in proved
        /\ ~damaged => disk.body[op.rev] = op.sha
    BY <1>1 DEF CInv, OpInv
  <1>3. /\ DiskInv(d) /\ d.body = disk.body
        /\ d.man[op.rev] = [st |-> "known-good", sha |-> op.sha]
    BY <1>2, MarkWrite DEF Statuses
  <1>4. l \in Promoting
    BY DEF Promoting
  <1> HIDE DEF l
  <1>5. o \in OpType /\ o.pc = l /\ o.rev = op.rev
    BY <1>2, <1>4, GoFacts, PlaceGroups
  <1>6. d.man[op.rev].st = "known-good" /\ d.man[op.rev].sha = op.sha
    BY <1>3
  <1> HIDE DEF d, o
  <1>7. Target(d, op.rev)
    BY <1>2, <1>3, <1>6 DEF Target, Trusted, Whole, Statuses
  <1>8. OpInv(d, o, agent)
    BY <1>4, <1>5, <1>6, <1>7, AtPromoting
  <1>9. \A e, p : LastInv(e, p)
    BY <1>1, NoStartup
  <1> QED BY <1>1, <1>3, <1>8, <1>9, AtIdle, WriteInv

\* What is known of a revision being promoted.
LEMMA PromotingFacts ==
  ASSUME CInv, op.pc \in Promoting
  PROVE  /\ op \in OpType /\ DiskInv(disk)
         /\ disk.man[op.rev].st = "known-good" /\ Target(disk, op.rev)
         /\ op.rev \in Bad .. MaxRev
         /\ \A p \in Pointers : Pointable(disk, p, op.rev)
         /\ \A d, a : OpInv(d, Idle, a)
         /\ \A d, o : LastInv(d, o)
  <1>1. /\ op \in OpType /\ DiskInv(disk)
        /\ disk.man[op.rev].st = "known-good" /\ Target(disk, op.rev)
    BY DEF CInv, OpInv
  <1>2. op.rev \in Bad .. MaxRev /\ Runnable(disk, op.rev)
    BY <1>1, TargetIsRunnable
  <1>3. \A p \in Pointers : Pointable(disk, p, op.rev)
    BY <1>1, <1>2 DEF Pointable
  <1> QED BY <1>1, <1>2, <1>3, AtIdle, NoStartup

\* The promotion goes on at place l.
LEMMA PromotionGoesOn ==
  ASSUME CInv, op.pc \in Promoting, NEW d, SameRevisions(d), NEW l \in Promoting
  PROVE  OpInv(d, Go(l), agent)
  <1> DEFINE o == Go(l)
  <1>1. o \in OpType /\ o.pc = l /\ o.rev = op.rev
    BY PromotingFacts, GoFacts, PlaceGroups
  <1>2. d.man[op.rev].st = "known-good" /\ Target(d, op.rev)
    BY PromotingFacts, SameUse DEF SameRevisions
  <1> HIDE DEF o
  <1>3. OpInv(d, o, agent)
    BY <1>1, <1>2, AtPromoting
  <1> QED BY <1>3 DEF o

\* The pointers follow, the active one last.
LEMMA PromoteInv ==
  ASSUME CInv, PromotePrevious \/ PromoteLKG \/ PromoteActive
  PROVE  CInv'
  <1>1. op.pc \in Promoting
    BY DEF PromotePrevious, PromoteLKG, PromoteActive, Write, Promoting
  <1>2. Pointers = {"active", "lkg", "prev"}
    BY DEF Pointers
  <1>3. CASE PromotePrevious
    <2> DEFINE d == Point("prev", disk.ptr["lkg"])
    <2>1. Pointable(disk, "prev", disk.ptr["lkg"])
      BY <1>1, <1>2, PromotingFacts DEF DiskInv, Pointable
    <2>2. disk.ptr["lkg"] \in Bad .. MaxRev
      BY <1>1, PromotingFacts, PointerFacts
    <2>3. DiskInv(d) /\ SameRevisions(d)
      BY <1>1, <1>2, <2>1, <2>2, PromotingFacts, PointWrite
    <2>4. Write("promote.prev", d, Go("promote.lkg"), Idle)
      BY <1>3 DEF PromotePrevious
    <2>5. "promote.lkg" \in Promoting
      BY DEF Promoting
    <2> HIDE DEF d
    <2> QED
      BY <1>1, <2>3, <2>4, <2>5, PromotionGoesOn, PromotingFacts, WriteInv
  <1>4. CASE PromoteLKG
    <2> DEFINE d == Point("lkg", op.rev)
    <2>1. DiskInv(d) /\ SameRevisions(d)
      BY <1>1, <1>2, PromotingFacts, PointWrite
    <2>2. Write("promote.lkg", d, Go("promote.active"), Idle)
      BY <1>4 DEF PromoteLKG
    <2>3. "promote.active" \in Promoting
      BY DEF Promoting
    <2> HIDE DEF d
    <2> QED
      BY <1>1, <2>1, <2>2, <2>3, PromotionGoesOn, PromotingFacts, WriteInv
  <1>5. CASE PromoteActive
    <2> DEFINE d == Point("active", op.rev)
               o == [Go("prune") EXCEPT !.victims = Prunable(d)]
               next == IF Prunable(d) = {} THEN Idle ELSE o
    <2>1. DiskInv(d)
      BY <1>1, <1>2, PromotingFacts, PointWrite
    <2>2. Write("promote.active", d, next, Idle)
      BY <1>5 DEF PromoteActive
    <2>3. /\ Prunable(d) \subseteq KnownGoodIn(d)
          /\ \A p \in Pointers : d.ptr[p] \notin Prunable(d)
      BY DEF Prunable
    <2>4. /\ Prunable(d) \subseteq Revs
          /\ \A r \in Prunable(d) : d.man[r].st = "known-good"
      BY <2>3 DEF KnownGoodIn
    <2>5. o \in OpType /\ o.pc = "prune" /\ o.victims = Prunable(d)
      <3>1. Go("prune") \in OpType /\ Go("prune").pc = "prune"
        BY <1>1, PromotingFacts, GoFacts, PlaceGroups
      <3> QED BY <2>4, <3>1 DEF OpType
    <2>6. o.pc \notin Beginning
      BY <2>5 DEF Beginning
    <2>7. next = Idle \/ next = o
      OBVIOUS
    <2> HIDE DEF d, o, next
    <2>8. OpInv(d, o, agent)
      BY <2>3, <2>4, <2>5, <2>6, AtOthers
    <2> QED
      BY <1>1, <2>1, <2>2, <2>7, <2>8, PromotingFacts, WriteInv
  <1> QED BY <1>3, <1>4, <1>5

\* pruneRevisionsLocked deletes only what no pointer names.
LEMMA PruneInv ==
  ASSUME CInv, pruneRevisionsLocked
  PROVE  CInv'
  <1>1. /\ op.pc = "prune" /\ op \in OpType /\ DiskInv(disk)
        /\ disk \in DiskType /\ op.victims \subseteq Revs
        /\ UNCHANGED <<created, agent, txn, damaged, proved, last>>
    BY DEF pruneRevisionsLocked, CInv, OpInv, DiskInv, OpType
  <1>2. /\ \A d, a : OpInv(d, Idle, a)
        /\ \A d, o : LastInv(d, o)
    BY <1>1, AtIdle, NoStartup
  <1>3. AgentInv' /\ (created \in 0 .. MaxRev)'
    BY <1>1 DEF CInv, AgentInv
  <1>4. CASE op' = Idle /\ UNCHANGED disk
    BY <1>1, <1>2, <1>4, MoveInv
  <1>5. CASE \E r \in op.victims :
               \E d \in {SetBody(r, Gone), [disk EXCEPT !.man[r] = NoManifest]} :
                 /\ disk' = d
                 /\ LET left == {q \in op.victims :
                                   d.body[q] # Gone \/ d.man[q] # NoManifest}
                    IN  op' = IF left = {} THEN Idle
                              ELSE [op EXCEPT !.victims = left]
    <2>0. PICK r \in op.victims :
            \E d \in {SetBody(r, Gone), [disk EXCEPT !.man[r] = NoManifest]} :
              /\ disk' = d
              /\ LET left == {q \in op.victims :
                                d.body[q] # Gone \/ d.man[q] # NoManifest}
                 IN  op' = IF left = {} THEN Idle ELSE [op EXCEPT !.victims = left]
      BY <1>5
    <2>1. PICK d \in {SetBody(r, Gone), [disk EXCEPT !.man[r] = NoManifest]} :
            /\ disk' = d
            /\ LET left == {q \in op.victims :
                              d.body[q] # Gone \/ d.man[q] # NoManifest}
               IN  op' = IF left = {} THEN Idle ELSE [op EXCEPT !.victims = left]
      BY <2>0
    <2>2. /\ \A q \in op.victims : /\ \A p \in Pointers : disk.ptr[p] # q
                                   /\ disk.man[q].st \in {"known-good", Gone}
          /\ r \in Revs
      BY <1>1 DEF CInv, OpInv
    <2>3. /\ d \in DiskType /\ d.file = disk.file /\ d.ptr = disk.ptr
          /\ \A q \in Revs \ {r} : /\ d.man[q] = disk.man[q]
                                   /\ d.body[q] = disk.body[q]
          /\ d.man[r] \in {disk.man[r], NoManifest}
          /\ d.body[r] \in {disk.body[r], Gone}
      <3>1. NoManifest \in Manifests /\ Gone \in Texts
        BY DEF Manifests, Texts
      <3>2. CASE d = SetBody(r, Gone)
        BY <1>1, <2>2, <3>1, <3>2 DEF DiskType, SetBody
      <3>3. CASE d = [disk EXCEPT !.man[r] = NoManifest]
        BY <1>1, <2>2, <3>1, <3>3 DEF DiskType
      <3> QED BY <2>1, <3>2, <3>3
    <2>4. NoManifest.st = Gone /\ Gone # "known-good" /\ Gone \notin Statuses
      BY DEF NoManifest, Gone, Statuses
    <2>5. DiskInv(d)
      <3>1. ASSUME NEW p \in Pointers
            PROVE  Pointable(d, p, d.ptr[p])
        <4>1. Pointable(disk, p, d.ptr[p]) /\ d.ptr[p] # r
          BY <1>1, <2>2, <2>3 DEF DiskInv
        <4> QED
          BY <2>3, <4>1 DEF Pointable, Target, Runnable, Trusted, Whole
      <3>2. \A q \in Revs : q > created =>
              d.man[q] = NoManifest /\ d.body[q] = Gone
        BY <1>1, <2>3 DEF DiskInv
      <3>3. \A q \in Revs : d.man[q].st = "known-good" => d.man[q].sha \in proved
        BY <1>1, <2>3, <2>4 DEF DiskInv
      <3>4. ~damaged => \A q \in Revs :
              d.man[q].st \in Statuses \ {"known-good"} =>
                d.man[q].sha = d.body[q]
        BY <1>1, <2>2, <2>3, <2>4 DEF DiskInv
      <3> QED BY <2>3, <3>1, <3>2, <3>3, <3>4 DEF DiskInv
    <2> DEFINE left == {q \in op.victims :
                          d.body[q] # Gone \/ d.man[q] # NoManifest}
               o == [op EXCEPT !.victims = left]
    <2>6. o \in OpType /\ o.pc = "prune" /\ o.victims = left
      BY <1>1 DEF OpType
    <2>7. op' = Idle \/ op' = o
      BY <2>1
    <2>8. left \subseteq op.victims
      OBVIOUS
    <2> HIDE DEF left, o
    <2>9. OpInv(d, o, agent)
      <3>1. \A q \in left : /\ \A p \in Pointers : d.ptr[p] # q
                            /\ d.man[q].st \in {"known-good", Gone}
        BY <1>1, <2>2, <2>3, <2>4, <2>8
      <3>2. o.pc \notin Beginning
        BY <2>6 DEF Beginning
      <3> QED BY <2>6, <3>1, <3>2, AtOthers
    <2>10. DiskInv(disk)' /\ OpInv(disk, op, agent)' /\ LastInv(disk, op)'
      <3>1. CASE op' = Idle
        BY <1>1, <1>2, <2>1, <2>5, <3>1, Frame
      <3>2. CASE op' = o
        BY <1>1, <1>2, <2>1, <2>5, <2>9, <3>2, Frame
      <3> QED BY <2>7, <3>1, <3>2
    <2> QED BY <1>3, <2>10 DEF CInv
  <1> QED BY <1>4, <1>5 DEF pruneRevisionsLocked

-----------------------------------------------------------------------------
(* Begin and BootstrapKnownGood. *)

\* A new revision number is that of no revision on disk.
LEMMA OpensInv ==
  ASSUME CInv, NEW k \in {"begin", "bootstrap"}, NEW c \in Texts,
         created < MaxRev, created' = created + 1,
         op' = Take(k, "begin.body", created + 1, c),
         UNCHANGED <<disk, agent, txn, damaged>>, proved \subseteq proved',
         k = "bootstrap" => c \in proved' /\ last' # "startup",
         k = "begin" => op = Idle /\ last' = last
  PROVE  CInv'
  <1>1. /\ created \in 0 .. MaxRev /\ DiskInv(disk) /\ disk \in DiskType
        /\ MaxRev \in Nat
    BY ConfigAssumption DEF CInv, DiskInv
  <1>2. /\ created + 1 \in Revs /\ created + 1 \in 0 .. MaxRev
        /\ created' \in 0 .. MaxRev
    BY <1>1 DEF Revs
  <1>3. DiskInv(disk)'
    <2>1. \A r \in Revs : r > created' => r > created
      BY <1>1 DEF Revs
    <2> QED
      BY <1>1, <2>1 DEF DiskInv, Pointable, Target, Runnable, Trusted, Whole
  <1>4. /\ op' \in OpType /\ op'.pc = "begin.body" /\ op'.rev = created + 1
        /\ op'.sha = c /\ op'.kind = k
    BY <1>2, PlaceGroups, TakeFacts DEF Beginning
  <1>5. OpInv(disk, op, agent)'
    <2>1. /\ op'.pc \in Beginning /\ op'.pc \notin Trying
          /\ op'.pc \notin Promoting /\ op'.pc \notin Manual
          /\ op'.pc \notin Repairing /\ op'.pc \notin Accepting
          /\ op'.pc \notin Filed /\ op'.pc \notin Restarted
          /\ op'.pc \notin RollingBack /\ op'.pc \notin RolledBack
          /\ op'.pc \notin {"prune", "bootstrap.active", "start.lkg", "start.fix",
                            "start.verify", "start.done", "promote.manifest",
                            "begin.manifest"}
      BY <1>4 DEF Beginning, Trying, Promoting, Manual, Repairing,
         Accepting, Filed, Restarted, RollingBack, RolledBack
    <2>2. disk.man[created + 1] = NoManifest
      BY <1>1, <1>2 DEF DiskInv
    <2>3. op'.rev \in Revs /\ op'.rev <= created' /\ disk'.man[op'.rev] = NoManifest
      BY <1>1, <1>2, <1>4, <2>2
    <2>4. op'.kind = "bootstrap" => op'.sha \in proved'
      BY <1>4
    <2> QED BY <1>4, <2>1, <2>3, <2>4 DEF OpInv
  <1>6. LastInv(disk, op)'
    <2>1. CASE k = "bootstrap"
      BY <2>1 DEF LastInv
    <2>2. CASE k = "begin"
      <3>1. last = "startup" => Settled(disk)
        BY DEF CInv, LastInv
      <3>2. op'.pc \in Beginning
        BY <1>4 DEF Beginning
      <3> QED BY <1>4, <2>2, <3>1, <3>2 DEF LastInv, Settled
    <2> QED BY <2>1, <2>2
  <1>7. AgentInv'
    BY DEF CInv, AgentInv
  <1> QED BY <1>2, <1>3, <1>5, <1>6, <1>7 DEF CInv

\* Begin.
LEMMA BeginInv ==
  ASSUME CInv, NEW c \in Contents, Begin(c)
  PROVE  CInv'
  <1>1. c \in Texts
    BY DEF Texts
  <1> QED BY <1>1, OpensInv DEF Begin

\* BootstrapKnownGood.
LEMMA BootstrapInv ==
  ASSUME CInv, Bootstrap
  PROVE  CInv'
  <1>0. last' = "change" /\ UNCHANGED <<disk, agent, txn, damaged>>
    BY DEF Bootstrap
  <1>1. CASE /\ created < MaxRev /\ created' = created + 1
             /\ op' = Take("bootstrap", "begin.body", created + 1, disk.file)
             /\ proved' = proved \cup {disk.file}
    <2>1. disk.file \in Texts
      BY DEF CInv, DiskInv, DiskType
    <2> QED BY <1>0, <1>1, <2>1, OpensInv
  <1>2. CASE /\ disk.ptr["lkg"] \in KnownGoodRevisions
             /\ op' = [Take("bootstrap", "bootstrap.active", None, Garbage)
                       EXCEPT !.to = disk.ptr["lkg"]]
             /\ UNCHANGED <<created, proved>>
    <2> DEFINE o == [Take("bootstrap", "bootstrap.active", None, Garbage)
                     EXCEPT !.to = disk.ptr["lkg"]]
    <2>1. disk.ptr["lkg"] \in Revs /\ DiskInv(disk)
      BY <1>2 DEF KnownGoodRevisions, KnownGoodIn, CInv
    <2>2. Target(disk, disk.ptr["lkg"])
      BY <2>1 DEF DiskInv, Pointable, Pointers, Revs, None, Bad
    <2>3. /\ o \in OpType /\ o.pc = "bootstrap.active"
          /\ o.to = disk.ptr["lkg"]
      <3> DEFINE t == Take("bootstrap", "bootstrap.active", None, Garbage)
      <3>1. None \in 0 .. MaxRev /\ Garbage \in Texts
        BY ConfigAssumption DEF None, Texts
      <3>2. t \in OpType /\ t.pc = "bootstrap.active"
        BY <3>1, PlaceGroups, TakeFacts
      <3>3. o = [t EXCEPT !.to = disk.ptr["lkg"]]
        OBVIOUS
      <3>4. disk.ptr["lkg"] \in 0 .. MaxRev
        BY <2>1 DEF Revs
      <3> HIDE DEF t, o
      <3> QED BY <3>2, <3>3, <3>4 DEF OpType
    <2>4. o.pc \notin Beginning
      BY <2>3 DEF Beginning
    <2>5. op' = o
      BY <1>2
    <2> HIDE DEF o
    <2>6. OpInv(disk, o, agent)
      BY <2>2, <2>3, <2>4, AtOthers
    <2>7. LastInv(disk, op)' /\ AgentInv'
      BY <1>0 DEF LastInv, CInv, AgentInv
    <2>8. OpInv(disk, o, agent')
      BY <1>0, <2>6
    <2> QED BY <1>0, <1>2, <2>5, <2>7, <2>8, TakesInv
  <1> QED BY <1>1, <1>2 DEF Bootstrap

\* The active pointer is put back on the last-known-good.
LEMMA BootstrapActiveInv ==
  ASSUME CInv, BootstrapActive
  PROVE  CInv'
  <1>1. Write("bootstrap.active", Point("active", op.to), Idle, Idle)
        /\ op.pc = "bootstrap.active"
    BY DEF BootstrapActive, Write
  <1>2. Target(disk, op.to) /\ DiskInv(disk)
    BY <1>1 DEF CInv, OpInv
  <1>3. DiskInv(Point("active", op.to))
    BY <1>2, TargetIsRunnable, PointWrite DEF Pointable, Pointers
  <1> QED BY <1>1, <1>3, AtIdle, NoStartup, WriteInv

\* Settled is about the active file, its pointer and known-good manifests.
LEMMA SettledKept ==
  ASSUME NEW d, Settled(disk), d.file = disk.file, d.ptr = disk.ptr,
         \A r \in Revs : disk.man[r].st = "known-good" => d.man[r] = disk.man[r]
  PROVE  Settled(d)
  BY DEF Settled

\* The content and the first manifest of a new revision.
LEMMA BeginWritesInv ==
  ASSUME CInv, BeginBody \/ BeginManifest
  PROVE  CInv'
  <1>1. op.pc \in Beginning
    BY DEF BeginBody, BeginManifest, Write, Beginning
  <1>2. /\ op \in OpType /\ op.sha \in Texts /\ DiskInv(disk)
        /\ created \in 0 .. MaxRev
        /\ op.rev \in Revs /\ op.rev <= created /\ disk.man[op.rev] = NoManifest
        /\ op.kind = "bootstrap" => op.sha \in proved
    BY <1>1 DEF CInv, OpInv, OpType
  <1>3. /\ \A d, a : OpInv(d, Idle, a)
        /\ last = "startup" => Settled(disk) /\ op.kind = "begin"
        /\ \A d : (last = "startup" => Settled(d)) => LastInv(d, Idle)
    <2>1. op.pc \notin Reconciled
      BY <1>1 DEF Beginning, Reconciled
    <2> QED BY <2>1, AtIdle DEF CInv, LastInv
  <1>4. disk.man[op.rev].st # "known-good"
    BY <1>2 DEF NoManifest, Gone
  <1>5. CASE BeginBody
    <2> DEFINE d == SetBody(op.rev, op.sha)
               o == Go("begin.manifest")
    <2>1. /\ DiskInv(d) /\ d.file = disk.file /\ d.ptr = disk.ptr
          /\ d.man = disk.man /\ d.body[op.rev] = op.sha
      BY <1>2, BodyWrite
    <2>2. Write("begin.body", d, o, Idle)
      BY <1>5 DEF BeginBody
    <2>3. /\ o \in OpType /\ o.pc = "begin.manifest" /\ o.rev = op.rev
          /\ o.sha = op.sha /\ o.kind = op.kind /\ o.pc \in Beginning
      BY <1>2, GoFacts, PlaceGroups DEF Beginning
    <2> HIDE DEF d, o
    <2>4. OpInv(d, o, agent)
      BY <1>2, <2>1, <2>3, AtOthers
    <2>5. last = "startup" => Settled(d)
      BY <1>3, <2>1, SettledKept
    <2>6. LastInv(d, o)
      BY <1>3, <2>3, <2>5 DEF LastInv
    <2> QED BY <1>3, <2>1, <2>2, <2>4, <2>5, <2>6, WriteInv
  <1>6. CASE BeginManifest
    <2> DEFINE d == Mark(op.rev, "candidate")
               o == Go("promote.manifest")
               next == IF op.kind = "bootstrap" THEN o ELSE Idle
    <2>0. disk.body[op.rev] = op.sha
      BY <1>1, <1>6 DEF BeginManifest, Write, CInv, OpInv
    <2>1. /\ DiskInv(d) /\ d.file = disk.file /\ d.ptr = disk.ptr
          /\ d.body = disk.body
          /\ \A r \in Revs \ {op.rev} : d.man[r] = disk.man[r]
      BY <1>2, <2>0, UnmarkedIsUnnamed, MarkWrite DEF Statuses
    <2>2. Write("begin.manifest", d, next, Idle)
      BY <1>6 DEF BeginManifest
    <2>3. /\ o \in OpType /\ o.pc = "promote.manifest" /\ o.rev = op.rev
          /\ o.sha = op.sha /\ o.pc \notin Beginning
      BY <1>2, GoFacts, PlaceGroups DEF Beginning
    <2>4. \/ next = Idle
          \/ next = o /\ op.kind = "bootstrap"
      OBVIOUS
    <2> HIDE DEF d, o, next
    <2>5. op.kind = "bootstrap" => OpInv(d, o, agent)
      BY <1>2, <2>0, <2>1, <2>3, AtOthers
    <2>6. last = "startup" => Settled(d)
      BY <1>3, <1>4, <2>1, SettledKept
    <2>7. LastInv(d, next) /\ OpInv(d, next, agent)
      BY <1>3, <2>4, <2>5, <2>6 DEF LastInv
    <2> QED BY <1>3, <2>1, <2>2, <2>6, <2>7, WriteInv
  <1> QED BY <1>5, <1>6

-----------------------------------------------------------------------------
(* The start of an activation and of the operator's rollback, the latter's  *)
(* steps, and the expiry of a context.                                      *)

\* The active pointer that can be followed leads to a revision that may be run.
LEMMA ActiveFacts ==
  ASSUME DiskInv(disk)
  PROVE  /\ PointerOrEmpty("active") \in 0 .. MaxRev
         /\ PointerOrEmpty("active") # None =>
              Runnable(disk, PointerOrEmpty("active"))
         /\ disk.ptr["active"] \in Bad .. MaxRev
         /\ disk.ptr["active"] # None => Runnable(disk, disk.ptr["active"])
  <1>1. /\ disk.ptr["active"] \in Bad .. MaxRev
        /\ Pointable(disk, "active", disk.ptr["active"])
    BY DEF DiskInv, DiskType, Pointers
  <1>2. disk.ptr["active"] # None => Runnable(disk, disk.ptr["active"])
    BY <1>1 DEF Pointable
  <1> QED BY <1>1, <1>2, ConfigAssumption DEF PointerOrEmpty, Bad, None

\* Activate takes a candidate whose content is the one its manifest names.
LEMMA ActivateInv ==
  ASSUME CInv, NEW r \in Revs, Activate(r)
  PROVE  CInv'
  <1> DEFINE l == IF contentMatches(r, disk.body[r])
                  THEN "activate.file" ELSE "activate.fail"
             o == Take("activate", l, r, disk.man[r].sha)
  <1>1. /\ disk.man[r].st \in {"candidate", "validating"} /\ op' = o
        /\ last' = "change" /\ UNCHANGED <<disk, created, agent, txn, damaged, proved>>
    BY DEF Activate
  <1>2. /\ l \in Trying /\ l \notin Filed /\ l \notin Restarted
        /\ l \notin RollingBack /\ l \notin RolledBack
    BY DEF Trying, Filed, Restarted, RollingBack, RolledBack
  <1>3. DiskInv(disk) /\ disk \in DiskType /\ created \in 0 .. MaxRev
    BY DEF CInv, DiskInv
  <1>4. disk.man[r].sha \in Texts
    <2>1. disk.man[r] \in Manifests
      BY <1>3 DEF DiskType
    <2> QED BY <2>1 DEF Manifests, NoManifest, Unreadable, Texts
  <1>5. r \in 0 .. MaxRev /\ r <= created
    <2>1. disk.man[r] # NoManifest
      BY <1>1 DEF NoManifest, Gone
    <2> QED BY <1>3, <2>1 DEF DiskInv, Revs
  <1> HIDE DEF l
  <1>6. /\ o \in OpType /\ o.pc = l /\ o.rev = r
        /\ o.sha = disk.man[r].sha
    BY <1>2, <1>4, <1>5, TakeFacts, PlaceGroups
  <1>7. ~damaged => disk.body[r] = disk.man[r].sha
    BY <1>1, <1>3 DEF DiskInv, Statuses
  <1>8. disk.man[r].st \in OnTrial
    BY <1>1 DEF OnTrial
  <1> HIDE DEF o
  <1>9. OpInv(disk, o, agent')
    BY <1>1, <1>2, <1>5, <1>6, <1>7, <1>8, AtTrying
  <1>10. LastInv(disk, op)' /\ AgentInv'
    BY <1>1 DEF LastInv, CInv, AgentInv
  <1> QED BY <1>1, <1>9, <1>10, TakesInv

\* Rollback takes a verified revision, and notes the pointers it replaces.
LEMMA RollbackBeginsInv ==
  ASSUME CInv, NEW r \in Revs, Rollback(r)
  PROVE  CInv'
  <1> DEFINE t == Take("rollback", "manual.file", r, disk.man[r].sha)
             o == [t EXCEPT !.oldA = PointerOrEmpty("active"),
                            !.oldL = PointerOrEmpty("lkg")]
  <1>1. /\ Verified(r) /\ op' = o /\ last' = "change"
        /\ UNCHANGED <<disk, created, agent, txn, damaged, proved>>
    BY DEF Rollback
  <1>2. DiskInv(disk) /\ disk \in DiskType
    BY DEF CInv, DiskInv
  <1>3. disk.man[r].st = "known-good" /\ disk.man[r].sha = disk.body[r]
    BY <1>1 DEF Verified, KnownGoodRevisions, KnownGoodIn, contentMatches
  <1>4. Target(disk, r)
    BY <1>3 DEF Target, Trusted, Whole, Statuses
  <1>5. disk.man[r].sha \in Texts /\ r \in 0 .. MaxRev /\ "manual.file" \in Manual
    <2>1. disk.body[r] \in Texts
      BY <1>2 DEF DiskType
    <2> QED BY <1>3, <2>1 DEF Revs, Manual
  <1>6. t \in OpType /\ t.pc = "manual.file" /\ t.rev = r
    BY <1>5, TakeFacts, PlaceGroups
  <1>7. /\ PointerOrEmpty("active") \in 0 .. MaxRev
        /\ PointerOrEmpty("lkg") \in 0 .. MaxRev
    BY <1>2, ActiveFacts, PointerFacts
  <1> HIDE DEF t
  <1>8. /\ o \in OpType /\ o.pc = "manual.file" /\ o.rev = r
        /\ o.oldA = PointerOrEmpty("active") /\ o.oldL = PointerOrEmpty("lkg")
    BY <1>6, <1>7 DEF OpType
  <1> HIDE DEF o
  <1>9. OpInv(disk, o, agent')
    BY <1>2, <1>3, <1>4, <1>5, <1>8, ActiveFacts, PointerFacts, AtManual
  <1>10. LastInv(disk, op)' /\ AgentInv'
    BY <1>1 DEF LastInv, CInv, AgentInv
  <1> QED BY <1>1, <1>9, <1>10, TakesInv

\* What is known during the operator's rollback.
LEMMA ManualFacts ==
  ASSUME CInv, op.pc \in Manual
  PROVE  /\ op \in OpType /\ op.sha \in Texts /\ DiskInv(disk)
         /\ disk.man[op.rev].st = "known-good" /\ Target(disk, op.rev)
         /\ op.oldL # None => Target(disk, op.oldL)
         /\ op.oldA # None => Runnable(disk, op.oldA)
         /\ op.rev \in Bad .. MaxRev /\ op.oldA \in Bad .. MaxRev
         /\ op.oldL \in Bad .. MaxRev
         /\ \A p \in Pointers : Pointable(disk, p, op.rev)
         /\ Pointable(disk, "active", op.oldA)
         /\ Pointable(disk, "lkg", op.oldL) /\ Pointable(disk, "prev", op.oldL)
         /\ \A d, a : OpInv(d, Idle, a)
         /\ \A d, o : LastInv(d, o)
  <1>1. /\ op \in OpType /\ DiskInv(disk)
        /\ disk.man[op.rev].st = "known-good" /\ Target(disk, op.rev)
        /\ op.oldL # None => Target(disk, op.oldL)
        /\ op.oldA # None => Runnable(disk, op.oldA)
    BY DEF CInv, OpInv
  <1>2. /\ op.sha \in Texts /\ op.oldA \in Bad .. MaxRev
        /\ op.oldL \in Bad .. MaxRev
    BY <1>1 DEF OpType, Bad
  <1>3. op.rev \in Bad .. MaxRev /\ Runnable(disk, op.rev)
    BY <1>1, TargetIsRunnable
  <1>4. /\ \A p \in Pointers : Pointable(disk, p, op.rev)
        /\ Pointable(disk, "active", op.oldA)
        /\ Pointable(disk, "lkg", op.oldL) /\ Pointable(disk, "prev", op.oldL)
    BY <1>1, <1>3 DEF Pointable
  <1> QED BY <1>1, <1>2, <1>3, <1>4, AtIdle, NoStartup

\* The operator's rollback goes on at place l.
LEMMA ManualGoesOn ==
  ASSUME CInv, op.pc \in Manual, NEW d, SameRevisions(d), NEW a, NEW l \in Manual,
         l = "restore.file" => op.oldA # None
  PROVE  OpInv(d, Go(l), a)
  <1> DEFINE o == Go(l)
  <1>1. /\ o \in OpType /\ o.pc = l /\ o.rev = op.rev
        /\ o.oldA = op.oldA /\ o.oldL = op.oldL
    BY ManualFacts, GoFacts, PlaceGroups
  <1>2. /\ d.man[op.rev].st = "known-good" /\ Target(d, op.rev)
        /\ op.oldL # None => Target(d, op.oldL)
        /\ op.oldA # None => Runnable(d, op.oldA)
    BY ManualFacts, SameUse DEF SameRevisions
  <1> HIDE DEF o
  <1>3. OpInv(d, o, a)
    BY <1>1, <1>2, AtManual
  <1> QED BY <1>3 DEF o

\* A write of the operator's rollback.
LEMMA ManualWriteInv ==
  ASSUME CInv, op.pc \in Manual, NEW l, NEW d, NEW ok, NEW err,
         Write(l, d, ok, err), DiskInv(d), SameRevisions(d),
         \/ ok = Idle
         \/ \E m \in Manual \ {"restore.file"} : ok = Go(m),
         \/ err = Idle
         \/ \E m \in Manual \ {"restore.file"} : err = Go(m)
  PROVE  CInv'
  <1>1. SameRevisions(disk)
    BY DEF SameRevisions
  <1>2. OpInv(d, ok, agent)
    BY ManualFacts, ManualGoesOn
  <1>3. OpInv(d, err, agent) /\ OpInv(disk, err, agent)
    BY <1>1, ManualFacts, ManualGoesOn
  <1> QED BY <1>2, <1>3, ManualFacts, WriteInv

\* The writes of the operator's rollback and of its undoing.
LEMMA ManualWritesInv ==
  ASSUME CInv, \/ ManualFile \/ ManualActive \/ ManualPrevious \/ ManualLKG
               \/ RestoreFile \/ RestoreActive \/ RestoreLKG
  PROVE  CInv'
  <1>1. /\ op.pc \in Manual
        /\ {"manual.active", "manual.apply", "manual.lkg", "restore.active",
            "restore.lkg", "restore.apply"} \subseteq Manual \ {"restore.file"}
    BY DEF ManualFile, ManualActive, ManualPrevious, ManualLKG,
           RestoreFile, RestoreActive, RestoreLKG, Write, Manual
  <1>2. Pointers = {"active", "lkg", "prev"}
    BY DEF Pointers
  <1>3. CASE ManualFile
    <2>1. DiskInv(SetFile(op.sha)) /\ SameRevisions(SetFile(op.sha))
      BY <1>1, ManualFacts, FileWrite
    <2> QED BY <1>1, <1>3, <2>1, ManualWriteInv DEF ManualFile
  <1>4. CASE ManualActive
    <2> DEFINE d == Point("active", op.rev)
    <2>1. DiskInv(d) /\ SameRevisions(d)
      BY <1>1, <1>2, ManualFacts, PointWrite
    <2> QED BY <1>1, <1>4, <2>1, ManualWriteInv DEF ManualActive
  <1>5. CASE ManualPrevious
    <2> DEFINE d == Point("prev", op.oldL)
    <2>1. DiskInv(d) /\ SameRevisions(d)
      BY <1>1, <1>2, ManualFacts, PointWrite
    <2> QED BY <1>1, <1>5, <2>1, ManualWriteInv DEF ManualPrevious
  <1>6. CASE ManualLKG
    <2> DEFINE d == Point("lkg", op.rev)
    <2>1. DiskInv(d) /\ SameRevisions(d)
      BY <1>1, <1>2, ManualFacts, PointWrite
    <2> QED BY <1>1, <1>6, <2>1, ManualWriteInv DEF ManualLKG
  <1>7. CASE RestoreFile
    <2> DEFINE d == SetFile(disk.body[op.oldA])
    <2>1. op.oldA # None
      BY <1>1, <1>7 DEF RestoreFile, Write, CInv, OpInv
    <2>2. disk.body[op.oldA] \in Texts
      <3>1. op.oldA \in Revs
        BY <1>1, <2>1, ManualFacts DEF OpType, Revs, None
      <3> QED BY <1>1, <3>1, ManualFacts DEF DiskInv, DiskType
    <2>3. DiskInv(d) /\ SameRevisions(d)
      BY <1>1, <2>2, ManualFacts, FileWrite
    <2> QED BY <1>1, <1>7, <2>3, ManualWriteInv DEF RestoreFile
  <1>8. CASE RestoreActive
    <2> DEFINE d == Point("active", op.oldA)
    <2>1. DiskInv(d) /\ SameRevisions(d)
      BY <1>1, <1>2, ManualFacts, PointWrite
    <2> QED BY <1>1, <1>8, <2>1, ManualWriteInv DEF RestoreActive
  <1>9. CASE RestoreLKG
    <2> DEFINE d == Point("lkg", op.oldL)
    <2>1. DiskInv(d) /\ SameRevisions(d)
      BY <1>1, <1>2, ManualFacts, PointWrite
    <2> QED BY <1>1, <1>9, <2>1, ManualWriteInv DEF RestoreLKG
  <1> QED BY <1>3, <1>4, <1>5, <1>6, <1>7, <1>8, <1>9

\* The restarts and health checks of the operator's rollback and its undoing.
LEMMA ManualRunInv ==
  ASSUME CInv, \/ ManualApply \/ ManualAwait \/ ManualHealthy
               \/ RestoreApply \/ RestoreAwait \/ RestoreHealthy
  PROVE  CInv'
  <1>1. /\ op.pc \in Manual
        /\ {"manual.await", "manual.healthy", "manual.lkg", "manual.prev",
            "restore.await", "restore.healthy"} \subseteq Manual \ {"restore.file"}
        /\ "restore.file" \in Manual
    BY DEF ManualApply, ManualAwait, ManualHealthy, RestoreApply, RestoreAwait,
           RestoreHealthy, Apply, Await, Healthy, Manual
  <1>2. SameRevisions(disk)
    BY DEF SameRevisions
  <1>3. \A a : /\ OpInv(disk, Go("manual.await"), a)
               /\ OpInv(disk, Go("manual.healthy"), a)
               /\ OpInv(disk, Go("manual.lkg"), a)
               /\ OpInv(disk, Go("manual.prev"), a)
               /\ OpInv(disk, Go("restore.await"), a)
               /\ OpInv(disk, Go("restore.healthy"), a)
    BY <1>1, <1>2, ManualGoesOn
  <1>4. OpInv(disk, Restoring, agent)
    <2>1. CASE Restoring = Idle
      BY <1>1, <2>1, ManualFacts
    <2>2. CASE Restoring = Go("restore.file") /\ op.oldA # None
      BY <1>1, <1>2, <2>2, ManualGoesOn
    <2> QED BY <2>1, <2>2 DEF Restoring
  <1>5. \A a : OpInv(disk, Idle, a)
    BY <1>1, ManualFacts
  <1>6. \A d, o : LastInv(d, o)
    BY <1>1, ManualFacts
  <1>7. CASE ManualApply
    BY <1>3, <1>4, <1>6, <1>7, ApplyInv DEF ManualApply
  <1>8. CASE RestoreApply
    BY <1>3, <1>5, <1>6, <1>8, ApplyInv DEF RestoreApply
  <1>9. CASE ManualAwait
    BY <1>3, <1>4, <1>6, <1>9, ControlInv DEF ManualAwait
  <1>10. CASE ManualHealthy
    BY <1>3, <1>4, <1>6, <1>10, ControlInv DEF ManualHealthy
  <1>11. CASE RestoreAwait \/ RestoreHealthy
    BY <1>3, <1>5, <1>6, <1>11, ControlInv DEF RestoreAwait, RestoreHealthy
  <1> QED BY <1>7, <1>8, <1>9, <1>10, <1>11

\* A context expires.
LEMMA ExpireInv ==
  ASSUME CInv, Expire
  PROVE  CInv'
  <1> DEFINE o == [op EXCEPT !.late = TRUE]
  <1>1. /\ op' = o
        /\ UNCHANGED <<disk, created, agent, txn, damaged, proved, last>>
    BY DEF Expire
  <1>2. op \in OpType /\ OpInv(disk, op, agent) /\ LastInv(disk, op)
    BY DEF CInv, OpInv
  <1>3. /\ o \in OpType /\ o.kind = op.kind /\ o.pc = op.pc /\ o.rev = op.rev
        /\ o.sha = op.sha /\ o.to = op.to /\ o.oldA = op.oldA
        /\ o.oldL = op.oldL /\ o.victims = op.victims
    BY <1>2 DEF OpType
  <1> HIDE DEF o
  <1>4. OpInv(disk, o, agent)
    BY <1>2, <1>3 DEF OpInv
  <1>5. LastInv(disk, o)
    BY <1>2, <1>3 DEF LastInv
  <1> QED BY <1>1, <1>4, <1>5, MoveInv

-----------------------------------------------------------------------------
(* RecoverForStartup. *)

\* A non-empty set of revisions has a newest one.
LEMMA NewestRevision ==
  ASSUME NEW S \in SUBSET Revs, S # {}
  PROVE  Max(S) \in S
  <1> DEFINE T == {MaxRev - r : r \in S}
  <1>1. T \subseteq Nat /\ T # {}
    <2>1. \A r \in S : MaxRev - r \in Nat
      BY ConfigAssumption DEF Revs
    <2>2. PICK r \in S : TRUE
      OBVIOUS
    <2>3. MaxRev - r \in T
      OBVIOUS
    <2> QED BY <2>1, <2>3
  <1>2. PICK t \in T : \A u \in T : <<u, t>> \notin OpToRel(<, Nat)
    <2> HIDE DEF T
    <2> QED BY <1>1, NatLessThanWellFounded, WFMin
  <1>3. \A u \in T : ~(u < t)
    BY <1>1, <1>2 DEF OpToRel
  <1>4. PICK x \in S : t = MaxRev - x
    OBVIOUS
  <1>5. \A y \in S : x >= y
    BY <1>3, <1>4, ConfigAssumption DEF Revs
  <1> QED BY <1>4, <1>5 DEF Max

\* The revision a repair chooses is verified.
LEMMA RepairTarget ==
  /\ knownGoodForRepair \in 0 .. MaxRev
  /\ knownGoodForRepair # None => Target(disk, knownGoodForRepair)
  <1> DEFINE good == {r \in Revs : Verified(r)}
  <1>1. knownGoodForRepair = None \/ knownGoodForRepair \in good
    <2>1. good # {} => Max(good) \in good
      <3>1. good \in SUBSET Revs
        OBVIOUS
      <3> HIDE DEF good
      <3> QED BY <3>1, NewestRevision
    <2> QED BY <2>1 DEF knownGoodForRepair
  <1>2. \A r \in good : r \in Revs /\ Target(disk, r)
    BY DEF Verified, KnownGoodRevisions, KnownGoodIn, contentMatches, Target,
           Trusted, Whole, Statuses
  <1> QED BY <1>1, <1>2, ConfigAssumption DEF None, Revs

\* What is known during reconciliation.
LEMMA StartingFacts ==
  ASSUME CInv, op.pc \in Starting
  PROVE  /\ op \in OpType /\ DiskInv(disk) /\ disk \in DiskType
         /\ last = "startup" => Settled(disk) /\ op.pc \in Reconciled
         /\ op.pc \in Repairing =>
              Target(disk, op.to) /\ op.to \in Revs
              /\ op.to \in Bad .. MaxRev /\ Runnable(disk, op.to)
         /\ SameRevisions(disk)
  <1>1. op.pc \notin Beginning
    BY DEF Beginning, Starting, Repairing, Accepting, Reconciled
  <1>2. /\ op \in OpType /\ DiskInv(disk) /\ disk \in DiskType
        /\ op.pc \in Repairing => Target(disk, op.to)
    BY DEF CInv, OpInv, DiskInv
  <1>3. last = "startup" => Settled(disk) /\ op.pc \in Reconciled
    BY <1>1 DEF CInv, LastInv
  <1> QED BY <1>2, <1>3, TargetIsRunnable DEF SameRevisions

\* Reconciliation goes on, at a place where the active file may be the right one.
LEMMA StartGoesOn ==
  ASSUME CInv, op.pc \in Starting, NEW d, last = "startup" => Settled(d),
         NEW l \in {"start.prev", "start.promote", "start.verify", "start.fail",
                    "start.done"},
         l \in Accepting =>
           d.ptr["active"] \in Revs /\ d.man[d.ptr["active"]].st = "known-good",
         l = "start.verify" /\ d.ptr["active"] \in Revs =>
           Trusted(d, d.ptr["active"]),
         l = "start.done" => Settled(d)
  PROVE  OpInv(d, Go(l), agent) /\ LastInv(d, Go(l))
  <1> DEFINE o == Go(l)
  <1>1. l \in Reconciled /\ l \in Starting /\ l \notin Repairing
    BY DEF Reconciled, Starting, Repairing
  <1>2. o \in OpType /\ o.pc = l
    BY <1>1, StartingFacts, GoFacts, PlaceGroups
  <1> HIDE DEF o
  <1>3. /\ o.pc # "start.lkg" /\ o.pc # "start.fix"
    BY <1>2
  <1>4. OpInv(d, o, agent)
    BY <1>1, <1>2, <1>3, AtStarting
  <1>5. LastInv(d, o)
    BY <1>1, <1>2 DEF LastInv
  <1> QED BY <1>4, <1>5 DEF o

\* A repair goes on with operation o.
LEMMA RepairGoesOn ==
  ASSUME NEW d, NEW o \in OpType, o.pc \in Repairing, Target(d, o.to),
         o.pc = "start.lkg" => d.ptr["active"] # Bad,
         o.pc = "start.fix" => d.ptr["active"] = o.to,
         last = "startup" => Settled(d) /\ o.pc = "start.lkg"
  PROVE  OpInv(d, o, agent) /\ LastInv(d, o)
  <1>1. /\ o.pc \in Starting /\ o.pc \notin Accepting
        /\ o.pc \notin {"start.verify", "start.done"}
        /\ "start.lkg" \in Reconciled
    BY DEF Starting, Repairing, Accepting, Reconciled
  <1>2. OpInv(d, o, agent)
    BY <1>1, AtStarting
  <1> QED BY <1>1, <1>2 DEF LastInv

\* Choosing the revision r to restore: the active file is not the right one.
LEMMA RestoreGoesOn ==
  ASSUME CInv, op.pc \in Starting, NEW d, NEW b \in BOOLEAN, NEW r,
         Target(d, r), last # "startup"
  PROVE  LET o == [Go("start.file") EXCEPT !.to = r, !.repair = b]
         IN  OpInv(d, o, agent) /\ LastInv(d, o)
  <1> DEFINE g == Go("start.file")
             o == [g EXCEPT !.to = r, !.repair = b]
  <1>1. "start.file" \in Repairing
    BY DEF Repairing
  <1>2. g \in OpType /\ g.pc = "start.file"
    BY <1>1, StartingFacts, GoFacts, PlaceGroups
  <1>3. r \in 0 .. MaxRev
    BY DEF Target, Trusted, Revs
  <1> HIDE DEF g
  <1>4. o \in OpType /\ o.pc = "start.file" /\ o.to = r
    BY <1>2, <1>3 DEF OpType
  <1> HIDE DEF o
  <1>5. OpInv(d, o, agent) /\ LastInv(d, o)
    BY <1>1, <1>4, RepairGoesOn
  <1> QED BY <1>5 DEF g, o

\* repairKnownGoodLocked and restoreKnownGoodLocked.
LEMMA RestoreChoice ==
  ASSUME CInv, op.pc \in Starting, last # "startup", NEW d, SameRevisions(d)
  PROVE  /\ OpInv(d, repairKnownGoodLocked, agent)
         /\ LastInv(d, repairKnownGoodLocked)
         /\ \A lkg : (lkg # None => Target(disk, lkg)) =>
              /\ OpInv(d, restoreKnownGoodLocked(lkg), agent)
              /\ LastInv(d, restoreKnownGoodLocked(lkg))
  <1>1. OpInv(d, Go("start.fail"), agent) /\ LastInv(d, Go("start.fail"))
    BY StartGoesOn DEF Accepting
  <1>2. ASSUME NEW r, NEW b \in BOOLEAN, Target(disk, r)
        PROVE  LET o == [Go("start.file") EXCEPT !.to = r, !.repair = b]
               IN  OpInv(d, o, agent) /\ LastInv(d, o)
    BY <1>2, SameUse, RestoreGoesOn
  <1>3. /\ OpInv(d, repairKnownGoodLocked, agent)
        /\ LastInv(d, repairKnownGoodLocked)
    BY <1>1, <1>2, RepairTarget DEF repairKnownGoodLocked
  <1>4. ASSUME NEW lkg, lkg # None => Target(disk, lkg)
        PROVE  /\ OpInv(d, restoreKnownGoodLocked(lkg), agent)
               /\ LastInv(d, restoreKnownGoodLocked(lkg))
    BY <1>1, <1>2, <1>4 DEF restoreKnownGoodLocked
  <1> QED BY <1>3, <1>4

\* Where the active file, pointer and revisions are the same, so is Settled.
LEMMA SettledSame ==
  ASSUME NEW d, SameRevisions(d), d.file = disk.file,
         d.ptr["active"] = disk.ptr["active"]
  PROVE  Settled(disk) => Settled(d)
  BY DEF Settled, SameRevisions

\* A manifest that can be read names a status.
LEMMA ReadableStatus ==
  ASSUME disk \in DiskType, NEW r \in Revs
  PROVE  /\ Readable(r) => disk.man[r].st \in Statuses
         /\ disk.man[r].st = "known-good" => Readable(r)
  <1>1. disk.man[r] \in Manifests
    BY DEF DiskType
  <1>2. NoManifest.st # "known-good" /\ Unreadable.st # "known-good"
    BY DEF NoManifest, Unreadable, Gone, Garbage
  <1> QED BY <1>1, <1>2 DEF Manifests, Readable

\* recoverInterruptedLocked chooses what the invariant allows, on any disk d
\* that differs from the one it read in other pointers only.
LEMMA InterruptedChoice ==
  ASSUME CInv, op.pc \in Starting, disk.ptr["active"] # Bad,
         NEW lkg, lkg # None => Target(disk, lkg),
         NEW d, SameRevisions(d), d.file = disk.file,
         d.ptr["active"] = disk.ptr["active"]
  PROVE  OpInv(d, Interrupted(lkg), agent) /\ LastInv(d, Interrupted(lkg))
  <1> DEFINE active == disk.ptr["active"]
             Good(o) == OpInv(d, o, agent) /\ LastInv(d, o)
  <1>1. /\ DiskInv(disk) /\ disk \in DiskType
        /\ last = "startup" => Settled(disk) /\ Settled(d)
    BY StartingFacts, SettledSame
  <1>2. active = None \/ active \in Revs
    BY <1>1, ActiveFacts, ConfigAssumption DEF Bad, None, Revs
  <1>3. Good(Go("start.fail"))
    BY <1>1, StartGoesOn DEF Accepting
  <1>4. active = None \/ Trusted(disk, active) => Good(Go("start.verify"))
    <2>1. None \notin Revs /\ "start.verify" \notin Accepting
      BY DEF None, Revs, Accepting
    <2> QED BY <1>1, <2>1, SameUse, StartGoesOn
  <1>5. active \in Revs /\ disk.man[active].st = "known-good" =>
          Good(Go("start.prev")) /\ Good(Go("start.promote"))
    BY <1>1, StartGoesOn DEF SameRevisions
  <1>6. last # "startup" => Good(restoreKnownGoodLocked(lkg))
    BY RestoreChoice
  <1>7. active # None =>
          /\ disk.man[active].st \notin {"rolled-back", Gone}
          /\ Readable(active) => disk.man[active].st \in Statuses
          /\ last = "startup" =>
               disk.man[active].st = "known-good" /\ Readable(active)
    BY <1>1, <1>2, ActiveFacts, ReadableStatus DEF Runnable, Settled
  <1>8. active \in Revs =>
          (active \in KnownGoodRevisions <=> disk.man[active].st = "known-good")
    BY DEF KnownGoodRevisions, KnownGoodIn
  <1> HIDE DEF Good
  <1>9. CASE active = None
    <2>1. Interrupted(lkg) = Go("start.verify")
      BY <1>9 DEF Interrupted
    <2> QED BY <1>4, <1>9, <2>1 DEF Good
  <1>10. CASE active # None /\ ~Readable(active)
    <2>1. Interrupted(lkg) = restoreKnownGoodLocked(lkg)
      BY <1>10 DEF Interrupted
    <2> QED BY <1>6, <1>7, <1>10, <2>1 DEF Good
  <1>11. CASE active # None /\ Readable(active) /\ active = lkg
    <2>1. Interrupted(lkg) = Go(IF active \in KnownGoodRevisions
                                THEN "start.verify" ELSE "start.fail")
      BY <1>11 DEF Interrupted
    <2>2. active \in KnownGoodRevisions => Trusted(disk, active)
      BY <1>2, <1>8, <1>11 DEF Trusted
    <2> QED BY <1>3, <1>4, <2>1, <2>2 DEF Good
  <1>12. CASE active # None /\ Readable(active) /\ active # lkg
    <2>1. CASE active \in KnownGoodRevisions
      <3>1. Interrupted(lkg) = Go(IF lkg = None THEN "start.promote" ELSE "start.prev")
        <4>1. disk.man[active].st \notin {"candidate", "validating", "failed"}
          BY <1>2, <1>8, <1>12, <2>1
        <4> QED BY <1>12, <2>1, <4>1 DEF Interrupted
      <3> QED BY <1>2, <1>5, <1>8, <1>12, <2>1, <3>1 DEF Good
    <2>2. CASE active \notin KnownGoodRevisions
      <3>1. disk.man[active].st \in {"candidate", "validating", "failed"}
        BY <1>2, <1>7, <1>8, <1>12, <2>2 DEF Statuses
      <3>2. Interrupted(lkg) = restoreKnownGoodLocked(lkg)
        BY <1>12, <2>2, <3>1 DEF Interrupted
      <3> QED BY <1>2, <1>6, <1>7, <1>8, <1>12, <2>2, <3>2 DEF Good
    <2> QED BY <2>1, <2>2
  <1> QED BY <1>9, <1>10, <1>11, <1>12

\* StartRecover.
LEMMA StartRecoverInv ==
  ASSUME CInv, StartRecover
  PROVE  CInv'
  <1>1. /\ op.pc = "start.recover" /\ op.pc \in Starting
        /\ UNCHANGED <<disk, created, agent, txn, damaged, proved, last>>
    BY DEF StartRecover, Starting, Reconciled
  <1>2. /\ DiskInv(disk) /\ SameRevisions(disk) /\ op \in OpType
        /\ last = "startup" => Settled(disk)
    BY <1>1, StartingFacts
  <1> DEFINE Good(o) == OpInv(disk, o, agent) /\ LastInv(disk, o)
  <1>3. CASE disk.ptr["active"] = Bad
    <2>1. last # "startup"
      BY <1>2, <1>3 DEF Settled, Bad, None, Revs
    <2>2. op' = repairKnownGoodLocked
      BY <1>3 DEF StartRecover
    <2> QED BY <1>1, <1>2, <2>1, <2>2, RestoreChoice, MoveInv
  <1>4. CASE disk.ptr["active"] # Bad /\ disk.ptr["lkg"] # Bad
    <2>1. disk.ptr["lkg"] # None => Target(disk, disk.ptr["lkg"])
      BY <1>2, <1>4, PointerFacts DEF PointerOrEmpty
    <2>2. op' = Interrupted(disk.ptr["lkg"])
      BY <1>4 DEF StartRecover
    <2>3. Good(Interrupted(disk.ptr["lkg"]))
      BY <1>1, <1>2, <1>4, <2>1, InterruptedChoice
    <2> QED BY <1>1, <2>2, <2>3, MoveInv
  <1>5. CASE disk.ptr["active"] # Bad /\ disk.ptr["lkg"] = Bad
    <2>1. CASE knownGoodForRepair = None
      <3>1. op' = Go("start.fail")
        BY <1>5, <2>1 DEF StartRecover
      <3>2. Good(Go("start.fail"))
        BY <1>1, <1>2, StartGoesOn DEF Accepting
      <3> QED BY <1>1, <3>1, <3>2, MoveInv
    <2>2. CASE knownGoodForRepair # None
      <3> DEFINE r == knownGoodForRepair
                 g == Go("start.lkg")
                 o == [g EXCEPT !.to = r]
      <3>1. op' = o
        BY <1>5, <2>2 DEF StartRecover
      <3>2. "start.lkg" \in Repairing
        BY DEF Repairing
      <3>3. g \in OpType /\ g.pc = "start.lkg"
        BY <1>2, <3>2, GoFacts, PlaceGroups
      <3>4. r \in 0 .. MaxRev /\ Target(disk, r)
        BY <2>2, RepairTarget
      <3> HIDE DEF r, g
      <3>5. o \in OpType /\ o.pc = "start.lkg" /\ o.to = r
        BY <3>3, <3>4 DEF OpType
      <3> HIDE DEF o
      <3>6. Good(o)
        BY <1>2, <1>5, <3>2, <3>4, <3>5, RepairGoesOn
      <3> QED BY <1>1, <3>1, <3>6, MoveInv
    <2> QED BY <2>1, <2>2
  <1> QED BY <1>3, <1>4, <1>5

\* The writes of a pointer while the active file may be the right one.
LEMMA StartPointsInv ==
  ASSUME CInv, StartRepairLKG \/ StartPrevious \/ StartPromote
  PROVE  CInv'
  <1>1. /\ op.pc \in Starting
        /\ StartPrevious \/ StartPromote => op.pc \in Accepting
    BY DEF StartRepairLKG, StartPrevious, StartPromote, Write, Starting,
           Repairing, Accepting
  <1>2. /\ DiskInv(disk) /\ SameRevisions(disk)
        /\ last = "startup" => Settled(disk)
        /\ {"lkg", "prev"} \subseteq Pointers \ {"active"}
        /\ "active" \in Pointers
    BY <1>1, StartingFacts DEF Pointers
  <1>3. ASSUME NEW p \in {"lkg", "prev"}, NEW r \in Bad .. MaxRev,
               Pointable(disk, p, r)
        PROVE  LET d == Point(p, r) IN
               /\ DiskInv(d) /\ SameRevisions(d) /\ d.file = disk.file
               /\ d.ptr["active"] = disk.ptr["active"]
               /\ last = "startup" => Settled(d)
               /\ OpInv(d, Go("start.fail"), agent)
               /\ LastInv(d, Go("start.fail"))
    <2> DEFINE d == Point(p, r)
    <2>1. /\ DiskInv(d) /\ SameRevisions(d) /\ d.file = disk.file
          /\ d.ptr["active"] = disk.ptr["active"]
      BY <1>2, <1>3, PointWrite
    <2> HIDE DEF d
    <2>2. last = "startup" => Settled(d)
      BY <1>2, <2>1, SettledSame
    <2>3. OpInv(d, Go("start.fail"), agent) /\ LastInv(d, Go("start.fail"))
      BY <1>1, <2>2, StartGoesOn DEF Accepting
    <2> QED BY <2>1, <2>2, <2>3 DEF d
  <1>4. OpInv(disk, Go("start.fail"), agent) /\ LastInv(disk, Go("start.fail"))
    BY <1>1, <1>2, StartGoesOn DEF Accepting
  <1>5. CASE StartRepairLKG
    <2> DEFINE d == Point("lkg", op.to)
    <2>1. op.pc = "start.lkg" /\ op.pc \in Repairing
      BY <1>5 DEF StartRepairLKG, Write, Repairing
    <2>2. /\ Target(disk, op.to) /\ op.to \in Bad .. MaxRev
          /\ Pointable(disk, "lkg", op.to) /\ disk.ptr["active"] # Bad
      BY <1>1, <2>1, StartingFacts DEF Pointable, CInv, OpInv
    <2>3. /\ DiskInv(d) /\ SameRevisions(d) /\ d.file = disk.file
          /\ d.ptr["active"] = disk.ptr["active"]
          /\ OpInv(d, Go("start.fail"), agent) /\ LastInv(d, Go("start.fail"))
      BY <1>3, <2>2
    <2>4. Write("start.lkg", d, Interrupted(op.to), Go("start.fail"))
      BY <1>5 DEF StartRepairLKG
    <2> HIDE DEF d
    <2>5. OpInv(d, Interrupted(op.to), agent) /\ LastInv(d, Interrupted(op.to))
      BY <1>1, <2>2, <2>3, InterruptedChoice
    <2> QED BY <1>4, <2>3, <2>4, <2>5, WriteInv
  <1>6. ASSUME StartPrevious \/ StartPromote
        PROVE  /\ disk.ptr["active"] \in Revs
               /\ disk.man[disk.ptr["active"]].st = "known-good"
    BY <1>1, <1>6 DEF CInv, OpInv
  <1>7. CASE StartPrevious
    <2> DEFINE d == Point("prev", disk.ptr["lkg"])
    <2>1. disk.ptr["lkg"] \in Bad .. MaxRev /\ Pointable(disk, "prev", disk.ptr["lkg"])
      BY <1>2, PointerFacts DEF DiskInv, Pointable
    <2>2. /\ DiskInv(d) /\ SameRevisions(d)
          /\ d.ptr["active"] = disk.ptr["active"]
          /\ last = "startup" => Settled(d)
          /\ OpInv(d, Go("start.fail"), agent) /\ LastInv(d, Go("start.fail"))
      BY <1>3, <2>1
    <2>3. Write("start.prev", d, Go("start.promote"), Go("start.fail"))
      BY <1>7 DEF StartPrevious
    <2> HIDE DEF d
    <2>4. OpInv(d, Go("start.promote"), agent) /\ LastInv(d, Go("start.promote"))
      BY <1>1, <1>6, <1>7, <2>2, StartGoesOn DEF SameRevisions
    <2> QED BY <1>4, <2>2, <2>3, <2>4, WriteInv
  <1>8. CASE StartPromote
    <2> DEFINE d == Point("lkg", disk.ptr["active"])
    <2>1. Trusted(disk, disk.ptr["active"])
      BY <1>6, <1>8 DEF Trusted
    <2>2. /\ disk.ptr["active"] \in Bad .. MaxRev
          /\ Pointable(disk, "lkg", disk.ptr["active"])
      BY <1>2, <2>1, ActiveFacts DEF Pointable, Target, Runnable
    <2>3. /\ DiskInv(d) /\ SameRevisions(d)
          /\ d.ptr["active"] = disk.ptr["active"]
          /\ last = "startup" => Settled(d)
          /\ OpInv(d, Go("start.fail"), agent) /\ LastInv(d, Go("start.fail"))
      BY <1>3, <2>2
    <2>4. Write("start.promote", d, Go("start.verify"), Go("start.fail"))
      BY <1>8 DEF StartPromote
    <2>5. "start.verify" \notin Accepting
      BY DEF Accepting
    <2> HIDE DEF d
    <2>6. OpInv(d, Go("start.verify"), agent) /\ LastInv(d, Go("start.verify"))
      BY <1>1, <2>1, <2>3, <2>5, SameUse, StartGoesOn
    <2> QED BY <1>4, <2>3, <2>4, <2>6, WriteInv
  <1> QED BY <1>5, <1>7, <1>8

\* The writes of a repair.
LEMMA StartRepairsInv ==
  ASSUME CInv, StartFile \/ StartActive \/ StartFix
  PROVE  CInv'
  <1>1. /\ op.pc \in Starting /\ op.pc \in Repairing /\ op.pc \notin Reconciled
    BY DEF StartFile, StartActive, StartFix, Write, Starting, Repairing,
           Reconciled
  <1>2. /\ op \in OpType /\ DiskInv(disk) /\ disk \in DiskType
        /\ SameRevisions(disk) /\ last # "startup"
        /\ Target(disk, op.to) /\ op.to \in Revs /\ op.to \in Bad .. MaxRev
        /\ Runnable(disk, op.to)
    BY <1>1, StartingFacts
  <1>3. \A d : OpInv(d, Go("start.fail"), agent) /\ LastInv(d, Go("start.fail"))
    BY <1>1, <1>2, StartGoesOn DEF Accepting
  <1>4. ASSUME NEW d, SameRevisions(d), d.ptr["active"] = op.to
        PROVE  /\ OpInv(d, Go("start.verify"), agent)
               /\ LastInv(d, Go("start.verify"))
    <2>1. Trusted(d, op.to) /\ "start.verify" \notin Accepting
      BY <1>2, <1>4, SameUse DEF Target, Accepting
    <2> QED BY <1>1, <1>2, <1>4, <2>1, StartGoesOn
  <1>5. ASSUME NEW d, SameRevisions(d), NEW l \in {"start.active", "start.fix"},
               l = "start.fix" => d.ptr["active"] = op.to
        PROVE  OpInv(d, Go(l), agent) /\ LastInv(d, Go(l))
    <2> DEFINE o == Go(l)
    <2>1. l \in Repairing /\ l # "start.lkg"
      BY DEF Repairing
    <2>2. o \in OpType /\ o.pc = l /\ o.to = op.to
      BY <1>2, <2>1, GoFacts, PlaceGroups
    <2>3. Target(d, op.to)
      BY <1>2, <1>5, SameUse
    <2> HIDE DEF o
    <2>4. OpInv(d, o, agent) /\ LastInv(d, o)
      BY <1>2, <1>5, <2>1, <2>2, <2>3, RepairGoesOn
    <2> QED BY <2>4 DEF o
  <1>6. CASE StartFile
    <2> DEFINE d == SetFile(disk.body[op.to])
    <2>1. disk.body[op.to] \in Texts
      BY <1>2 DEF DiskType
    <2>2. DiskInv(d) /\ SameRevisions(d)
      BY <1>2, <2>1, FileWrite
    <2>3. Write("start.file", d, Go("start.active"), Go("start.fail"))
      BY <1>6 DEF StartFile
    <2> HIDE DEF d
    <2>4. OpInv(d, Go("start.active"), agent) /\ LastInv(d, Go("start.active"))
      BY <1>5, <2>2
    <2> QED BY <1>3, <2>2, <2>3, <2>4, WriteInv
  <1>7. CASE StartActive
    <2> DEFINE d == Point("active", op.to)
               l == IF op.repair THEN "start.fix" ELSE "start.verify"
    <2>1. Pointable(disk, "active", op.to) /\ "active" \in Pointers
      BY <1>2 DEF Pointable, Pointers
    <2>2. DiskInv(d) /\ SameRevisions(d) /\ d.ptr["active"] = op.to
      BY <1>2, <2>1, PointWrite
    <2>3. Write("start.active", d, Go(l), Go("start.fail"))
      BY <1>7 DEF StartActive
    <2>4. l = "start.fix" \/ l = "start.verify"
      OBVIOUS
    <2> HIDE DEF d, l
    <2>5. OpInv(d, Go(l), agent) /\ LastInv(d, Go(l))
      BY <1>4, <1>5, <2>2, <2>4
    <2> QED BY <1>3, <2>2, <2>3, <2>5, WriteInv
  <1>8. CASE StartFix
    <2> DEFINE d == Point("lkg", op.to)
    <2>1. Pointable(disk, "lkg", op.to) /\ Pointers = {"active", "lkg", "prev"}
      BY <1>2 DEF Pointable, Pointers
    <2>2. disk.ptr["active"] = op.to
      BY <1>8 DEF StartFix, Write, CInv, OpInv
    <2>3. DiskInv(d) /\ SameRevisions(d) /\ d.ptr["active"] = op.to
      BY <1>2, <2>1, <2>2, PointWrite
    <2>4. Write("start.fix", d, Go("start.verify"), Go("start.fail"))
      BY <1>8 DEF StartFix
    <2> HIDE DEF d
    <2> QED BY <1>3, <1>4, <2>3, <2>4, WriteInv
  <1> QED BY <1>6, <1>7, <1>8

\* The active file is compared with its revision, which was promoted.
LEMMA StartVerifyInv ==
  ASSUME CInv, StartVerify
  PROVE  CInv'
  <1> DEFINE active == disk.ptr["active"]
  <1>1. /\ op.pc = "start.verify" /\ op.pc \in Starting
        /\ UNCHANGED <<disk, created, agent, txn, damaged, proved, last>>
    BY DEF StartVerify, Starting, Reconciled
  <1>2. /\ DiskInv(disk) /\ disk \in DiskType /\ SameRevisions(disk)
        /\ last = "startup" => Settled(disk)
    BY <1>1, StartingFacts
  <1>3. active \in Revs => Trusted(disk, active)
    BY <1>1 DEF CInv, OpInv
  <1>4. CASE \/ active = None
             \/ active \in Revs /\ Readable(active) /\ contentMatches(active, disk.file)
    <2>1. op' = Go("start.done")
      BY <1>4 DEF StartVerify
    <2>2. ASSUME active # None
          PROVE  disk.man[active].st = "known-good" /\ disk.man[active].sha = disk.file
      <3>1. disk.man[active].st \in Statuses /\ Trusted(disk, active)
        BY <1>2, <1>3, <1>4, <2>2, ReadableStatus
      <3> QED BY <1>4, <2>2, <3>1 DEF Trusted, Statuses, Garbage, contentMatches
    <2>3. Settled(disk)
      BY <1>4, <2>2 DEF Settled
    <2>4. OpInv(disk, Go("start.done"), agent) /\ LastInv(disk, Go("start.done"))
      BY <1>1, <2>3, StartGoesOn DEF Accepting
    <2> QED BY <1>1, <2>1, <2>4, MoveInv
  <1>5. CASE ~\/ active = None
              \/ active \in Revs /\ Readable(active) /\ contentMatches(active, disk.file)
    <2>1. op' = repairKnownGoodLocked
      BY <1>5 DEF StartVerify
    <2>2. last # "startup"
      BY <1>2, <1>5, ReadableStatus DEF Settled, contentMatches
    <2> QED BY <1>1, <1>2, <2>1, <2>2, RestoreChoice, MoveInv
  <1> QED BY <1>4, <1>5

\* A start-up ends, in failure or with the active file as it should be.
LEMMA StartEndsInv ==
  ASSUME CInv, StartFails \/ StartDone
  PROVE  CInv'
  <1>1. /\ op.pc \in Starting /\ op' = Idle
        /\ UNCHANGED <<disk, created, txn, damaged, proved>>
        /\ \/ agent' = [agent EXCEPT !.st = "failed"] /\ last' = last
           \/ agent' = [agent EXCEPT !.st = "load"] /\ op.pc = "start.done"
    BY DEF StartFails, StartDone, Starting, Reconciled
  <1>2. AgentInv'
    <2>1. /\ agent \in [st : {"down", "starting", "load", "up", "failed"},
                        content : Texts]
          /\ txn \in [rev : Texts, busy : BOOLEAN, under : Texts]
          /\ txn.busy => txn.under = txn.rev
      BY DEF CInv, AgentInv
    <2>2. /\ agent' \in [st : {"down", "starting", "load", "up", "failed"},
                         content : Texts]
          /\ agent'.st # "up"
      BY <1>1, <2>1
    <2> QED BY <1>1, <2>1, <2>2 DEF AgentInv
  <1>3. LastInv(disk, op)'
    <2>1. last' = "startup" => Settled(disk)
      BY <1>1, StartingFacts DEF CInv, OpInv
    <2>2. op'.pc \in Reconciled
      BY <1>1 DEF Idle, Reconciled
    <2> QED BY <1>1, <2>1, <2>2 DEF LastInv, Settled
  <1> QED BY <1>1, <1>2, <1>3, AtIdle, TakesInv

-----------------------------------------------------------------------------
(* The agent, deaths and damage. *)

\* The agent moves while the holder of the lock, if any, does not.
LEMMA AgentMoves ==
  ASSUME CInv, AgentInv', UNCHANGED <<disk, created, op, damaged, proved, last>>,
         op.pc \in Restarted /\ agent'.st = "up" => agent'.content = op.sha
  PROVE  CInv'
  <1>1. OpInv(disk, op, agent')
    BY DEF CInv, OpInv
  <1>2. LastInv(disk, op)'
    BY DEF CInv, LastInv, Settled
  <1> QED BY <1>1, <1>2, TakesInv

\* Operations that die release the lock, and leave the disk as it is.
LEMMA DiesInv ==
  ASSUME CInv, AgentInv', op' = Idle, UNCHANGED <<disk, created, damaged, proved>>,
         last' \in {last, "reboot"}
  PROVE  CInv'
  <1>1. last' = "startup" => Settled(disk)
    BY DEF CInv, LastInv
  <1>2. LastInv(disk, op)'
    BY <1>1 DEF LastInv, Settled, Idle, Reconciled
  <1> QED BY <1>2, AtIdle, TakesInv

\* Start-up of the agent.
LEMMA AgentStartInv ==
  ASSUME CInv, AgentStart
  PROVE  CInv'
  <1>1. /\ UNCHANGED <<disk, created, txn, damaged, proved, last>>
        /\ agent' \in {[Down EXCEPT !.st = "starting"], [Down EXCEPT !.st = "load"]}
    BY DEF AgentStart
  <1>2. AgentInv' /\ agent'.st # "up"
    BY <1>1 DEF CInv, AgentInv, Down, Texts
  <1>3. CASE UNCHANGED op
    BY <1>1, <1>2, <1>3, AgentMoves
  <1>4. CASE op' = Take("startup", "start.recover", None, Garbage) /\ op = Idle
    <2> DEFINE o == Take("startup", "start.recover", None, Garbage)
    <2>1. /\ "start.recover" \in Reconciled /\ "start.recover" \in Starting
          /\ "start.recover" \notin Repairing /\ "start.recover" \notin Accepting
          /\ None \in 0 .. MaxRev /\ Garbage \in Texts
      BY ConfigAssumption
      DEF Reconciled, Starting, Repairing, Accepting, None, Texts
    <2>2. o \in OpType /\ o.pc = "start.recover"
      BY <2>1, TakeFacts, PlaceGroups
    <2>3. op' = o
      BY <1>4
    <2> HIDE DEF o
    <2>4. OpInv(disk, o, agent')
      BY <2>1, <2>2, AtStarting
    <2>5. LastInv(disk, op)'
      <3>1. last = "startup" => Settled(disk)
        BY DEF CInv, LastInv
      <3> QED BY <1>1, <2>1, <2>2, <2>3, <3>1 DEF LastInv, Settled
    <2> QED BY <1>1, <1>2, <2>3, <2>4, <2>5, TakesInv
  <1> QED BY <1>3, <1>4 DEF AgentStart

\* The agent reads the active file and meets the power transaction.
LEMMA AgentLoadInv ==
  ASSUME CInv, AgentLoad
  PROVE  CInv'
  <1>1. UNCHANGED <<disk, created, op, damaged, proved, last>>
    BY DEF AgentLoad
  <1>2. /\ agent \in [st : {"down", "starting", "load", "up", "failed"},
                      content : Texts]
        /\ txn \in [rev : Texts, busy : BOOLEAN, under : Texts]
        /\ txn.busy => txn.under = txn.rev
        /\ disk.file \in Texts
    BY DEF CInv, AgentInv, DiskInv, DiskType
  <1>3. CASE /\ agent' = [st |-> "up", content |-> disk.file]
             /\ txn' = [txn EXCEPT !.rev = disk.file]
             /\ txn.busy => txn.rev = disk.file
    <2>0. /\ txn' \in [rev : Texts, busy : BOOLEAN, under : Texts]
          /\ txn'.rev = disk.file /\ txn'.busy = txn.busy /\ txn'.under = txn.under
      BY <1>2, <1>3
    <2>1. AgentInv' /\ agent'.content = disk.file
      BY <1>2, <1>3, <2>0 DEF AgentInv
    <2>2. op.pc \in Restarted => disk.file = op.sha
      BY DEF CInv, OpInv, Filed, Restarted
    <2> QED BY <1>1, <2>1, <2>2, AgentMoves
  <1>4. CASE agent' = [Down EXCEPT !.st = "failed"] /\ UNCHANGED txn
    <2>1. agent' = [st |-> "failed", content |-> Garbage] /\ Garbage \in Texts
      BY <1>4 DEF Down, Texts
    <2>2. /\ agent' \in [st : {"down", "starting", "load", "up", "failed"},
                         content : Texts]
          /\ agent'.st # "up"
      BY <2>1
    <2>3. txn' = txn
      BY <1>4
    <2>4. AgentInv'
      BY <1>2, <2>2, <2>3 DEF AgentInv
    <2> QED BY <1>1, <2>2, <2>4, AgentMoves
  <1> QED BY <1>3, <1>4 DEF AgentLoad, Accepts

\* A power transaction begins under the agent's configuration, and ends.
LEMMA TransactionInv ==
  ASSUME CInv, Outage \/ TransactionEnds
  PROVE  CInv'
  <1>1. /\ UNCHANGED <<disk, created, op, agent, damaged, proved, last>>
        /\ agent.st = "up"
        /\ \/ txn' = [txn EXCEPT !.busy = TRUE, !.under = agent.content]
           \/ txn' = [txn EXCEPT !.busy = FALSE, !.under = Garbage]
    BY DEF Outage, TransactionEnds
  <1>2. /\ agent \in [st : {"down", "starting", "load", "up", "failed"},
                      content : Texts]
        /\ txn \in [rev : Texts, busy : BOOLEAN, under : Texts]
        /\ txn.rev = agent.content /\ Garbage \in Texts
    BY <1>1 DEF CInv, AgentInv, Texts
  <1>3. CASE txn' = [txn EXCEPT !.busy = TRUE, !.under = agent.content]
    <2>1. /\ txn' \in [rev : Texts, busy : BOOLEAN, under : Texts]
          /\ txn'.rev = txn.rev /\ txn'.under = txn.rev
      BY <1>2, <1>3
    <2>2. AgentInv'
      BY <1>1, <1>2, <2>1 DEF AgentInv
    <2> QED BY <1>1, <2>2, AgentMoves DEF CInv, OpInv
  <1>4. CASE txn' = [txn EXCEPT !.busy = FALSE, !.under = Garbage]
    <2>1. /\ txn' \in [rev : Texts, busy : BOOLEAN, under : Texts]
          /\ txn'.rev = txn.rev /\ ~txn'.busy
      BY <1>2, <1>4
    <2>2. AgentInv'
      BY <1>1, <1>2, <2>1 DEF AgentInv
    <2> QED BY <1>1, <2>2, AgentMoves DEF CInv, OpInv
  <1> QED BY <1>1, <1>3, <1>4

\* Deaths of the agent, of an operation, of the host.
LEMMA DeathsInv ==
  ASSUME CInv, AgentDies \/ WorkerDies \/ Reboot
  PROVE  CInv'
  <1>1. /\ UNCHANGED <<disk, created, txn, damaged, proved>>
        /\ agent' \in {agent, Down} /\ last' \in {last, "reboot"}
        /\ op' = Idle \/ (op' = op /\ agent' = Down /\ last' = last)
    BY DEF AgentDies, WorkerDies, Reboot
  <1>2. AgentInv' /\ Down.st # "up"
    BY <1>1 DEF CInv, AgentInv, Down, Texts
  <1>3. CASE op' = Idle
    BY <1>1, <1>2, <1>3, DiesInv
  <1>4. CASE op' = op /\ agent' = Down /\ last' = last
    BY <1>1, <1>2, <1>4, AgentMoves
  <1> QED BY <1>1, <1>3, <1>4

\* Damage takes away only what DiskInv says of an undamaged disk.
LEMMA DamageInv ==
  ASSUME CInv, Damage
  PROVE  CInv'
  <1>1. /\ op = Idle /\ damaged' /\ last' = "change"
        /\ UNCHANGED <<created, op, agent, txn, proved>>
    BY DEF Damage
  <1>2. DiskInv(disk) /\ disk \in DiskType /\ created \in 0 .. MaxRev
    BY DEF CInv, DiskInv
  <1>3. Bad \in Bad .. MaxRev /\ Garbage \in Texts /\ Unreadable \in Manifests
        /\ Unreadable.st = Garbage /\ Unreadable # NoManifest
        /\ Garbage \notin {"known-good", "rolled-back", Gone}
    BY ConfigAssumption
    DEF Bad, Texts, Manifests, Unreadable, NoManifest, Garbage, Gone
  <1>4. /\ disk' \in DiskType
        /\ \A p \in Pointers : disk'.ptr[p] = disk.ptr[p] \/ disk'.ptr[p] = Bad
        /\ \A r \in Revs :
             /\ disk'.man[r] = disk.man[r]
                  \/ (disk'.man[r] = Unreadable /\ disk.man[r] # NoManifest)
             /\ disk'.body[r] = disk.body[r] \/ disk.body[r] # Gone
    <2>1. CASE \E p \in Pointers : disk' = Point(p, Bad)
      BY <1>2, <1>3, <2>1 DEF Point, DiskType
    <2>2. CASE \E r \in Revs : Readable(r) /\ disk' = [disk EXCEPT !.man[r] = Unreadable]
      BY <1>2, <1>3, <2>2 DEF Readable, DiskType
    <2>3. CASE \E r \in Revs : disk.body[r] # Gone /\ disk' = SetBody(r, Garbage)
      BY <1>2, <1>3, <2>3 DEF SetBody, DiskType
    <2>4. CASE \E c \in Contents \cup {Garbage} : disk' = SetFile(c)
      BY <1>2, <1>3, <2>4 DEF SetFile, DiskType, Texts
    <2> QED BY <2>1, <2>2, <2>3, <2>4 DEF Damage
  <1>5. DiskInv(disk)'
    <2>1. \A r \in Revs : r > created' => disk'.man[r] = NoManifest /\ disk'.body[r] = Gone
      BY <1>1, <1>2, <1>4 DEF DiskInv
    <2>2. \A r \in Revs : disk'.man[r].st = "known-good" => disk'.man[r].sha \in proved'
      BY <1>1, <1>2, <1>3, <1>4 DEF DiskInv
    <2>3. ASSUME NEW p \in Pointers
          PROVE  Pointable(disk, p, disk.ptr[p])'
      <3>1. CASE disk'.ptr[p] = Bad
        BY <1>1, <3>1, ConfigAssumption DEF Pointable, Runnable, Bad, Revs, None
      <3>2. CASE disk'.ptr[p] = disk.ptr[p]
        <4>1. Pointable(disk, p, disk.ptr[p])
          BY <1>2 DEF DiskInv
        <4>2. CASE p = "active"
          BY <1>1, <1>3, <1>4, <3>2, <4>1, <4>2 DEF Pointable, Runnable
        <4>3. CASE p # "active"
          BY <1>1, <1>3, <1>4, <3>2, <4>1, <4>3
          DEF Pointable, Target, Trusted
        <4> QED BY <4>2, <4>3
      <3> QED BY <1>4, <3>1, <3>2
    <2> QED BY <1>1, <1>4, <2>1, <2>2, <2>3 DEF DiskInv
  <1>6. OpInv(disk, op, agent)'
    <2>1. op' = Idle /\ Idle \in OpType /\ Idle.pc = "free"
      BY <1>1, AtIdle DEF Idle, OpInv
    <2> QED
      BY <2>1 DEF OpInv, Beginning, Trying, Filed, Restarted, Promoting,
         RollingBack, RolledBack, Manual, Repairing, Accepting
  <1>7. LastInv(disk, op)' /\ AgentInv' /\ (created \in 0 .. MaxRev)'
    BY <1>1, <1>2 DEF LastInv, CInv, AgentInv
  <1> QED BY <1>5, <1>6, <1>7 DEF CInv

-----------------------------------------------------------------------------
(* The specification. *)

\* The installed configuration, without history.
LEMMA InitInv ==
  ASSUME Init
  PROVE  CInv
  <1>1. /\ created = 0 /\ op = Idle /\ last = "change" /\ ~damaged
        /\ agent = Down
        /\ txn = [rev |-> Installed, busy |-> FALSE, under |-> Garbage]
    BY DEF Init
  <1>2. NoManifest \in Manifests /\ NoManifest.st = Gone /\ Gone \in Texts
        /\ Gone \notin Statuses /\ None \in Bad .. MaxRev
    BY ConfigAssumption DEF Manifests, NoManifest, Texts, Gone, Statuses, None, Bad
  <1>3. /\ disk.file \in Texts
        /\ disk.ptr = [p \in Pointers |-> None]
        /\ disk.man = [r \in Revs |-> NoManifest]
        /\ disk.body = [r \in Revs |-> Gone]
        /\ disk = [file |-> disk.file, ptr |-> disk.ptr, man |-> disk.man,
                   body |-> disk.body]
    BY ConfigAssumption DEF Init, Texts
  <1>4. disk \in DiskType
    BY <1>2, <1>3 DEF DiskType
  <1>5. DiskInv(disk)
    BY <1>2, <1>3, <1>4 DEF DiskInv, Pointable, Statuses
  <1>6. OpInv(disk, op, agent) /\ LastInv(disk, op)
    BY <1>1, AtIdle DEF LastInv
  <1>7. AgentInv
    BY <1>1, ConfigAssumption DEF AgentInv, Down, Texts
  <1>8. created \in 0 .. MaxRev
    BY <1>1, ConfigAssumption
  <1> QED BY <1>5, <1>6, <1>7, <1>8 DEF CInv

\* Every step keeps the invariant.
LEMMA NextInv ==
  ASSUME CInv, [Next]_vars
  PROVE  CInv'
  <1>1. CASE \E c \in Contents : Begin(c)
    BY <1>1, BeginInv
  <1>2. CASE Bootstrap
    BY <1>2, BootstrapInv
  <1>3. CASE \E r \in Revs : Activate(r) \/ Rollback(r)
    BY <1>3, ActivateInv, RollbackBeginsInv
  <1>4. CASE HolderStep
    <2>1. CASE BootstrapActive \/ BeginBody \/ BeginManifest
      BY <2>1, BootstrapActiveInv, BeginWritesInv
    <2>2. CASE \/ failLocked \/ ActivateFile \/ ActivatePointer
               \/ ActivateValidating \/ ActivateApply \/ ActivateAwait
               \/ ActivateHealthy \/ Probation
      BY <2>2, TrialEndsInv, ActivateFileInv, ActivateRunInv, ProbationInv
    <2>3. CASE \/ promoteLocked \/ PromotePrevious \/ PromoteLKG
               \/ PromoteActive \/ pruneRevisionsLocked
      BY <2>3, PromoteManifestInv, PromoteInv, PruneInv
    <2>4. CASE rollbackLocked
      BY <2>4, RollbackManifestInv, RollbackInv, TrialEndsInv DEF rollbackLocked
    <2>5. CASE ManualRollback
      BY <2>5, ManualWritesInv, ManualRunInv DEF ManualRollback
    <2>6. CASE RecoverForStartup
      BY <2>6, StartRecoverInv, StartPointsInv, StartRepairsInv, StartVerifyInv,
         StartEndsInv DEF RecoverForStartup
    <2> QED BY <1>4, <2>1, <2>2, <2>3, <2>4, <2>5, <2>6 DEF HolderStep
  <1>5. CASE Expire
    BY <1>5, ExpireInv
  <1>6. CASE AgentStart \/ AgentLoad \/ Outage \/ TransactionEnds
    BY <1>6, AgentStartInv, AgentLoadInv, TransactionInv
  <1>7. CASE AgentDies \/ WorkerDies \/ Reboot \/ Damage
    BY <1>7, DeathsInv, DamageInv
  <1>8. CASE UNCHANGED vars
    <2>1. UNCHANGED <<disk, created, op, agent, txn, damaged, proved, last>>
      BY <1>8 DEF vars
    <2> QED BY <2>1, MoveInv DEF CInv
  <1> QED BY <1>1, <1>2, <1>3, <1>4, <1>5, <1>6, <1>7, <1>8 DEF Next

\* The invariant holds in every reachable state.
THEOREM ConfigInvariance == Spec => []CInv
  <1>1. Init => CInv
    BY InitInv
  <1>2. CInv /\ [Next]_vars => CInv'
    BY NextInv
  <1> QED BY <1>1, <1>2, PTL DEF Spec

\* revision.go promoteLocked, rollbackLocked and Rollback, revision_maintenance.go
\* pruneRevisionsLocked: without damage both rollback targets are known-good with
\* intact content, and the active pointer names a readable revision, whatever
\* operation dies or fails wherever.
THEOREM TargetsStayIntact == Spec => []RollbackTargetsIntact
  <1>1. CInv => RollbackTargetsIntact
    <2> SUFFICES ASSUME CInv, ~damaged
                 PROVE  /\ \A p \in {"lkg", "prev"} :
                             disk.ptr[p] # None => Verified(disk.ptr[p])
                        /\ disk.ptr["active"] # None => Readable(disk.ptr["active"])
      BY DEF RollbackTargetsIntact
    <2>1. DiskInv(disk)
      BY DEF CInv
    <2>2. ASSUME NEW p \in {"lkg", "prev"}, disk.ptr[p] # None
          PROVE  Verified(disk.ptr[p])
      <3>1. Target(disk, disk.ptr[p])
        BY <2>1, <2>2 DEF DiskInv, Pointable, Pointers
      <3> QED BY <3>1 DEF Target, Trusted, Whole, Statuses, Garbage, Verified,
              KnownGoodRevisions, KnownGoodIn, contentMatches
    <2>3. ASSUME disk.ptr["active"] # None
          PROVE  Readable(disk.ptr["active"])
      <3>1. disk.man[disk.ptr["active"]].st \in Statuses
        BY <2>1, <2>3, ActiveFacts DEF Runnable, Whole
      <3> QED BY <3>1 DEF Readable, NoManifest, Unreadable, Statuses, Gone, Garbage
    <2> QED BY <2>2, <2>3
  <1> QED BY <1>1, ConfigInvariance, PTL

\* revision.go ActivateAndValidate: a known-good revision was run, in exactly its
\* content, through the probation or the installation, even when the disk is
\* damaged.
THEOREM KnownGoodIsProved == Spec => []KnownGoodWasProved
  <1>1. CInv => KnownGoodWasProved
    BY DEF CInv, DiskInv, KnownGoodWasProved, KnownGoodRevisions, KnownGoodIn
  <1> QED BY <1>1, ConfigInvariance, PTL

\* armed.go 65: the agent that acts on a power transaction runs the configuration
\* under which it began.
THEOREM TransactionConfigKept == Spec => []TransactionKeepsConfig
  <1>1. CInv => TransactionKeepsConfig
    BY DEF CInv, AgentInv, TransactionKeepsConfig
  <1> QED BY <1>1, ConfigInvariance, PTL

\* runtime.go 92: an agent that starts after a reconciliation, with no change
\* since, executes a known-good configuration only, damaged history or not.
THEOREM ReconciledStartRuns == Spec => ReconciledStartIsKnownGood
  <1> DEFINE A == AgentLoad /\ agent'.st = "up" /\ last = "startup"
                    /\ disk.ptr["active"] # None =>
                  \E r \in KnownGoodRevisions : contentMatches(r, agent'.content)
  <1>1. CInv => A
    <2> SUFFICES ASSUME CInv, AgentLoad, agent'.st = "up", last = "startup",
                        disk.ptr["active"] # None
                 PROVE  \E r \in KnownGoodRevisions : contentMatches(r, agent'.content)
      OBVIOUS
    <2> DEFINE r == disk.ptr["active"]
    <2>1. /\ r \in Revs /\ disk.man[r].st = "known-good"
          /\ disk.man[r].sha = disk.file
      BY DEF CInv, LastInv, Settled
    <2>2. agent'.content = disk.file
      BY DEF AgentLoad, Down
    <2> HIDE DEF r
    <2>3. r \in KnownGoodRevisions
      BY <2>1 DEF KnownGoodRevisions, KnownGoodIn
    <2>4. contentMatches(r, agent'.content)
      BY <2>1, <2>2 DEF contentMatches
    <2> QED BY <2>3, <2>4
  <1>2. CInv /\ [Next]_vars => [A]_vars
    BY <1>1
  <1> HIDE DEF A
  <1>3. Spec => [][A]_vars
    BY <1>2, ConfigInvariance, PTL DEF Spec
  <1> QED BY <1>3 DEF A, ReconciledStartIsKnownGood
=============================================================================
