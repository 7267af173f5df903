--------------------------- MODULE ConfigRevision ---------------------------
(***************************************************************************)
(* The transactional configuration of the agent: config/revision.go,       *)
(* startup.go, revision_maintenance.go, lock_try.go, bootstrap.go and      *)
(* status.go, the restart and health check of control/config_runtime.go,   *)
(* the commands of cockpit-ups-wolctl that call them, and the start of the *)
(* agent (app/runtime.go LoadAndRun), which reconciles the history, loads  *)
(* the active file and meets the durable power transaction                 *)
(* (app/armed.go 50-78).                                                   *)
(*                                                                         *)
(* The history lock admits one operation at a time, so "op" is the program *)
(* of the lock's holder, one step per writeAtomic, restart or health check.*)
(* Death, expiry of the operation's context and start-ups of the agent     *)
(* fall between any two steps.                                             *)
(*                                                                         *)
(* Simplifications.  A revision is the number of its creation, the order   *)
(* of CreatedAt.  A content stands for its SHA-256 and for the revision    *)
(* armed.go computes from it.  writeAtomic is atomic: it takes effect, or  *)
(* not, and may report an error in both cases.  Every content that parses  *)
(* asks for mode armed.                                                    *)
(***************************************************************************)
EXTENDS Integers, FiniteSets, FiniteSetsExt

CONSTANTS Contents,     \* configurations that parse
          Broken,       \* those with which the agent exits before READY
          Installed,    \* the configuration the installer wrote
          MaxRev,       \* bound on revisions created
          Keep,         \* RevisionKeep
          MaxMishaps,   \* bound on failed writes, expiries, missed answers, deaths and damage
          MaxOutages    \* bound on power transactions

ASSUME ConfigAssumption ==
  /\ Broken \subseteq Contents
  /\ Installed \in Contents \ Broken
  /\ MaxRev \in Nat /\ Keep \in Nat \ {0}
  /\ MaxMishaps \in Nat /\ MaxOutages \in Nat

VARIABLES disk,     \* active file, pointers, manifests and bodies of revisions
          created,  \* revision ids handed out
          op,       \* what the holder of the history lock is doing
          agent,    \* the agent process
          txn,      \* the durable power transaction: configuration, in progress;
                    \* under is history: what the agent ran when it began
          mishaps, outages,
          damaged,  \* history: some file was damaged or edited
          proved,   \* history: contents an agent ran through probation or installation
          last      \* history: what last decided about the active file

vars == <<disk, created, op, agent, txn, mishaps, outages, damaged, proved, last>>
Mishap == mishaps < MaxMishaps /\ mishaps' = mishaps + 1

Revs == 1..MaxRev
None == 0        \* a pointer that is missing or empty
Bad == -1        \* a pointer that is not a revision id
Garbage == "garbage"
Gone == "gone"
Pointers == {"active", "lkg", "prev"}
\* A manifest holds the status of its revision and the digest of its content.
NoManifest == [st |-> Gone, sha |-> Garbage]
Unreadable == [st |-> Garbage, sha |-> Garbage]

Idle == [kind |-> "none", pc |-> "free", rev |-> None, sha |-> Garbage, to |-> None,
         oldA |-> None, oldL |-> None, late |-> FALSE, repair |-> FALSE, victims |-> {}]
Down == [st |-> "down", content |-> Garbage]

Init ==
  /\ disk = [file |-> Installed, ptr |-> [p \in Pointers |-> None],
             man |-> [r \in Revs |-> NoManifest], body |-> [r \in Revs |-> Gone]]
  /\ created = 0
  /\ op = Idle
  /\ agent = Down
  /\ txn = [rev |-> Installed, busy |-> FALSE, under |-> Garbage]
  /\ mishaps = 0 /\ outages = 0 /\ damaged = FALSE
  /\ proved = {}
  /\ last = "change"

---------------------------------------------------------------------------
(* Files                                                                   *)

SetFile(c) == [disk EXCEPT !.file = c]
Point(p, r) == [disk EXCEPT !.ptr[p] = r]
Mark(r, s) == [disk EXCEPT !.man[r] = [st |-> s, sha |-> op.sha]]
SetBody(r, c) == [disk EXCEPT !.body[r] = c]

\* readPointer with its error dropped.
PointerOrEmpty(p) == IF disk.ptr[p] = Bad THEN None ELSE disk.ptr[p]

Readable(r) == disk.man[r] \notin {NoManifest, Unreadable}
KnownGoodIn(d) == {r \in Revs : d.man[r].st = "known-good"}
KnownGoodRevisions == KnownGoodIn(disk)
contentMatches(r, c) == disk.man[r].sha = c
Verified(r) == r \in KnownGoodRevisions /\ contentMatches(r, disk.body[r])

knownGoodForRepair ==
  LET good == {r \in Revs : Verified(r)}
  IN  IF PointerOrEmpty("lkg") \in good THEN PointerOrEmpty("lkg")
      ELSE IF good = {} THEN None ELSE Max(good)

\* Name_bug, here and below: Name with a plausible error, used by no module.
Prunable_protectsActive(d) ==
  LET kg == KnownGoodIn(d)
      newest == {r \in kg : Cardinality({q \in kg : q > r}) < Keep}
  IN  IF \E p \in Pointers : d.ptr[p] = Bad THEN {}
      ELSE kg \ (newest \cup {d.ptr["active"]})

\* The revisions pruneRevisionsLocked deletes: none when a pointer is unreadable.
Prunable(d) ==
  LET kg == KnownGoodIn(d)
      newest == {r \in kg : Cardinality({q \in kg : q > r}) < Keep}
  IN  IF \E p \in Pointers : d.ptr[p] = Bad THEN {}
      ELSE kg \ (newest \cup {d.ptr[p] : p \in Pointers})

---------------------------------------------------------------------------
(* Steps of the lock's holder                                              *)

Go(l) == [op EXCEPT !.pc = l]
Take(kind, l, r, c) == [Idle EXCEPT !.kind = kind, !.pc = l, !.rev = r, !.sha = c]

\* writeAtomic at place l: d takes effect and the operation goes on with ok, or
\* the call reports an error, with or without effect.
Write(l, d, ok, err) ==
  /\ op.pc = l
  /\ \/ disk' = d /\ op' = ok /\ UNCHANGED mishaps
     \/ Mishap /\ disk' \in {d, disk} /\ op' = err
  /\ UNCHANGED <<created, agent, txn, outages, damaged, proved, last>>

\* ServiceRuntime.Apply: systemctl restart does not return before the agent is
\* READY or has failed to start; with an expired context it is not even run.
Apply(l, wait, err) ==
  /\ op.pc = l
  /\ IF op.late THEN op' = err /\ UNCHANGED agent ELSE op' = wait /\ agent' = Down
  /\ UNCHANGED <<disk, created, txn, mishaps, outages, damaged, proved, last>>

Await(l, ok, err) ==
  /\ op.pc = l
  /\ \/ agent.st = "up" /\ op' = ok
     \/ (agent.st = "failed" \/ op.late) /\ op' = err
  /\ UNCHANGED <<disk, created, agent, txn, mishaps, outages, damaged, proved, last>>

\* ServiceRuntime.Healthy: some agent answers on the socket before the timeout.
Healthy(l, ok, err) ==
  /\ op.pc = l
  /\ \/ agent.st = "up" /\ ~op.late /\ op' = ok /\ UNCHANGED mishaps
     \/ (agent.st # "up" \/ op.late) /\ op' = err /\ UNCHANGED mishaps
     \/ agent.st = "up" /\ Mishap /\ op' = err
  /\ UNCHANGED <<disk, created, agent, txn, outages, damaged, proved, last>>

\* The 3-minute (activation) or 45-second (rollback) context of the command.
Expire ==
  /\ op.kind \in {"activate", "rollback"} /\ ~op.late /\ Mishap
  /\ op' = [op EXCEPT !.late = TRUE]
  /\ UNCHANGED <<disk, created, agent, txn, outages, damaged, proved, last>>

---------------------------------------------------------------------------
(* Begin and BootstrapKnownGood                                            *)

Begin(c) ==
  /\ op = Idle /\ created < MaxRev
  /\ created' = created + 1
  /\ op' = Take("begin", "begin.body", created + 1, c)
  /\ UNCHANGED <<disk, agent, txn, mishaps, outages, damaged, proved, last>>

\* The installer's health gate: the agent it restarted on the file it installed
\* stays up for the probation.
InstallerProbation == agent.st = "up" /\ agent.content = disk.file

\* config-bootstrap checks nothing of the agent itself: its only caller in the
\* repository is the installer, after the health gate.  With a last-known-good
\* it only points active back at it.
Bootstrap ==
  /\ op = Idle
  /\ InstallerProbation
  /\ last' = "change"
  /\ \/ /\ disk.ptr["lkg"] = None /\ created < MaxRev
        /\ created' = created + 1
        /\ op' = Take("bootstrap", "begin.body", created + 1, disk.file)
        /\ proved' = proved \cup {disk.file}
     \/ /\ disk.ptr["lkg"] \in KnownGoodRevisions
        /\ contentMatches(disk.ptr["lkg"], disk.file)
        /\ op' = [Take("bootstrap", "bootstrap.active", None, Garbage) EXCEPT !.to = disk.ptr["lkg"]]
        /\ UNCHANGED <<created, proved>>
  /\ UNCHANGED <<disk, agent, txn, mishaps, outages, damaged>>

BootstrapActive == Write("bootstrap.active", Point("active", op.to), Idle, Idle)

BeginBody == Write("begin.body", SetBody(op.rev, op.sha), Go("begin.manifest"), Idle)

BeginManifest ==
  Write("begin.manifest", Mark(op.rev, "candidate"),
        IF op.kind = "bootstrap" THEN Go("promote.manifest") ELSE Idle, Idle)

---------------------------------------------------------------------------
(* ActivateAndValidate                                                     *)

Activate(r) ==
  /\ op = Idle
  /\ disk.man[r].st \in {"candidate", "validating"} /\ disk.body[r] # Gone
  /\ op' = Take("activate", IF contentMatches(r, disk.body[r]) THEN "activate.file" ELSE "activate.fail",
                r, disk.man[r].sha)
  /\ last' = "change"
  /\ UNCHANGED <<disk, created, agent, txn, mishaps, outages, damaged, proved>>

failLocked == Write("activate.fail", Mark(op.rev, "failed"), Idle, Idle)

ActivateFile == Write("activate.file", SetFile(op.sha), Go("activate.active"), Go("activate.fail"))
ActivatePointer ==
  Write("activate.active", Point("active", op.rev), Go("activate.validating"), Go("rollback.manifest"))
ActivateValidating ==
  Write("activate.validating", Mark(op.rev, "validating"), Go("activate.apply"), Idle)
ActivateApply_noRestart ==
  /\ op.pc = "activate.apply"
  /\ op' = Go(IF op.late THEN "rollback.manifest" ELSE "activate.await")
  /\ UNCHANGED <<disk, created, agent, txn, mishaps, outages, damaged, proved, last>>
ActivateApply == Apply("activate.apply", Go("activate.await"), Go("rollback.manifest"))
ActivateAwait == Await("activate.await", Go("activate.healthy"), Go("rollback.manifest"))
ActivateHealthy == Healthy("activate.healthy", Go("activate.probation"), Go("rollback.manifest"))

\* The last health check of the probation; an earlier failure is the same error.
Probation ==
  /\ op.pc = "activate.probation"
  /\ \/ /\ agent.st = "up" /\ ~op.late
        /\ op' = Go("promote.manifest")
        /\ proved' = proved \cup {agent.content}
        /\ UNCHANGED mishaps
     \/ /\ agent.st # "up" \/ op.late
        /\ op' = Go("rollback.manifest") /\ UNCHANGED <<proved, mishaps>>
     \/ /\ Mishap
        /\ op' = Go("rollback.manifest") /\ UNCHANGED proved
  /\ UNCHANGED <<disk, created, agent, txn, outages, damaged, last>>

promoteLocked ==
  Write("promote.manifest", Mark(op.rev, "known-good"),
        Go(IF PointerOrEmpty("lkg") \in {None, op.rev} THEN "promote.lkg" ELSE "promote.prev"), Idle)
PromotePrevious ==
  Write("promote.prev", Point("prev", disk.ptr["lkg"]), Go("promote.lkg"), Idle)
PromoteLKG == Write("promote.lkg", Point("lkg", op.rev), Go("promote.active"), Idle)
PromoteActive ==
  LET d == Point("active", op.rev)
  IN  Write("promote.active", d,
            IF Prunable(d) = {} THEN Idle ELSE [Go("prune") EXCEPT !.victims = Prunable(d)], Idle)

\* os.RemoveAll deletes the files of a revision one by one; its failure is only
\* a warning.
pruneRevisionsLocked ==
  /\ op.pc = "prune"
  /\ \/ \E r \in op.victims : \E d \in {SetBody(r, Gone), [disk EXCEPT !.man[r] = NoManifest]} :
          /\ d # disk
          /\ disk' = d
          /\ LET left == {q \in op.victims : d.body[q] # Gone \/ d.man[q] # NoManifest}
             IN  op' = IF left = {} THEN Idle ELSE [op EXCEPT !.victims = left]
          /\ UNCHANGED mishaps
     \/ Mishap /\ op' = Idle /\ UNCHANGED disk
  /\ UNCHANGED <<created, agent, txn, outages, damaged, proved, last>>

---------------------------------------------------------------------------
(* rollbackLocked: a rejected candidate                                    *)

RollbackManifest ==
  LET lkg == PointerOrEmpty("lkg")
      next == IF lkg = None \/ disk.body[lkg] = Gone THEN Idle
              ELSE [Go("rollback.file") EXCEPT !.to = lkg]
  IN  Write("rollback.manifest", Mark(op.rev, "failed"), next, next)
RollbackFile == Write("rollback.file", SetFile(disk.body[op.to]), Go("rollback.active"), Idle)
RollbackActive == Write("rollback.active", Point("active", op.to), Go("rollback.apply"), Idle)
RollbackApply == Apply("rollback.apply", Go("rollback.await"), Idle)
RollbackAwait == Await("rollback.await", Go("rollback.healthy"), Idle)
RollbackHealthy == Healthy("rollback.healthy", Go("rollback.done"), Idle)
RollbackDone == Write("rollback.done", Mark(op.rev, "rolled-back"), Idle, Idle)

rollbackLocked ==
  \/ RollbackManifest \/ RollbackFile \/ RollbackActive
  \/ RollbackApply \/ RollbackAwait \/ RollbackHealthy \/ RollbackDone

---------------------------------------------------------------------------
(* Rollback: the operator's choice of a known-good revision                *)

Rollback(r) ==
  /\ op = Idle /\ Verified(r)
  /\ op' = [Take("rollback", "manual.file", r, disk.man[r].sha)
            EXCEPT !.oldA = PointerOrEmpty("active"), !.oldL = PointerOrEmpty("lkg")]
  /\ last' = "change"
  /\ UNCHANGED <<disk, created, agent, txn, mishaps, outages, damaged, proved>>

\* Where restoreAfterManualRollbackFailure begins.
Restoring ==
  IF op.oldA = None \/ disk.body[op.oldA] = Gone THEN Idle ELSE Go("restore.file")

ManualFile == Write("manual.file", SetFile(op.sha), Go("manual.active"), Idle)
ManualActive == Write("manual.active", Point("active", op.rev), Go("manual.apply"), Idle)
ManualApply == Apply("manual.apply", Go("manual.await"), Restoring)
ManualAwait == Await("manual.await", Go("manual.healthy"), Restoring)
ManualHealthy ==
  Healthy("manual.healthy", Go(IF op.oldL \in {None, op.rev} THEN "manual.lkg" ELSE "manual.prev"), Restoring)
ManualPrevious == Write("manual.prev", Point("prev", op.oldL), Go("manual.lkg"), Idle)
ManualLKG == Write("manual.lkg", Point("lkg", op.rev), Idle, Idle)

RestoreFile == Write("restore.file", SetFile(disk.body[op.oldA]), Go("restore.active"), Idle)
RestoreActive ==
  LET next == Go(IF op.oldL = None THEN "restore.apply" ELSE "restore.lkg")
  IN  Write("restore.active", Point("active", op.oldA), next, next)
RestoreLKG == Write("restore.lkg", Point("lkg", op.oldL), Go("restore.apply"), Go("restore.apply"))
RestoreApply == Apply("restore.apply", Go("restore.await"), Idle)
RestoreAwait == Await("restore.await", Go("restore.healthy"), Idle)
RestoreHealthy == Healthy("restore.healthy", Idle, Idle)

ManualRollback ==
  \/ ManualFile \/ ManualActive \/ ManualApply \/ ManualAwait \/ ManualHealthy
  \/ ManualPrevious \/ ManualLKG
  \/ RestoreFile \/ RestoreActive \/ RestoreLKG \/ RestoreApply \/ RestoreAwait \/ RestoreHealthy

---------------------------------------------------------------------------
(* RecoverForStartup: reconciliation before the agent reads its file       *)

restoreKnownGoodLocked(lkg) ==
  IF lkg = None \/ disk.body[lkg] = Gone THEN Go("start.fail")
  ELSE [Go("start.file") EXCEPT !.to = lkg, !.repair = FALSE]

repairKnownGoodLocked ==
  IF knownGoodForRepair = None THEN Go("start.fail")
  ELSE [Go("start.file") EXCEPT !.to = knownGoodForRepair, !.repair = TRUE]

\* recoverInterruptedLocked once both pointers are readable.
Interrupted(lkg) ==
  LET active == disk.ptr["active"]
  IN  CASE active = None -> Go("start.verify")
        [] active # None /\ ~Readable(active) -> restoreKnownGoodLocked(lkg)
        [] active # None /\ Readable(active) ->
             IF active = lkg
             THEN Go(IF active \in KnownGoodRevisions THEN "start.verify" ELSE "start.fail")
             ELSE CASE active \in KnownGoodRevisions ->
                         Go(IF lkg = None THEN "start.promote" ELSE "start.prev")
                    [] disk.man[active].st \in {"candidate", "validating", "failed"} ->
                         restoreKnownGoodLocked(lkg)
                    [] OTHER -> Go("start.verify")

StartRecover_strict ==
  /\ op.pc = "start.recover"
  /\ op' = IF Bad \in {disk.ptr["active"], disk.ptr["lkg"]} THEN Go("start.fail")
           ELSE Interrupted(disk.ptr["lkg"])
  /\ UNCHANGED <<disk, created, agent, txn, mishaps, outages, damaged, proved, last>>
StartRecover ==
  /\ op.pc = "start.recover"
  /\ op' = IF disk.ptr["active"] = Bad THEN repairKnownGoodLocked
           ELSE IF disk.ptr["lkg"] # Bad THEN Interrupted(disk.ptr["lkg"])
           ELSE IF knownGoodForRepair = None THEN Go("start.fail")
           ELSE [Go("start.lkg") EXCEPT !.to = knownGoodForRepair]
  /\ UNCHANGED <<disk, created, agent, txn, mishaps, outages, damaged, proved, last>>

StartRepairLKG ==
  Write("start.lkg", Point("lkg", op.to), Interrupted(op.to), Go("start.fail"))
StartPrevious ==
  Write("start.prev", Point("prev", disk.ptr["lkg"]), Go("start.promote"), Go("start.fail"))
StartPromote ==
  Write("start.promote", Point("lkg", disk.ptr["active"]), Go("start.verify"), Go("start.fail"))
StartFile == Write("start.file", SetFile(disk.body[op.to]), Go("start.active"), Go("start.fail"))
StartActive ==
  Write("start.active", Point("active", op.to),
        Go(IF op.repair THEN "start.fix" ELSE "start.verify"), Go("start.fail"))
StartFix == Write("start.fix", Point("lkg", op.to), Go("start.verify"), Go("start.fail"))

\* The rest of RecoverForStartup: does the active file match its revision?
StartVerify_trusted ==
  /\ op.pc = "start.verify"
  /\ op' = Go("start.done")
  /\ UNCHANGED <<disk, created, agent, txn, mishaps, outages, damaged, proved, last>>
StartVerify ==
  /\ op.pc = "start.verify"
  /\ LET active == disk.ptr["active"]
     IN  op' = IF active = None \/ (active \in Revs /\ Readable(active) /\ contentMatches(active, disk.file))
               THEN Go("start.done") ELSE repairKnownGoodLocked
  /\ UNCHANGED <<disk, created, agent, txn, mishaps, outages, damaged, proved, last>>

StartFails ==
  /\ op.pc = "start.fail"
  /\ op' = Idle /\ agent' = [agent EXCEPT !.st = "failed"]
  /\ UNCHANGED <<disk, created, txn, mishaps, outages, damaged, proved, last>>

StartDone ==
  /\ op.pc = "start.done"
  /\ op' = Idle /\ agent' = [agent EXCEPT !.st = "load"] /\ last' = "startup"
  /\ UNCHANGED <<disk, created, txn, mishaps, outages, damaged, proved>>

RecoverForStartup ==
  \/ StartRecover \/ StartRepairLKG \/ StartPrevious \/ StartPromote
  \/ StartFile \/ StartActive \/ StartFix \/ StartVerify \/ StartFails \/ StartDone

---------------------------------------------------------------------------
(* The agent                                                               *)

\* A unit that failed to start is started again after RestartSec, later than
\* systemctl has reported the failure to the operation that waits for it.
Startable ==
  \/ agent.st = "down"
  \/ agent.st = "failed" /\ op.pc \notin {"activate.await", "rollback.await", "manual.await", "restore.await"}

\* tryLock: reconcile when the lock is free, go straight to the file otherwise.
AgentStart_waits ==
  /\ Startable /\ op = Idle
  /\ agent' = [Down EXCEPT !.st = "starting"] /\ op' = Take("startup", "start.recover", None, Garbage)
  /\ UNCHANGED <<disk, created, txn, mishaps, outages, damaged, proved, last>>
AgentStart ==
  /\ Startable
  /\ \/ op = Idle /\ agent' = [Down EXCEPT !.st = "starting"]
        /\ op' = Take("startup", "start.recover", None, Garbage)
     \/ op # Idle /\ agent' = [Down EXCEPT !.st = "load"] /\ UNCHANGED op
  /\ UNCHANGED <<disk, created, txn, mishaps, outages, damaged, proved, last>>

\* runArmed meets the durable power state: it belongs to configuration c, or it
\* is idle and taken over; otherwise the agent refuses to start.
Accepts_anyTransaction(c) == TRUE
Accepts(c) == txn.busy => txn.rev = c

\* LoadAndRun parses the active file and runs it.
AgentLoad ==
  /\ agent.st = "load"
  /\ LET c == disk.file
     IN  IF c \in Contents \ Broken /\ Accepts(c)
         THEN agent' = [st |-> "up", content |-> c] /\ txn' = [txn EXCEPT !.rev = c]
         ELSE agent' = [Down EXCEPT !.st = "failed"] /\ UNCHANGED txn
  /\ UNCHANGED <<disk, created, op, mishaps, outages, damaged, proved, last>>

\* The policy engine leaves NORMAL, and comes back to it.
Outage ==
  /\ agent.st = "up" /\ ~txn.busy /\ outages < MaxOutages
  /\ txn' = [txn EXCEPT !.busy = TRUE, !.under = agent.content] /\ outages' = outages + 1
  /\ UNCHANGED <<disk, created, op, agent, mishaps, damaged, proved, last>>

TransactionEnds ==
  /\ agent.st = "up" /\ txn.busy
  /\ txn' = [txn EXCEPT !.busy = FALSE, !.under = Garbage]
  /\ UNCHANGED <<disk, created, op, agent, mishaps, outages, damaged, proved, last>>

---------------------------------------------------------------------------
(* Deaths and damage                                                       *)

AgentDies ==
  /\ agent.st \in {"starting", "load", "up"} /\ Mishap
  /\ agent' = Down
  /\ op' = IF op.kind = "startup" THEN Idle ELSE op
  /\ UNCHANGED <<disk, created, txn, outages, damaged, proved, last>>

WorkerDies ==
  /\ op.kind \notin {"none", "startup"} /\ Mishap
  /\ op' = Idle
  /\ UNCHANGED <<disk, created, agent, txn, outages, damaged, proved, last>>

Reboot ==
  /\ Mishap
  /\ op' = Idle /\ agent' = Down /\ last' = "reboot"
  /\ UNCHANGED <<disk, created, txn, outages, damaged, proved>>

\* A pointer, a manifest, a body or the active file is damaged, or the active
\* file is edited by hand, while no operation is in progress.
Damage ==
  /\ op = Idle /\ agent.st # "load" /\ Mishap
  /\ damaged' = TRUE
  /\ disk' \in {Point(p, Bad) : p \in {q \in Pointers : disk.ptr[q] # None}}
               \cup {[disk EXCEPT !.man[r] = Unreadable] : r \in {q \in Revs : Readable(q)}}
               \cup {SetBody(r, Garbage) : r \in {q \in Revs : disk.body[q] # Gone}}
               \cup {SetFile(c) : c \in Contents \cup {Garbage}}
  /\ disk' # disk
  /\ last' = "change"
  /\ UNCHANGED <<created, op, agent, txn, outages, proved>>

---------------------------------------------------------------------------

HolderStep ==
  \/ BootstrapActive \/ BeginBody \/ BeginManifest
  \/ failLocked \/ ActivateFile \/ ActivatePointer \/ ActivateValidating
  \/ ActivateApply \/ ActivateAwait \/ ActivateHealthy \/ Probation
  \/ promoteLocked \/ PromotePrevious \/ PromoteLKG \/ PromoteActive \/ pruneRevisionsLocked
  \/ rollbackLocked \/ ManualRollback \/ RecoverForStartup

Next ==
  \/ \E c \in Contents : Begin(c)
  \/ Bootstrap
  \/ \E r \in Revs : Activate(r) \/ Rollback(r)
  \/ HolderStep \/ Expire
  \/ AgentStart \/ AgentLoad \/ Outage \/ TransactionEnds
  \/ AgentDies \/ WorkerDies \/ Reboot \/ Damage

Spec == Init /\ [][Next]_vars

\* Processes are scheduled: the holder of the lock goes on, systemd starts the
\* agent again (Restart=always, StartLimitIntervalSec=0), and a running agent
\* reads its file.
FairSpec == Spec /\ WF_vars(HolderStep) /\ WF_vars(AgentStart) /\ WF_vars(AgentLoad)

---------------------------------------------------------------------------
(* Properties                                                              *)

\* BOOT_RECOVERY_REQUIREMENTS 635: the last-known-good and the previous
\* known-good stay available through interrupted activations, rollbacks,
\* promotions and pruning; without damage each of the two pointers names a
\* known-good revision whose content is intact, and the active pointer names a
\* revision that can be read.
RollbackTargetsIntact ==
  ~damaged =>
    /\ \A p \in {"lkg", "prev"} : disk.ptr[p] # None => Verified(disk.ptr[p])
    /\ disk.ptr["active"] # None => Readable(disk.ptr["active"])

\* BOOT_RECOVERY_REQUIREMENTS 300: a revision is known-good only if an agent that
\* ran exactly its content came through the probation (or the installation),
\* however start-ups, deaths and rollbacks fall into the probation.
KnownGoodWasProved ==
  \A r \in KnownGoodRevisions : disk.man[r].sha \in proved

\* armed.go 65: while a power transaction is in progress, the agent that acts on
\* it runs the configuration under which the transaction began, whatever was
\* activated, rolled back or edited since.
TransactionKeepsConfig ==
  agent.st = "up" /\ txn.busy => agent.content = txn.under

\* runtime.go 92: once the history is in use, an agent whose start-up took the
\* lock, with no change begun since, executes a known-good configuration only.
ReconciledStartIsKnownGood ==
  [][AgentLoad /\ agent'.st = "up" /\ last = "startup" /\ disk.ptr["active"] # None =>
       \E r \in KnownGoodRevisions : contentMatches(r, agent'.content)]_vars

\* lock_try.go, startup.go 15: an activation waits for the agent it restarts and
\* the agent does not wait for the lock, so every holder releases it.
LockIsReleased == (op # Idle) ~> (op = Idle)

\* startup.go 112: the agent returns for ever unless it is for ever without a
\* verified known-good revision, or without the last-known-good or the active
\* pointer, when start-up may have nothing to restore from (startup.go 84), or
\* in a transaction of another configuration.
AgentReturns ==
  \/ []<>(agent.st = "up")
  \/ <>[]({r \in Revs : Verified(r)} = {})
  \/ <>[](disk.ptr["lkg"] = None \/ disk.ptr["active"] = None)
  \/ <>[](txn.busy /\ txn.rev # disk.file)

\* STATE_MODEL 116: a power transaction whose configuration is gone is mapped
\* onto the restored last-known-good configuration: the agent that loads it,
\* with no operation in progress, starts.
TransactionMapped ==
  [][/\ AgentLoad /\ op = Idle /\ ~damaged
     /\ disk.ptr["active"] = disk.ptr["lkg"] /\ disk.ptr["lkg"] \in Revs
     /\ Verified(disk.ptr["lkg"]) /\ contentMatches(disk.ptr["lkg"], disk.file)
     => agent'.st = "up"]_vars

=============================================================================
