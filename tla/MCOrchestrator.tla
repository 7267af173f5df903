--------------------------- MODULE MCOrchestrator ---------------------------
(* Small fleets for Orchestrator. *)
EXTENDS Orchestrator, UPSStatus

Sample(tokens) == TickInputs(ParseUPSC(tokens, Absent, Absent), TRUE, TRUE)

\* Utility back, an outage that is watched, one that commits at once, a forced
\* shutdown seen while on line.
MCSamples ==
  {Sample({"OL"}), Sample({"OB"}), Sample({"OB", "LB"}), Sample({"OL", "FSD"})}

\* Every outage is committed at once, or cancelled.
RecoverySamples == {Sample({"OL"}), Sample({"OB", "LB"})}

Host(m, p, sp) ==
  [method |-> m, probed |-> p, shutdownPriority |-> sp, wakeEnabled |-> FALSE,
   wakePriority |-> 0, wakeMaxAttempts |-> 1, wakeDelay |-> 0,
   restorePolicy |-> "never", dependsOn |-> {}]

Waking(m, prio, deps, delay, policy) ==
  [Host(m, TRUE, 1) EXCEPT !.wakeEnabled = TRUE, !.wakePriority = prio,
                           !.wakeDelay = delay, !.restorePolicy = policy,
                           !.dependsOn = deps]

\* Shutdown: the second host by ID goes first by priority and is not probed.
ShutdownOrder == <<1, 2, 3>>
ShutdownConfig ==
  [h \in {1, 2, 3} |-> CASE h = 1 -> Host("ssh", TRUE, 2)
                         [] h = 2 -> Host("ssh", FALSE, 1)
                         [] h = 3 -> Host("nut", TRUE, 1)]

\* Recovery: a chain 2 <- 1 <- 3 listed against its direction, every wake-up
\* 5 after the previous one.
RecoveryOrder == <<3, 1, 2>>
RecoveryConfig ==
  [h \in {1, 2, 3} |->
     CASE h = 1 -> Waking("none", 1, {2}, 5, "always")
       [] h = 2 -> Waking("none", 2, {}, 5, "previous-state")
       [] h = 3 -> Waking("none", 0, {1}, 5, "always")]

\* One direct host, one NUT-managed one that is woken again.
PairOrder == <<1, 2>>
PairConfig ==
  [h \in {1, 2} |-> IF h = 1 THEN Host("ssh", TRUE, 1)
                   ELSE Waking("nut", 1, {}, 2, "previous-state")]

\* Direct hosts only, so that the controller forces its own shutdown.
DirectOrder == <<1>>
DirectConfig == [h \in {1} |-> Host("ssh", TRUE, 1)]

NoneExcluded == {{}}

\* A start may find the key of the first host missing.
SomeExcluded == {{}, {1}}

\* The first host was up, down or not seen, the others were up.
FirstProbe ==
  {[h \in Hosts |-> IF h = 1 THEN r ELSE "online"] : r \in ProbeOutcomes}

\* Everything up, or nothing answers.
AllProbe == {[h \in Hosts |-> r] : r \in {"online", "unknown"}}

\* The host at the root of the chain was up, down or not seen.
RootProbe ==
  {[h \in Hosts |-> IF h = 2 THEN r ELSE "online"] :
     r \in ProbeOutcomes}
=============================================================================
