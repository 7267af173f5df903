----------------------------- MODULE MCHostPlan -----------------------------
(***************************************************************************)
(* The planning functions over every fleet of the hosts Ids: a state is an *)
(* input, and a step the input with the host that is handed out restored   *)
(* or given up, as the executor does.                                      *)
(***************************************************************************)
EXTENDS HostPlan

CONSTANTS Ids, Priorities

ASSUME PlanAssumption ==
  Ids \subseteq Nat /\ IsFiniteSet(Ids) /\ Priorities \subseteq Int

VARIABLES planCfg, planStates

PlannedHost(p, deps) ==
  [method |-> "ssh", probed |-> TRUE, shutdownPriority |-> p,
   wakeEnabled |-> TRUE, wakePriority |-> p, wakeMaxAttempts |-> 1,
   wakeDelay |-> 0, restorePolicy |-> "previous-state", dependsOn |-> deps]

WaitingHost(up) ==
  [present |-> TRUE, wasOnline |-> IF up THEN "yes" ELSE "no",
   recovery |-> "waiting"]

PlanInit ==
  /\ \E p \in [Ids -> Priorities], deps \in [Ids -> SUBSET Ids] :
       planCfg = [h \in Ids |-> PlannedHost(p[h], deps[h])]
  /\ \E up \in SUBSET Ids : planStates = [h \in Ids |-> WaitingHost(h \in up)]

PlanNext ==
  /\ \E h \in NextRecoveryHost(planCfg, planStates), o \in {"online", "failed"} :
       planStates' = [planStates EXCEPT ![h].recovery = o]
  /\ UNCHANGED planCfg

planVars == <<planCfg, planStates>>

PlanSpec == PlanInit /\ [][PlanNext]_planVars

Restorable == Eligible(planCfg, planStates)

plan == BuildRecoveryPlan(planCfg, Restorable)

\* BuildRecoveryPlan reports a cycle exactly when no order of the eligible
\* hosts respects their dependencies, and otherwise returns, of the orders
\* that do, the lexicographically first by (wake priority, ID).
PlanIsFirstTopological ==
  LET orders == {q \in Orderings(Restorable) : Topological(planCfg, q)}
  IN  /\ PlanFails(planCfg, Restorable) <=> orders = {}
      /\ orders # {} =>
           /\ plan \in orders
           /\ \A q \in orders \ {plan} : LexBefore(planCfg, plan, q)

DependsOn(h) == Behind(Restorable, Needs(planCfg, Restorable), h)

\* Without a cycle NextRecoveryHost leaves no host out: when it hands out none,
\* every host that is not finished has, among the hosts it depends on directly
\* or through others, one that was given up.
PlanNeverStalls ==
  /\ ~PlanFails(planCfg, Restorable)
  /\ NextRecoveryHost(planCfg, planStates) = {}
  => \A h \in Restorable :
       \/ planStates[h].recovery \in Finished
       \/ \E d \in DependsOn(h) : planStates[d].recovery = "failed"

\* A host is handed out only when everything it depends on, directly or
\* through other eligible hosts, has been confirmed online.
DependenciesUpFirst ==
  \A h \in NextRecoveryHost(planCfg, planStates) :
    \A d \in DependsOn(h) : planStates[d].recovery = "online"
=============================================================================
