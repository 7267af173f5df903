------------------------------ MODULE HostPlan ------------------------------
(***************************************************************************)
(* The pure planning functions of internal/host: which hosts are shut down *)
(* directly and in which order, which are owed a wake-up, and the order in *)
(* which dependencies let them be woken.  Host IDs are numbers, ordered as *)
(* the strings of the code are; a plan is a sequence of IDs.               *)
(***************************************************************************)
EXTENDS Integers, Sequences, FiniteSets, Functions

RestorePolicies == {"previous-state", "always", "never"}

\* host.Config, with the two fields of config.HostConfig the orchestrator
\* reads: probed is `Address # nil and Status.Method # "none"'.
HostConfigs(ids) ==
  [method : {"ssh", "nut", "none"}, probed : BOOLEAN, shutdownPriority : Int,
   wakeEnabled : BOOLEAN, wakePriority : Int, wakeMaxAttempts : Nat,
   wakeDelay : Nat, restorePolicy : RestorePolicies, dependsOn : SUBSET ids]

\* The order of sort.SliceStable: by priority, then by ID.
Before(priority, a, b) ==
  \/ priority[a] < priority[b]
  \/ priority[a] = priority[b] /\ a < b

\* Name_bug, here and below: Name with a plausible error, used by no module.
First_byID(priority, S) == CHOOSE a \in S : \A b \in S : a <= b

First(priority, S) ==
  CHOOSE a \in S : \A b \in S \ {a} : Before(priority, a, b)

\* The hosts that may be placed next: not placed yet, all they need placed.
Ready(S, needs, placed) == {h \in S \ placed : needs[h] \subseteq placed}

\* S as a sequence: of the hosts that may be placed, the first by (priority,
\* ID) is placed next, until there is none.
Placed(priority, S, needs) ==
  LET next[q \in Seq(S)] ==
        LET ready == Ready(S, needs, Range(q))
        IN  IF ready = {} THEN q ELSE Append(q, First(priority, ready))
      result[n \in 0 .. Cardinality(S)] ==
        IF n = 0 THEN <<>> ELSE next[result[n - 1]]
  IN  result[Cardinality(S)]

Sorted(priority, S) == Placed(priority, S, [h \in S |-> {}])

\* The hosts shut down by a command of their own, and the ones NUT takes down.
DirectHosts(cfg) == {h \in DOMAIN cfg : cfg[h].method \notin {"nut", "none"}}
NUTManaged(cfg) == {h \in DOMAIN cfg : cfg[h].method = "nut"}

BuildShutdownPlan(cfg) ==
  [preFSD |-> Sorted([h \in DOMAIN cfg |-> cfg[h].shutdownPriority],
                     DirectHosts(cfg)),
   nutGroup |-> Sorted([h \in DOMAIN cfg |-> 0], NUTManaged(cfg))]

EligibleForRestore(c, hs) ==
  /\ c.wakeEnabled
  /\ \/ c.restorePolicy = "always"
     \/ c.restorePolicy = "previous-state" /\ hs.wasOnline = "yes"

Eligible(cfg, states) ==
  {h \in DOMAIN cfg : states[h].present /\ EligibleForRestore(cfg[h], states[h])}

\* The dependencies that count: one that is not restored is not waited for.
Needs(cfg, eligible) == [h \in eligible |-> cfg[h].dependsOn \cap eligible]

\* Kahn's algorithm.
BuildRecoveryPlan(cfg, eligible) ==
  Placed([h \in DOMAIN cfg |-> cfg[h].wakePriority], eligible, Needs(cfg, eligible))

\* "recovery dependency cycle detected"
PlanFails(cfg, eligible) ==
  Len(BuildRecoveryPlan(cfg, eligible)) # Cardinality(eligible)

Finished == {"online", "not_required", "failed"}

Wakeable_anyDependency(cfg, states) ==
  {h \in Eligible(cfg, states) :
     /\ states[h].recovery \notin Finished
     /\ \A dep \in cfg[h].dependsOn : states[dep].recovery = "online"}

Wakeable_failedIsDone(cfg, states) ==
  {h \in Eligible(cfg, states) :
     /\ states[h].recovery \notin Finished
     /\ \A dep \in cfg[h].dependsOn \cap Eligible(cfg, states) :
          states[dep].recovery \in {"online", "failed"}}

\* The eligible hosts that are not finished and whose eligible managed
\* dependencies are confirmed online.
Wakeable(cfg, states) ==
  {h \in Eligible(cfg, states) :
     /\ states[h].recovery \notin Finished
     /\ \A dep \in cfg[h].dependsOn \cap Eligible(cfg, states) :
          states[dep].recovery = "online"}

\* The first of them in the plan, if there is no cycle and there is one: a set
\* of at most one host.
NextRecoveryHost(cfg, states) ==
  LET eligible == Eligible(cfg, states)
      ready == Wakeable(cfg, states)
  IN  {h \in ready :
         \E plan \in {BuildRecoveryPlan(cfg, eligible)} :
           /\ Len(plan) = Cardinality(eligible)
           /\ \E i \in DOMAIN plan :
                plan[i] = h /\ \A j \in 1 .. i - 1 : plan[j] \notin ready}

-----------------------------------------------------------------------------
(* Reference definitions *)

Orderings(S) ==
  {q \in [1 .. Cardinality(S) -> S] : Range(q) = S}

\* Every host after all of its eligible dependencies.
Topological(cfg, q) ==
  \A i, j \in DOMAIN q : q[j] \in cfg[q[i]].dependsOn => j < i

\* What h depends on, directly or through others of S: what is in every set
\* that holds what h needs and whatever its own members need.
Behind(S, needs, h) ==
  {d \in S : \A C \in SUBSET S :
     needs[h] \subseteq C /\ (\A x \in C : needs[x] \subseteq C) => d \in C}

\* q precedes r in the lexicographic order of (wake priority, ID).
LexBefore(cfg, q, r) ==
  LET priority == [h \in DOMAIN cfg |-> cfg[h].wakePriority]
  IN  \E i \in DOMAIN q :
        /\ \A j \in 1 .. i - 1 : q[j] = r[j]
        /\ Before(priority, q[i], r[i])
=============================================================================
