----------------------------- MODULE UPSStatus -----------------------------
(***************************************************************************)
(* How a power tick comes by its inputs: the tokens of ups.status as upsc  *)
(* prints them (nut/client.go), read by ParseUPSC, and what armedPowerTick *)
(* makes of a query that fails.                                            *)
(***************************************************************************)
EXTENDS PolicyEngine

\* OL and OB together, or neither, is no evidence about utility; LB and FSD
\* are kept all the same.
ParseUPSC(tokens, charge, runtime) ==
  [utility |-> IF "OL" \in tokens /\ "OB" \notin tokens THEN "online"
               ELSE IF "OB" \in tokens /\ "OL" \notin tokens THEN "on_battery"
               ELSE "unknown",
   lowBattery |-> "LB" \in tokens, fsd |-> "FSD" \in tokens,
   charge |-> charge, runtime |-> runtime]

\* No answer, a timeout or no ups.status: nothing of the answer is used.
QueryFailed == ParseUPSC({}, Absent, Absent)

\* policy.Inputs of one tick.
TickInputs(ups, networkReady, healthSafe) ==
  [utility |-> ups.utility, lowBattery |-> ups.lowBattery, fsd |-> ups.fsd,
   charge |-> ups.charge, runtime |-> ups.runtime,
   networkReady |-> networkReady, healthSafe |-> healthSafe]
=============================================================================
