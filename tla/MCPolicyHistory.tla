--------------------------- MODULE MCPolicyHistory ---------------------------
(* Small instance of PolicyHistory for TLC.                                   *)
EXTENDS PolicyHistory, UPSStatus

Sample(tokens, c, r) == TickInputs(ParseUPSC(tokens, c, r), TRUE, TRUE)

Online == ParseUPSC({"OL"}, 3, Absent)

\* Runtime 1 is critical, charge 3 is enough to recover and 1 is not; a sample
\* with neither makes the recovery gate fall back to the recharge time.  OL and OB
\* together is a transfer caught in the middle.  The pairs of charge 3 and 4
\* are samples the engine cannot tell apart: a tick that changes nothing else
\* is a step, so fairness of the ticks never forces another input.
MCSamples ==
  {TickInputs(Online, TRUE, TRUE),
   TickInputs(Online, FALSE, TRUE),
   TickInputs(Online, TRUE, FALSE),
   Sample({"OL"}, 4, Absent),
   Sample({"OL"}, 1, Absent),
   Sample({"OL"}, Absent, Absent),
   Sample({"OL", "LB"}, 1, Absent),
   Sample({"OB"}, 3, Absent),
   Sample({"OB"}, 4, Absent),
   Sample({"OB"}, Absent, 1),
   Sample({"OB", "LB"}, Absent, 1),
   Sample({"OB", "FSD"}, 3, Absent),
   Sample({"OL", "OB", "LB"}, Absent, Absent),
   TickInputs(QueryFailed, TRUE, TRUE)}
=============================================================================
