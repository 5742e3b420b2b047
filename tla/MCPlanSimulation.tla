-------------------------- MODULE MCPlanSimulation --------------------------
(* Instances of PlanSimulation.  A "month" is ten hours, a "day" two.      *)
EXTENDS PlanSimulation

MCPeriods == <<[name |-> "monthly", length |-> 120, keep |-> 1],
               [name |-> "daily", length |-> 24, keep |-> 2]>>
\* Outages of up to three runs; snapshots that come late by turns.
MCBounds == {[runs |-> 15, skips |-> 3, delays |-> {0}], [runs |-> 12, skips |-> 0, delays |-> {0, 1}]}
MCJob == [mode |-> "window", window |-> 120, fullKinds |-> {"monthly"}, incrKinds |-> {"daily"},
          raw |-> FALSE, resume |-> FALSE, needsSnapshot |-> FALSE]
MCStartPool == {<<[kind |-> "daily", time |-> 24, bookmark |-> FALSE],
                 [kind |-> "monthly", time |-> 1, bookmark |-> FALSE]>>}
MCNoBackups == {<<<<>>, <<>>>>}
=============================================================================
