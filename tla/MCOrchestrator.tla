--------------------------- MODULE MCOrchestrator ---------------------------
(* Values for the constants of Orchestrator: two scenario files, one with  *)
(* two faults close together, and one name that is no file.                *)
EXTENDS Orchestrator

MCScenarios == {"nominal", "faulty"}
MCNames == MCScenarios \cup {"missing"}
MCDuration == [s \in MCScenarios |-> IF s = "nominal" THEN 4 ELSE 9]
MCInitialRate == [s \in MCScenarios |-> IF s = "nominal" THEN 1 ELSE 2]
MCFaultTime == [s \in MCScenarios |-> IF s = "nominal" THEN <<>> ELSE <<4, 3, 1>>]

(* The scenarios at a time scale of 1.0, in units of 5 ms: the fault is    *)
(* due after two intervals of 100 ms, the scenario ends after three.       *)
RealDuration == [s \in MCScenarios |-> 60]
RealInitialRate == [s \in MCScenarios |-> 1]
RealFaultTime == [s \in MCScenarios |-> IF s = "nominal" THEN <<>> ELSE <<40>>]
==============================================================================
