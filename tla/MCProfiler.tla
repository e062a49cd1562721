----------------------------- MODULE MCProfiler -----------------------------
(***************************************************************************)
(* Three executions on a belt with the channel plugin, the profiler and a  *)
(* third plugin that may throw; two of them share an id.                   *)
(***************************************************************************)
EXTENDS Profiler, TLC

CONSTANTS c1, c2, e1, e2, e3, own, reused

\* Plugin 1 has a postProcess only; the channel plugin is 2, the profiler 3.
MCImplements == [pre |-> {2, 3}, post |-> {1, 2, 3}, error |-> {2, 3}]
MCThrows == [pre |-> {}, post |-> {1, 2}, error |-> {2}]

MCBatches == {<<c1, c2>>}

ReusedId == [i \in Executions |-> IF i = e3 THEN own ELSE reused]

MCPipelinePlugins == {"other", "debug", "channel", "profiler"}
MCExecutionPlugins == [i \in Executions |-> {"debug"}]
MCTypeOf ==
  [p \in {"other", "debug", "channel", "profiler"} \cup {Belts[n] : n \in 1..2} |->
     CASE p \in {"channel", "profiler", "other"} -> "SorobanTransactionPipeline"
       [] p = "debug" -> "SimulateTransactionPipeline"
       [] OTHER -> p]

MCMethod == [i \in Executions |-> IF i = e3 THEN "balance" ELSE "transfer"]
\* A transfer returns nothing, so the size of its return value is undefined.
MCCost ==
  [i \in Executions |->
     IF i = e3 THEN [cpuInstructions |-> 2, returnValueSize |-> 1]
               ELSE [cpuInstructions |-> 1, returnValueSize |-> Undefined]]
MCFee == [i \in Executions |-> IF i = e3 THEN 2 ELSE 1]

\* The two executions that share the id do the same.
ExecutionSymmetry == Permutations({e1, e2})

=============================================================================
