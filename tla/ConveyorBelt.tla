---------------------------- MODULE ConveyorBelt ----------------------------
(***************************************************************************)
(* The conveyor belt every pipeline of the library is built on             *)
(* (utils/pipeline/conveyor-belts/index.ts): execute() runs the preProcess *)
(* hooks of the registered plugins in registration order, then process(),  *)
(* then either the postProcess hooks or, when process() threw, the         *)
(* processError hooks, and settles the promise it returned.                *)
(*                                                                         *)
(* A belt is shared: any number of executions are in flight on it at once. *)
(* Every hook and process() is awaited, so between any two steps of one    *)
(* execution the event loop may run steps of the others; what runs between *)
(* two awaits is one step here.  Items, outputs and errors are abstracted: *)
(* which of them a hook returns does not change what execute() does next.  *)
(***************************************************************************)
EXTENDS Naturals

CONSTANTS
  Executions,   \* the calls of execute() on this belt
  N,            \* number of plugins, numbered 1..N in registration order
  Implements,   \* hook -> the plugins that define it (the fields are optional)
  Throws        \* hook -> the plugins whose hook may throw

Hooks == {"pre", "post", "error"}
Plugins == 1..N

ASSUME PluginsAssumption ==
  /\ N \in Nat
  /\ Implements \in [Hooks -> SUBSET Plugins]
  /\ Throws \in [Hooks -> SUBSET Plugins]
  /\ \A h \in Hooks : Throws[h] \subseteq Implements[h]

VARIABLES
  phase,  \* where each execution is in execute()
  at,     \* the first plugin the running hook loop has not visited yet
  ran     \* history: the <<hook, plugin>> pairs that have returned

beltVars == <<phase, at, ran>>

Phases == {"idle", "process", "resolved", "rejected"} \cup Hooks

TypeOK ==
  /\ phase \in [Executions -> Phases]
  /\ at \in [Executions -> 1..(N + 1)]
  /\ ran \in [Executions -> SUBSET (Hooks \X Plugins)]

Settled(i) == phase[i] \in {"resolved", "rejected"}

BeltInit ==
  /\ phase = [i \in Executions |-> "idle"]
  /\ at = [i \in Executions |-> 1]
  /\ ran = [i \in Executions |-> {}]

-----------------------------------------------------------------------------
(* The three hook loops skip the plugins that do not define the hook.      *)

\* Plugin k is the next whose hook h the loop calls, from position a on.
Due(h, a, k) ==
  /\ k \in Implements[h]
  /\ a <= k
  /\ \A j \in Implements[h] : a <= j => k <= j

\* The loop over hook h has no plugin left to call.
Exhausted(h, a) == \A j \in Implements[h] : j < a

\* Mutant: positions counted from zero.
EnterAtZero(i, p) ==
  /\ phase' = [phase EXCEPT ![i] = p]
  /\ at' = [at EXCEPT ![i] = 0]
  /\ UNCHANGED ran

Enter(i, p) ==
  /\ phase' = [phase EXCEPT ![i] = p]
  /\ at' = [at EXCEPT ![i] = 1]
  /\ UNCHANGED ran

Execute(i) == phase[i] = "idle" /\ Enter(i, "pre")

\* The hook of plugin k returned: the loop goes on with the next plugin.
HookReturns(i, k) ==
  /\ phase[i] \in Hooks
  /\ Due(phase[i], at[i], k)
  /\ at' = [at EXCEPT ![i] = k + 1]
  /\ ran' = [ran EXCEPT ![i] = @ \cup {<<phase[i], k>>}]
  /\ UNCHANGED phase

\* Mutant: postProcess() is called inside the try block.
HookThrowsIntoCatch(i, k) ==
  /\ phase[i] \in Hooks
  /\ Due(phase[i], at[i], k)
  /\ k \in Throws[phase[i]]
  /\ IF phase[i] = "post"
     THEN Enter(i, "error")
     ELSE phase' = [phase EXCEPT ![i] = "rejected"] /\ UNCHANGED <<at, ran>>

\* A hook threw: all three loops run outside the try block, so the rejection
\* leaves execute() at once and no other hook is called.
HookThrows(i, k) ==
  /\ phase[i] \in Hooks
  /\ Due(phase[i], at[i], k)
  /\ k \in Throws[phase[i]]
  /\ phase' = [phase EXCEPT ![i] = "rejected"]
  /\ UNCHANGED <<at, ran>>

BeginProcess(i) ==
  /\ phase[i] = "pre"
  /\ Exhausted("pre", at[i])
  /\ Enter(i, "process")

ProcessReturns(i) == phase[i] = "process" /\ Enter(i, "post")

\* Mutant: process() is awaited outside the try block.
ProcessThrowsUncaught(i) ==
  /\ phase[i] = "process"
  /\ phase' = [phase EXCEPT ![i] = "rejected"]
  /\ UNCHANGED <<at, ran>>

\* The catch block wraps the error and runs the processError hooks.
ProcessThrows(i) == phase[i] = "process" /\ Enter(i, "error")

Resolve(i) ==
  /\ phase[i] = "post"
  /\ Exhausted("post", at[i])
  /\ phase' = [phase EXCEPT ![i] = "resolved"]
  /\ UNCHANGED <<at, ran>>

\* throw processedError: postProcess is not reached.
RejectProcessed(i) ==
  /\ phase[i] = "error"
  /\ Exhausted("error", at[i])
  /\ phase' = [phase EXCEPT ![i] = "rejected"]
  /\ UNCHANGED <<at, ran>>

BeltStep(i) ==
  \/ \E k \in Plugins : HookReturns(i, k) \/ HookThrows(i, k)
  \/ BeginProcess(i)
  \/ ProcessReturns(i)
  \/ ProcessThrows(i)
  \/ Resolve(i)
  \/ RejectProcessed(i)

BeltNext == \E i \in Executions : Execute(i) \/ BeltStep(i)

BeltSpec == BeltInit /\ [][BeltNext]_beltVars

-----------------------------------------------------------------------------
(* Properties *)

\* The pairs a loop over hook h has passed once it stands at position a.
Passed(h, a) == {<<h, k>> : k \in {j \in Implements[h] : j < a}}
Whole(h) == Passed(h, N + 1)

\* What an execution has run before its hook loop h starts.
Before(h) == IF h = "pre" THEN {} ELSE Whole("pre")

\* A rejected execution either went through process() and every processError
\* hook, or was cut short by the hook of one plugin.
RejectionAccounted(i) ==
  \/ ran[i] = Whole("pre") \cup Whole("error")
  \/ \E h \in Hooks : \E k \in Throws[h] : ran[i] = Before(h) \cup Passed(h, k)

\* At every moment the hooks that have run are exactly the ones the phase
\* implies: each at most once, in registration order, none skipped, nothing after
\* a rejection.  execute() and its three loops, conveyor-belts/index.ts 19-71:
\* the throw in line 30 keeps post and error hooks from the same execution, which
\* plugins that give back what they hold in either of the two rely on.
\* docs/reference/utils/pipeline/conveyor-belt.md:51 has the post hooks follow the
\* error hooks; that they never do is what this says of the code.
HookAccounting ==
  \A i \in Executions :
    /\ phase[i] = "idle" => ran[i] = {}
    /\ phase[i] \in Hooks => ran[i] = Before(phase[i]) \cup Passed(phase[i], at[i])
    /\ phase[i] = "process" => ran[i] = Whole("pre")
    /\ phase[i] = "resolved" => ran[i] = Whole("pre") \cup Whole("post")
    /\ phase[i] = "rejected" => RejectionAccounted(i)

=============================================================================
