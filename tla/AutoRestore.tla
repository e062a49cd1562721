---------------------------- MODULE AutoRestore ----------------------------
(***************************************************************************)
(* AutoRestorePlugin                                                       *)
(* (utils/pipeline/plugins/simulate-transaction/auto-restore) on the       *)
(* simulate belt of the Soroban pipeline.  When the simulation answers that*)
(* the transaction touches archived entries, postProcess awaits a restore  *)
(* transaction, executed by a Soroban pipeline of its own, and then bumps  *)
(* the sequence number of the transaction already built if the restore used*)
(* the same source.  The nested execution is one of Executions: its steps  *)
(* are those of any other, from the moment postProcess calls it.           *)
(*                                                                         *)
(* The simulation's answer is a choice.  Time bounds are left out.         *)
(***************************************************************************)
EXTENDS TransactionPipelines

CONSTANTS
  Outer,      \* executions whose simulate belt has the plugin
  RestoreOf   \* outer execution -> the execution of its restore transaction

Nested == {RestoreOf[i] : i \in Outer}

ASSUME RestoreAssumption ==
  /\ Outer \subseteq {i \in Executions : Kind[i] = "soroban"}
  /\ RestoreOf \in [Outer -> {i \in Executions : Kind[i] = "soroban"} \ (Outer \cup SimulateOnly)]
  /\ \A i, j \in Outer : RestoreOf[i] = RestoreOf[j] => i = j

VARIABLE restore   \* outer execution -> "none", "awaited" or "settled"

restoreVars == <<vars, restore>>

RestoreTypeOK == TypeOK /\ restore \in [Outer -> {"none", "awaited", "settled"}]

RestoreInit == Init /\ restore = [i \in Outer |-> "none"]

\* Execution e is not held up: an outer one by the restore it awaits, a nested
\* one by not having been called.
Running(e) ==
  /\ e \in Outer => restore[e] # "awaited"
  /\ \A i \in Outer : RestoreOf[i] = e => restore[i] = "awaited"

-----------------------------------------------------------------------------
\* The simulation asks for a restore: postProcess calls the nested pipeline.
CallRestore(i) ==
  /\ stage[i] = "simulate" /\ restore[i] = "none"
  /\ restore' = [restore EXCEPT ![i] = "awaited"]
  /\ UNCHANGED <<pipelineVars, networkVars>>

\* Mutant: whose sequence number the restore consumed is not looked at.
BumpAlways(i) == seq' = [seq EXCEPT ![i] = @ + 1]

\* The builder adds one to the number the envelope already has.
BumpSequence(i) ==
  IF source[i] = source[RestoreOf[i]] THEN seq' = [seq EXCEPT ![i] = @ + 1] ELSE UNCHANGED seq

\* The restore transaction succeeded: postProcess goes on, and Simulate ends.
RestoreReturns(i) ==
  /\ restore[i] = "awaited" /\ stage[RestoreOf[i]] = "returned"
  /\ restore' = [restore EXCEPT ![i] = "settled"]
  /\ BumpSequence(i)
  /\ GoTo(i, IF i \in SimulateOnly THEN "returned" ELSE "auth")
  /\ UNCHANGED networkVars

\* Mutant: an error of the restore is swallowed.
RestoreErrorSwallowed(i) ==
  /\ restore[i] = "awaited" /\ stage[RestoreOf[i]] \in Ended
  /\ restore' = [restore EXCEPT ![i] = "settled"]
  /\ GoTo(i, IF i \in SimulateOnly THEN "returned" ELSE "auth")
  /\ UNCHANGED <<seq, networkVars>>

\* The restore fails; or, after it, the bump or a later hook of the belt does.
RestoreThrows(i) ==
  /\ restore[i] = "awaited" /\ stage[RestoreOf[i]] \in Ended
  /\ restore' = [restore EXCEPT ![i] = "settled"]
  /\ GoTo(i, "threw")
  /\ UNCHANGED <<seq, networkVars>>

PluginStep(i) == CallRestore(i) \/ RestoreReturns(i) \/ RestoreThrows(i)

RestoreNext ==
  \/ \E e \in Executions : Running(e) /\ ProcessStep(e) /\ UNCHANGED <<source, restore>>
  \/ \E i \in Outer : PluginStep(i) /\ UNCHANGED source
  \/ NetworkStep /\ UNCHANGED <<source, pipelineVars, restore>>

RestoreSpec == RestoreInit /\ [][RestoreNext]_restoreVars

-----------------------------------------------------------------------------
(* Properties *)

\* An execution that asked for a restore goes on only once a ledger has
\* included the restore with success, however the nested pipeline fails, and
\* whoever else uses its source account.
RestoredBeforeUse ==
  \A i \in Outer : restore[i] = "settled" =>
    \/ stage[i] = "threw"
    \/ Tx(RestoreOf[i]) \in succeeded

\* No execution but i, and its restore, uses the source account of i.
SoleUser(i) ==
  \A e \in Executions : source[e] = source[i] => e = i \/ (i \in Outer /\ e = RestoreOf[i])

\* The transaction handed on after the simulation has the next sequence number
\* of its source, whether or not there was a restore, from the same source or
\* another, and keeps it as long as the network may include it.  Nothing but
\* another user of the account can take the number away.
SequenceFitsAfterRestore ==
  \A i \in Outer :
    SoleUser(i) /\ (stage[i] \in {"auth", "requirements", "sign", "submit"} \/ Tx(i) \in queue)
      => seq[i] = ledgerSeq[source[i]] + 1

\* An execution with simulateOnly leaves no transaction on the network.
SimulationsSubmitNothing ==
  \A t \in Known : \A i \in Outer \cap SimulateOnly : t.exec \notin {i, RestoreOf[i]}

=============================================================================
