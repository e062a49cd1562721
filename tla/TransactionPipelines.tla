------------------------ MODULE TransactionPipelines ------------------------
(***************************************************************************)
(* process() of the two transaction pipelines                              *)
(* (core/pipelines/soroban-transaction and classic-transaction): a sequence*)
(* of inner belts, each awaited, each of which may throw.  The Soroban     *)
(* pipeline builds, simulates, authorizes, collects the signatures a       *)
(* transaction requires, signs, submits to the RPC server and polls it; the*)
(* classic one builds, collects, signs and submits to Horizon.             *)
(*                                                                         *)
(* Kept: the order of the stages, what each may do when its requests fail, *)
(* the sequence number a transaction is built with and the transactions the*)
(* network holds.  Operations, signatures and fees are left out.           *)
(***************************************************************************)
EXTENDS StellarNetwork

CONSTANTS
  Executions,       \* the items the pipelines process
  Kind,             \* execution -> "soroban" or "classic"
  SimulateOnly,     \* the executions with options.simulateOnly
  LateFailures,     \* requests may be lost, or their answers, and hooks throw,
                    \* once a transaction is on its way
  TimeoutsSet       \* header.timeout > 0: an envelope expires before polling ends

ASSUME PipelineAssumption ==
  /\ Kind \in [Executions -> {"soroban", "classic"}]
  /\ SimulateOnly \subseteq {i \in Executions : Kind[i] = "soroban"}
  /\ LateFailures \in BOOLEAN
  /\ TimeoutsSet \in BOOLEAN
  /\ HorizonMayLag \in BOOLEAN

VARIABLES
  source,  \* header.source of each item
  stage,   \* the inner belt each execution awaits, or how process() ended
  seq      \* sequence number of the transaction built, 0 before

pipelineVars == <<stage, seq>>
vars == <<source, pipelineVars, networkVars>>

Preparing == {"build", "simulate", "auth", "requirements", "sign"}
Following == {"followUp", "horizonAnswer"}
Ended == {"returned", "threw"}
Stages == Preparing \cup {"submit"} \cup Following \cup Ended

Tx(i) == [exec |-> i, source |-> source[i], seq |-> seq[i]]
Txs == [exec : Executions, source : Accounts, seq : Nat]

TypeOK ==
  /\ source \in [Executions -> Accounts]
  /\ stage \in [Executions -> Stages]
  /\ seq \in [Executions -> Nat]
  /\ ledgerSeq \in [Accounts -> Nat]
  /\ horizonSeq \in [Accounts -> Nat]
  /\ queue \subseteq Txs
  /\ succeeded \subseteq Txs
  /\ failed \subseteq Txs

PipelineInit ==
  /\ stage = [i \in Executions |-> "build"]
  /\ seq = [i \in Executions |-> 0]
  /\ NetworkInit

Init == PipelineInit /\ source \in [Executions -> Accounts]

GoTo(i, s) == stage' = [stage EXCEPT ![i] = s]

-----------------------------------------------------------------------------
\* Mutant: a number is taken off, as for the rebuild in Soroban Auth, and the
\* builder's increment is lost.
BuildSubtracts(i) ==
  /\ stage[i] = "build"
  /\ seq' = [seq EXCEPT ![i] = horizonSeq[source[i]] - 1]
  /\ GoTo(i, IF Kind[i] = "soroban" THEN "simulate" ELSE "requirements")
  /\ UNCHANGED networkVars

\* Build Transaction: loads the source account from Horizon; the transaction
\* builder adds one to its sequence number.
Build(i) ==
  /\ stage[i] = "build"
  /\ seq' = [seq EXCEPT ![i] = horizonSeq[source[i]] + 1]
  /\ GoTo(i, IF Kind[i] = "soroban" THEN "simulate" ELSE "requirements")
  /\ UNCHANGED networkVars

\* Mutant: simulateOnly is not looked at.
SimulateThenGoOn(i) ==
  /\ stage[i] = "simulate"
  /\ GoTo(i, "auth")
  /\ UNCHANGED <<seq, networkVars>>

\* Simulate Transaction succeeds; with simulateOnly, process() returns here.
Simulate(i) ==
  /\ stage[i] = "simulate"
  /\ GoTo(i, IF i \in SimulateOnly THEN "returned" ELSE "auth")
  /\ UNCHANGED <<seq, networkVars>>

\* Soroban Auth, Classic Sign Requirements and Sign Transaction succeed.  None
\* changes a sequence number up to 2^53: the rebuild in Soroban Auth takes one
\* off it before the builder adds one (SorobanAuth!SafeSequenceKept).
Prepare(i) ==
  /\ \/ stage[i] = "auth" /\ GoTo(i, "requirements")
     \/ stage[i] = "requirements" /\ GoTo(i, "sign")
     \/ stage[i] = "sign" /\ GoTo(i, "submit")
  /\ UNCHANGED <<seq, networkVars>>

\* An inner belt before the submission throws, in process() or in a hook.
PreparationThrows(i) ==
  /\ stage[i] \in Preparing
  /\ GoTo(i, "threw")
  /\ UNCHANGED <<seq, networkVars>>

\* Submit Transaction.  The RPC server's answer is returned whatever its status
\* (PENDING, DUPLICATE, TRY_AGAIN_LATER, ERROR); Horizon answers only when the
\* transaction is settled.
Submit(i) ==
  /\ stage[i] = "submit"
  /\ Offer(Tx(i))
  /\ GoTo(i, IF Kind[i] = "soroban" THEN "followUp" ELSE "horizonAnswer")
  /\ UNCHANGED seq

\* The belt throws before it submits; or the request to the RPC server fails,
\* before or after the server took the transaction.
SubmitThrows(i) ==
  /\ stage[i] = "submit"
  /\ IF LateFailures /\ Kind[i] = "soroban" THEN Offer(Tx(i)) ELSE UNCHANGED networkVars
  /\ GoTo(i, "threw")
  /\ UNCHANGED seq

\* Mutant: the status polled is not looked at.
FollowUpIgnoresStatus(i) ==
  /\ stage[i] = "followUp"
  /\ \/ Tx(i) \in succeeded \cup failed /\ GoTo(i, "returned")
     \/ Tx(i) \notin queue /\ GoTo(i, "threw")
  /\ UNCHANGED <<seq, networkVars>>

\* Soroban Get Transaction: the status becomes final; or it is still NOT_FOUND
\* after the deadline, which is not before the envelope's maxTime when it has
\* one (SorobanGetTransaction!NotFoundAfterDeadline), though the last answer may
\* be older; or a poll or a hook of the belt fails.
FollowUp(i) ==
  /\ stage[i] = "followUp"
  /\ \/ Tx(i) \in succeeded /\ GoTo(i, "returned")
     \/ Tx(i) \in failed /\ GoTo(i, "threw")
     \/ (TimeoutsSet => Tx(i) \notin queue) /\ GoTo(i, "threw")
     \/ LateFailures /\ GoTo(i, "threw")
  /\ UNCHANGED <<seq, networkVars>>

\* Horizon answers the submission: successful, or an error; or the connection
\* fails or times out with the transaction still waiting for a ledger.
HorizonAnswers(i) ==
  /\ stage[i] = "horizonAnswer"
  /\ \/ Tx(i) \in succeeded /\ GoTo(i, "returned")
     \/ Tx(i) \notin queue \cup succeeded /\ GoTo(i, "threw")
     \/ LateFailures /\ GoTo(i, "threw")
  /\ UNCHANGED <<seq, networkVars>>

ProcessStep(i) ==
  \/ Build(i)
  \/ Simulate(i)
  \/ Prepare(i)
  \/ PreparationThrows(i)
  \/ Submit(i)
  \/ SubmitThrows(i)
  \/ FollowUp(i)
  \/ HorizonAnswers(i)

Next ==
  \/ \E i \in Executions : ProcessStep(i) /\ UNCHANGED source
  \/ NetworkStep /\ UNCHANGED <<source, pipelineVars>>

Spec == Init /\ [][Next]_vars

-----------------------------------------------------------------------------
(* Properties *)

Known == queue \cup succeeded \cup failed

\* Output is returned only for a transaction a ledger included with success:
\* whatever the RPC server answered to the submission, whose status the
\* pipeline does not read, and whatever other transaction of the same source
\* took the sequence number.
ReturnedMeansSucceeded ==
  \A i \in Executions :
    (stage[i] = "returned" /\ i \notin SimulateOnly) => Tx(i) \in succeeded

\* The network knows of a transaction only from an execution that went through
\* every stage before, and of none from a simulation.
OnlySignedReachNetwork ==
  \A t \in Known :
    /\ t = Tx(t.exec)
    /\ t.exec \notin SimulateOnly
    /\ stage[t.exec] \in Following \cup Ended

\* A transaction waiting for a ledger has the next sequence number of its
\* source and no rival for it.
SequencesFit ==
  \A t \in queue :
    /\ t.seq = ledgerSeq[t.source] + 1
    /\ \A u \in queue : u.source = t.source => u = t

=============================================================================
