------------------------- MODULE ChannelTransactions -------------------------
(***************************************************************************)
(* Transactions on a pipeline with the channel accounts plugin: the belt   *)
(* and the pool of ChannelAccountsPlugin with process() as in              *)
(* TransactionPipelines, on one network.  The channel the plugin injects is*)
(* the account whose sequence number the transaction is built with.        *)
(***************************************************************************)
EXTENDS ChannelAccountsPlugin

CONSTANTS Kind, SimulateOnly, LateFailures, TimeoutsSet, HorizonMayLag

\* Only the Soroban pipeline has options.simulateOnly.
ASSUME SimulateOnlyAssumption == \A i \in SimulateOnly : Kind[i] = "soroban"

VARIABLES stage, seq, ledgerSeq, horizonSeq, queue, succeeded, failed

Pipelines == INSTANCE TransactionPipelines WITH Accounts <- Channels

pipelineVars == <<stage, seq>>
networkVars == <<ledgerSeq, horizonSeq, queue, succeeded, failed>>
processVars == <<pipelineVars, networkVars>>
allVars == <<vars, processVars>>

ChannelInit == Init /\ Pipelines!PipelineInit

\* A step of process(), while the belt awaits it.
ProcessStep(i) ==
  /\ phase[i] = "process"
  /\ Pipelines!ProcessStep(i)
  /\ UNCHANGED vars

\* A step of the belt or the plugin.  process() settles as its stages ended.
BeltOrPluginStep(i) ==
  /\ OtherStep(i) \/ PluginStep(i)
  /\ phase[i] = "process" =>
       stage[i] = IF phase'[i] = "post" THEN "returned" ELSE "threw"
  /\ UNCHANGED processVars

ChannelNext ==
  \/ \E cs \in Batches : RegisterChannels(cs) /\ UNCHANGED processVars
  \/ \E i \in Executions : BeltOrPluginStep(i) \/ ProcessStep(i)
  \/ Pipelines!NetworkStep /\ UNCHANGED <<vars, pipelineVars>>

ChannelSpec == ChannelInit /\ [][ChannelNext]_allVars

\* Continuations run, requests end, and a submitted transaction is included or
\* expires.
FairChannelSpec ==
  /\ ChannelSpec
  /\ WF_allVars(Pipelines!NetworkStep /\ UNCHANGED <<vars, pipelineVars>>)
  /\ \A i \in Executions :
       WF_allVars(phase[i] # "idle" /\ (BeltOrPluginStep(i) \/ ProcessStep(i)))

-----------------------------------------------------------------------------
(* Properties *)

\* channel-accounts-plugin.md:5: the plugin avoids "sequence number clashing
\* when executing multiple transactions in parallel".  It does as long as
\* nothing fails once a transaction is submitted, every envelope has expired when
\* polling for it ends, and Horizon keeps up with the RPC server.
NoSequenceClash == Pipelines!SequencesFit

\* Every execution that started settles and gives its channel back, once there
\* is a channel: a transaction that is never included delays the others only
\* until it expires.
TransactionsSettle ==
  \A i \in Executions :
    (phase[i] = "pre" /\ registered # {}) ~> (Settled(i) /\ ~Holding(i))

=============================================================================
