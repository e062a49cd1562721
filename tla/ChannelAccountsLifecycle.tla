---------------------- MODULE ChannelAccountsLifecycle ----------------------
(***************************************************************************)
(* The life of channel accounts (channel-accounts/index.ts): openChannels  *)
(* makes key pairs and creates their accounts in one classic transaction,  *)
(* and returns them once it was included; closeChannels merges accounts    *)
(* back into their sponsor in one transaction.  Between the two the        *)
(* application registers them with the plugin of ChannelTransactions, and  *)
(* nothing in either call looks at whether they are in use.                *)
(*                                                                         *)
(* Both execute a classic pipeline without the plugin, which returns only  *)
(* once the transaction succeeded (TransactionPipelines!                   *)
(* ReturnedMeansSucceeded) and may throw at any time.  The account those   *)
(* transactions are sent from and the reserves are left out: they make a   *)
(* transaction fail, as anything may.                                      *)
(***************************************************************************)
EXTENDS ChannelTransactions, Integers, FiniteSets

CONSTANTS
  OpenCalls,      \* calls of openChannels
  CloseCalls,     \* calls of closeChannels
  Numbers,        \* of channels, as openChannels is asked for
  channelLimit    \* 15 in the program

ASSUME LifecycleAssumption ==
  /\ OpenCalls \cap CloseCalls = {}
  /\ Numbers \subseteq Int
  /\ channelLimit \in Nat

VARIABLES
  state,      \* call -> idle, executing, or how it ended
  channels,   \* call -> the channels it opens or closes
  sent,       \* call -> its transaction on the network
  accounts    \* the channels that are accounts on the ledger

lifecycleVars == <<state, channels, sent, accounts>>
lifecycleCalls == OpenCalls \cup CloseCalls

LifecycleTypeOK ==
  /\ state \in [lifecycleCalls -> {"idle", "executing", "resolved", "rejected"}]
  /\ channels \in [lifecycleCalls -> SUBSET Channels]
  /\ sent \in [lifecycleCalls -> {"none", "pending", "succeeded", "failed"}]
  /\ accounts \subseteq Channels

LifecycleInit ==
  /\ ChannelInit
  /\ state = [l \in lifecycleCalls |-> "idle"]
  /\ channels = [l \in lifecycleCalls |-> {}]
  /\ sent = [l \in lifecycleCalls |-> "none"]
  /\ accounts = {}

-----------------------------------------------------------------------------
(* The calls.                                                              *)

Generated == UNION {channels[o] : o \in OpenCalls}

\* What openChannels returned to the application.
Opened == UNION {channels[o] : o \in {p \in OpenCalls : state[p] = "resolved"}}

\* New key pairs, as many as were asked for; or the number is refused.
openChannels(o, n) ==
  /\ state[o] = "idle"
  /\ IF n <= 0 \/ n > channelLimit
       THEN state' = [state EXCEPT ![o] = "rejected"] /\ UNCHANGED channels
       ELSE /\ state' = [state EXCEPT ![o] = "executing"]
            /\ \E cs \in SUBSET (Channels \ Generated) :
                 Cardinality(cs) = n /\ channels' = [channels EXCEPT ![o] = cs]
  /\ UNCHANGED <<sent, accounts>>

\* The application closes channels it has, in use or not.
closeChannels(x, cs) ==
  /\ state[x] = "idle"
  /\ state' = [state EXCEPT ![x] = "executing"]
  /\ channels' = [channels EXCEPT ![x] = cs]
  /\ UNCHANGED <<sent, accounts>>

\* The pipeline submits the transaction, signed by the channels and the sponsor.
LifecycleSubmit(l) ==
  /\ state[l] = "executing" /\ sent[l] = "none"
  /\ sent' = [sent EXCEPT ![l] = "pending"]
  /\ UNCHANGED <<state, channels, accounts>>

\* Mutant: openChannels does not await the pipeline.
ReturnUnawaited(l) ==
  /\ state[l] = "executing" /\ sent[l] # "failed"
  /\ state' = [state EXCEPT ![l] = "resolved"]
  /\ UNCHANGED <<channels, sent, accounts>>

LifecycleReturn(l) ==
  /\ state[l] = "executing" /\ sent[l] = "succeeded"
  /\ state' = [state EXCEPT ![l] = "resolved"]
  /\ UNCHANGED <<channels, sent, accounts>>

\* The pipeline throws, whatever became of the transaction: the key pairs of an
\* openChannels are lost then.
LifecycleThrows(l) ==
  /\ state[l] = "executing"
  /\ state' = [state EXCEPT ![l] = "rejected"]
  /\ UNCHANGED <<channels, sent, accounts>>

-----------------------------------------------------------------------------
(* The ledger.  A transaction creates, or merges, all its accounts or none. *)

Create(o) ==
  /\ sent[o] = "pending"
  /\ sent' = [sent EXCEPT ![o] = "succeeded"]
  /\ accounts' = accounts \cup channels[o]
  /\ UNCHANGED <<state, channels>>

Merge(x) ==
  /\ sent[x] = "pending" /\ channels[x] \subseteq accounts
  /\ sent' = [sent EXCEPT ![x] = "succeeded"]
  /\ accounts' = accounts \ channels[x]
  /\ UNCHANGED <<state, channels>>

LifecycleDiscard(l) ==
  /\ sent[l] = "pending"
  /\ sent' = [sent EXCEPT ![l] = "failed"]
  /\ UNCHANGED <<state, channels, accounts>>

LifecycleStep ==
  \/ \E o \in OpenCalls : (\E n \in Numbers : openChannels(o, n)) \/ Create(o)
  \/ \E x \in CloseCalls :
       (\E cs \in SUBSET Opened \ {{}} : closeChannels(x, cs)) \/ Merge(x)
  \/ \E l \in lifecycleCalls :
       \/ LifecycleSubmit(l) \/ LifecycleReturn(l) \/ LifecycleThrows(l)
       \/ LifecycleDiscard(l)

-----------------------------------------------------------------------------
(* The transactions on the channels meanwhile.                             *)

\* Horizon finds no source account that is not on the ledger.
AccountLoads(i) == stage[i] = "build" /\ stage'[i] # "threw" => source[i] \in accounts

ExecutionStep(i) ==
  /\ BeltOrPluginStep(i) \/ (ProcessStep(i) /\ AccountLoads(i))
  /\ UNCHANGED lifecycleVars

\* A ledger includes only transactions of accounts it has.
IncludedSources == {t.source : t \in (succeeded' \cup failed') \ (succeeded \cup failed)}

ChannelNetworkStep ==
  /\ Pipelines!NetworkStep
  /\ IncludedSources \subseteq accounts
  /\ UNCHANGED <<vars, pipelineVars, lifecycleVars>>

\* The application registers channels it has.
RegisterOpened(cs) ==
  /\ {cs[n] : n \in 1..Len(cs)} \subseteq Opened
  /\ RegisterChannels(cs)
  /\ UNCHANGED <<processVars, lifecycleVars>>

LifecycleNext ==
  \/ \E cs \in Batches : RegisterOpened(cs)
  \/ \E i \in Executions : ExecutionStep(i)
  \/ ChannelNetworkStep
  \/ LifecycleStep /\ UNCHANGED allVars

allLifecycleVars == <<allVars, lifecycleVars>>

LifecycleSpec == LifecycleInit /\ [][LifecycleNext]_allLifecycleVars

\* As in ChannelTransactions; nothing is owed to the calls that open and close.
FairLifecycleSpec ==
  /\ LifecycleSpec
  /\ WF_allLifecycleVars(ChannelNetworkStep)
  /\ \A i \in Executions : WF_allLifecycleVars(phase[i] # "idle" /\ ExecutionStep(i))

-----------------------------------------------------------------------------
(* Properties *)

\* A closeChannels with channel c sent its transaction.
Closing(c) == \E x \in CloseCalls : c \in channels[x] /\ sent[x] # "none"

\* index.ts:20, "Array of channel accounts": a channel that the application was
\* given, that is in the pool, or that is the source of an item or a pending
\* transaction, is an account on the ledger, until a closeChannels sent its transaction.  And an
\* account is one the application was given, unless the openChannels that made
\* it has not returned, or threw after it sent its transaction.
ChannelsAreAccounts ==
  /\ \A c \in Opened \cup registered
               \cup ({source[i] : i \in Executions} \ {NoChannel})
               \cup {t.source : t \in queue} :
       c \in accounts \/ Closing(c)
  /\ \A c \in accounts \ Opened :
       \E o \in OpenCalls :
         c \in channels[o] /\ sent[o] = "succeeded" /\ state[o] \in {"executing", "rejected"}

=============================================================================
