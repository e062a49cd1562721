------------------------ MODULE ChannelAccountsPlugin ------------------------
(***************************************************************************)
(* The channel accounts plugin on a transaction pipeline                   *)
(* (utils/pipeline/plugins/soroban-transaction/channel-accounts/index.ts;  *)
(* the classic plugin is the same base class under another belt type).     *)
(*                                                                         *)
(* The plugin owns a pool of channel accounts.  Its preProcess hook locks a*)
(* free channel for the execution's item id and makes it the source of the *)
(* transaction; postProcess and processError look the lock up by that id   *)
(* and free the channel.  With the pool empty preProcess sleeps a second   *)
(* and tries again: there is no queue, so any execution may be served      *)
(* first.  The pool is only touched between awaits, so each hook of the    *)
(* plugin is one step; the other plugins of the belt and process() are     *)
(* those of ConveyorBelt, whose variables this module shares.              *)
(*                                                                         *)
(* Item ids are fresh unless the caller passes existingItemId to execute(),*)
(* a public parameter: IdOf need not be injective.                         *)
(***************************************************************************)
EXTENDS ConveyorBelt, Sequences

CONSTANTS
  ChannelPlugin,  \* position of the plugin among the belt's plugins
  Channels,       \* the channel accounts of the application
  Batches,        \* the arrays registerChannels() is called with
  Ids,            \* item ids
  IdOf,           \* the id each execution runs under
  NoChannel       \* the source of an item no channel was injected in

ASSUME PoolAssumption ==
  /\ ChannelPlugin \in Plugins
  /\ \A h \in Hooks : ChannelPlugin \in Implements[h]
  /\ \A h \in {"post", "error"} : ChannelPlugin \in Throws[h]
  /\ IdOf \in [Executions -> Ids]
  /\ NoChannel \notin Channels
  /\ Batches \subseteq Seq(Channels)
  /\ \A cs \in Batches : \A m, n \in 1..Len(cs) : cs[m] = cs[n] => m = n

VARIABLES
  freeChannels,    \* the array of free channels, used as a stack
  lockedChannels,  \* the locks: an id and a channel each
  source,          \* header.source of each execution's item, once injected
  asleep,          \* the executions inside noChannelPipeline's timeout
  registered       \* history: the channels registered so far

poolVars == <<freeChannels, lockedChannels, source, asleep, registered>>
vars == <<beltVars, poolVars>>

Locks == [id : Ids, channel : Channels]
InPool(c) == \E n \in 1..Len(freeChannels) : freeChannels[n] = c

PoolTypeOK ==
  /\ TypeOK
  /\ freeChannels \in Seq(Channels)
  /\ lockedChannels \in SUBSET Locks
  /\ source \in [Executions -> Channels \cup {NoChannel}]
  /\ asleep \in SUBSET Executions
  /\ registered \in SUBSET Channels

Init ==
  /\ BeltInit
  /\ freeChannels = <<>>
  /\ lockedChannels = {}
  /\ source = [i \in Executions |-> NoChannel]
  /\ asleep = {}
  /\ registered = {}

-----------------------------------------------------------------------------
(* Called by the constructor and by the application, at any time.  Nothing *)
(* stops a caller from registering a channel twice; the model's does not.  *)
RegisterChannels(cs) ==
  /\ \A n \in 1..Len(cs) : cs[n] \notin registered
  /\ freeChannels' = freeChannels \o cs
  /\ registered' = registered \cup {cs[n] : n \in 1..Len(cs)}
  /\ UNCHANGED <<beltVars, lockedChannels, source, asleep>>

\* The plugin's preProcess is what execution i calls next.
AtAllocation(i) == phase[i] = "pre" /\ Due("pre", at[i], ChannelPlugin)

\* Mutant: the channel is read from the stack but not taken off it.
AllocateWithoutPop(i) ==
  LET n == Len(freeChannels) IN
  /\ AtAllocation(i)
  /\ n > 0
  /\ lockedChannels' = lockedChannels \cup {[id |-> IdOf[i], channel |-> freeChannels[n]]}
  /\ source' = [source EXCEPT ![i] = freeChannels[n]]
  /\ asleep' = asleep \ {i}
  /\ HookReturns(i, ChannelPlugin)
  /\ UNCHANGED <<freeChannels, registered>>

\* Mutant: the channel is taken off the stack and not locked.
AllocateWithoutLock(i) ==
  LET n == Len(freeChannels) IN
  /\ AtAllocation(i)
  /\ n > 0
  /\ freeChannels' = SubSeq(freeChannels, 1, n - 1)
  /\ source' = [source EXCEPT ![i] = freeChannels[n]]
  /\ asleep' = asleep \ {i}
  /\ HookReturns(i, ChannelPlugin)
  /\ UNCHANGED <<lockedChannels, registered>>

\* allocateChannel with a channel free, on the first call or on a later one
\* from the timeout, then injectChannel.
AllocateChannel(i) ==
  LET n == Len(freeChannels) IN
  /\ AtAllocation(i)
  /\ n > 0
  /\ freeChannels' = SubSeq(freeChannels, 1, n - 1)
  /\ lockedChannels' = lockedChannels \cup {[id |-> IdOf[i], channel |-> freeChannels[n]]}
  /\ source' = [source EXCEPT ![i] = freeChannels[n]]
  /\ asleep' = asleep \ {i}
  /\ HookReturns(i, ChannelPlugin)
  /\ UNCHANGED registered

\* allocateChannel with none free: noChannelPipeline arms the timeout.  Arming
\* it again when a wake-up finds the pool empty changes nothing.
NoChannelPipeline(i) ==
  /\ AtAllocation(i)
  /\ Len(freeChannels) = 0
  /\ asleep' = asleep \cup {i}
  /\ UNCHANGED <<beltVars, freeChannels, lockedChannels, source, registered>>

\* The plugin's postProcess or processError is what execution i calls next.
AtRelease(i) ==
  /\ phase[i] \in {"post", "error"}
  /\ Due(phase[i], at[i], ChannelPlugin)

\* Mutant: any lock is taken for the item's own.
ReleaseAnyLock(i) ==
  /\ AtRelease(i)
  /\ \E l \in lockedChannels :
       /\ lockedChannels' = lockedChannels \ {l}
       /\ freeChannels' = Append(freeChannels, l.channel)
  /\ HookReturns(i, ChannelPlugin)
  /\ UNCHANGED <<source, asleep, registered>>

\* Mutant: the lock stays in the list.
ReleaseKeepsLock(i) ==
  /\ AtRelease(i)
  /\ \E l \in lockedChannels :
       l.id = IdOf[i] /\ freeChannels' = Append(freeChannels, l.channel)
  /\ HookReturns(i, ChannelPlugin)
  /\ UNCHANGED <<lockedChannels, source, asleep, registered>>

\* releaseChannel: one channel locked under the item's id goes back on the
\* stack, and every lock with that id goes.
ReleaseChannel(i) ==
  /\ AtRelease(i)
  /\ \E l \in lockedChannels :
       l.id = IdOf[i] /\ freeChannels' = Append(freeChannels, l.channel)
  /\ lockedChannels' = {l \in lockedChannels : l.id # IdOf[i]}
  /\ HookReturns(i, ChannelPlugin)
  /\ UNCHANGED <<source, asleep, registered>>

\* releaseChannel finds no lock under the item's id and throws.
LockedChannelNotFound(i) ==
  /\ AtRelease(i)
  /\ \A l \in lockedChannels : l.id # IdOf[i]
  /\ HookThrows(i, ChannelPlugin)
  /\ UNCHANGED poolVars

\* A step of execute() outside the channel plugin's hooks.
OtherStep(i) ==
  /\ \/ Execute(i)
     \/ \E k \in Plugins \ {ChannelPlugin} : HookReturns(i, k) \/ HookThrows(i, k)
     \/ BeginProcess(i)
     \/ ProcessReturns(i)
     \/ ProcessThrows(i)
     \/ Resolve(i)
     \/ RejectProcessed(i)
  /\ UNCHANGED poolVars

PluginStep(i) ==
  \/ AllocateChannel(i)
  \/ NoChannelPipeline(i)
  \/ AtRelease(i) /\ (ReleaseChannel(i) \/ LockedChannelNotFound(i))

Next ==
  \/ \E cs \in Batches : RegisterChannels(cs)
  \/ \E i \in Executions : OtherStep(i) \/ PluginStep(i)

Spec == Init /\ [][Next]_vars

\* The continuation of a started execution runs when it is ready.  A sleeping
\* execution is ready when its timeout finds a channel: were the pool empty at
\* each wake-up for ever, weak fairness would owe it nothing.
FairSpec ==
  Spec /\ \A i \in Executions :
            WF_vars(phase[i] # "idle" /\ (OtherStep(i) \/ PluginStep(i)))

-----------------------------------------------------------------------------
(* Properties *)

\* Execution i was given a channel and has not given it back.
Holding(i) ==
  /\ <<"pre", ChannelPlugin>> \in ran[i]
  /\ \A h \in {"post", "error"} : <<h, ChannelPlugin>> \notin ran[i]

UniqueIds == \A i, j \in Executions : IdOf[i] = IdOf[j] => i = j

\* The belts on which a hook that throws cannot come between an allocation and
\* its release.
SafePlacement ==
  /\ \A k \in Throws["pre"] : k < ChannelPlugin
  /\ \A h \in {"post", "error"} : \A k \in Throws[h] : k >= ChannelPlugin

\* A channel is in one place: once on the stack, or under one lock.  Whatever
\* the ids and the other plugins (allocateChannel and releaseChannel, 85-108).
PoolDisjoint ==
  /\ \A m, n \in 1..Len(freeChannels) : freeChannels[m] = freeChannels[n] => m = n
  /\ \A l \in lockedChannels : ~InPool(l.channel)
  /\ \A l1, l2 \in lockedChannels : l1.channel = l2.channel => l1 = l2

\* The locks are those of the executions that hold a channel, each on the
\* channel that is the source of its transaction.
LocksMatchHolders ==
  lockedChannels = {[id |-> IdOf[i], channel |-> source[i]] :
                      i \in {e \in Executions : Holding(e)}}

\* No channel ever registered is lost to the pool (getChannels, 63-67).
PoolConserved ==
  \A c \in registered : InPool(c) \/ \E l \in lockedChannels : l.channel = c

\* Two transactions in process never have the same source account: the clash
\* of sequence numbers the plugin is there to avoid.
SourceExclusive ==
  \A i, j \in Executions :
    (i # j /\ phase[i] = "process" /\ phase[j] = "process") => source[i] # source[j]

\* The lease an execution has: the channel it holds, from allocation to release.
Lease == INSTANCE ChannelLease WITH
  pool <- registered,
  lease <- [i \in Executions |-> IF Holding(i) THEN source[i] ELSE NoChannel],
  served <- {i \in Executions : <<"pre", ChannelPlugin>> \in ran[i]}

\* The same without the promise that leases end: holds wherever the other
\* plugins stand.
ImplementsLeaseSafety == Lease!Safety

\* The plugin implements the abstract lease, fairness included: a channel given
\* to an execution is given back (needs SafePlacement and UniqueIds).
ImplementsLease == Lease!Spec

\* index.ts:21: "Channels are allocated to items, and released when the item
\* is processed."
SettledItemsHoldNoChannel == \A i \in Executions : Settled(i) => ~Holding(i)

\* With a channel registered, every execution that started settles: no one is
\* starved of channels for good, whoever overtakes it.
WaitersServed ==
  \A i \in Executions : (phase[i] = "pre" /\ registered # {}) ~> Settled(i)

=============================================================================
