--------------------- MODULE ChannelAccountsPluginProofs ---------------------
(***************************************************************************)
(* Safety of the conveyor belt and of the channel pool, for any number of  *)
(* executions, plugins and channels.  The step lemmas of the belt are      *)
(* stated for BeltNext: every step of the pool is a step of the belt or    *)
(* leaves it alone.                                                        *)
(***************************************************************************)
EXTENDS ChannelAccountsPlugin, TLAPS

\* The initial state of the belt is well typed and has run no hook.
LEMMA BeltInitial == BeltInit => TypeOK /\ HookAccounting
  BY PluginsAssumption DEF BeltInit, TypeOK, HookAccounting, Phases, Hooks

\* A step of execute() keeps the belt's state well typed.
LEMMA BeltTypePreserved == TypeOK /\ [BeltNext]_beltVars => TypeOK'
<1> SUFFICES ASSUME TypeOK, [BeltNext]_beltVars PROVE TypeOK'
  OBVIOUS
<1> USE PluginsAssumption DEF TypeOK, Plugins, Phases, Hooks
<1>1. CASE UNCHANGED beltVars
  BY <1>1 DEF beltVars
<1>2. ASSUME NEW i \in Executions, Execute(i) PROVE TypeOK'
  BY <1>2 DEF Execute, Enter
<1>3. ASSUME NEW i \in Executions, NEW k \in Plugins, HookReturns(i, k)
      PROVE TypeOK'
  BY <1>3 DEF HookReturns, Due
<1>4. ASSUME NEW i \in Executions, NEW k \in Plugins, HookThrows(i, k)
      PROVE TypeOK'
  BY <1>4 DEF HookThrows
<1>5. ASSUME NEW i \in Executions, BeginProcess(i) PROVE TypeOK'
  BY <1>5 DEF BeginProcess, Enter
<1>6. ASSUME NEW i \in Executions, ProcessReturns(i) PROVE TypeOK'
  BY <1>6 DEF ProcessReturns, Enter
<1>7. ASSUME NEW i \in Executions, ProcessThrows(i) PROVE TypeOK'
  BY <1>7 DEF ProcessThrows, Enter
<1>8. ASSUME NEW i \in Executions, Resolve(i) PROVE TypeOK'
  BY <1>8 DEF Resolve
<1>9. ASSUME NEW i \in Executions, RejectProcessed(i) PROVE TypeOK'
  BY <1>9 DEF RejectProcessed
<1> QED
  BY <1>1, <1>2, <1>3, <1>4, <1>5, <1>6, <1>7, <1>8, <1>9 DEF BeltNext, BeltStep

-----------------------------------------------------------------------------
(* What the position of a hook loop says about the hooks it has run.       *)

\* No hook has been passed at the first position.
LEMMA PassedNone == \A h \in Hooks : Passed(h, 1) = {}
  BY PluginsAssumption DEF Passed, Plugins

\* Calling the plugin that is due adds its hook and nothing else.
LEMMA PassedOne ==
  ASSUME NEW h \in Hooks, NEW a \in 1..(N + 1), NEW k \in Plugins, Due(h, a, k)
  PROVE  /\ Passed(h, k) = Passed(h, a)
         /\ Passed(h, k + 1) = Passed(h, a) \cup {<<h, k>>}
<1> USE PluginsAssumption DEF Plugins
<1>1. Implements[h] \subseteq 1..N
  OBVIOUS
<1>2. {j \in Implements[h] : j < k} = {j \in Implements[h] : j < a}
  BY <1>1 DEF Due
<1>3. {j \in Implements[h] : j < k + 1} = {j \in Implements[h] : j < a} \cup {k}
  BY <1>1 DEF Due
<1> QED
  BY <1>2, <1>3 DEF Passed

\* An exhausted loop has called every plugin that defines the hook.
LEMMA PassedAll ==
  ASSUME NEW h \in Hooks, NEW a \in 1..(N + 1), Exhausted(h, a)
  PROVE  Passed(h, a) = Whole(h)
<1>1. {j \in Implements[h] : j < a} = {j \in Implements[h] : j < N + 1}
  BY PluginsAssumption DEF Exhausted, Plugins
<1> QED
  BY <1>1 DEF Passed, Whole

-----------------------------------------------------------------------------
(* HookAccounting, one execution at a time.                                *)

Accounted(i) ==
  /\ phase[i] = "idle" => ran[i] = {}
  /\ phase[i] \in Hooks => ran[i] = Before(phase[i]) \cup Passed(phase[i], at[i])
  /\ phase[i] = "process" => ran[i] = Whole("pre")
  /\ phase[i] = "resolved" => ran[i] = Whole("pre") \cup Whole("post")
  /\ phase[i] = "rejected" => RejectionAccounted(i)

\* A step of execute() keeps the account of the hooks of every execution.
LEMMA BeltAccountPreserved ==
  TypeOK /\ HookAccounting /\ [BeltNext]_beltVars => HookAccounting'
<1> SUFFICES ASSUME TypeOK, HookAccounting, [BeltNext]_beltVars,
                    NEW e \in Executions
             PROVE  Accounted(e)'
  BY DEF HookAccounting, Accounted
<1>a. Accounted(e) /\ ran[e] \in SUBSET (Hooks \X Plugins)
  BY DEF HookAccounting, Accounted, TypeOK
<1>0. CASE phase'[e] = phase[e] /\ at'[e] = at[e] /\ ran'[e] = ran[e]
  BY <1>0, <1>a DEF Accounted, RejectionAccounted
<1>1. CASE Execute(e)
  <2>1. phase'[e] = "pre" /\ at'[e] = 1 /\ ran'[e] = {}
    BY <1>1, <1>a DEF Execute, Enter, TypeOK, Accounted
  <2> QED
    BY <2>1, PassedNone DEF Accounted, Before, Hooks
<1>2. ASSUME NEW k \in Plugins, HookReturns(e, k) PROVE Accounted(e)'
  <2> DEFINE h == phase[e]
  <2>1. h \in Hooks /\ Due(h, at[e], k)
    BY <1>2 DEF HookReturns
  <2>2. phase'[e] = h /\ at'[e] = k + 1 /\ ran'[e] = ran[e] \cup {<<h, k>>}
    BY <1>2 DEF HookReturns, TypeOK
  <2>3. ran'[e] = Before(h) \cup Passed(h, k + 1)
    BY <1>a, <2>1, <2>2, PassedOne DEF Accounted, TypeOK
  <2> QED
    BY <2>1, <2>2, <2>3 DEF Accounted, Hooks
<1>3. ASSUME NEW k \in Plugins, HookThrows(e, k) PROVE Accounted(e)'
  <2> DEFINE h == phase[e]
  <2>1. h \in Hooks /\ Due(h, at[e], k) /\ k \in Throws[h]
    BY <1>3 DEF HookThrows
  <2>2. phase'[e] = "rejected" /\ ran'[e] = ran[e]
    BY <1>3 DEF HookThrows, TypeOK
  <2>3. ran'[e] = Before(h) \cup Passed(h, k)
    BY <1>a, <2>1, <2>2, PassedOne DEF Accounted, TypeOK
  <2> QED
    BY <2>1, <2>2, <2>3 DEF Accounted, RejectionAccounted, Hooks
<1>4. CASE BeginProcess(e)
  <2>1. phase[e] = "pre" /\ phase'[e] = "process" /\ ran'[e] = ran[e]
    BY <1>4 DEF BeginProcess, Enter, TypeOK
  <2>2. ran[e] = Whole("pre")
    BY <1>4, <1>a, PassedAll DEF BeginProcess, Accounted, Before, Hooks, TypeOK
  <2> QED
    BY <2>1, <2>2 DEF Accounted, Hooks
<1>5. CASE ProcessReturns(e)
  <2>1. phase[e] = "process" /\ phase'[e] = "post" /\ at'[e] = 1 /\ ran'[e] = ran[e]
    BY <1>5 DEF ProcessReturns, Enter, TypeOK
  <2> QED
    BY <2>1, <1>a, PassedNone DEF Accounted, Before, Hooks
<1>6. CASE ProcessThrows(e)
  <2>1. phase[e] = "process" /\ phase'[e] = "error" /\ at'[e] = 1 /\ ran'[e] = ran[e]
    BY <1>6 DEF ProcessThrows, Enter, TypeOK
  <2> QED
    BY <2>1, <1>a, PassedNone DEF Accounted, Before, Hooks
<1>7. CASE Resolve(e)
  <2>1. phase[e] = "post" /\ phase'[e] = "resolved" /\ ran'[e] = ran[e]
    BY <1>7 DEF Resolve, TypeOK
  <2>2. ran[e] = Whole("pre") \cup Whole("post")
    BY <1>7, <1>a, PassedAll DEF Resolve, Accounted, Before, Hooks, TypeOK
  <2> QED
    BY <2>1, <2>2 DEF Accounted, Hooks
<1>8. CASE RejectProcessed(e)
  <2>1. phase[e] = "error" /\ phase'[e] = "rejected" /\ ran'[e] = ran[e]
    BY <1>8 DEF RejectProcessed, TypeOK
  <2>2. ran[e] = Whole("pre") \cup Whole("error")
    BY <1>8, <1>a, PassedAll DEF RejectProcessed, Accounted, Before, Hooks, TypeOK
  <2> QED
    BY <2>1, <2>2 DEF Accounted, RejectionAccounted, Hooks
<1>9. ASSUME NEW i \in Executions, i # e, Execute(i) \/ BeltStep(i)
      PROVE  phase'[e] = phase[e] /\ at'[e] = at[e] /\ ran'[e] = ran[e]
  BY <1>9 DEF TypeOK, Execute, BeltStep, HookReturns, HookThrows, BeginProcess,
    ProcessReturns, ProcessThrows, Resolve, RejectProcessed, Enter
<1>10. CASE UNCHANGED beltVars
  BY <1>10, <1>0 DEF beltVars
<1> QED
  BY <1>0, <1>1, <1>2, <1>3, <1>4, <1>5, <1>6, <1>7, <1>8, <1>9, <1>10
    DEF BeltNext, BeltStep

-----------------------------------------------------------------------------

\* The belt's state is always well typed (execute(), conveyor-belts 19-35).
THEOREM BeltTypeCorrect == BeltSpec => []TypeOK
  BY BeltInitial, BeltTypePreserved, PTL DEF BeltSpec

\* On every belt, whatever its plugins define or throw and however many
\* executions interleave, the hooks that ran are the ones the phase implies.
THEOREM BeltAccountsHooks == BeltSpec => []HookAccounting
  BY BeltInitial, BeltTypePreserved, BeltAccountPreserved, PTL DEF BeltSpec

-----------------------------------------------------------------------------
(* The pool on the belt.                                                   *)

\* The channel plugin adds no step to execute().
LEMMA StepIsBeltStep == Next => [BeltNext]_beltVars
<1> SUFFICES ASSUME Next PROVE [BeltNext]_beltVars
  OBVIOUS
<1>1. ASSUME NEW cs \in Batches, RegisterChannels(cs) PROVE UNCHANGED beltVars
  BY <1>1 DEF RegisterChannels
<1>2. ASSUME NEW i \in Executions, OtherStep(i) PROVE BeltNext
  BY <1>2 DEF OtherStep, BeltNext, BeltStep
<1>3. ASSUME NEW i \in Executions, PluginStep(i) PROVE BeltNext \/ UNCHANGED beltVars
  BY <1>3, PoolAssumption
    DEF PluginStep, AllocateChannel, NoChannelPipeline, ReleaseChannel,
        LockedChannelNotFound, BeltNext, BeltStep
<1> QED
  BY <1>1, <1>2, <1>3 DEF Next

-----------------------------------------------------------------------------
(* The pool by itself: nothing here depends on the ids.                    *)

\* Every channel in the pool is a registered one.
PoolRegistered ==
  /\ \A c \in Channels : InPool(c) => c \in registered
  /\ \A l \in lockedChannels : l.channel \in registered

PoolInv == PoolTypeOK /\ HookAccounting /\ PoolDisjoint /\ PoolRegistered

\* The empty pool satisfies the invariant.
LEMMA PoolInitial == Init => PoolInv
<1> SUFFICES ASSUME Init PROVE PoolInv
  OBVIOUS
<1>1. TypeOK /\ HookAccounting
  BY BeltInitial DEF Init
<1> QED
  BY <1>1, PoolAssumption
    DEF Init, PoolInv, PoolTypeOK, PoolDisjoint, PoolRegistered, InPool

\* Registering a batch of new channels keeps the pool in order.
LEMMA RegisterKeepsPool ==
  ASSUME PoolInv, NEW cs \in Batches, RegisterChannels(cs)
  PROVE  PoolTypeOK' /\ PoolDisjoint' /\ PoolRegistered'
<1> USE DEF PoolInv, PoolTypeOK
<1> DEFINE L == Len(freeChannels)
<1>1. cs \in Seq(Channels) /\ \A m, n \in 1..Len(cs) : cs[m] = cs[n] => m = n
  BY PoolAssumption
<1>2. UNCHANGED <<beltVars, lockedChannels, source, asleep>>
  BY DEF RegisterChannels
<1>3. /\ freeChannels' = freeChannels \o cs
      /\ registered' = registered \cup {cs[n] : n \in 1..Len(cs)}
      /\ \A n \in 1..Len(cs) : cs[n] \notin registered
  BY DEF RegisterChannels
<1>4. /\ freeChannels' \in Seq(Channels)
      /\ Len(freeChannels') = L + Len(cs)
      /\ \A n \in 1..L : freeChannels'[n] = freeChannels[n]
      /\ \A n \in (L + 1)..(L + Len(cs)) :
            n - L \in 1..Len(cs) /\ freeChannels'[n] = cs[n - L]
  BY <1>1, <1>3
<1>5. L \in Nat /\ Len(cs) \in Nat
  BY <1>1
<1>6. \A n \in 1..L : freeChannels[n] \in registered
  BY DEF PoolRegistered, InPool
<1>7. PoolTypeOK'
  BY <1>1, <1>2, <1>3, <1>4 DEF TypeOK, beltVars
<1>8. ASSUME NEW m \in 1..Len(freeChannels'), NEW n \in 1..Len(freeChannels'),
             freeChannels'[m] = freeChannels'[n]
      PROVE  m = n
  <2>1. CASE m <= L /\ n <= L
    BY <1>4, <1>5, <1>8, <2>1 DEF PoolDisjoint
  <2>2. CASE m > L /\ n > L
    <3>1. m - L \in 1..Len(cs) /\ n - L \in 1..Len(cs) /\ cs[m - L] = cs[n - L]
      BY <1>4, <1>5, <1>8, <2>2
    <3> QED
      BY <1>1, <1>5, <3>1
  <2>3. CASE (m <= L) # (n <= L)
    BY <1>3, <1>4, <1>5, <1>6, <1>8, <2>3
  <2> QED
    BY <1>4, <1>5, <2>1, <2>2, <2>3
<1>9. \A c : InPool(c)' => InPool(c) \/ c \in {cs[n] : n \in 1..Len(cs)}
  <2> SUFFICES ASSUME NEW c, NEW n \in 1..Len(freeChannels'), freeChannels'[n] = c,
                      ~InPool(c)
               PROVE  c \in {cs[m] : m \in 1..Len(cs)}
    BY DEF InPool
  <2>1. n \in (L + 1)..(L + Len(cs))
    BY <1>4, <1>5 DEF InPool
  <2> QED
    BY <1>4, <2>1
<1>10. \A l \in lockedChannels' : ~InPool(l.channel)'
  BY <1>2, <1>3, <1>9 DEF PoolDisjoint, PoolRegistered
<1>11. PoolDisjoint'
  BY <1>2, <1>8, <1>10 DEF PoolDisjoint
<1>12. PoolRegistered'
  BY <1>2, <1>3, <1>9 DEF PoolRegistered
<1> QED
  BY <1>7, <1>11, <1>12

\* What popping the last free channel leaves on the stack.
LEMMA PopFacts ==
  ASSUME PoolInv, NEW i \in Executions, AllocateChannel(i)
  PROVE  LET n == Len(freeChannels) IN
         /\ n \in Nat \ {0}
         /\ freeChannels[n] \in Channels
         /\ freeChannels' \in Seq(Channels)
         /\ Len(freeChannels') = n - 1
         /\ \A m \in 1..(n - 1) : freeChannels'[m] = freeChannels[m]
<1> DEFINE n == Len(freeChannels)
<1>1. freeChannels \in Seq(Channels) /\ n \in Nat /\ n > 0
  BY DEF PoolInv, PoolTypeOK, AllocateChannel
<1>2. freeChannels' = SubSeq(freeChannels, 1, n - 1)
  BY DEF AllocateChannel
<1>3. n - 1 \in 0..n /\ n \in 1..n
  BY <1>1
<1> HIDE DEF n
<1>4. /\ freeChannels' \in Seq(Channels)
      /\ Len(freeChannels') = n - 1
      /\ \A m \in 1..(n - 1) : freeChannels'[m] = freeChannels[m]
  <2>1. n = Len(freeChannels)
    BY DEF n
  <2> QED
    BY <1>1, <1>2, <1>3, <2>1
<1>5. freeChannels[n] \in Channels
  BY <1>1, <1>3 DEF n
<1> QED
  BY <1>1, <1>4, <1>5 DEF n

\* Allocating a channel moves it from the stack to a lock.
LEMMA AllocateKeepsPool ==
  ASSUME PoolInv, NEW i \in Executions, AllocateChannel(i)
  PROVE  /\ PoolTypeOK' /\ PoolDisjoint' /\ PoolRegistered'
         /\ source'[i] = freeChannels[Len(freeChannels)]
<1> DEFINE n == Len(freeChannels)
           c == freeChannels[n]
           new == [id |-> IdOf[i], channel |-> c]
<1>0. TypeOK'
  BY StepIsBeltStep, BeltTypePreserved DEF PoolInv, PoolTypeOK, Next, PluginStep
<1>1. /\ n \in Nat \ {0} /\ c \in Channels /\ freeChannels' \in Seq(Channels)
      /\ Len(freeChannels') = n - 1
      /\ \A m \in 1..(n - 1) : freeChannels'[m] = freeChannels[m]
  BY PopFacts
<1>2. /\ lockedChannels' = lockedChannels \cup {new}
      /\ source' = [source EXCEPT ![i] = c]
      /\ asleep' = asleep \ {i} /\ registered' = registered
  BY DEF AllocateChannel
<1>3. new \in Locks /\ new.channel = c
  BY <1>1, PoolAssumption DEF Locks
<1>4. PoolTypeOK'
  BY <1>0, <1>1, <1>2, <1>3 DEF PoolInv, PoolTypeOK
<1>5. InPool(c) /\ \A d : InPool(d)' => InPool(d) /\ d # c
  BY <1>1 DEF InPool, PoolInv, PoolDisjoint
<1>6. PoolDisjoint'
  <2>1. \A m1, m2 \in 1..Len(freeChannels') :
          freeChannels'[m1] = freeChannels'[m2] => m1 = m2
    BY <1>1 DEF PoolInv, PoolDisjoint
  <2>2. \A l \in lockedChannels' : ~InPool(l.channel)'
    BY <1>2, <1>3, <1>5 DEF PoolInv, PoolDisjoint
  <2>3. \A l1, l2 \in lockedChannels' : l1.channel = l2.channel => l1 = l2
    BY <1>2, <1>3, <1>5 DEF PoolInv, PoolDisjoint
  <2> QED
    BY <2>1, <2>2, <2>3 DEF PoolDisjoint
<1>7. PoolRegistered'
  BY <1>1, <1>2, <1>3, <1>5 DEF PoolInv, PoolRegistered
<1>8. source'[i] = c
  BY <1>2 DEF PoolInv, PoolTypeOK
<1> QED
  BY <1>4, <1>6, <1>7, <1>8

\* Releasing a channel moves it from a lock to the stack.
LEMMA ReleaseKeepsPool ==
  ASSUME PoolInv, NEW i \in Executions, ReleaseChannel(i)
  PROVE  PoolTypeOK' /\ PoolDisjoint' /\ PoolRegistered'
<1> DEFINE n == Len(freeChannels)
<1>0. TypeOK'
  BY StepIsBeltStep, BeltTypePreserved DEF PoolInv, PoolTypeOK, Next, PluginStep, ReleaseChannel
<1>1. PICK l \in lockedChannels :
        l.id = IdOf[i] /\ freeChannels' = Append(freeChannels, l.channel)
  BY DEF ReleaseChannel
<1>2. /\ lockedChannels' = {m \in lockedChannels : m.id # IdOf[i]}
      /\ UNCHANGED <<source, asleep, registered>>
  BY DEF ReleaseChannel
<1>3. l \in Locks /\ l.channel \in Channels /\ freeChannels \in Seq(Channels)
  BY DEF PoolInv, PoolTypeOK, Locks
<1>4. /\ n \in Nat /\ freeChannels' \in Seq(Channels)
      /\ Len(freeChannels') = n + 1 /\ freeChannels'[n + 1] = l.channel
      /\ \A m \in 1..n : freeChannels'[m] = freeChannels[m]
  BY <1>1, <1>3
<1>5. PoolTypeOK'
  BY <1>0, <1>2, <1>4 DEF PoolInv, PoolTypeOK
<1>6. \A d : InPool(d)' => InPool(d) \/ d = l.channel
  BY <1>4 DEF InPool
<1>7. PoolDisjoint'
  <2>1. \A m \in 1..n : freeChannels[m] # l.channel
    BY DEF PoolInv, PoolDisjoint, InPool
  <2>2. \A m1, m2 \in 1..Len(freeChannels') :
          freeChannels'[m1] = freeChannels'[m2] => m1 = m2
    BY <1>4, <2>1 DEF PoolInv, PoolDisjoint
  <2>3. \A m \in lockedChannels' : ~InPool(m.channel)'
    BY <1>1, <1>2, <1>6 DEF PoolInv, PoolDisjoint
  <2> QED
    BY <1>2, <2>2, <2>3 DEF PoolInv, PoolDisjoint
<1>8. PoolRegistered'
  BY <1>2, <1>6 DEF PoolInv, PoolRegistered
<1> QED
  BY <1>5, <1>7, <1>8

\* Every step keeps the pool in order.
LEMMA PoolPreserved == PoolInv /\ [Next]_vars => PoolInv'
<1> SUFFICES ASSUME PoolInv, [Next]_vars PROVE PoolInv'
  OBVIOUS
<1>1. TypeOK' /\ HookAccounting'
  <2>1. [BeltNext]_beltVars
    BY StepIsBeltStep DEF vars
  <2> QED
    BY <2>1, BeltTypePreserved, BeltAccountPreserved DEF PoolInv, PoolTypeOK
<1>2. ASSUME UNCHANGED <<freeChannels, lockedChannels, source, registered>>,
             asleep' \in SUBSET Executions
      PROVE  PoolTypeOK' /\ PoolDisjoint' /\ PoolRegistered'
  BY <1>1, <1>2 DEF PoolInv, PoolTypeOK, PoolDisjoint, PoolRegistered, InPool
<1>3. CASE UNCHANGED vars
  BY <1>1, <1>2, <1>3 DEF vars, poolVars, PoolInv, PoolTypeOK
<1>4. ASSUME NEW cs \in Batches, RegisterChannels(cs)
      PROVE  PoolTypeOK' /\ PoolDisjoint' /\ PoolRegistered'
  BY <1>4, RegisterKeepsPool
<1>5. ASSUME NEW i \in Executions, OtherStep(i)
      PROVE  PoolTypeOK' /\ PoolDisjoint' /\ PoolRegistered'
  BY <1>2, <1>5 DEF OtherStep, poolVars, PoolInv, PoolTypeOK
<1>6. ASSUME NEW i \in Executions, AllocateChannel(i)
      PROVE  PoolTypeOK' /\ PoolDisjoint' /\ PoolRegistered'
  BY <1>6, AllocateKeepsPool
<1>7. ASSUME NEW i \in Executions, NoChannelPipeline(i)
      PROVE  PoolTypeOK' /\ PoolDisjoint' /\ PoolRegistered'
  BY <1>2, <1>7 DEF NoChannelPipeline, PoolInv, PoolTypeOK
<1>8. ASSUME NEW i \in Executions, ReleaseChannel(i)
      PROVE  PoolTypeOK' /\ PoolDisjoint' /\ PoolRegistered'
  BY <1>8, ReleaseKeepsPool
<1>9. ASSUME NEW i \in Executions, LockedChannelNotFound(i)
      PROVE  PoolTypeOK' /\ PoolDisjoint' /\ PoolRegistered'
  BY <1>2, <1>9 DEF LockedChannelNotFound, poolVars, PoolInv, PoolTypeOK
<1> QED
  BY <1>1, <1>3, <1>4, <1>5, <1>6, <1>7, <1>8, <1>9 DEF Next, PluginStep, PoolInv

\* The pool invariant holds throughout.
LEMMA PoolInvariant == Spec => []PoolInv
  BY PoolInitial, PoolPreserved, PTL DEF Spec

\* The plugin's and the belt's state is always well typed.
THEOREM PoolTypeCorrect == Spec => []PoolTypeOK
<1>1. PoolInv => PoolTypeOK
  BY DEF PoolInv
<1> QED
  BY <1>1, PoolInvariant, PTL

\* A channel is never in two places: whatever ids the callers pass, whatever
\* the other plugins throw and however the executions interleave.
THEOREM ChannelsInOnePlace == Spec => []PoolDisjoint
<1>1. PoolInv => PoolDisjoint
  BY DEF PoolInv
<1> QED
  BY <1>1, PoolInvariant, PTL

-----------------------------------------------------------------------------
(* Who holds what.  The history of the belt says when each hook of the     *)
(* plugin has run, so a step of another plugin never changes who holds.    *)

\* Before its allocation an execution holds nothing, and after it it does.
LEMMA AllocationHolds ==
  ASSUME PoolInv, NEW i \in Executions, AllocateChannel(i)
  PROVE  ~Holding(i) /\ Holding(i)'
<1>1. phase[i] = "pre" /\ Due("pre", at[i], ChannelPlugin)
  BY DEF AllocateChannel, AtAllocation
<1>2. ran[i] = Passed("pre", at[i])
  BY <1>1 DEF PoolInv, HookAccounting, Before, Hooks
<1>3. ran'[i] = ran[i] \cup {<<"pre", ChannelPlugin>>}
  BY <1>1 DEF AllocateChannel, HookReturns, PoolInv, PoolTypeOK, TypeOK
<1>4. <<"pre", ChannelPlugin>> \notin Passed("pre", at[i])
  BY <1>1, PluginsAssumption, PoolAssumption
    DEF Due, Passed, PoolInv, PoolTypeOK, TypeOK, Plugins
<1>5. \A h \in {"post", "error"} : <<h, ChannelPlugin>> \notin ran[i]
  BY <1>2 DEF Passed
<1> QED
  BY <1>2, <1>3, <1>4, <1>5 DEF Holding

\* An execution about to release holds a channel, and afterwards it does not.
LEMMA ReleaseEndsHolding ==
  ASSUME PoolInv, NEW i \in Executions, AtRelease(i)
  PROVE  /\ Holding(i)
         /\ HookReturns(i, ChannelPlugin) => ~Holding(i)'
<1>1. phase[i] \in {"post", "error"} /\ Due(phase[i], at[i], ChannelPlugin)
  BY DEF AtRelease
<1>2. ran[i] = Whole("pre") \cup Passed(phase[i], at[i])
  BY <1>1 DEF PoolInv, HookAccounting, Before, Hooks
<1>3. <<"pre", ChannelPlugin>> \in Whole("pre")
  BY PluginsAssumption, PoolAssumption DEF Whole, Passed, Plugins, Hooks
<1>4. \A h \in {"post", "error"} : <<h, ChannelPlugin>> \notin Whole("pre")
  BY DEF Whole, Passed
<1>5. \A h \in {"post", "error"} : <<h, ChannelPlugin>> \notin Passed(phase[i], at[i])
  BY <1>1, PluginsAssumption, PoolAssumption
    DEF Due, Passed, PoolInv, PoolTypeOK, TypeOK, Plugins
<1>6. HookReturns(i, ChannelPlugin) =>
        ran'[i] = ran[i] \cup {<<phase[i], ChannelPlugin>>}
  BY DEF HookReturns, PoolInv, PoolTypeOK, TypeOK
<1> QED
  BY <1>1, <1>2, <1>3, <1>4, <1>5, <1>6 DEF Holding

\* A step outside the plugin's hooks leaves every holder as it is.
LEMMA OthersKeepHolding ==
  ASSUME PoolInv, NEW i \in Executions, OtherStep(i), NEW e \in Executions
  PROVE  Holding(e)' <=> Holding(e)
<1>1. \A h \in Hooks :
        <<h, ChannelPlugin>> \in ran'[e] <=> <<h, ChannelPlugin>> \in ran[e]
  <2>1. ASSUME NEW k \in Plugins \ {ChannelPlugin}, HookReturns(i, k)
        PROVE  ran'[e] = ran[e] \/ ran'[e] = ran[e] \cup {<<phase[i], k>>}
    BY <2>1 DEF HookReturns, PoolInv, PoolTypeOK, TypeOK
  <2>2. \/ ran' = ran
        \/ \E k \in Plugins \ {ChannelPlugin} : HookReturns(i, k)
    BY DEF OtherStep, HookThrows, Execute, BeginProcess, ProcessReturns,
      ProcessThrows, Resolve, RejectProcessed, Enter
  <2> QED
    BY <2>1, <2>2
<1> QED
  BY <1>1 DEF Holding, Hooks

\* A hook of the plugin changes who holds only for its own execution.
LEMMA OwnHookOnly ==
  ASSUME PoolInv, NEW i \in Executions, HookReturns(i, ChannelPlugin),
         NEW e \in Executions, e # i
  PROVE  Holding(e)' <=> Holding(e)
<1>1. ran'[e] = ran[e]
  BY DEF HookReturns, PoolInv, PoolTypeOK, TypeOK
<1> QED
  BY <1>1 DEF Holding

-----------------------------------------------------------------------------
(* The locks, when every execution has an id of its own.                   *)

Lock(i) == [id |-> IdOf[i], channel |-> source[i]]

LockInv == PoolInv /\ LocksMatchHolders /\ PoolConserved

\* Each step keeps the locks those of the holders.
LEMMA LocksPreserved ==
  ASSUME UniqueIds, LockInv, [Next]_vars
  PROVE  LocksMatchHolders'
<1> USE DEF LockInv
<1>1. \A l : l \in lockedChannels <=> \E i \in Executions : Holding(i) /\ l = Lock(i)
  BY DEF LocksMatchHolders, Lock
<1>2. SUFFICES \A l : l \in lockedChannels' <=>
                        \E i \in Executions : Holding(i)' /\ l = Lock(i)'
  BY DEF LocksMatchHolders, Lock
<1>3. ASSUME lockedChannels' = lockedChannels, source' = source,
             \A e \in Executions : Holding(e)' <=> Holding(e)
      PROVE  \A l : l \in lockedChannels' <=>
                      \E i \in Executions : Holding(i)' /\ l = Lock(i)'
  BY <1>1, <1>3 DEF Lock
<1>4. CASE UNCHANGED vars
  BY <1>3, <1>4 DEF vars, poolVars, beltVars, Holding
<1>5. ASSUME NEW cs \in Batches, RegisterChannels(cs)
      PROVE  UNCHANGED <<lockedChannels, source, ran>>
  BY <1>5 DEF RegisterChannels, beltVars
<1>6. ASSUME NEW i \in Executions, OtherStep(i)
      PROVE  \A l : l \in lockedChannels' <=>
                      \E e \in Executions : Holding(e)' /\ l = Lock(e)'
  BY <1>3, <1>6, OthersKeepHolding DEF OtherStep, poolVars
<1>7. ASSUME NEW i \in Executions, AllocateChannel(i)
      PROVE  \A l : l \in lockedChannels' <=>
                      \E e \in Executions : Holding(e)' /\ l = Lock(e)'
  <2>1. ~Holding(i) /\ Holding(i)'
    BY <1>7, AllocationHolds
  <2>2. \A e \in Executions : e # i => (Holding(e)' <=> Holding(e))
    BY <1>7, OwnHookOnly DEF AllocateChannel
  <2>3. \A e \in Executions : e # i => Lock(e)' = Lock(e)
    BY <1>7 DEF AllocateChannel, Lock, PoolInv, PoolTypeOK
  <2>4. lockedChannels' = lockedChannels \cup {Lock(i)'}
    BY <1>7, AllocateKeepsPool DEF AllocateChannel, Lock
  <2> QED
    BY <1>1, <2>1, <2>2, <2>3, <2>4
<1>8. ASSUME NEW i \in Executions, NoChannelPipeline(i)
      PROVE  UNCHANGED <<lockedChannels, source, ran>>
  BY <1>8 DEF NoChannelPipeline, beltVars
<1>9. ASSUME NEW i \in Executions, ReleaseChannel(i)
      PROVE  \A l : l \in lockedChannels' <=>
                      \E e \in Executions : Holding(e)' /\ l = Lock(e)'
  <2>1. ~Holding(i)'
    BY <1>9, ReleaseEndsHolding DEF ReleaseChannel
  <2>2. \A e \in Executions : e # i => (Holding(e)' <=> Holding(e))
    BY <1>9, OwnHookOnly DEF ReleaseChannel
  <2>3. source' = source /\ lockedChannels' = {l \in lockedChannels : l.id # IdOf[i]}
    BY <1>9 DEF ReleaseChannel
  <2>4. \A e \in Executions : Lock(e)' = Lock(e) /\ Lock(e).id = IdOf[e]
    BY <2>3 DEF Lock
  <2>5. \A e \in Executions : e # i => IdOf[e] # IdOf[i]
    BY DEF UniqueIds
  <2> QED
    BY <1>1, <2>1, <2>2, <2>3, <2>4, <2>5
<1>10. ASSUME NEW i \in Executions, LockedChannelNotFound(i)
       PROVE  UNCHANGED <<lockedChannels, source, ran>>
  BY <1>10 DEF LockedChannelNotFound, HookThrows, poolVars
<1>11. CASE UNCHANGED <<lockedChannels, source, ran>>
  BY <1>3, <1>11 DEF Holding
<1> QED
  BY <1>4, <1>5, <1>6, <1>7, <1>8, <1>9, <1>10, <1>11 DEF Next, PluginStep

\* Each step keeps every registered channel on the stack or under a lock.
LEMMA ChannelsConserved ==
  ASSUME UniqueIds, LockInv, [Next]_vars
  PROVE  PoolConserved'
<1> USE DEF LockInv
<1> DEFINE Kept(c) == InPool(c) \/ \E l \in lockedChannels : l.channel = c
<1>1. \A c \in registered : Kept(c)
  BY DEF PoolConserved
<1>2. CASE UNCHANGED <<freeChannels, lockedChannels, registered>>
  BY <1>1, <1>2 DEF PoolConserved, InPool
<1>3. CASE UNCHANGED vars
  BY <1>2, <1>3 DEF vars, poolVars
<1>4. ASSUME NEW cs \in Batches, RegisterChannels(cs) PROVE PoolConserved'
  <2> DEFINE L == Len(freeChannels)
  <2>1. cs \in Seq(Channels) /\ freeChannels \in Seq(Channels)
    BY PoolAssumption DEF PoolInv, PoolTypeOK
  <2>2. /\ freeChannels' = freeChannels \o cs /\ lockedChannels' = lockedChannels
        /\ registered' = registered \cup {cs[n] : n \in 1..Len(cs)}
    BY <1>4 DEF RegisterChannels
  <2>3. /\ \A n \in 1..L : n \in 1..Len(freeChannels') /\ freeChannels'[n] = freeChannels[n]
        /\ \A n \in 1..Len(cs) :
              L + n \in 1..Len(freeChannels') /\ freeChannels'[L + n] = cs[n]
    BY <2>1, <2>2
  <2>4. \A c \in Channels : InPool(c) => InPool(c)'
    BY <2>3 DEF InPool
  <2>5. \A n \in 1..Len(cs) : InPool(cs[n])'
    <3> SUFFICES ASSUME NEW n \in 1..Len(cs)
                 PROVE  \E m \in 1..Len(freeChannels') : freeChannels'[m] = cs[n]
      BY <1>4 DEF InPool, RegisterChannels
    <3> QED
      BY <2>3
  <2> QED
    BY <1>1, <2>2, <2>4, <2>5 DEF PoolConserved, PoolInv, PoolTypeOK
<1>5. ASSUME NEW i \in Executions, AllocateChannel(i) PROVE PoolConserved'
  <2> DEFINE n == Len(freeChannels)
  <2>1. /\ n \in Nat \ {0} /\ Len(freeChannels') = n - 1
        /\ \A m \in 1..(n - 1) : freeChannels'[m] = freeChannels[m]
    BY <1>5, PopFacts
  <2>2. /\ lockedChannels' =
             lockedChannels \cup {[id |-> IdOf[i], channel |-> freeChannels[n]]}
        /\ registered' = registered
    BY <1>5 DEF AllocateChannel
  <2>3. \A c \in Channels : InPool(c) => InPool(c)' \/ c = freeChannels[n]
    BY <2>1 DEF InPool
  <2>4. \E l \in lockedChannels' : l.channel = freeChannels[n]
    <3> DEFINE new == [id |-> IdOf[i], channel |-> freeChannels[n]]
    <3>1. new \in lockedChannels' /\ new.channel = freeChannels[n]
      BY <2>2
    <3> HIDE DEF new
    <3> QED
      BY <3>1
  <2>5. \A l \in lockedChannels : l \in lockedChannels'
    BY <2>2
  <2>6. \A c \in registered : InPool(c)' \/ \E m \in lockedChannels' : m.channel = c
    BY <1>1, <2>3, <2>4, <2>5 DEF PoolInv, PoolTypeOK
  <2>7. registered' = registered
    BY <2>2
  <2> QED
    BY <2>6, <2>7 DEF PoolConserved
<1>6. ASSUME NEW i \in Executions, ReleaseChannel(i) PROVE PoolConserved'
  <2> DEFINE n == Len(freeChannels)
  <2>1. PICK l \in lockedChannels :
          l.id = IdOf[i] /\ freeChannels' = Append(freeChannels, l.channel)
    BY <1>6 DEF ReleaseChannel
  <2>2. lockedChannels' = {m \in lockedChannels : m.id # IdOf[i]} /\ registered' = registered
    BY <1>6 DEF ReleaseChannel
  <2>3. l.channel \in Channels /\ freeChannels \in Seq(Channels)
    BY DEF PoolInv, PoolTypeOK, Locks
  <2>4. /\ n + 1 \in 1..Len(freeChannels') /\ freeChannels'[n + 1] = l.channel
        /\ \A m \in 1..n : m \in 1..Len(freeChannels') /\ freeChannels'[m] = freeChannels[m]
    BY <2>1, <2>3
  <2>5. \A c \in Channels : InPool(c) \/ c = l.channel => InPool(c)'
    BY <2>4 DEF InPool
  <2>6. \A m \in lockedChannels : m.id = IdOf[i] => m = l
    BY <2>1 DEF LocksMatchHolders, UniqueIds
  <2>7. \A c \in registered : InPool(c)' \/ \E m \in lockedChannels' : m.channel = c
    BY <1>1, <2>2, <2>5, <2>6 DEF PoolInv, PoolTypeOK
  <2>8. registered' = registered
    BY <2>2
  <2> QED
    BY <2>7, <2>8 DEF PoolConserved
<1>7. ASSUME NEW i \in Executions,
             OtherStep(i) \/ NoChannelPipeline(i) \/ LockedChannelNotFound(i)
      PROVE  UNCHANGED <<freeChannels, lockedChannels, registered>>
  BY <1>7 DEF OtherStep, NoChannelPipeline, LockedChannelNotFound, poolVars
<1> QED
  BY <1>2, <1>3, <1>4, <1>5, <1>6, <1>7 DEF Next, PluginStep

\* Nothing is locked at first.
LEMMA LockInitial == Init => LockInv
<1> SUFFICES ASSUME Init PROVE LockInv
  OBVIOUS
<1>1. \A i \in Executions : ~Holding(i)
  BY DEF Init, BeltInit, Holding
<1> QED
  BY <1>1, PoolInitial DEF Init, LockInv, LocksMatchHolders, PoolConserved

\* Every step keeps the locks and the pool in order.
LEMMA LockPreserved == ASSUME UniqueIds PROVE LockInv /\ [Next]_vars => LockInv'
  BY PoolPreserved, LocksPreserved, ChannelsConserved DEF LockInv

\* The lock invariant holds throughout.
LEMMA LockInvariant == ASSUME UniqueIds PROVE Spec => []LockInv
  BY LockInitial, LockPreserved, PTL DEF Spec

\* An execution in process() holds a channel.
LEMMA InProcessHolds ==
  ASSUME LockInv, NEW e \in Executions, phase[e] = "process"
  PROVE  Holding(e) /\ Lock(e) \in lockedChannels /\ source[e] \in Channels
<1>1. ran[e] = Whole("pre")
  BY DEF LockInv, PoolInv, HookAccounting
<1>2. <<"pre", ChannelPlugin>> \in Whole("pre")
  BY PluginsAssumption, PoolAssumption DEF Whole, Passed, Plugins, Hooks
<1>3. \A h \in {"post", "error"} : <<h, ChannelPlugin>> \notin Whole("pre")
  BY DEF Whole, Passed
<1>4. Holding(e)
  BY <1>1, <1>2, <1>3 DEF Holding
<1>5. Lock(e) \in lockedChannels
  BY <1>4 DEF LockInv, LocksMatchHolders, Lock
<1>6. Lock(e) \in Locks
  BY <1>5 DEF LockInv, PoolInv, PoolTypeOK
<1> QED
  BY <1>4, <1>5, <1>6 DEF Lock, Locks

\* With the locks in order the sources of the executions in process differ.
LEMMA ProcessExclusive == ASSUME UniqueIds PROVE LockInv => SourceExclusive
<1> SUFFICES ASSUME LockInv, NEW i \in Executions, NEW j \in Executions,
                    phase[i] = "process", phase[j] = "process",
                    source[i] = source[j]
             PROVE  i = j
  BY DEF SourceExclusive
<1>1. Lock(i) \in lockedChannels /\ Lock(j) \in lockedChannels
  BY InProcessHolds
<1>2. Lock(i) = Lock(j)
  BY <1>1 DEF LockInv, PoolInv, PoolDisjoint, Lock
<1> QED
  BY <1>2 DEF Lock, UniqueIds

\* With an id per execution the locks are those of the executions that hold a
\* channel, on the source of their transaction.
THEOREM LocksAreHolders == ASSUME UniqueIds PROVE Spec => []LocksMatchHolders
<1>1. LockInv => LocksMatchHolders
  BY DEF LockInv
<1> QED
  BY <1>1, LockInvariant, PTL

\* With an id per execution no registered channel is ever lost to the pool.
THEOREM NoChannelLost == ASSUME UniqueIds PROVE Spec => []PoolConserved
<1>1. LockInv => PoolConserved
  BY DEF LockInv
<1> QED
  BY <1>1, LockInvariant, PTL

\* With an id per execution two transactions in process never have the same
\* source: for any plugins around, throwing anywhere.
THEOREM NoSharedSource == ASSUME UniqueIds PROVE Spec => []SourceExclusive
  BY ProcessExclusive, LockInvariant, PTL

-----------------------------------------------------------------------------
(* Channels come back, when no hook that throws stands between an          *)
(* allocation and its release.                                             *)

\* A loop cut short by a hook of another plugin has not reached the channel
\* plugin's allocation, or is past its release.
LEMMA ThrowOutsideHolding ==
  ASSUME SafePlacement, PoolInv, NEW i \in Executions,
         NEW k \in Plugins \ {ChannelPlugin}, HookThrows(i, k)
  PROVE  ~Holding(i)
<1> DEFINE h == phase[i]
<1>1. h \in Hooks /\ Due(h, at[i], k) /\ k \in Throws[h]
  BY DEF HookThrows
<1>2. ran[i] = Before(h) \cup Passed(h, at[i])
  BY <1>1 DEF PoolInv, HookAccounting
<1>3. at[i] \in 1..(N + 1) /\ ChannelPlugin \in Implements[h] /\ ChannelPlugin \in 1..N
  BY <1>1, PluginsAssumption, PoolAssumption DEF PoolInv, PoolTypeOK, TypeOK, Plugins
<1>4. CASE h = "pre"
  <2>1. k < ChannelPlugin /\ at[i] <= k
    BY <1>1, <1>4 DEF SafePlacement, Due
  <2>2. <<"pre", ChannelPlugin>> \notin Passed("pre", at[i])
    BY <1>3, <2>1 DEF Passed, Plugins
  <2> QED
    BY <1>2, <1>4, <2>2 DEF Before, Holding
<1>5. CASE h \in {"post", "error"}
  <2>1. ChannelPlugin < k
    BY <1>1, <1>3, <1>5 DEF SafePlacement, Plugins
  <2>2. ChannelPlugin < at[i]
    BY <1>1, <1>3, <2>1 DEF Due, Plugins
  <2>3. <<h, ChannelPlugin>> \in Passed(h, at[i])
    BY <1>3, <2>2 DEF Passed
  <2> QED
    BY <1>2, <1>5, <2>3 DEF Holding
<1> QED
  BY <1>1, <1>4, <1>5 DEF Hooks

\* An exhausted postProcess or processError loop has released the channel.
LEMMA EndOutsideHolding ==
  ASSUME PoolInv, NEW i \in Executions, Resolve(i) \/ RejectProcessed(i)
  PROVE  ~Holding(i)
<1> DEFINE h == phase[i]
<1>1. h \in {"post", "error"} /\ Exhausted(h, at[i])
  BY DEF Resolve, RejectProcessed
<1>2. ran[i] = Before(h) \cup Passed(h, at[i])
  BY <1>1 DEF PoolInv, HookAccounting, Hooks
<1>3. <<h, ChannelPlugin>> \in Passed(h, at[i])
  BY <1>1, PoolAssumption DEF Exhausted, Passed, Hooks
<1> QED
  BY <1>1, <1>2, <1>3 DEF Holding

\* An execution settles with no channel, and a settled one takes no step.
LEMMA SettlingPreserved ==
  ASSUME UniqueIds, SafePlacement, LockInv, SettledItemsHoldNoChannel, [Next]_vars
  PROVE  SettledItemsHoldNoChannel'
<1> USE DEF LockInv
<1>1. SUFFICES ASSUME NEW e \in Executions, Settled(e)' PROVE ~Holding(e)'
  BY DEF SettledItemsHoldNoChannel
<1>2. CASE phase'[e] = phase[e] /\ ran'[e] = ran[e]
  BY <1>1, <1>2 DEF SettledItemsHoldNoChannel, Settled, Holding
<1>3. CASE UNCHANGED <<phase, ran>>
  BY <1>2, <1>3
<1>4. ASSUME NEW i \in Executions, i # e, OtherStep(i) \/ PluginStep(i)
      PROVE  phase'[e] = phase[e] /\ ran'[e] = ran[e]
  BY <1>4 DEF OtherStep, PluginStep, AllocateChannel, NoChannelPipeline, ReleaseChannel,
    LockedChannelNotFound, Execute, HookReturns, HookThrows, BeginProcess, ProcessReturns,
    ProcessThrows, Resolve, RejectProcessed, Enter, beltVars, PoolInv, PoolTypeOK, TypeOK
<1>5. CASE OtherStep(e)
  <2>1. CASE \E k \in Plugins \ {ChannelPlugin} : HookThrows(e, k)
    BY <1>5, <2>1, ThrowOutsideHolding, OthersKeepHolding
  <2>2. CASE Resolve(e) \/ RejectProcessed(e)
    BY <1>5, <2>2, EndOutsideHolding, OthersKeepHolding
  <2>3. CASE \E k \in Plugins : HookReturns(e, k)
    BY <1>1, <2>3 DEF HookReturns, Settled, Hooks
  <2>4. CASE Execute(e) \/ BeginProcess(e) \/ ProcessReturns(e) \/ ProcessThrows(e)
    BY <1>1, <2>4 DEF Execute, BeginProcess, ProcessReturns, ProcessThrows, Enter,
      Settled, PoolInv, PoolTypeOK, TypeOK
  <2> QED
    BY <1>5, <2>1, <2>2, <2>3, <2>4 DEF OtherStep
<1>6. CASE AllocateChannel(e) \/ ReleaseChannel(e)
  BY <1>1, <1>6 DEF AllocateChannel, ReleaseChannel, HookReturns, Settled, Hooks
<1>7. CASE NoChannelPipeline(e)
  BY <1>3, <1>7 DEF NoChannelPipeline, beltVars
<1>8. ~LockedChannelNotFound(e)
  <2> SUFFICES ASSUME LockedChannelNotFound(e) PROVE FALSE
    OBVIOUS
  <2>1. Holding(e)
    BY ReleaseEndsHolding DEF LockedChannelNotFound
  <2>2. Lock(e) \in lockedChannels
    BY <2>1 DEF LocksMatchHolders, Lock
  <2> QED
    BY <2>2 DEF LockedChannelNotFound, Lock
<1>9. ASSUME NEW cs \in Batches, RegisterChannels(cs) PROVE UNCHANGED <<phase, ran>>
  BY <1>9 DEF RegisterChannels, beltVars
<1>10. CASE UNCHANGED vars
  BY <1>3, <1>10 DEF vars, beltVars
<1> QED
  BY <1>2, <1>3, <1>4, <1>5, <1>6, <1>7, <1>8, <1>9, <1>10 DEF Next, PluginStep

\* "Channels are allocated to items, and released when the item is processed"
\* (index.ts:21), on every belt with SafePlacement.
THEOREM ChannelsComeBack ==
  ASSUME UniqueIds, SafePlacement PROVE Spec => []SettledItemsHoldNoChannel
<1>1. Init => SettledItemsHoldNoChannel
  BY DEF Init, BeltInit, SettledItemsHoldNoChannel, Settled
<1>2. LockInv /\ SettledItemsHoldNoChannel /\ [Next]_vars => SettledItemsHoldNoChannel'
  BY SettlingPreserved
<1> QED
  BY <1>1, <1>2, LockInvariant, PTL DEF Spec

-----------------------------------------------------------------------------
(* The plugin implements the abstract lease.                               *)

\* The lease function of the refinement mapping.
Leases == [i \in Executions |-> IF Holding(i) THEN source[i] ELSE NoChannel]
Served == {i \in Executions : <<"pre", ChannelPlugin>> \in ran[i]}

\* A step that changes no holder, no source and no registration is a stutter.
LEMMA LeaseStutter ==
  ASSUME registered' = registered, source' = source,
         \A e \in Executions : Holding(e)' <=> Holding(e),
         \A e \in Executions :
           <<"pre", ChannelPlugin>> \in ran'[e] <=> <<"pre", ChannelPlugin>> \in ran[e]
  PROVE  UNCHANGED <<registered, Leases, Served>>
  BY DEF Leases, Served

\* A holder has been served: its allocation is in the history.
LEMMA HoldersServed == \A i \in Executions : Holding(i) => i \in Served
  BY DEF Holding, Served

\* An allocation is an Acquire of the channel it injects.
LEMMA AllocateIsAcquire ==
  ASSUME LockInv, NEW i \in Executions, AllocateChannel(i)
  PROVE  \E c \in Channels :
           /\ i \notin Served /\ c \in registered
           /\ \A j \in Executions : Leases[j] # c
           /\ Leases' = [Leases EXCEPT ![i] = c]
           /\ Served' = Served \cup {i}
           /\ registered' = registered
<1> USE DEF LockInv
<1> DEFINE c == freeChannels[Len(freeChannels)]
<1>1. c \in Channels /\ InPool(c) /\ source' = [source EXCEPT ![i] = c]
  <2>1. Len(freeChannels) \in 1..Len(freeChannels) /\ c \in Channels
    BY PopFacts
  <2>2. source' = [source EXCEPT ![i] = c]
    BY DEF AllocateChannel
  <2> QED
    BY <2>1, <2>2 DEF InPool
<1>2. ~Holding(i) /\ Holding(i)'
  BY AllocationHolds
<1>3. phase[i] = "pre" /\ Due("pre", at[i], ChannelPlugin)
  BY DEF AllocateChannel, AtAllocation
<1>4. i \notin Served
  <2>1. ran[i] = Passed("pre", at[i])
    BY <1>3 DEF PoolInv, HookAccounting, Before, Hooks
  <2> QED
    BY <1>3, <2>1, PluginsAssumption, PoolAssumption
      DEF Due, Passed, Served, PoolInv, PoolTypeOK, TypeOK, Plugins
<1>5. ran' = [ran EXCEPT ![i] = @ \cup {<<"pre", ChannelPlugin>>}]
  BY <1>3 DEF AllocateChannel, HookReturns
<1>6. \A e \in Executions : e # i => (Holding(e)' <=> Holding(e))
  BY OwnHookOnly DEF AllocateChannel
<1>7. \A j \in Executions : Leases[j] # c
  <2> SUFFICES ASSUME NEW j \in Executions, Holding(j), source[j] = c PROVE FALSE
    BY <1>1, PoolAssumption DEF Leases
  <2>1. Lock(j) \in lockedChannels /\ Lock(j).channel = c
    BY DEF LocksMatchHolders, Lock
  <2> QED
    BY <1>1, <2>1 DEF PoolInv, PoolDisjoint
<1>8. c \in registered
  BY <1>1 DEF PoolInv, PoolRegistered
<1>9. Leases' = [Leases EXCEPT ![i] = c]
  BY <1>1, <1>2, <1>6 DEF Leases, PoolInv, PoolTypeOK
<1>10. Served' = Served \cup {i}
  BY <1>5 DEF Served, PoolInv, PoolTypeOK, TypeOK
<1>11. registered' = registered
  BY DEF AllocateChannel
<1> QED
  BY <1>1, <1>4, <1>7, <1>8, <1>9, <1>10, <1>11

\* A release by the plugin is a Release of the lease.
LEMMA ReleaseIsRelease ==
  ASSUME LockInv, NEW i \in Executions, ReleaseChannel(i)
  PROVE  /\ Leases[i] # NoChannel
         /\ Leases' = [Leases EXCEPT ![i] = NoChannel]
         /\ Served' = Served /\ registered' = registered
<1> USE DEF LockInv
<1>1. Holding(i) /\ ~Holding(i)' /\ source' = source /\ registered' = registered
  BY ReleaseEndsHolding DEF ReleaseChannel
<1>2. \A e \in Executions : e # i => (Holding(e)' <=> Holding(e))
  BY OwnHookOnly DEF ReleaseChannel
<1>3. source[i] \in Channels
  <2>1. Lock(i) \in Locks
    BY <1>1 DEF LocksMatchHolders, Lock, PoolInv, PoolTypeOK
  <2> QED
    BY <2>1 DEF Lock, Locks
<1>4. Leases[i] # NoChannel
  BY <1>1, <1>3, PoolAssumption DEF Leases
<1>5. Leases' = [Leases EXCEPT ![i] = NoChannel]
  BY <1>1, <1>2 DEF Leases
<1>6. \E h \in {"post", "error"} :
        ran' = [ran EXCEPT ![i] = @ \cup {<<h, ChannelPlugin>>}]
  BY DEF ReleaseChannel, HookReturns, AtRelease
<1>7. Served' = Served
  BY <1>6 DEF Served, PoolInv, PoolTypeOK, TypeOK
<1> QED
  BY <1>1, <1>4, <1>5, <1>7

\* Every step of the plugin is a step of the abstract lease or a stutter.
LEMMA StepImplementsLease ==
  ASSUME LockInv, [Next]_vars
  PROVE  [Lease!Next]_(Lease!leaseVars)
<1> USE DEF LockInv
<1>1. Lease!leaseVars = <<registered, Leases, Served>>
  BY DEF Lease!leaseVars, Leases, Served
<1>2. Lease!leaseVars' = <<registered', Leases', Served'>>
  BY DEF Lease!leaseVars, Leases, Served
<1>3. CASE UNCHANGED <<registered, Leases, Served>>
  BY <1>1, <1>2, <1>3
<1>4. CASE UNCHANGED <<registered, source, ran>>
  BY <1>3, <1>4, LeaseStutter DEF Holding
<1>5. CASE UNCHANGED vars
  BY <1>4, <1>5 DEF vars, beltVars, poolVars
<1>6. ASSUME NEW cs \in Batches, RegisterChannels(cs) PROVE [Lease!Next]_(Lease!leaseVars)
  <2> DEFINE new == {cs[n] : n \in 1..Len(cs)}
  <2>1. new \in SUBSET Channels
    BY PoolAssumption
  <2>2. registered' = registered \cup new /\ new \cap registered = {}
        /\ UNCHANGED <<source, ran>>
    BY <1>6 DEF RegisterChannels, beltVars
  <2>3. Leases' = Leases /\ Served' = Served
    BY <2>2 DEF Leases, Served, Holding
  <2>4. CASE new = {}
    BY <1>4, <2>2, <2>4
  <2>5. CASE new # {}
    <3>1. Lease!Open(new)
      BY <2>2, <2>3, <2>5 DEF Lease!Open, Leases, Served
    <3> QED
      BY <2>1, <3>1 DEF Lease!Next
  <2> QED
    BY <2>4, <2>5
<1>7. ASSUME NEW i \in Executions, AllocateChannel(i)
      PROVE  [Lease!Next]_(Lease!leaseVars)
  <2>1. PICK c \in Channels :
           /\ i \notin Served /\ c \in registered
           /\ \A j \in Executions : Leases[j] # c
           /\ Leases' = [Leases EXCEPT ![i] = c]
           /\ Served' = Served \cup {i}
           /\ registered' = registered
    BY <1>7, AllocateIsAcquire
  <2>2. Lease!Acquire(i, c)
    BY <2>1 DEF Lease!Acquire, Leases, Served
  <2> QED
    BY <2>2 DEF Lease!Next
<1>8. ASSUME NEW i \in Executions, ReleaseChannel(i)
      PROVE  [Lease!Next]_(Lease!leaseVars)
  <2>1. Lease!Release(i)
    BY <1>8, ReleaseIsRelease DEF Lease!Release, Leases, Served
  <2> QED
    BY <2>1 DEF Lease!Next
<1>9. ASSUME NEW i \in Executions, OtherStep(i)
      PROVE  UNCHANGED <<registered, Leases, Served>>
  <2>1. registered' = registered /\ source' = source
    BY <1>9 DEF OtherStep, poolVars
  <2>2. \A e \in Executions :
          <<"pre", ChannelPlugin>> \in ran'[e] <=> <<"pre", ChannelPlugin>> \in ran[e]
    <3>1. ASSUME NEW k \in Plugins \ {ChannelPlugin}, HookReturns(i, k),
                 NEW e \in Executions
          PROVE  ran'[e] = ran[e] \/ ran'[e] = ran[e] \cup {<<phase[i], k>>}
      BY <3>1 DEF HookReturns, PoolInv, PoolTypeOK, TypeOK
    <3>2. \/ ran' = ran
          \/ \E k \in Plugins \ {ChannelPlugin} : HookReturns(i, k)
      BY <1>9 DEF OtherStep, HookThrows, Execute, BeginProcess, ProcessReturns,
        ProcessThrows, Resolve, RejectProcessed, Enter
    <3> QED
      BY <3>1, <3>2
  <2> QED
    BY <1>9, <2>1, <2>2, OthersKeepHolding, LeaseStutter
<1>10. ASSUME NEW i \in Executions, NoChannelPipeline(i) \/ LockedChannelNotFound(i)
       PROVE  UNCHANGED <<registered, source, ran>>
  BY <1>10 DEF NoChannelPipeline, LockedChannelNotFound, HookThrows, poolVars, beltVars
<1> QED
  BY <1>3, <1>4, <1>5, <1>6, <1>7, <1>8, <1>9, <1>10 DEF Next, PluginStep

\* With an id per execution the plugin implements the lease's safety part,
\* wherever the other plugins stand and whatever they throw.
THEOREM PluginImplementsLease == ASSUME UniqueIds PROVE Spec => ImplementsLeaseSafety
<1>1. Init => Lease!Init
  <2> SUFFICES ASSUME Init PROVE Lease!Init
    OBVIOUS
  <2>1. \A i \in Executions : ran[i] = {}
    BY DEF Init, BeltInit
  <2> QED
    BY <2>1 DEF Init, Lease!Init, Holding
<1>2. LockInv /\ [Next]_vars => [Lease!Next]_(Lease!leaseVars)
  BY StepImplementsLease
<1> QED
  BY <1>1, <1>2, LockInvariant, PTL DEF Spec, ImplementsLeaseSafety, Lease!Safety

=============================================================================
