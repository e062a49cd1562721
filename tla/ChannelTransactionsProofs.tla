---------------------- MODULE ChannelTransactionsProofs ----------------------
(***************************************************************************)
(* No two transactions of a belt with the channel accounts plugin compete  *)
(* for a sequence number, for any number of executions and channels, when  *)
(* nothing fails after a submission, envelopes expire before polling ends  *)
(* and Horizon keeps up with the RPC server.  Without any of this, what    *)
(* execute() settles with is true of the transaction it submitted.         *)
(***************************************************************************)
EXTENDS ChannelAccountsLifecycle, ChannelAccountsPluginProofs

\* The network and the timeouts are as the plugin needs them.
Calm == TimeoutsSet /\ ~LateFailures /\ ~HorizonMayLag

Txs == [exec : Executions, source : Channels, seq : Nat]
Tx(i) == Pipelines!Tx(i)

ProcessTypeOK ==
  /\ stage \in [Executions -> Pipelines!Stages]
  /\ seq \in [Executions -> Nat]
  /\ ledgerSeq \in [Channels -> Nat]
  /\ horizonSeq = ledgerSeq
  /\ queue \subseteq Txs /\ succeeded \subseteq Txs /\ failed \subseteq Txs

\* The stages with a transaction built and nothing submitted.
Built == {"simulate", "auth", "requirements", "sign", "submit"}
Following == Pipelines!Following

\* process() is in the middle of its stages only while the belt awaits it.
StagesInProcess ==
  \A i \in Executions :
    /\ stage[i] \in Built \cup Following => phase[i] = "process"
    /\ phase[i] = "pre" => stage[i] = "build"
    /\ phase[i] = "idle" => stage[i] = "build"

\* A built transaction has the next number of its channel; one in the queue is
\* still followed and has it, too; an included one has had its turn.
NumbersNext ==
  /\ \A i \in Executions : stage[i] \in Built => seq[i] = ledgerSeq[source[i]] + 1
  /\ \A t \in queue :
       t = Tx(t.exec) /\ stage[t.exec] \in Following /\ t.seq = ledgerSeq[t.source] + 1
  /\ \A t \in succeeded \cup failed : t.seq <= ledgerSeq[t.source]

NumbersInv == LockInv /\ ProcessTypeOK /\ StagesInProcess /\ NumbersNext

\* A step of the composition is a step of the belt and the pool, or none.
LEMMA ChannelStepIsPoolStep == [ChannelNext]_allVars => [Next]_vars
<1>1. ASSUME ChannelNext PROVE [Next]_vars
  BY <1>1 DEF ChannelNext, Next, BeltOrPluginStep, ProcessStep
<1>2. ASSUME UNCHANGED allVars PROVE UNCHANGED vars
  BY <1>2 DEF allVars
<1> QED
  BY <1>1, <1>2

\* Nothing is submitted at first.
LEMMA NumbersInitial == Calm /\ ChannelInit => NumbersInv
<1> SUFFICES ASSUME Calm, ChannelInit PROVE NumbersInv
  OBVIOUS
<1>1. LockInv
  BY LockInitial DEF ChannelInit
<1>2. /\ stage = [i \in Executions |-> "build"] /\ seq = [i \in Executions |-> 0]
      /\ ledgerSeq = [a \in Channels |-> 0] /\ horizonSeq = ledgerSeq
      /\ queue = {} /\ succeeded = {} /\ failed = {}
  BY DEF ChannelInit, Pipelines!PipelineInit, Pipelines!NetworkInit
<1> QED
  BY <1>1, <1>2 DEF NumbersInv, ProcessTypeOK, StagesInProcess, NumbersNext, Built, Following,
    Pipelines!Following, Pipelines!Stages, Pipelines!Preparing

\* The belt and the plugin change no stage, and no source of an execution in
\* process.
LEMMA BeltKeepsNumbers ==
  ASSUME NumbersInv, UNCHANGED processVars,
         \/ \E i \in Executions : BeltOrPluginStep(i)
         \/ \E cs \in Batches : RegisterChannels(cs)
         \/ UNCHANGED vars
  PROVE  ProcessTypeOK' /\ StagesInProcess' /\ NumbersNext'
<1> USE DEF NumbersInv
<1>1. UNCHANGED <<stage, seq, ledgerSeq, horizonSeq, queue, succeeded, failed>>
  BY DEF processVars, pipelineVars, networkVars
<1>2. phase \in [Executions -> Phases] /\ source \in [Executions -> Channels \cup {NoChannel}]
  BY DEF LockInv, PoolInv, PoolTypeOK, TypeOK
<1>3. \A e \in Executions : phase[e] = "process" => source'[e] = source[e]
  <2>1. ASSUME NEW i \in Executions, OtherStep(i) PROVE source' = source
    BY <2>1 DEF OtherStep, poolVars
  <2>2. ASSUME NEW i \in Executions, PluginStep(i),
               NEW e \in Executions, phase[e] = "process"
        PROVE  source'[e] = source[e]
    BY <1>2, <2>2 DEF PluginStep, AllocateChannel, AtAllocation, NoChannelPipeline,
      ReleaseChannel, LockedChannelNotFound, poolVars
  <2> QED
    BY <2>1, <2>2 DEF BeltOrPluginStep, RegisterChannels, vars, poolVars
<1>4. ASSUME NEW e \in Executions
      PROVE  /\ stage[e] \in Built \cup Following => phase'[e] = "process"
             /\ phase'[e] \in {"pre", "idle"} => stage[e] = "build"
  <2>1. CASE phase'[e] = phase[e]
    BY <2>1 DEF StagesInProcess
  <2>2. ASSUME NEW i \in Executions, BeltOrPluginStep(i), phase'[e] # phase[e]
        PROVE  /\ stage[e] \in Built \cup Following => phase'[e] = "process"
               /\ phase'[e] \in {"pre", "idle"} => stage[e] = "build"
    <3>1. i = e
      BY <1>2, <2>2 DEF BeltOrPluginStep, OtherStep, PluginStep, AllocateChannel,
        NoChannelPipeline, ReleaseChannel, LockedChannelNotFound, Execute, HookReturns,
        HookThrows, BeginProcess, ProcessReturns, ProcessThrows, Resolve, RejectProcessed,
        Enter, beltVars
    <3>2. CASE phase[e] = "process"
      <4>1. stage[e] \in {"returned", "threw"}
        BY <2>2, <3>1, <3>2 DEF BeltOrPluginStep
      <4>2. phase'[e] \in {"post", "error"}
        BY <1>2, <2>2, <3>1, <3>2 DEF BeltOrPluginStep, OtherStep, PluginStep,
          AllocateChannel, AtAllocation, NoChannelPipeline, ReleaseChannel, AtRelease,
          LockedChannelNotFound, Execute, HookReturns, HookThrows, BeginProcess,
          ProcessReturns, ProcessThrows, Resolve, RejectProcessed, Enter, Hooks, beltVars
      <4> QED
        BY <4>1, <4>2 DEF Built, Following, Pipelines!Following
    <3>3. CASE phase[e] # "process"
      <4>1. stage[e] \notin Built \cup Following
        BY <3>3 DEF StagesInProcess
      <4>2. phase'[e] # "idle" /\ (phase'[e] = "pre" => phase[e] = "idle")
        BY <1>2, <2>2, <3>1 DEF BeltOrPluginStep, OtherStep, PluginStep,
          AllocateChannel, NoChannelPipeline, ReleaseChannel,
          LockedChannelNotFound, Execute, HookReturns, HookThrows, BeginProcess,
          ProcessReturns, ProcessThrows, Resolve, RejectProcessed, Enter, beltVars
      <4> QED
        BY <4>1, <4>2 DEF StagesInProcess
    <3> QED
      BY <3>2, <3>3
  <2>3. ASSUME NEW cs \in Batches, RegisterChannels(cs) PROVE phase' = phase
    BY <2>3 DEF RegisterChannels, beltVars
  <2>4. CASE UNCHANGED vars
    BY <2>1, <2>4 DEF vars, beltVars
  <2> QED
    BY <2>1, <2>2, <2>3, <2>4
<1>5. StagesInProcess'
  BY <1>1, <1>4 DEF StagesInProcess
<1>6. \A e \in Executions : stage[e] \in Built \cup Following => source'[e] = source[e]
  BY <1>3 DEF StagesInProcess
<1>7. NumbersNext'
  <2>1. \A t \in queue : t.exec \in Executions
    BY DEF ProcessTypeOK, Txs
  <2>2. \A t \in queue : Tx(t.exec)' = Tx(t.exec)
    BY <1>1, <1>6, <2>1 DEF NumbersNext, Tx, Pipelines!Tx
  <2> QED
    BY <1>1, <1>6, <2>1, <2>2 DEF NumbersNext
<1> QED
  BY <1>1, <1>5, <1>7 DEF ProcessTypeOK

\* A step of process() keeps the numbers in order.
LEMMA ProcessKeepsNumbers ==
  ASSUME Calm, NumbersInv, NEW i \in Executions, ProcessStep(i)
  PROVE  ProcessTypeOK' /\ StagesInProcess' /\ NumbersNext'
<1> USE DEF NumbersInv, ProcessTypeOK, Built, Following, Pipelines!Following,
      Pipelines!Stages, Pipelines!Preparing, Pipelines!Ended, Pipelines!GoTo,
      Pipelines!networkVars
<1>1. /\ phase[i] = "process" /\ phase' = phase /\ source' = source
      /\ source[i] \in Channels
  BY InProcessHolds DEF ProcessStep, vars, beltVars, poolVars
<1>2. Tx(i) = [exec |-> i, source |-> source[i], seq |-> seq[i]]
  BY DEF Tx, Pipelines!Tx
<1>3. \A t \in queue : t.exec \in Executions
  BY DEF Txs
<1>4. \A t \in queue \cup succeeded \cup failed :
        t.source \in Channels /\ t.seq \in Nat /\ ledgerSeq[t.source] \in Nat
  BY DEF Txs
<1>5. \A t \in queue : t.exec = i => t = Tx(i) /\ stage[i] \in Following
  BY DEF NumbersNext
<1>6. \A t \in queue : t \notin succeeded \cup failed
  BY <1>4 DEF NumbersNext
<1>7. StagesInProcess' <=>
        \A e \in Executions :
          /\ stage'[e] \in Built \cup Following => phase[e] = "process"
          /\ phase[e] = "pre" => stage'[e] = "build"
          /\ phase[e] = "idle" => stage'[e] = "build"
  BY <1>1 DEF StagesInProcess
<1>8. ASSUME stage' \in [Executions -> Pipelines!Stages],
             \A e \in Executions : e # i => stage'[e] = stage[e]
      PROVE  StagesInProcess'
  BY <1>1, <1>7, <1>8 DEF StagesInProcess
<1>9. ASSUME seq' = seq
      PROVE  \A e \in Executions : Tx(e)' = Tx(e)
  BY <1>1, <1>9 DEF Tx, Pipelines!Tx
<1>10. CASE Pipelines!Build(i)
  <2>1. /\ stage[i] = "build" /\ stage' \in [Executions -> Pipelines!Stages]
        /\ stage'[i] \in Built
        /\ \A e \in Executions : e # i => stage'[e] = stage[e]
    BY <1>10 DEF Pipelines!Build
  <2>2. /\ seq' = [seq EXCEPT ![i] = ledgerSeq[source[i]] + 1]
        /\ UNCHANGED <<ledgerSeq, horizonSeq, queue, succeeded, failed>>
    BY <1>10 DEF Pipelines!Build
  <2>3. seq' \in [Executions -> Nat] /\ seq'[i] = ledgerSeq[source[i]] + 1
        /\ \A e \in Executions : e # i => seq'[e] = seq[e]
    BY <1>1, <2>2
  <2>4. \A t \in queue : t.exec # i /\ Tx(t.exec)' = Tx(t.exec)
    BY <1>1, <1>3, <1>5, <2>1, <2>3 DEF Tx, Pipelines!Tx
  <2>5. NumbersNext'
    BY <1>1, <1>3, <2>1, <2>2, <2>3, <2>4 DEF NumbersNext
  <2>6. StagesInProcess'
    BY <1>8, <2>1
  <2>7. ProcessTypeOK'
    BY <2>1, <2>2, <2>3
  <2> QED
    BY <2>5, <2>6, <2>7
<1>11. ASSUME stage[i] \notin Following \cup {"build"}, seq' = seq,
              UNCHANGED <<ledgerSeq, horizonSeq, queue, succeeded, failed>>,
              stage' \in [Executions -> Pipelines!Stages],
              stage'[i] \in Built => stage[i] \in Built,
              \A e \in Executions : e # i => stage'[e] = stage[e]
       PROVE  ProcessTypeOK' /\ StagesInProcess' /\ NumbersNext'
  <2>1. StagesInProcess'
    BY <1>8, <1>11
  <2>2. ProcessTypeOK'
    BY <1>11
  <2>3. \A t \in queue : t.exec # i /\ Tx(t.exec)' = Tx(t.exec)
    BY <1>3, <1>5, <1>9, <1>11
  <2>4. NumbersNext'
    BY <1>1, <1>3, <1>11, <2>3 DEF NumbersNext
  <2> QED
    BY <2>1, <2>2, <2>4
<1>12. CASE Pipelines!Simulate(i)
  BY <1>11, <1>12 DEF Pipelines!Simulate
<1>13. CASE Pipelines!Prepare(i)
  BY <1>11, <1>13 DEF Pipelines!Prepare
<1>14. CASE Pipelines!PreparationThrows(i)
  <2>1. stage' = [stage EXCEPT ![i] = "threw"] /\ seq' = seq /\ stage[i] \notin Following
        /\ UNCHANGED <<ledgerSeq, horizonSeq, queue, succeeded, failed>>
    BY <1>14 DEF Pipelines!PreparationThrows
  <2>2. NumbersNext'
    BY <1>1, <1>3, <1>5, <1>9, <2>1 DEF NumbersNext
  <2> QED
    BY <1>8, <2>1, <2>2
<1>15. CASE Pipelines!SubmitThrows(i)
  BY <1>11, <1>15 DEF Pipelines!SubmitThrows, Calm
<1>16. CASE Pipelines!Submit(i)
  <2>1. /\ stage[i] = "submit" /\ stage' \in [Executions -> Pipelines!Stages]
        /\ stage'[i] \in Following /\ stage'[i] \notin Built
        /\ \A e \in Executions : e # i => stage'[e] = stage[e]
    BY <1>16 DEF Pipelines!Submit
  <2>2. /\ queue' \in {queue, queue \cup {Tx(i)}} /\ seq' = seq
        /\ UNCHANGED <<ledgerSeq, horizonSeq, succeeded, failed>>
    BY <1>16 DEF Pipelines!Submit, Pipelines!Offer, Tx
  <2>3. Tx(i) \in Txs /\ Tx(i).exec = i /\ Tx(i).source = source[i] /\ Tx(i).seq = seq[i]
    BY <1>1, <1>2 DEF Txs
  <2>4. seq[i] = ledgerSeq[source[i]] + 1
    BY <2>1 DEF NumbersNext
  <2>5. NumbersNext'
    <3>1. \A t \in queue' :
            /\ t = Tx(t.exec)' /\ stage'[t.exec] \in Following
            /\ t.seq = ledgerSeq[t.source] + 1
      BY <1>3, <1>9, <2>1, <2>2, <2>3, <2>4 DEF NumbersNext
    <3> QED
      BY <1>1, <2>1, <2>2, <3>1 DEF NumbersNext
  <2> QED
    BY <1>8, <2>1, <2>2, <2>3, <2>5
<1>17. CASE Pipelines!FollowUp(i) \/ Pipelines!HorizonAnswers(i)
  <2>1. /\ Tx(i) \notin queue
        /\ stage' \in [Executions -> Pipelines!Stages]
        /\ stage'[i] \notin Built \cup Following
        /\ \A e \in Executions : e # i => stage'[e] = stage[e]
        /\ seq' = seq /\ UNCHANGED <<ledgerSeq, horizonSeq, queue, succeeded, failed>>
    BY <1>6, <1>17 DEF Pipelines!FollowUp, Pipelines!HorizonAnswers, Calm, Tx
  <2>2. \A t \in queue : t.exec # i
    BY <1>5, <2>1
  <2>3. NumbersNext'
    BY <1>1, <1>3, <1>9, <2>1, <2>2 DEF NumbersNext
  <2> QED
    BY <1>8, <2>1, <2>3
<1> QED
  BY <1>10, <1>12, <1>13, <1>14, <1>15, <1>16, <1>17 DEF ProcessStep, Pipelines!ProcessStep

\* A ledger that includes a transaction moves its channel on: no other
\* execution has built one on it.
LEMMA NetworkKeepsNumbers ==
  ASSUME UniqueIds, Calm, NumbersInv, Pipelines!NetworkStep,
         UNCHANGED <<vars, pipelineVars>>
  PROVE  ProcessTypeOK' /\ StagesInProcess' /\ NumbersNext'
<1> USE DEF NumbersInv, ProcessTypeOK
<1>1. UNCHANGED <<phase, source, stage, seq>>
  BY DEF vars, beltVars, poolVars, pipelineVars
<1>2. StagesInProcess'
  BY <1>1 DEF StagesInProcess
<1>3. \A e \in Executions : Tx(e)' = Tx(e)
  BY <1>1 DEF Tx, Pipelines!Tx
<1>4. \A t \in queue : t.exec \in Executions /\ t.source \in Channels
  BY DEF Txs
<1>5. ASSUME NEW t \in queue, Pipelines!Include(t)
      PROVE  ProcessTypeOK' /\ NumbersNext'
  <2> DEFINE a == t.source
  <2>1. /\ t \in Txs /\ a \in Channels /\ t.exec \in Executions /\ a = source[t.exec]
        /\ t.seq = ledgerSeq[a] + 1 /\ phase[t.exec] = "process"
        /\ stage[t.exec] \notin Built
    <3>1. t = Tx(t.exec) /\ stage[t.exec] \in Following
      BY DEF NumbersNext
    <3>2. t.source = source[t.exec]
      BY <3>1 DEF Tx, Pipelines!Tx
    <3>3. phase[t.exec] = "process"
      BY <1>4, <3>1 DEF StagesInProcess
    <3> QED
      BY <1>4, <3>1, <3>2, <3>3 DEF NumbersNext, Built, Following, Pipelines!Following
  <2>2. /\ ledgerSeq' = [ledgerSeq EXCEPT ![a] = ledgerSeq[a] + 1]
        /\ horizonSeq' = ledgerSeq' /\ queue' = queue \ {t}
        /\ \/ succeeded' = succeeded \cup {t} /\ failed' = failed
           \/ failed' = failed \cup {t} /\ succeeded' = succeeded
    BY <1>5, <2>1 DEF Pipelines!Include, Calm
  <2>3. ProcessTypeOK'
    BY <1>1, <2>1, <2>2
  <2>4. \A e \in Executions : phase[e] = "process" /\ e # t.exec => source[e] # a
    BY <2>1, ProcessExclusive DEF SourceExclusive
  <2>5. \A e \in Executions : stage[e] \in Built => ledgerSeq'[source[e]] = ledgerSeq[source[e]]
    <3> SUFFICES ASSUME NEW e \in Executions, stage[e] \in Built
                 PROVE  ledgerSeq'[source[e]] = ledgerSeq[source[e]]
      OBVIOUS
    <3>1. phase[e] = "process" /\ e # t.exec
      BY <2>1 DEF StagesInProcess
    <3>2. source[e] # a /\ source[e] \in Channels
      BY <2>4, <3>1, InProcessHolds
    <3> QED
      BY <2>2, <3>2
  <2>6. \A u \in queue' : ledgerSeq'[u.source] = ledgerSeq[u.source]
    <3> SUFFICES ASSUME NEW u \in queue, u # t
                 PROVE  ledgerSeq'[u.source] = ledgerSeq[u.source]
      BY <2>2
    <3>1. u = Tx(u.exec) /\ t = Tx(t.exec) /\ stage[u.exec] \in Following
      BY DEF NumbersNext
    <3>2. u.exec # t.exec /\ phase[u.exec] = "process" /\ u.source = source[u.exec]
      BY <1>4, <3>1 DEF StagesInProcess, Tx, Pipelines!Tx
    <3> QED
      BY <1>4, <2>2, <2>4, <3>2
  <2>7. \A c \in Channels : ledgerSeq[c] <= ledgerSeq'[c]
    BY <2>1, <2>2
  <2>8. \A u \in succeeded' \cup failed' : u.seq <= ledgerSeq'[u.source]
    <3>1. \A u \in succeeded \cup failed : u.seq <= ledgerSeq'[u.source]
      <4> SUFFICES ASSUME NEW u \in succeeded \cup failed
                   PROVE  u.seq <= ledgerSeq'[u.source]
        OBVIOUS
      <4>1. u.source \in Channels /\ u.seq \in Nat /\ u.seq <= ledgerSeq[u.source]
        BY DEF NumbersNext, Txs
      <4>2. ledgerSeq[u.source] \in Nat /\ ledgerSeq'[u.source] \in Nat
        BY <2>3, <4>1
      <4> QED
        BY <2>7, <4>1, <4>2
    <3>2. t.seq <= ledgerSeq'[t.source]
      BY <2>1, <2>2
    <3> QED
      BY <2>2, <3>1, <3>2
  <2>9. \A u \in queue' :
          u = Tx(u.exec)' /\ stage'[u.exec] \in Following /\ u.seq = ledgerSeq'[u.source] + 1
    BY <1>1, <1>3, <1>4, <2>2, <2>6 DEF NumbersNext
  <2>10. \A e \in Executions : stage'[e] \in Built => seq'[e] = ledgerSeq'[source'[e]] + 1
    BY <1>1, <2>5 DEF NumbersNext
  <2>11. Following' = Following
    BY DEF Following, Pipelines!Following
  <2> QED
    BY <2>3, <2>8, <2>9, <2>10, <2>11 DEF NumbersNext
<1>6. ASSUME NEW t \in queue, Pipelines!Discard(t)
      PROVE  ProcessTypeOK' /\ NumbersNext'
  BY <1>1, <1>3, <1>4, <1>6 DEF Pipelines!Discard, NumbersNext
<1>7. ASSUME NEW a \in Channels, Pipelines!HorizonIngests(a) PROVE FALSE
  BY <1>7 DEF Pipelines!HorizonIngests
<1> QED
  BY <1>2, <1>5, <1>6, <1>7 DEF Pipelines!NetworkStep

\* Every step keeps the numbers in order.
LEMMA NumbersPreserved ==
  ASSUME UniqueIds, Calm PROVE NumbersInv /\ [ChannelNext]_allVars => NumbersInv'
<1> SUFFICES ASSUME NumbersInv, [ChannelNext]_allVars PROVE NumbersInv'
  OBVIOUS
<1>1. LockInv'
  BY ChannelStepIsPoolStep, LockPreserved DEF NumbersInv
<1>2. CASE \E i \in Executions : ProcessStep(i)
  BY <1>1, <1>2, ProcessKeepsNumbers DEF NumbersInv
<1>3. CASE Pipelines!NetworkStep /\ UNCHANGED <<vars, pipelineVars>>
  BY <1>1, <1>3, NetworkKeepsNumbers DEF NumbersInv
<1>4. CASE UNCHANGED allVars
  BY <1>1, <1>4, BeltKeepsNumbers DEF NumbersInv, allVars
<1>5. CASE \E i \in Executions : BeltOrPluginStep(i)
  BY <1>1, <1>5, BeltKeepsNumbers DEF NumbersInv, BeltOrPluginStep
<1>6. CASE \E cs \in Batches : RegisterChannels(cs) /\ UNCHANGED processVars
  BY <1>1, <1>6, BeltKeepsNumbers DEF NumbersInv
<1> QED
  BY <1>2, <1>3, <1>4, <1>5, <1>6 DEF ChannelNext

\* "avoiding sequence number clashing when executing multiple transactions in
\* parallel" (channel-accounts-plugin.md:5): with an id per execution, as long as
\* nothing fails after a submission, envelopes expire before polling for them
\* ends and Horizon keeps up with the RPC server.
THEOREM ChannelsAvoidClashes ==
  ASSUME UniqueIds, Calm PROVE ChannelSpec => []NoSequenceClash
<1>1. NumbersInv => NoSequenceClash
  <2> SUFFICES ASSUME NumbersInv, NEW t \in queue, NEW u \in queue, u.source = t.source
               PROVE  u = t
    BY DEF NoSequenceClash, Pipelines!SequencesFit, NumbersInv, NumbersNext
  <2>1. /\ t = Tx(t.exec) /\ u = Tx(u.exec)
        /\ stage[t.exec] \in Following /\ stage[u.exec] \in Following
    BY DEF NumbersInv, NumbersNext
  <2>2. t.exec \in Executions /\ u.exec \in Executions
    BY DEF NumbersInv, ProcessTypeOK, Txs
  <2>3. t.source = source[t.exec] /\ u.source = source[u.exec]
    BY <2>1 DEF Tx, Pipelines!Tx
  <2>4. phase[t.exec] = "process" /\ phase[u.exec] = "process"
    BY <2>1, <2>2 DEF NumbersInv, StagesInProcess
  <2>5. t.exec = u.exec
    BY <2>2, <2>3, <2>4, ProcessExclusive DEF NumbersInv, SourceExclusive
  <2> QED
    BY <2>1, <2>5
<1> QED
  BY <1>1, NumbersInitial, NumbersPreserved, PTL DEF ChannelSpec

-----------------------------------------------------------------------------
(* What an execution settles with, whatever is shared, fails or lags.      *)

Known == queue \cup succeeded \cup failed

\* A transaction is on the network in one place: waiting, included with success
\* or included with a failure.
InOnePlace ==
  /\ queue \cap (succeeded \cup failed) = {}
  /\ succeeded \cap failed = {}

\* conveyor-belts/index.ts:19-71 around process(): an execution puts at most one
\* transaction on the network, a simulation none and none before the preProcess
\* hooks ended; and execute() resolves only when a ledger included it with success.
OutcomesAreTrue ==
  /\ \A t, u \in Known : t.exec = u.exec => t = u
  /\ \A t \in Known : t.exec \notin SimulateOnly /\ phase[t.exec] \notin {"idle", "pre"}
  /\ \A i \in Executions :
       phase[i] = "resolved" =>
         /\ i \notin SimulateOnly => \E t \in succeeded : t.exec = i
         /\ \A t \in queue \cup failed : t.exec # i

\* What process() returned with outlives it: the belt goes on to the postProcess
\* hooks only from there, and a transaction the network knows stays submitted.
OutcomeInv ==
  /\ phase \in [Executions -> Phases]
  /\ stage \in [Executions -> Pipelines!Stages]
  /\ InOnePlace
  /\ \A t, u \in Known : t.exec = u.exec => t = u
  /\ \A t \in Known :
       /\ t.exec \in Executions \ SimulateOnly
       /\ phase[t.exec] \notin {"idle", "pre"}
       /\ stage[t.exec] \in Following \cup Pipelines!Ended
  /\ \A i \in Executions :
       /\ phase[i] \in {"post", "resolved"} => stage[i] = "returned"
       /\ stage[i] = "returned" => i \in SimulateOnly \/ \E t \in succeeded : t.exec = i
       /\ i \in SimulateOnly => stage[i] \in {"build", "simulate", "returned", "threw"}

\* The belt and the plugin leave the stages and the network as they are; a phase
\* moves on from process as the stages ended.
LEMMA BeltKeepsOutcomes ==
  ASSUME OutcomeInv, UNCHANGED processVars,
         \/ \E i \in Executions : BeltOrPluginStep(i)
         \/ \E cs \in Batches : RegisterChannels(cs)
         \/ UNCHANGED vars
  PROVE  OutcomeInv'
<1>1. UNCHANGED <<stage, queue, succeeded, failed>>
  BY DEF processVars, pipelineVars, networkVars
<1>2. /\ phase' \in [Executions -> Phases]
      /\ \A e \in Executions :
           /\ phase'[e] \in {"idle", "pre"} => phase[e] \in {"idle", "pre"}
           /\ phase'[e] \in {"post", "resolved"} =>
                phase[e] \in {"post", "resolved"} \/ stage[e] = "returned"
  <2>1. CASE phase' = phase
    BY <2>1 DEF OutcomeInv
  <2>2. ASSUME NEW i \in Executions, BeltOrPluginStep(i), phase' # phase
        PROVE  /\ phase' = [phase EXCEPT ![i] = phase'[i]] /\ phase'[i] \in Phases
               /\ phase'[i] # "idle"
               /\ phase'[i] = "pre" => phase[i] = "idle"
               /\ phase'[i] = "post" => phase[i] = "process"
               /\ phase'[i] = "resolved" => phase[i] = "post"
    BY <2>2 DEF OutcomeInv, BeltOrPluginStep, OtherStep, PluginStep, AllocateChannel,
      NoChannelPipeline, ReleaseChannel, LockedChannelNotFound, Execute, HookReturns,
      HookThrows, BeginProcess, ProcessReturns, ProcessThrows, Resolve, RejectProcessed,
      Enter, Phases, Hooks, beltVars
  <2>3. ASSUME NEW i \in Executions, BeltOrPluginStep(i),
               phase[i] = "process", phase'[i] = "post"
        PROVE  stage[i] = "returned"
    BY <2>3 DEF BeltOrPluginStep
  <2>4. ASSUME NEW cs \in Batches, RegisterChannels(cs) PROVE phase' = phase
    BY <2>4 DEF RegisterChannels, beltVars
  <2>5. CASE UNCHANGED vars
    BY <2>1, <2>5 DEF vars, beltVars
  <2>6. ASSUME NEW i \in Executions, BeltOrPluginStep(i), phase' # phase
        PROVE  <1>2!1 /\ <1>2!2
    BY <2>2, <2>3, <2>6 DEF OutcomeInv
  <2> QED
    BY <2>1, <2>4, <2>5, <2>6
<1> QED
  BY <1>1, <1>2 DEF OutcomeInv, InOnePlace, Known

\* A step of process() submits only what was not, and returns only on success.
LEMMA ProcessKeepsOutcomes ==
  ASSUME OutcomeInv, NEW i \in Executions, ProcessStep(i)
  PROVE  OutcomeInv'
<1> USE DEF OutcomeInv, InOnePlace, Known, Following, Pipelines!Following, Pipelines!Stages,
      Pipelines!Preparing, Pipelines!Ended, Pipelines!GoTo, Pipelines!networkVars
<1>1. phase[i] = "process" /\ phase' = phase
  BY DEF ProcessStep, vars, beltVars
<1>2. Pipelines!Tx(i).exec = i
  BY DEF Pipelines!Tx
<1>3. ASSUME NEW s \in Pipelines!Stages, stage' = [stage EXCEPT ![i] = s],
             UNCHANGED <<queue, succeeded, failed>>,
             stage[i] \in Following => s \in Pipelines!Ended,
             s = "returned" => i \in SimulateOnly \/ \E t \in succeeded : t.exec = i,
             i \in SimulateOnly => s \in {"simulate", "returned", "threw"},
             stage[i] \notin Pipelines!Ended
      PROVE  OutcomeInv'
  BY <1>1, <1>3
<1>4. CASE Pipelines!Build(i) \/ Pipelines!Simulate(i) \/ Pipelines!Prepare(i)
  BY <1>3, <1>4, SimulateOnlyAssumption
     DEF Pipelines!Build, Pipelines!Simulate, Pipelines!Prepare
<1>5. CASE Pipelines!PreparationThrows(i)
  BY <1>3, <1>5 DEF Pipelines!PreparationThrows
<1>6. CASE Pipelines!FollowUp(i) \/ Pipelines!HorizonAnswers(i)
  BY <1>2, <1>3, <1>6 DEF Pipelines!FollowUp, Pipelines!HorizonAnswers
<1>7. CASE Pipelines!Submit(i) \/ Pipelines!SubmitThrows(i)
  <2>1. /\ stage[i] = "submit" /\ i \notin SimulateOnly
        /\ \A t \in Known : t.exec # i
    BY <1>7 DEF Pipelines!Submit, Pipelines!SubmitThrows
  <2>2. /\ queue' \in {queue, queue \cup {Pipelines!Tx(i)}}
        /\ UNCHANGED <<succeeded, failed>>
    BY <1>7 DEF Pipelines!Submit, Pipelines!SubmitThrows, Pipelines!Offer
  <2>3. PICK s \in Following \cup {"threw"} : stage' = [stage EXCEPT ![i] = s]
    BY <1>7 DEF Pipelines!Submit, Pipelines!SubmitThrows
  <2>4. InOnePlace' /\ \A t, u \in Known' : t.exec = u.exec => t = u
    BY <1>2, <2>1, <2>2
  <2>5. \A t \in Known' : /\ t.exec \in Executions \ SimulateOnly
                          /\ phase'[t.exec] \notin {"idle", "pre"}
                          /\ stage'[t.exec] \in Following \cup Pipelines!Ended
    BY <1>1, <1>2, <2>1, <2>2, <2>3
  <2>6. \A e \in Executions :
          /\ phase'[e] \in {"post", "resolved"} => stage'[e] = "returned"
          /\ stage'[e] = "returned" => e \in SimulateOnly \/ \E t \in succeeded' : t.exec = e
          /\ e \in SimulateOnly => stage'[e] \in {"build", "simulate", "returned", "threw"}
    BY <1>1, <2>1, <2>2, <2>3
  <2> QED
    BY <1>1, <2>3, <2>4, <2>5, <2>6
<1> QED
  BY <1>4, <1>5, <1>6, <1>7 DEF ProcessStep, Pipelines!ProcessStep

\* The network moves a transaction from one place to another, or drops it.
LEMMA NetworkKeepsOutcomes ==
  ASSUME OutcomeInv, Pipelines!NetworkStep, UNCHANGED <<vars, pipelineVars>>
  PROVE  OutcomeInv'
<1>1. UNCHANGED <<phase, stage>>
  BY DEF vars, beltVars, pipelineVars
<1>2. /\ Known' \subseteq Known /\ InOnePlace' /\ succeeded \subseteq succeeded'
  BY DEF OutcomeInv, InOnePlace, Known, Pipelines!NetworkStep, Pipelines!Include,
     Pipelines!Discard, Pipelines!HorizonIngests
<1> QED
  BY <1>1, <1>2 DEF OutcomeInv

\* execute() tells the truth about its transaction: resolved, a ledger included
\* it with success and holds no other of the execution; no execution puts a
\* second transaction on the network, nor a simulation any.  Whatever ids are
\* shared, whatever fails after the submission and however Horizon lags.
THEOREM ResolvedMeansSucceededOnce == ChannelSpec => []OutcomesAreTrue
<1>1. ChannelInit => OutcomeInv
  BY DEF ChannelInit, Init, BeltInit, Pipelines!PipelineInit, Pipelines!NetworkInit, OutcomeInv,
     InOnePlace, Known, Pipelines!Stages, Pipelines!Preparing, Phases, Hooks
<1>2. OutcomeInv /\ [ChannelNext]_allVars => OutcomeInv'
  <2> SUFFICES ASSUME OutcomeInv, [ChannelNext]_allVars PROVE OutcomeInv'
    OBVIOUS
  <2>1. CASE \E i \in Executions : ProcessStep(i)
    BY <2>1, ProcessKeepsOutcomes
  <2>2. CASE Pipelines!NetworkStep /\ UNCHANGED <<vars, pipelineVars>>
    BY <2>2, NetworkKeepsOutcomes
  <2>3. CASE UNCHANGED allVars
    BY <2>3, BeltKeepsOutcomes DEF allVars
  <2>4. CASE \E i \in Executions : BeltOrPluginStep(i)
    BY <2>4, BeltKeepsOutcomes DEF BeltOrPluginStep
  <2>5. CASE \E cs \in Batches : RegisterChannels(cs) /\ UNCHANGED processVars
    BY <2>5, BeltKeepsOutcomes
  <2> QED
    BY <2>1, <2>2, <2>3, <2>4, <2>5 DEF ChannelNext
<1>3. OutcomeInv => OutcomesAreTrue
  BY DEF OutcomeInv, OutcomesAreTrue, InOnePlace, Known
<1> QED
  BY <1>1, <1>2, <1>3, PTL DEF ChannelSpec

-----------------------------------------------------------------------------
(* The life of the channels.                                               *)

\* With accounts that are opened and closed meanwhile, the transactions are those
\* of ChannelTransactions: what is proved of them holds.
THEOREM LifecycleImplementsChannels == LifecycleSpec => ChannelSpec
<1>1. LifecycleInit => ChannelInit
  BY DEF LifecycleInit
<1>2. [LifecycleNext]_allLifecycleVars => [ChannelNext]_allVars
  <2>1. ASSUME LifecycleNext PROVE [ChannelNext]_allVars
    BY <2>1 DEF LifecycleNext, RegisterOpened, ExecutionStep, ChannelNetworkStep, ChannelNext
  <2>2. ASSUME UNCHANGED allLifecycleVars PROVE UNCHANGED allVars
    BY <2>2 DEF allLifecycleVars
  <2> QED
    BY <2>1, <2>2
<1> QED
  BY <1>1, <1>2, PTL DEF LifecycleSpec, ChannelSpec

\* The theorem of ChannelTransactions, with channels that open and close meanwhile:
\* with an id per execution and on a network that loses nothing.
THEOREM LifecycleAvoidsClashes ==
  ASSUME UniqueIds, Calm PROVE LifecycleSpec => []NoSequenceClash
  BY ChannelsAvoidClashes, LifecycleImplementsChannels, PTL

\* A call that made accounts had its transaction included; the accounts are there
\* until a close of them is sent, and there are no others.
CallsMatchAccounts ==
  /\ LifecycleTypeOK
  /\ \A l \in lifecycleCalls :
       /\ state[l] = "idle" => sent[l] = "none"
       /\ state[l] = "resolved" => sent[l] = "succeeded"
  /\ \A o \in OpenCalls : \A c \in channels[o] :
       sent[o] = "succeeded" => c \in accounts \/ Closing(c)
  /\ \A c \in accounts : \E o \in OpenCalls : c \in channels[o] /\ sent[o] = "succeeded"

\* What is registered was opened, and a source was registered before.
SourcesOpened ==
  /\ stage \in [Executions -> Pipelines!Stages]
  /\ registered \subseteq Opened
  /\ \A i \in Executions :
       /\ source[i] \in registered \cup {NoChannel}
       /\ stage[i] \notin {"build", "threw"} => source[i] \in registered
  /\ \A t \in queue : t.source \in registered

LifecycleInv == PoolInv /\ CallsMatchAccounts /\ SourcesOpened

\* Opened does not change while the calls do not.
LEMMA OpenedStays ==
  ASSUME UNCHANGED lifecycleVars
  PROVE  Opened' = Opened /\ (CallsMatchAccounts => CallsMatchAccounts')
  BY DEF lifecycleVars, lifecycleCalls, Opened, CallsMatchAccounts, LifecycleTypeOK, Closing

\* Nothing is open at first.
LEMMA LifecycleInitial == LifecycleInit => LifecycleInv
<1> SUFFICES ASSUME LifecycleInit PROVE LifecycleInv
  OBVIOUS
<1>1. PoolInv /\ registered = {} /\ source = [i \in Executions |-> NoChannel]
  BY PoolInitial DEF LifecycleInit, ChannelInit, Init
<1>2. stage = [i \in Executions |-> "build"] /\ queue = {}
  BY DEF LifecycleInit, ChannelInit, Pipelines!PipelineInit, Pipelines!NetworkInit
<1>3. CallsMatchAccounts
  BY DEF LifecycleInit, CallsMatchAccounts, LifecycleTypeOK, lifecycleCalls
<1> QED
  BY <1>1, <1>2, <1>3 DEF LifecycleInv, SourcesOpened, Pipelines!Stages, Pipelines!Preparing

\* A step of the calls or of the ledger on their transactions keeps what was
\* opened, and every account accounted for.
LEMMA CallsKeepAccounts ==
  ASSUME CallsMatchAccounts, LifecycleStep
  PROVE  CallsMatchAccounts' /\ Opened \subseteq Opened'
<1> USE LifecycleAssumption
    DEF CallsMatchAccounts, LifecycleTypeOK, lifecycleCalls, Opened, Generated, Closing
<1>1. ASSUME NEW o \in OpenCalls, NEW n \in Numbers, openChannels(o, n)
      PROVE  CallsMatchAccounts' /\ Opened \subseteq Opened'
  BY <1>1 DEF openChannels
<1>2. ASSUME NEW x \in CloseCalls, NEW cs \in SUBSET Opened \ {{}}, closeChannels(x, cs)
      PROVE  CallsMatchAccounts' /\ Opened \subseteq Opened'
  BY <1>2 DEF closeChannels
<1>3. ASSUME NEW o \in OpenCalls, Create(o)
      PROVE  CallsMatchAccounts' /\ Opened \subseteq Opened'
  BY <1>3 DEF Create
<1>4. ASSUME NEW x \in CloseCalls, Merge(x)
      PROVE  CallsMatchAccounts' /\ Opened \subseteq Opened'
  BY <1>4 DEF Merge
<1>5. ASSUME NEW l \in lifecycleCalls, LifecycleSubmit(l) \/ LifecycleDiscard(l)
      PROVE  CallsMatchAccounts' /\ Opened \subseteq Opened'
  BY <1>5 DEF LifecycleSubmit, LifecycleDiscard
<1>6. ASSUME NEW l \in lifecycleCalls, LifecycleReturn(l) \/ LifecycleThrows(l)
      PROVE  CallsMatchAccounts' /\ Opened \subseteq Opened'
  BY <1>6 DEF LifecycleReturn, LifecycleThrows
<1> QED
  BY <1>1, <1>2, <1>3, <1>4, <1>5, <1>6 DEF LifecycleStep

\* A channel that is registered, or injected into an item, was opened.
LEMMA PoolKeepsSources ==
  ASSUME LifecycleInv, UNCHANGED <<processVars, lifecycleVars>>,
         \/ \E cs \in Batches : RegisterOpened(cs)
         \/ \E i \in Executions : BeltOrPluginStep(i)
  PROVE  SourcesOpened'
<1> USE DEF LifecycleInv, SourcesOpened, processVars, pipelineVars, networkVars
<1>0. Opened' = Opened
  BY OpenedStays
<1>1. ASSUME NEW cs \in Batches, RegisterOpened(cs) PROVE SourcesOpened'
  BY <1>0, <1>1 DEF RegisterOpened, RegisterChannels
<1>2. ASSUME NEW i \in Executions, AllocateChannel(i) PROVE SourcesOpened'
  <2>1. source[i]' \in registered /\ \A j \in Executions \ {i} : source'[j] = source[j]
    <3>1. freeChannels[Len(freeChannels)] \in registered
      BY <1>2, PopFacts DEF PoolInv, PoolRegistered, InPool
    <3> QED
      BY <1>2, <3>1 DEF AllocateChannel, PoolInv, PoolTypeOK
  <2>2. UNCHANGED registered
    BY <1>2 DEF AllocateChannel
  <2> QED
    BY <1>0, <2>1, <2>2
<1>3. ASSUME NEW i \in Executions,
             OtherStep(i) \/ NoChannelPipeline(i) \/ ReleaseChannel(i) \/ LockedChannelNotFound(i)
      PROVE  SourcesOpened'
  BY <1>0, <1>3 DEF OtherStep, NoChannelPipeline, ReleaseChannel, LockedChannelNotFound, poolVars
<1> QED
  BY <1>1, <1>2, <1>3 DEF BeltOrPluginStep, PluginStep

\* Past its build a transaction has a source that was opened, whatever fails.
LEMMA ProcessKeepsSources ==
  ASSUME LifecycleInv, NEW i \in Executions, ProcessStep(i), AccountLoads(i),
         UNCHANGED lifecycleVars
  PROVE  SourcesOpened'
<1> USE DEF LifecycleInv, SourcesOpened, Pipelines!GoTo, Pipelines!networkVars,
      Pipelines!Stages, Pipelines!Preparing, Pipelines!Following, Pipelines!Ended
<1>0. UNCHANGED <<source, registered>> /\ Opened' = Opened
  BY OpenedStays DEF ProcessStep, vars, poolVars
<1>1. CASE Pipelines!Build(i)
  <2>1. source[i] \in registered
    BY <1>1, PoolAssumption
       DEF Pipelines!Build, AccountLoads, CallsMatchAccounts, LifecycleTypeOK
  <2> QED
    BY <1>0, <1>1, <2>1 DEF Pipelines!Build
<1>2. CASE Pipelines!Submit(i) \/ Pipelines!SubmitThrows(i)
  <2>1. queue' \subseteq queue \cup {Pipelines!Tx(i)}
    BY <1>2 DEF Pipelines!Submit, Pipelines!SubmitThrows, Pipelines!Offer
  <2>2. Pipelines!Tx(i).source \in registered
    BY <1>2 DEF Pipelines!Submit, Pipelines!SubmitThrows, Pipelines!Tx
  <2>3. stage' = [stage EXCEPT ![i] = stage'[i]] /\ stage'[i] \in Pipelines!Stages
    BY <1>2 DEF Pipelines!Submit, Pipelines!SubmitThrows
  <2> QED
    BY <1>0, <1>2, <2>1, <2>2, <2>3 DEF Pipelines!Submit, Pipelines!SubmitThrows
<1>3. CASE \/ Pipelines!Simulate(i) \/ Pipelines!Prepare(i) \/ Pipelines!PreparationThrows(i)
           \/ Pipelines!FollowUp(i) \/ Pipelines!HorizonAnswers(i)
  <2>1. UNCHANGED queue /\ stage[i] # "threw"
    BY <1>3 DEF Pipelines!Simulate, Pipelines!Prepare, Pipelines!PreparationThrows,
         Pipelines!FollowUp, Pipelines!HorizonAnswers
  <2>2. /\ stage' = [stage EXCEPT ![i] = stage'[i]]
        /\ stage'[i] \in Pipelines!Stages
        /\ stage'[i] # "threw" => stage[i] # "build"
    BY <1>3 DEF Pipelines!Simulate, Pipelines!Prepare, Pipelines!PreparationThrows,
         Pipelines!FollowUp, Pipelines!HorizonAnswers
  <2> QED
    BY <1>0, <2>1, <2>2
<1> QED
  BY <1>1, <1>2, <1>3 DEF ProcessStep, Pipelines!ProcessStep

\* Every step keeps the invariant.
LEMMA LifecyclePreserved == LifecycleInv /\ [LifecycleNext]_allLifecycleVars => LifecycleInv'
<1> SUFFICES ASSUME LifecycleInv, [LifecycleNext]_allLifecycleVars PROVE LifecycleInv'
  OBVIOUS
<1>1. PoolInv'
  <2>1. [Next]_vars
    BY ChannelStepIsPoolStep DEF LifecycleNext, RegisterOpened, ExecutionStep,
         ChannelNetworkStep, ChannelNext, allLifecycleVars, allVars
  <2> QED
    BY <2>1, PoolPreserved DEF LifecycleInv
<1>2. CASE LifecycleStep /\ UNCHANGED allVars
  <2>1. CallsMatchAccounts' /\ Opened \subseteq Opened'
    BY <1>2, CallsKeepAccounts DEF LifecycleInv
  <2> QED
    BY <1>1, <1>2, <2>1 DEF LifecycleInv, SourcesOpened, allVars, vars, poolVars,
         processVars, pipelineVars, networkVars
<1>3. CASE \/ \E cs \in Batches : RegisterOpened(cs)
           \/ \E i \in Executions : BeltOrPluginStep(i) /\ UNCHANGED lifecycleVars
  BY <1>1, <1>3, PoolKeepsSources, OpenedStays
     DEF LifecycleInv, RegisterOpened, BeltOrPluginStep
<1>4. CASE \E i \in Executions : ProcessStep(i) /\ AccountLoads(i) /\ UNCHANGED lifecycleVars
  BY <1>1, <1>4, ProcessKeepsSources, OpenedStays DEF LifecycleInv
<1>5. CASE ChannelNetworkStep
  <2>1. queue' \subseteq queue /\ UNCHANGED <<source, registered, stage, lifecycleVars>>
    BY <1>5 DEF ChannelNetworkStep, Pipelines!NetworkStep, Pipelines!Include,
         Pipelines!Discard, Pipelines!HorizonIngests, vars, poolVars, pipelineVars
  <2> QED
    BY <1>1, <2>1, OpenedStays DEF LifecycleInv, SourcesOpened
<1>6. CASE UNCHANGED allLifecycleVars
  BY <1>1, <1>6, OpenedStays DEF LifecycleInv, SourcesOpened, allLifecycleVars, allVars,
       vars, poolVars, processVars, pipelineVars, networkVars
<1> QED
  BY <1>2, <1>3, <1>4, <1>5, <1>6 DEF LifecycleNext, ExecutionStep

\* Whatever calls overlap and fail, a channel the application has, or a
\* transaction is sent from, is an account until a close of it is sent, and an
\* account is one the application has unless the call that made it did not
\* return it ("Array of channel accounts", channel-accounts/index.ts:20).
THEOREM ChannelsExist == LifecycleSpec => []ChannelsAreAccounts
<1>1. LifecycleInv => ChannelsAreAccounts
  <2> SUFFICES ASSUME LifecycleInv PROVE ChannelsAreAccounts
    OBVIOUS
  <2>1. \A c \in Opened : c \in accounts \/ Closing(c)
    BY DEF LifecycleInv, CallsMatchAccounts, Opened, lifecycleCalls
  <2>2. \A c \in registered \cup ({source[i] : i \in Executions} \ {NoChannel})
                 \cup {t.source : t \in queue} : c \in Opened
    BY DEF LifecycleInv, SourcesOpened
  <2>3. ASSUME NEW c \in accounts \ Opened
        PROVE  \E o \in OpenCalls : /\ c \in channels[o] /\ sent[o] = "succeeded"
                                    /\ state[o] \in {"executing", "rejected"}
    <3>1. PICK o \in OpenCalls : c \in channels[o] /\ sent[o] = "succeeded"
      BY <2>3 DEF LifecycleInv, CallsMatchAccounts
    <3>2. state[o] \notin {"idle", "resolved"}
      BY <2>3, <3>1 DEF LifecycleInv, CallsMatchAccounts, lifecycleCalls, Opened
    <3> QED
      BY <3>1, <3>2 DEF LifecycleInv, CallsMatchAccounts, LifecycleTypeOK, lifecycleCalls
  <2> QED
    BY <2>1, <2>2, <2>3 DEF ChannelsAreAccounts
<1> QED
  BY <1>1, LifecycleInitial, LifecyclePreserved, PTL DEF LifecycleSpec

=============================================================================
