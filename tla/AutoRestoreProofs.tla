------------------------- MODULE AutoRestoreProofs -------------------------
(***************************************************************************)
(* Theorems on TransactionPipelines, and then on AutoRestore that extends  *)
(* it, for any executions, restores and accounts, with or without failures,*)
(* time bounds and a lag.                                                  *)
(***************************************************************************)
EXTENDS AutoRestore, TLAPS

-----------------------------------------------------------------------------
(* The pipelines by themselves.                                            *)

\* The stages only an execution that is no simulation reaches.
Real == {"auth", "requirements", "sign", "submit"} \cup Following

\* What is kept besides the types: simulations stay before Soroban Auth, and
\* the network's transactions are as OnlySignedReachNetwork says.
SubmittedInv ==
  /\ TypeOK
  /\ \A i \in SimulateOnly : stage[i] \notin Real
  /\ OnlySignedReachNetwork

\* A step of one execution leaves the stage and the number of the others.
LEMMA OthersUntouched ==
  ASSUME TypeOK, NEW i \in Executions, ProcessStep(i)
  PROVE  /\ stage' \in [Executions -> Stages] /\ seq' \in [Executions -> Nat]
         /\ \A e \in Executions : e # i => stage'[e] = stage[e] /\ seq'[e] = seq[e]
<1> USE DEF TypeOK, GoTo, Stages, Preparing, Following, Ended
<1>1. CASE Build(i)
  <2>1. horizonSeq[source[i]] + 1 \in Nat
    OBVIOUS
  <2>2. stage' \in [Executions -> Stages] /\ seq' \in [Executions -> Nat]
    BY <1>1, <2>1 DEF Build
  <2> QED
    BY <1>1, <2>2 DEF Build
<1>2. CASE Simulate(i) \/ Prepare(i) \/ PreparationThrows(i)
  BY <1>2 DEF Simulate, Prepare, PreparationThrows
<1>3. CASE Submit(i) \/ SubmitThrows(i)
  BY <1>3 DEF Submit, SubmitThrows
<1>4. CASE FollowUp(i) \/ HorizonAnswers(i)
  BY <1>4 DEF FollowUp, HorizonAnswers
<1> QED
  BY <1>1, <1>2, <1>3, <1>4 DEF ProcessStep

\* A step of process() hands the network at most its own transaction, when it
\* submits it, and changes nothing else there.
LEMMA ProcessOffersOwn ==
  ASSUME NEW i \in Executions, ProcessStep(i)
  PROVE  /\ UNCHANGED <<ledgerSeq, horizonSeq, succeeded, failed>>
         /\ \/ queue' = queue
            \/ stage[i] = "submit" /\ queue' = queue \cup {Tx(i)}
  BY DEF ProcessStep, Build, Simulate, Prepare, PreparationThrows, Submit, SubmitThrows,
         FollowUp, HorizonAnswers, networkVars, Offer

LEMMA ProcessKeepsTypes ==
  ASSUME TypeOK, NEW i \in Executions, ProcessStep(i), UNCHANGED source
  PROVE  TypeOK'
<1>1. Tx(i) \in Txs
  BY DEF TypeOK, Tx, Txs
<1>2. queue' \subseteq Txs
  BY <1>1, ProcessOffersOwn DEF TypeOK
<1> QED
  BY <1>2, OthersUntouched, ProcessOffersOwn DEF TypeOK

LEMMA NetworkKeepsTypes ==
  ASSUME TypeOK, NetworkStep, UNCHANGED <<source, pipelineVars>>
  PROVE  TypeOK'
<1> USE DEF TypeOK, pipelineVars
<1>1. ASSUME NEW t \in queue, Include(t) PROVE TypeOK'
  <2>1. t.source \in Accounts /\ t.seq \in Nat /\ t \in Txs
    BY DEF Txs
  <2>2. ledgerSeq' \in [Accounts -> Nat]
    BY <1>1, <2>1 DEF Include
  <2> QED
    BY <1>1, <2>1, <2>2 DEF Include
<1>2. ASSUME NEW t \in queue, Discard(t) PROVE TypeOK'
  BY <1>2 DEF Discard
<1>3. ASSUME NEW a \in Accounts, HorizonIngests(a) PROVE TypeOK'
  BY <1>3 DEF HorizonIngests
<1> QED
  BY <1>1, <1>2, <1>3 DEF NetworkStep

\* The variables keep their types.
THEOREM PipelinesTypeCorrect == Spec => []TypeOK
<1>1. Init => TypeOK
  BY DEF Init, PipelineInit, NetworkInit, TypeOK, Stages, Preparing
<1>2. TypeOK /\ [Next]_vars => TypeOK'
  <2> SUFFICES ASSUME TypeOK, [Next]_vars PROVE TypeOK'
    OBVIOUS
  <2>1. ASSUME NEW i \in Executions, ProcessStep(i), UNCHANGED source PROVE TypeOK'
    BY <2>1, ProcessKeepsTypes
  <2>2. CASE NetworkStep /\ UNCHANGED <<source, pipelineVars>>
    BY <2>2, NetworkKeepsTypes
  <2>3. CASE UNCHANGED vars
    BY <2>3 DEF vars, pipelineVars, networkVars, TypeOK
  <2> QED
    BY <2>1, <2>2, <2>3 DEF Next
<1> QED
  BY <1>1, <1>2, PTL DEF Spec

LEMMA ProcessKeepsReturned ==
  ASSUME TypeOK, ReturnedMeansSucceeded,
         NEW i \in Executions, ProcessStep(i), UNCHANGED source
  PROVE  ReturnedMeansSucceeded'
<1> SUFFICES ASSUME NEW e \in Executions, stage'[e] = "returned", e \notin SimulateOnly
             PROVE  Tx(e)' \in succeeded'
  BY DEF ReturnedMeansSucceeded
<1>1. CASE e # i
  <2>1. stage'[e] = stage[e] /\ seq'[e] = seq[e]
    BY <1>1, OthersUntouched
  <2>2. succeeded' = succeeded
    BY ProcessOffersOwn
  <2> QED
    BY <2>1, <2>2 DEF ReturnedMeansSucceeded, Tx
<1>2. CASE e = i
  <2> USE DEF TypeOK, GoTo
  <2>1. ~(Build(i) \/ Prepare(i) \/ PreparationThrows(i) \/ Submit(i) \/ SubmitThrows(i))
    BY <1>2 DEF Build, Prepare, PreparationThrows, Submit, SubmitThrows
  <2>2. ~Simulate(i)
    BY <1>2 DEF Simulate
  <2>3. FollowUp(i) \/ HorizonAnswers(i)
    BY <2>1, <2>2 DEF ProcessStep
  <2>4. Tx(i) \in succeeded /\ seq' = seq /\ succeeded' = succeeded
    BY <1>2, <2>3 DEF FollowUp, HorizonAnswers, networkVars
  <2> QED
    BY <1>2, <2>4 DEF Tx
<1> QED
  BY <1>1, <1>2

LEMMA NetworkKeepsReturned ==
  ASSUME ReturnedMeansSucceeded, NetworkStep, UNCHANGED <<source, pipelineVars>>
  PROVE  ReturnedMeansSucceeded'
<1>1. succeeded \subseteq succeeded'
  BY DEF NetworkStep, Include, Discard, HorizonIngests
<1> QED
  BY <1>1 DEF ReturnedMeansSucceeded, Tx, pipelineVars

\* ReturnedMeansSucceeded: process() returns only the output of a transaction a
\* ledger included with success.
THEOREM ReturnedTransactionsSucceeded == Spec => []ReturnedMeansSucceeded
<1>1. Init => ReturnedMeansSucceeded
  BY DEF Init, PipelineInit, ReturnedMeansSucceeded
<1>2. TypeOK /\ ReturnedMeansSucceeded /\ [Next]_vars => ReturnedMeansSucceeded'
  <2> SUFFICES ASSUME TypeOK, ReturnedMeansSucceeded, [Next]_vars PROVE ReturnedMeansSucceeded'
    OBVIOUS
  <2>1. CASE UNCHANGED vars
    BY <2>1 DEF vars, pipelineVars, networkVars, ReturnedMeansSucceeded, Tx
  <2> QED
    BY <2>1, ProcessKeepsReturned, NetworkKeepsReturned DEF Next
<1> QED
  BY <1>1, <1>2, PipelinesTypeCorrect, PTL DEF Spec

\* A step of process() keeps simulations before Soroban Auth.
LEMMA SimulationsStay ==
  ASSUME SubmittedInv, NEW i \in Executions, ProcessStep(i)
  PROVE  \A e \in SimulateOnly : stage'[e] \notin Real
<1> SUFFICES ASSUME NEW e \in SimulateOnly PROVE stage'[e] \notin Real
  OBVIOUS
<1>1. e \in Executions /\ Kind[e] = "soroban" /\ stage[e] \notin Real
  BY PipelineAssumption DEF SubmittedInv
<1>2. CASE e # i
  BY <1>1, <1>2, OthersUntouched DEF SubmittedInv
<1>3. CASE e = i
  <2> USE DEF Real, Following, Preparing, GoTo, SubmittedInv, TypeOK
  <2>1. CASE Build(i)
    BY <1>1, <1>3, <2>1 DEF Build
  <2>2. CASE Simulate(i)
    BY <1>1, <1>3, <2>2 DEF Simulate
  <2>3. CASE PreparationThrows(i)
    BY <1>1, <1>3, <2>3 DEF PreparationThrows
  <2>4. ~(Prepare(i) \/ Submit(i) \/ SubmitThrows(i) \/ FollowUp(i) \/ HorizonAnswers(i))
    BY <1>1, <1>3 DEF Prepare, Submit, SubmitThrows, FollowUp, HorizonAnswers
  <2> QED
    BY <2>1, <2>2, <2>3, <2>4 DEF ProcessStep
<1> QED
  BY <1>2, <1>3

LEMMA ProcessKeepsSubmitted ==
  ASSUME SubmittedInv, NEW i \in Executions, ProcessStep(i), UNCHANGED source
  PROVE  SubmittedInv'
<1>1. TypeOK'
  BY ProcessKeepsTypes DEF SubmittedInv
<1>2. \A e \in SimulateOnly : stage'[e] \notin Real
  BY SimulationsStay
<1>3. stage[i] \in Following \cup Ended \cup {"submit"} =>
        stage'[i] \in Following \cup Ended /\ seq'[i] = seq[i]
  BY DEF ProcessStep, Build, Simulate, Prepare, PreparationThrows, Submit,
     SubmitThrows, FollowUp, HorizonAnswers, GoTo, SubmittedInv, TypeOK, Following,
     Ended, Preparing
<1>4. ASSUME NEW t \in Known
      PROVE  t = Tx(t.exec)' /\ t.exec \notin SimulateOnly /\ stage'[t.exec] \in Following \cup Ended
  <2>1. /\ t = Tx(t.exec) /\ t.exec \notin SimulateOnly
        /\ stage[t.exec] \in Following \cup Ended /\ t.exec \in Executions
    BY DEF SubmittedInv, OnlySignedReachNetwork, TypeOK, Known, Txs
  <2>2. stage'[t.exec] \in Following \cup Ended /\ seq'[t.exec] = seq[t.exec]
    BY <1>3, <2>1, OthersUntouched DEF SubmittedInv
  <2> QED
    BY <2>1, <2>2 DEF Tx
<1>5. ASSUME stage[i] = "submit"
      PROVE  /\ Tx(i) = Tx(i)' /\ Tx(i).exec = i /\ i \notin SimulateOnly
             /\ stage'[i] \in Following \cup Ended
  BY <1>3, <1>5 DEF Tx, SubmittedInv, Real
<1>6. Known' = Known \/ (stage[i] = "submit" /\ Known' = Known \cup {Tx(i)})
  BY ProcessOffersOwn DEF Known
<1> QED
  BY <1>1, <1>2, <1>4, <1>5, <1>6 DEF SubmittedInv, OnlySignedReachNetwork

LEMMA NetworkKeepsSubmitted ==
  ASSUME SubmittedInv, NetworkStep, UNCHANGED <<source, pipelineVars>>
  PROVE  SubmittedInv'
<1>1. TypeOK'
  BY NetworkKeepsTypes DEF SubmittedInv
<1>2. Known' \subseteq Known
  BY DEF NetworkStep, Include, Discard, HorizonIngests, Known
<1>3. \A t \in Known : Tx(t.exec)' = Tx(t.exec)
  BY DEF Tx, pipelineVars
<1> QED
  BY <1>1, <1>2, <1>3 DEF SubmittedInv, OnlySignedReachNetwork, pipelineVars

\* OnlySignedReachNetwork: the network's transactions are those of executions
\* that went through every stage, and none is a simulation's.
THEOREM NetworkHoldsSignedOnly == Spec => []OnlySignedReachNetwork
<1>1. Init => SubmittedInv
  BY PipelineAssumption DEF Init, PipelineInit, NetworkInit, SubmittedInv, TypeOK,
     OnlySignedReachNetwork, Known, Real, Following, Stages, Preparing
<1>2. SubmittedInv /\ [Next]_vars => SubmittedInv'
  <2> SUFFICES ASSUME SubmittedInv, [Next]_vars PROVE SubmittedInv'
    OBVIOUS
  <2>1. CASE UNCHANGED vars
    BY <2>1 DEF vars, pipelineVars, networkVars, SubmittedInv, TypeOK, OnlySignedReachNetwork,
       Known, Tx
  <2> QED
    BY <2>1, ProcessKeepsSubmitted, NetworkKeepsSubmitted DEF Next
<1>3. SubmittedInv => OnlySignedReachNetwork
  BY DEF SubmittedInv
<1> QED
  BY <1>1, <1>2, <1>3, PTL DEF Spec

-----------------------------------------------------------------------------
(* With nested restores.                                                   *)

\* A nested execution does nothing before it is called, and an outer one waits
\* in its simulate stage.
NestedInv ==
  /\ RestoreTypeOK
  /\ \A i \in Outer : restore[i] = "none" => stage[RestoreOf[i]] = "build"
  /\ \A i \in Outer : restore[i] = "awaited" => stage[i] = "simulate"
  /\ \A i \in Outer : restore[i] = "settled" => stage[i] \notin {"build", "simulate"}

LEMMA NestedExecutions ==
  ASSUME NEW i \in Outer
  PROVE  /\ i \in Executions /\ RestoreOf[i] \in Executions
         /\ RestoreOf[i] \notin Outer /\ RestoreOf[i] \notin SimulateOnly
  BY RestoreAssumption

\* A step of the plugin moves its own execution, out of simulate or not at all.
LEMMA PluginEffect ==
  ASSUME NestedInv, NEW i \in Outer, PluginStep(i), UNCHANGED source
  PROVE  /\ RestoreTypeOK'
         /\ UNCHANGED networkVars
         /\ stage[i] = "simulate"
         /\ \A e \in Executions : e # i => stage'[e] = stage[e] /\ seq'[e] = seq[e]
         /\ \A e \in Outer : e # i => restore'[e] = restore[e]
<1> USE DEF NestedInv, RestoreTypeOK, TypeOK, GoTo, Stages, Preparing, Ended, Following
<1>1. i \in Executions
  BY NestedExecutions
<1>2. CASE CallRestore(i)
  BY <1>1, <1>2 DEF CallRestore, networkVars, pipelineVars
<1>3. CASE RestoreReturns(i)
  <2>1. seq' \in [Executions -> Nat] /\ \A e \in Executions : e # i => seq'[e] = seq[e]
    BY <1>1, <1>3 DEF RestoreReturns, BumpSequence
  <2> QED
    BY <1>1, <1>3, <2>1 DEF RestoreReturns, networkVars
<1>4. CASE RestoreThrows(i)
  BY <1>1, <1>4 DEF RestoreThrows, networkVars
<1> QED
  BY <1>2, <1>3, <1>4 DEF PluginStep

LEMMA NestedInvariant == RestoreSpec => []NestedInv
<1>1. RestoreInit => NestedInv
  BY RestoreAssumption DEF RestoreInit, Init, PipelineInit, NetworkInit, NestedInv,
     RestoreTypeOK, TypeOK, Stages, Preparing
<1>2. NestedInv /\ [RestoreNext]_restoreVars => NestedInv'
  <2> SUFFICES ASSUME NestedInv, [RestoreNext]_restoreVars PROVE NestedInv'
    OBVIOUS
  <2>1. ASSUME NEW e \in Executions, Running(e), ProcessStep(e), UNCHANGED <<source, restore>>
        PROVE  NestedInv'
    <3>1. RestoreTypeOK'
      BY <2>1, ProcessKeepsTypes DEF NestedInv, RestoreTypeOK
    <3>2. \A o \in Executions : o # e => stage'[o] = stage[o]
      BY <2>1, OthersUntouched DEF NestedInv, RestoreTypeOK
    <3>3. /\ stage'[e] # "build"
          /\ stage[e] # "build" => stage'[e] # "simulate"
      BY <2>1 DEF ProcessStep, Build, Simulate, Prepare, PreparationThrows, Submit, SubmitThrows,
         FollowUp, HorizonAnswers, GoTo, NestedInv, RestoreTypeOK, TypeOK
    <3>4. ASSUME NEW i \in Outer PROVE
            /\ restore[i] = "none" => stage'[RestoreOf[i]] = "build"
            /\ restore[i] = "awaited" => stage'[i] = "simulate"
            /\ restore[i] = "settled" => stage'[i] \notin {"build", "simulate"}
      BY <2>1, <3>2, <3>3, NestedExecutions DEF Running, NestedInv
    <3> QED
      BY <2>1, <3>1, <3>4 DEF NestedInv
  <2>2. ASSUME NEW i \in Outer, PluginStep(i), UNCHANGED source PROVE NestedInv'
    <3>1. /\ RestoreTypeOK' /\ stage[i] = "simulate"
          /\ \A e \in Executions : e # i => stage'[e] = stage[e]
          /\ \A e \in Outer : e # i => restore'[e] = restore[e]
      BY <2>2, PluginEffect
    <3>2. /\ restore'[i] # "none"
          /\ restore'[i] = "awaited" => stage'[i] = "simulate"
          /\ restore'[i] = "settled" => stage'[i] \notin {"build", "simulate"}
      BY <2>2, <3>1, NestedExecutions DEF PluginStep, CallRestore, RestoreReturns, RestoreThrows,
         GoTo, pipelineVars, NestedInv, RestoreTypeOK, TypeOK
    <3> QED
      BY <3>1, <3>2, NestedExecutions DEF NestedInv
  <2>3. CASE NetworkStep /\ UNCHANGED <<source, pipelineVars, restore>>
    BY <2>3, NetworkKeepsTypes DEF NestedInv, RestoreTypeOK, pipelineVars
  <2>4. CASE UNCHANGED restoreVars
    BY <2>4 DEF restoreVars, vars, pipelineVars, networkVars, NestedInv, RestoreTypeOK, TypeOK
  <2> QED
    BY <2>1, <2>2, <2>3, <2>4 DEF RestoreNext
<1> QED
  BY <1>1, <1>2, PTL DEF RestoreSpec

\* The variables keep their types.
THEOREM RestoreTypeCorrect == RestoreSpec => []RestoreTypeOK
<1>1. NestedInv => RestoreTypeOK
  BY DEF NestedInv
<1> QED
  BY <1>1, NestedInvariant, PTL

-----------------------------------------------------------------------------
\* ReturnedMeansSucceeded and OnlySignedReachNetwork hold with the plugin too:
\* it ends no execution but a simulation, and submits nothing itself.
LEMMA PluginKeepsSubmitted ==
  ASSUME NestedInv, ReturnedMeansSucceeded, SubmittedInv,
         NEW i \in Outer, PluginStep(i), UNCHANGED source
  PROVE  ReturnedMeansSucceeded' /\ SubmittedInv'
<1>1. /\ RestoreTypeOK' /\ UNCHANGED networkVars /\ stage[i] = "simulate"
      /\ \A e \in Executions : e # i => stage'[e] = stage[e] /\ seq'[e] = seq[e]
  BY PluginEffect
<1>2. /\ stage'[i] \in {"simulate", "auth", "returned", "threw"}
      /\ i \in SimulateOnly => stage'[i] # "auth"
      /\ stage'[i] = "returned" => i \in SimulateOnly
  BY <1>1, NestedExecutions DEF PluginStep, CallRestore, RestoreReturns, RestoreThrows, GoTo,
     pipelineVars, NestedInv, RestoreTypeOK, TypeOK
<1>3. ReturnedMeansSucceeded'
  BY <1>1, <1>2 DEF ReturnedMeansSucceeded, Tx, networkVars
<1>4. \A e \in SimulateOnly : stage'[e] \notin Real
  BY <1>1, <1>2, PipelineAssumption DEF SubmittedInv, Real, Following
<1>5. \A t \in Known : t.exec \in Executions /\ t.exec # i
  BY <1>1 DEF SubmittedInv, OnlySignedReachNetwork, TypeOK, Known, Txs, Following, Ended
<1>6. OnlySignedReachNetwork'
  <2>1. Known' = Known
    BY <1>1 DEF Known, networkVars
  <2>2. \A t \in Known : Tx(t.exec)' = Tx(t.exec) /\ stage'[t.exec] = stage[t.exec]
    BY <1>1, <1>5 DEF Tx
  <2> QED
    BY <2>1, <2>2 DEF SubmittedInv, OnlySignedReachNetwork
<1> QED
  BY <1>1, <1>3, <1>4, <1>6 DEF SubmittedInv, RestoreTypeOK

\* The invariants of process(), with the nested executions.
RestoreInv == NestedInv /\ ReturnedMeansSucceeded /\ SubmittedInv

LEMMA RestoreInvariant == RestoreSpec => []RestoreInv
<1> DEFINE Inv == ReturnedMeansSucceeded /\ SubmittedInv
<1>1. RestoreInit => Inv
  BY PipelineAssumption DEF RestoreInit, Init, PipelineInit, NetworkInit, SubmittedInv, TypeOK,
     OnlySignedReachNetwork, ReturnedMeansSucceeded, Known, Real, Following, Stages, Preparing
<1>2. NestedInv /\ Inv /\ [RestoreNext]_restoreVars => Inv'
  <2> SUFFICES ASSUME NestedInv, Inv, [RestoreNext]_restoreVars PROVE Inv'
    OBVIOUS
  <2>1. ASSUME NEW e \in Executions, ProcessStep(e), UNCHANGED source PROVE Inv'
    BY <2>1, ProcessKeepsReturned, ProcessKeepsSubmitted DEF SubmittedInv
  <2>2. CASE NetworkStep /\ UNCHANGED <<source, pipelineVars>>
    BY <2>2, NetworkKeepsReturned, NetworkKeepsSubmitted
  <2>3. CASE UNCHANGED restoreVars
    BY <2>3 DEF restoreVars, vars, pipelineVars, networkVars, SubmittedInv, TypeOK,
       OnlySignedReachNetwork, ReturnedMeansSucceeded, Known, Tx
  <2> QED
    BY <2>1, <2>2, <2>3, PluginKeepsSubmitted DEF RestoreNext
<1> QED
  BY <1>1, <1>2, NestedInvariant, PTL DEF RestoreSpec, RestoreInv

\* ReturnedMeansSucceeded, for executions that restore first.
THEOREM RestoringReturnsSucceeded == RestoreSpec => []ReturnedMeansSucceeded
<1>1. RestoreInv => ReturnedMeansSucceeded
  BY DEF RestoreInv
<1> QED
  BY <1>1, RestoreInvariant, PTL

\* OnlySignedReachNetwork, for executions that restore first.
THEOREM RestoringSubmitsSignedOnly == RestoreSpec => []OnlySignedReachNetwork
<1>1. RestoreInv => OnlySignedReachNetwork
  BY DEF RestoreInv, SubmittedInv
<1> QED
  BY <1>1, RestoreInvariant, PTL

-----------------------------------------------------------------------------
\* RestoredBeforeUse: the outer execution goes on only after its restore was
\* included with success.
THEOREM RestoredFirst == RestoreSpec => []RestoredBeforeUse
<1>1. RestoreInit => RestoredBeforeUse
  BY DEF RestoreInit, RestoredBeforeUse
<1>2. RestoreInv /\ RestoredBeforeUse /\ [RestoreNext]_restoreVars => RestoredBeforeUse'
  <2> SUFFICES ASSUME RestoreInv, RestoredBeforeUse, [RestoreNext]_restoreVars, NEW i \in Outer,
                      restore'[i] = "settled", stage'[i] # "threw"
               PROVE  Tx(RestoreOf[i])' \in succeeded'
    BY DEF RestoredBeforeUse
  <2>1. NestedInv /\ i \in Executions /\ RestoreOf[i] \in Executions
    BY NestedExecutions DEF RestoreInv
  <2>2. ASSUME NEW e \in Executions, Running(e), ProcessStep(e), UNCHANGED <<source, restore>>
        PROVE  Tx(RestoreOf[i])' \in succeeded'
    <3>1. e # RestoreOf[i]
      BY <2>2 DEF Running
    <3>2. stage[i] # "threw"
      BY <2>1, <2>2, OthersUntouched DEF NestedInv, RestoreTypeOK, ProcessStep, Build, Simulate,
         Prepare, PreparationThrows, Submit, SubmitThrows, FollowUp, HorizonAnswers, Preparing
    <3>3. seq'[RestoreOf[i]] = seq[RestoreOf[i]] /\ succeeded' = succeeded
      BY <2>1, <2>2, <3>1, OthersUntouched, ProcessOffersOwn DEF NestedInv, RestoreTypeOK
    <3> QED
      BY <2>2, <3>2, <3>3 DEF RestoredBeforeUse, Tx
  <2>3. ASSUME NEW j \in Outer, PluginStep(j), UNCHANGED source
        PROVE  Tx(RestoreOf[i])' \in succeeded'
    <3>1. /\ UNCHANGED networkVars /\ stage[j] = "simulate" /\ RestoreOf[i] # j
          /\ \A e \in Executions : e # j => stage'[e] = stage[e] /\ seq'[e] = seq[e]
          /\ \A e \in Outer : e # j => restore'[e] = restore[e]
      BY <2>1, <2>3, PluginEffect, NestedExecutions
    <3>2. Tx(RestoreOf[i])' = Tx(RestoreOf[i]) /\ succeeded' = succeeded
      BY <2>1, <2>3, <3>1 DEF Tx, networkVars
    <3>3. CASE i # j
      BY <2>1, <3>1, <3>2, <3>3 DEF RestoredBeforeUse
    <3>4. CASE i = j
      <4>1. RestoreReturns(i)
        BY <2>1, <2>3, <3>4 DEF PluginStep, CallRestore, RestoreThrows, GoTo, NestedInv,
           RestoreTypeOK, TypeOK
      <4>2. Tx(RestoreOf[i]) \in succeeded
        BY <2>1, <4>1, NestedExecutions DEF RestoreReturns, RestoreInv, ReturnedMeansSucceeded
      <4> QED
        BY <3>2, <4>2
    <3> QED
      BY <3>3, <3>4
  <2>4. ASSUME UNCHANGED <<source, pipelineVars, restore>>, succeeded \subseteq succeeded'
        PROVE  Tx(RestoreOf[i])' \in succeeded'
    BY <2>4 DEF RestoredBeforeUse, Tx, pipelineVars
  <2>5. CASE NetworkStep /\ UNCHANGED <<source, pipelineVars, restore>>
    BY <2>4, <2>5 DEF NetworkStep, Include, Discard, HorizonIngests
  <2>6. CASE UNCHANGED restoreVars
    BY <2>4, <2>6 DEF restoreVars, vars, networkVars
  <2> QED
    BY <2>2, <2>3, <2>5, <2>6 DEF RestoreNext
<1> QED
  BY <1>1, <1>2, RestoreInvariant, PTL DEF RestoreSpec

-----------------------------------------------------------------------------
\* What the numbers of the ledger are: those of included transactions, which
\* Horizon does not run ahead of.
LedgerInv ==
  /\ \A a \in Accounts : horizonSeq[a] <= ledgerSeq[a]
  /\ \A t \in succeeded \cup failed : t.seq <= ledgerSeq[t.source]
  /\ \A a \in Accounts : ledgerSeq[a] > 0 =>
       \E t \in succeeded \cup failed : t.source = a /\ t.seq = ledgerSeq[a]

LEMMA NetworkKeepsLedger ==
  ASSUME TypeOK, LedgerInv, NetworkStep
  PROVE  LedgerInv'
<1> USE DEF TypeOK, LedgerInv, Txs
<1>1. ASSUME NEW t \in queue, Include(t) PROVE LedgerInv'
  <2>1. /\ t \in Txs /\ t.source \in Accounts /\ t.seq \in Nat
        /\ t.seq = ledgerSeq[t.source] + 1 /\ t \in succeeded' \cup failed'
        /\ succeeded \cup failed \subseteq succeeded' \cup failed'
        /\ succeeded' \cup failed' \subseteq succeeded \cup failed \cup {t}
    BY <1>1 DEF Include
  <2>2. /\ ledgerSeq'[t.source] = t.seq
        /\ \A a \in Accounts : a # t.source => ledgerSeq'[a] = ledgerSeq[a]
        /\ \A a \in Accounts : ledgerSeq'[a] >= ledgerSeq[a] /\ ledgerSeq'[a] \in Nat
    BY <1>1, <2>1 DEF Include
  <2>3. \A a \in Accounts : horizonSeq'[a] <= ledgerSeq'[a]
    BY <1>1, <2>2 DEF Include
  <2>4. \A u \in succeeded \cup failed : u \in Txs /\ u.source \in Accounts /\ u.seq \in Nat
    OBVIOUS
  <2>5. \A u \in succeeded' \cup failed' : u.seq <= ledgerSeq'[u.source]
    BY <2>1, <2>2, <2>4
  <2>6. ASSUME NEW a \in Accounts, ledgerSeq'[a] > 0
        PROVE  \E u \in succeeded' \cup failed' : u.source = a /\ u.seq = ledgerSeq'[a]
    BY <2>1, <2>2, <2>6
  <2> QED
    BY <2>3, <2>5, <2>6
<1>2. ASSUME NEW t \in queue, Discard(t) PROVE LedgerInv'
  BY <1>2 DEF Discard
<1>3. ASSUME NEW a \in Accounts, HorizonIngests(a) PROVE LedgerInv'
  BY <1>3 DEF HorizonIngests
<1> QED
  BY <1>1, <1>2, <1>3 DEF NetworkStep

LEMMA LedgerInvariant == RestoreSpec => []LedgerInv
<1>1. RestoreInit => LedgerInv
  BY DEF RestoreInit, Init, PipelineInit, NetworkInit, LedgerInv
<1>2. RestoreInv /\ LedgerInv /\ [RestoreNext]_restoreVars => LedgerInv'
  <2> SUFFICES ASSUME RestoreInv, LedgerInv, [RestoreNext]_restoreVars PROVE LedgerInv'
    OBVIOUS
  <2>1. ASSUME UNCHANGED <<ledgerSeq, horizonSeq, succeeded, failed>> PROVE LedgerInv'
    BY <2>1 DEF LedgerInv
  <2>2. ASSUME NEW e \in Executions, ProcessStep(e) PROVE LedgerInv'
    BY <2>1, <2>2, ProcessOffersOwn
  <2>3. ASSUME NEW i \in Outer, PluginStep(i), UNCHANGED source PROVE LedgerInv'
    BY <2>1, <2>3, PluginEffect DEF RestoreInv, networkVars
  <2>4. CASE NetworkStep
    BY <2>4, NetworkKeepsLedger DEF RestoreInv, SubmittedInv
  <2>5. CASE UNCHANGED restoreVars
    BY <2>1, <2>5 DEF restoreVars, vars, networkVars
  <2> QED
    BY <2>2, <2>3, <2>4, <2>5 DEF RestoreNext
<1> QED
  BY <1>1, <1>2, RestoreInvariant, PTL DEF RestoreSpec

-----------------------------------------------------------------------------
SharesSource(i) == source[RestoreOf[i]] = source[i]

\* Execution i has gone past the simulation and its transaction may be included.
PassedOn(i) == stage[i] \in {"auth", "requirements", "sign", "submit"} \/ Tx(i) \in queue

\* The numbers of an outer execution and of its restore, when no other uses the
\* account: both are 1 until the restore is bumped over.
Numbered(i) ==
  /\ stage[i] = "simulate" => seq[i] = 1
  /\ SharesSource(i) /\ restore[i] = "awaited" /\ stage[RestoreOf[i]] \notin {"build", "threw"}
       => seq[RestoreOf[i]] = 1
  /\ PassedOn(i) =>
       /\ seq[i] = ledgerSeq[source[i]] + 1
       /\ SharesSource(i) /\ restore[i] = "settled" => seq[RestoreOf[i]] < seq[i]

FitInv == \A i \in Outer : SoleUser(i) => Numbered(i)

\* What the network knows of the account of a sole user.
LEMMA SoleKnown ==
  ASSUME RestoreInv, NEW i \in Outer, SoleUser(i), NEW t \in Known, t.source = source[i]
  PROVE  \/ t = Tx(i) /\ stage[i] \in Following \cup Ended
         \/ /\ t = Tx(RestoreOf[i]) /\ stage[RestoreOf[i]] \in Following \cup Ended
            /\ SharesSource(i)
<1>1. t = Tx(t.exec) /\ t.exec \in Executions /\ stage[t.exec] \in Following \cup Ended
  BY DEF RestoreInv, SubmittedInv, OnlySignedReachNetwork, TypeOK, Known, Txs
<1>2. source[t.exec] = source[i]
  BY <1>1 DEF Tx
<1>3. t.exec = i \/ t.exec = RestoreOf[i]
  BY <1>1, <1>2 DEF SoleUser
<1> QED
  BY <1>1, <1>2, <1>3 DEF SharesSource

\* The transaction of an execution that has not submitted is not known.
LEMMA UnknownBeforeSubmission ==
  ASSUME RestoreInv, NEW e \in Executions, stage[e] \notin Following \cup Ended
  PROVE  \A t \in Known : t.exec # e
  BY DEF RestoreInv, SubmittedInv, OnlySignedReachNetwork

\* Before the restore of a sole user goes out, its account has not been used.
LEMMA Untouched ==
  ASSUME RestoreInv, LedgerInv, NEW i \in Outer, SoleUser(i),
         stage[i] \in {"build", "simulate"},
         SharesSource(i) => stage[RestoreOf[i]] = "build"
  PROVE  ledgerSeq[source[i]] = 0 /\ horizonSeq[source[i]] = 0
<1>1. \A t \in Known : t.source # source[i]
  BY SoleKnown DEF Following, Ended
<1>2. source[i] \in Accounts
  BY NestedExecutions DEF RestoreInv, SubmittedInv, TypeOK
<1> QED
  BY <1>1, <1>2 DEF LedgerInv, RestoreInv, SubmittedInv, TypeOK, Known

LEMMA PluginKeepsFit ==
  ASSUME RestoreInv, RestoreInv', LedgerInv, FitInv, NEW j \in Outer, PluginStep(j),
         UNCHANGED source, NEW i \in Outer, SoleUser(i)
  PROVE  Numbered(i)'
<1>1. /\ UNCHANGED networkVars /\ stage[j] = "simulate" /\ RestoreOf[i] # j
      /\ \A e \in Executions : e # j => stage'[e] = stage[e] /\ seq'[e] = seq[e]
      /\ \A e \in Outer : e # j => restore'[e] = restore[e]
      /\ i \in Executions /\ RestoreOf[i] \in Executions
  BY PluginEffect, NestedExecutions DEF RestoreInv
<1>2. SharesSource(i)' = SharesSource(i) /\ Numbered(i) /\ UNCHANGED <<ledgerSeq, queue>>
  BY <1>1 DEF SharesSource, FitInv, networkVars
<1>3. CASE i # j
  BY <1>1, <1>2, <1>3 DEF Numbered, PassedOn, Tx
<1>4. CASE i = j
  <2>1. \A t \in Known : t.exec # i
    BY <1>1, <1>4, UnknownBeforeSubmission DEF Following, Ended
  <2>2. Tx(i)' \notin queue'
    BY <1>2, <2>1 DEF Tx, Known
  <2>3. /\ stage[i] = "simulate" /\ seq[i] = 1
        /\ restore \in [Outer -> {"none", "awaited", "settled"}]
        /\ stage \in [Executions -> Stages] /\ seq \in [Executions -> Nat]
    BY <1>1, <1>2, <1>4 DEF Numbered, RestoreInv, NestedInv, RestoreTypeOK, TypeOK
  <2>4. CASE CallRestore(i)
    <3>1. stage'[RestoreOf[i]] = "build" /\ stage' = stage /\ seq' = seq
      BY <2>4 DEF CallRestore, RestoreInv, NestedInv, pipelineVars
    <3> QED
      BY <2>2, <2>3, <3>1 DEF Numbered, PassedOn
  <2>5. CASE RestoreReturns(i)
    <3>1. stage[RestoreOf[i]] = "returned" /\ restore'[i] = "settled" /\ stage'[i] \in {"auth", "returned"}
      BY <1>1, <2>3, <2>5 DEF RestoreReturns, GoTo
    <3>2. CASE SharesSource(i)
      <4>1. seq[RestoreOf[i]] = 1
        BY <1>2, <2>5, <3>1, <3>2 DEF Numbered, RestoreReturns
      <4>2. Tx(RestoreOf[i]) \in succeeded
        BY <1>1, <3>1, NestedExecutions DEF RestoreInv, ReturnedMeansSucceeded
      <4>3. ledgerSeq[source[i]] >= 1
        BY <3>2, <4>1, <4>2 DEF LedgerInv, Tx, SharesSource
      <4>4. PICK t \in succeeded \cup failed : t.source = source[i] /\ t.seq = ledgerSeq[source[i]]
        BY <1>1, <4>3 DEF LedgerInv, RestoreInv, SubmittedInv, TypeOK
      <4>5. t = Tx(RestoreOf[i])
        BY <2>3, <4>4, SoleKnown DEF Known, Following, Ended
      <4>6. ledgerSeq[source[i]] = 1
        BY <4>1, <4>4, <4>5 DEF Tx
      <4>7. seq'[i] = 2 /\ seq'[RestoreOf[i]] = 1
        BY <1>1, <1>4, <2>3, <2>5, <3>2, <4>1 DEF RestoreReturns, BumpSequence, SharesSource
      <4> QED
        BY <1>2, <2>2, <3>1, <4>6, <4>7 DEF Numbered, PassedOn
    <3>3. CASE ~SharesSource(i)
      <4>1. ledgerSeq[source[i]] = 0
        BY <2>3, <3>3, Untouched
      <4>2. seq'[i] = 1
        BY <2>3, <2>5, <3>3 DEF RestoreReturns, BumpSequence, SharesSource
      <4> QED
        BY <1>2, <2>2, <3>1, <3>3, <4>1, <4>2 DEF Numbered, PassedOn
    <3> QED
      BY <3>2, <3>3
  <2>6. CASE RestoreThrows(i)
    <3>1. restore'[i] = "settled" /\ stage'[i] = "threw"
      BY <1>1, <2>3, <2>6 DEF RestoreThrows, GoTo
    <3> QED
      BY <2>2, <3>1 DEF Numbered, PassedOn
  <2> QED
    BY <1>4, <2>4, <2>5, <2>6 DEF PluginStep
<1> QED
  BY <1>3, <1>4

LEMMA ProcessKeepsFit ==
  ASSUME RestoreInv, RestoreInv', LedgerInv, FitInv, NEW e \in Executions, Running(e),
         ProcessStep(e), UNCHANGED <<source, restore>>, NEW i \in Outer, SoleUser(i)
  PROVE  Numbered(i)'
<1> DEFINE r == RestoreOf[i]
<1>1. /\ i \in Executions /\ r \in Executions /\ r # i /\ Kind[i] = "soroban" /\ Kind[r] = "soroban"
      /\ source[i] \in Accounts /\ source[r] \in Accounts
      /\ stage \in [Executions -> Stages] /\ seq \in [Executions -> Nat]
      /\ restore \in [Outer -> {"none", "awaited", "settled"}]
  BY RestoreAssumption DEF RestoreInv, NestedInv, RestoreTypeOK, TypeOK
<1>2. /\ \A o \in Executions : o # e => stage'[o] = stage[o] /\ seq'[o] = seq[o]
      /\ ledgerSeq' = ledgerSeq
      /\ queue' = queue \/ (stage[e] = "submit" /\ queue' = queue \cup {Tx(e)})
  BY OthersUntouched, ProcessOffersOwn DEF RestoreInv, SubmittedInv
<1>3. Numbered(i) /\ SharesSource(i)' = SharesSource(i)
  BY DEF FitInv, SharesSource
<1>4. CASE e # i /\ e # r
  <2>1. Tx(i)' = Tx(i) /\ Tx(i) # Tx(e)
    BY <1>1, <1>2, <1>4 DEF Tx
  <2>2. PassedOn(i)' = PassedOn(i)
    BY <1>1, <1>2, <1>4, <2>1 DEF PassedOn
  <2> QED
    BY <1>1, <1>2, <1>3, <1>4, <2>2 DEF Numbered
<1>5. CASE e = r
  <2>1. /\ restore[i] = "awaited" /\ stage[i] = "simulate"
        /\ stage'[i] = "simulate" /\ seq'[i] = seq[i] /\ Tx(i)' = Tx(i)
    BY <1>1, <1>2, <1>5 DEF Running, RestoreInv, NestedInv, Tx
  <2>2. ~PassedOn(i)'
    <3>1. Tx(i) \notin queue
      BY <1>1, <2>1, UnknownBeforeSubmission DEF Following, Ended, Known, Tx
    <3> QED
      BY <1>1, <1>2, <1>5, <2>1, <3>1 DEF PassedOn, Tx
  <2>3. ASSUME SharesSource(i), stage'[r] \notin {"build", "threw"} PROVE seq'[r] = 1
    <3>1. CASE Build(r)
      <4>1. stage[r] = "build"
        BY <3>1 DEF Build
      <4>2. horizonSeq[source[i]] = 0
        BY <2>1, <4>1, Untouched
      <4> QED
        BY <1>1, <2>3, <3>1, <4>2 DEF Build, SharesSource
    <3>2. CASE ~Build(r)
      <4>1. stage[r] \notin {"build", "threw"} /\ seq' = seq
        BY <1>1, <1>5, <2>3, <3>2 DEF ProcessStep, Simulate, Prepare, PreparationThrows, Submit,
           SubmitThrows, FollowUp, HorizonAnswers, GoTo, Preparing
      <4> QED
        BY <1>3, <2>1, <2>3, <4>1 DEF Numbered
    <3> QED
      BY <3>1, <3>2
  <2> QED
    BY <1>3, <2>1, <2>2, <2>3 DEF Numbered
<1>6. CASE e = i
  <2>1. restore[i] # "awaited"
    BY <1>6 DEF Running
  <2>2. CASE stage[i] \in {"build", "simulate"}
    <3>1. restore[i] = "none" /\ stage[r] = "build"
      BY <1>1, <2>1, <2>2 DEF RestoreInv, NestedInv
    <3>2. ledgerSeq[source[i]] = 0 /\ horizonSeq[source[i]] = 0
      BY <2>2, <3>1, Untouched
    <3>3. Tx(i)' \notin queue'
      BY <1>1, <1>2, <1>6, <2>2, UnknownBeforeSubmission DEF Following, Ended, Known, Tx
    <3>4. stage'[i] \in {"simulate", "auth"} => seq'[i] = 1
      BY <1>1, <1>3, <1>6, <2>2, <3>2 DEF ProcessStep, Build, Simulate, Prepare, PreparationThrows,
         Submit, SubmitThrows, FollowUp, HorizonAnswers, GoTo, Preparing, Numbered
    <3>5. stage'[i] \notin {"requirements", "sign", "submit"}
      BY <1>1, <1>6, <2>2 DEF ProcessStep, Build, Simulate, Prepare, PreparationThrows,
         Submit, SubmitThrows, FollowUp, HorizonAnswers, GoTo, Preparing
    <3> QED
      BY <1>1, <1>2, <2>1, <3>1, <3>2, <3>3, <3>4, <3>5 DEF Numbered, PassedOn
  <2>3. CASE stage[i] \notin {"build", "simulate"}
    <3>1. seq' = seq /\ stage'[i] \notin {"build", "simulate"}
      BY <1>1, <1>6, <2>3 DEF ProcessStep, Build, Simulate, Prepare, PreparationThrows,
         Submit, SubmitThrows, FollowUp, HorizonAnswers, GoTo, Preparing
    <3>2. Tx(i)' = Tx(i)
      BY <3>1 DEF Tx
    <3>3. PassedOn(i)' => PassedOn(i)
      BY <1>1, <1>2, <1>6, <2>3, <3>2 DEF ProcessStep, Build, Simulate, Prepare, PreparationThrows,
         Submit, SubmitThrows, FollowUp, HorizonAnswers, GoTo, Preparing, PassedOn
    <3> QED
      BY <1>1, <1>2, <1>3, <2>1, <3>1, <3>3 DEF Numbered
  <2> QED
    BY <2>2, <2>3
<1> QED
  BY <1>4, <1>5, <1>6

LEMMA NetworkKeepsFit ==
  ASSUME RestoreInv, FitInv, NetworkStep, UNCHANGED <<source, pipelineVars, restore>>,
         NEW i \in Outer, SoleUser(i)
  PROVE  Numbered(i)'
<1>1. /\ Numbered(i) /\ SharesSource(i)' = SharesSource(i) /\ Tx(i)' = Tx(i)
      /\ stage' = stage /\ seq' = seq
      /\ i \in Executions /\ source[i] \in Accounts
      /\ ledgerSeq \in [Accounts -> Nat] /\ queue \subseteq Txs
      /\ restore \in [Outer -> {"none", "awaited", "settled"}]
  BY NestedExecutions DEF FitInv, SharesSource, Tx, pipelineVars, RestoreInv, NestedInv,
     RestoreTypeOK, TypeOK
<1>2. queue' \subseteq queue
  BY DEF NetworkStep, Include, Discard, HorizonIngests
<1>3. PassedOn(i)' => PassedOn(i)
  BY <1>1, <1>2 DEF PassedOn
<1>4. ASSUME PassedOn(i)' PROVE ledgerSeq'[source[i]] = ledgerSeq[source[i]]
  <2>1. ASSUME NEW t \in queue, Include(t), t.source = source[i] PROVE FALSE
    <3>1. t.seq = ledgerSeq[source[i]] + 1 /\ t \notin queue' /\ t \in Known
      BY <2>1 DEF Include, Known
    <3>2. CASE t = Tx(i) /\ stage[i] \in Following \cup Ended
      BY <1>1, <1>4, <3>1, <3>2 DEF PassedOn, Following, Ended
    <3>3. CASE /\ t = Tx(RestoreOf[i]) /\ stage[RestoreOf[i]] \in Following \cup Ended
               /\ SharesSource(i)
      <4>1. restore[i] # "none"
        BY <3>3 DEF RestoreInv, NestedInv, Following, Ended
      <4>2. restore[i] # "awaited"
        <5>1. ASSUME stage[i] = "simulate" PROVE ~PassedOn(i)
          BY <1>1, <5>1, UnknownBeforeSubmission DEF Following, Ended, PassedOn, Tx, Known
        <5> QED
          BY <1>3, <1>4, <5>1 DEF RestoreInv, NestedInv
      <4>3. seq[RestoreOf[i]] < seq[i] /\ seq[i] = ledgerSeq[source[i]] + 1
        BY <1>1, <1>3, <1>4, <3>3, <4>1, <4>2 DEF Numbered
      <4>4. seq[RestoreOf[i]] = ledgerSeq[source[i]] + 1
        BY <3>1, <3>3 DEF Tx
      <4>5. seq[RestoreOf[i]] \in Nat /\ seq[i] \in Nat
        BY <1>1, NestedExecutions DEF RestoreInv, SubmittedInv, TypeOK
      <4> QED
        BY <4>3, <4>4, <4>5
    <3> QED
      BY <2>1, <3>1, <3>2, <3>3, SoleKnown
  <2>2. ASSUME NEW t \in queue, Include(t) PROVE ledgerSeq'[source[i]] = ledgerSeq[source[i]]
    BY <1>1, <2>1, <2>2 DEF Include, Txs
  <2> QED
    BY <2>2 DEF NetworkStep, Discard, HorizonIngests
<1> QED
  BY <1>1, <1>3, <1>4 DEF Numbered

\* SequenceFitsAfterRestore: the transaction of a sole user of an account has
\* the account's next number, restored or not, until it is included.
THEOREM SequenceFits == RestoreSpec => []SequenceFitsAfterRestore
<1>1. RestoreInit => FitInv
  BY NestedExecutions DEF RestoreInit, Init, PipelineInit, NetworkInit, FitInv, Numbered, PassedOn
<1>2. RestoreInv /\ RestoreInv' /\ LedgerInv /\ FitInv /\ [RestoreNext]_restoreVars => FitInv'
  <2> SUFFICES ASSUME RestoreInv, RestoreInv', LedgerInv, FitInv, [RestoreNext]_restoreVars,
                      NEW i \in Outer, SoleUser(i)'
               PROVE  Numbered(i)'
    BY DEF FitInv
  <2>1. UNCHANGED source
    BY DEF RestoreNext, restoreVars, vars
  <2>2. SoleUser(i)
    BY <2>1 DEF SoleUser
  <2>3. CASE UNCHANGED restoreVars
    <3>1. Numbered(i)
      BY <2>2 DEF FitInv
    <3> QED
      BY <2>3, <3>1 DEF restoreVars, vars, pipelineVars, networkVars, Numbered, SharesSource,
         PassedOn, Tx
  <2> QED
    BY <2>2, <2>3, PluginKeepsFit, ProcessKeepsFit, NetworkKeepsFit DEF RestoreNext
<1>3. FitInv => SequenceFitsAfterRestore
  BY DEF FitInv, Numbered, PassedOn, SequenceFitsAfterRestore
<1> QED
  BY <1>1, <1>2, <1>3, RestoreInvariant, LedgerInvariant, PTL DEF RestoreSpec

=============================================================================
