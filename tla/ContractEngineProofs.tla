------------------------ MODULE ContractEngineProofs ------------------------
(***************************************************************************)
(* What the registers of a contract engine mean, for any number of calls   *)
(* and assets; that the handlers of an asset, whose token handler is an    *)
(* engine, keep to it; and that the balances they move are accounted for.  *)
(*                                                                         *)
(* Sums over sets of calls and powers of ten are recursions.  What is      *)
(* proved of them is proved by a counterexample that is minimal, a subset  *)
(* or a number, and cannot be.                                             *)
(***************************************************************************)
EXTENDS AssetHandlers, FiniteSetTheorems, TLAPS

LEMMA TargetTyped ==
  ASSUME TypeOK, NEW k \in Kinds, NEW a \in Assets
  PROVE  /\ Target(k, a) \in LedgerEntries \cup {"none"}
         /\ FirstAwait(k) \in {"reading", "compiling", "simulating"}
         /\ FirstAwait(k) = "reading" => k \in {"restoreInstance", "restoreCode"}
         /\ FirstAwait(k) = "compiling" => k = "loadSpec"
         /\ k = "upload" => Target(k, a) = "ownCode"
         /\ k = "deploy" => Target(k, a) = wasmHash
         /\ k = "wrap" => Target(k, a) = a
  BY DEF TypeOK, Kinds, Target, FirstAwait, LedgerEntries, Hashes, Contracts

\* What the kind of a call says of its target, and of what it awaits.
KindInv ==
  /\ TypeOK
  /\ \A c \in Calls : kind[c] = "upload" => target[c] = "ownCode"
  /\ \A c \in Calls : kind[c] = "wrap" => target[c] \in Assets
  /\ \A c \in Calls : pc[c] = "reading" => kind[c] \in {"restoreInstance", "restoreCode"}
  /\ \A c \in Calls : pc[c] = "compiling" => kind[c] = "loadSpec"
  /\ \A c \in Calls : pc[c] \notin {"executing", "resolved", "rejected"} => tx[c] = "none"

LEMMA MadeTyped ==
  ASSUME KindInv, NEW c \in Calls
  PROVE  Made(c) \subseteq LedgerEntries
  BY DEF KindInv, TypeOK, Made, LedgerEntries, Contracts, Hashes

LEMMA KindInductive == KindInv /\ [Next]_vars => KindInv'
<1> SUFFICES ASSUME KindInv, [Next]_vars PROVE KindInv'
  OBVIOUS
<1> USE DEF KindInv, TypeOK
<1>1. ASSUME NEW c \in Calls, NEW k \in Kinds, NEW only \in BOOLEAN, NEW a \in Assets,
             Call(c, k, only, a)
      PROVE  KindInv'
  <2>1. /\ kind' = [kind EXCEPT ![c] = k]
        /\ simulateOnly' = [simulateOnly EXCEPT ![c] = only]
        /\ target' = [target EXCEPT ![c] = Target(k, a)]
        /\ pc' = [pc EXCEPT ![c] = FirstAwait(k)] \/ pc' = [pc EXCEPT ![c] = "rejected"]
        /\ UNCHANGED <<constructed, registers, tx, entries>>
    BY <1>1 DEF Call, Go
  <2>2. FirstAwait(k) \in {"reading", "compiling", "simulating"}
    BY TargetTyped
  <2>3. pc' \in [Calls -> {"idle", "reading", "simulating", "executing", "compiling",
                           "resolved", "rejected"}] /\ pc'[c] # "idle"
    BY <2>1, <2>2
  <2>4. TypeOK'
    BY <2>1, <2>3, TargetTyped DEF registers
  <2>5. /\ kind'[c] = k /\ target'[c] = Target(k, a) /\ tx'[c] = "none"
        /\ pc'[c] = FirstAwait(k) \/ pc'[c] = "rejected"
        /\ \A e \in Calls \ {c} : kind'[e] = kind[e] /\ target'[e] = target[e] /\ pc'[e] = pc[e]
                                  /\ tx'[e] = tx[e]
    BY <1>1, <2>1 DEF Call
  <2> QED
    BY <2>4, <2>5, TargetTyped
<1>2. ASSUME NEW c \in Calls, EntryFound(c) \/ SpecLoaded(c) PROVE KindInv'
  BY <1>2 DEF EntryFound, SpecLoaded, Go, registers, callVars
<1>3. ASSUME NEW c \in Calls, Submit(c) \/ SimulatedOnly(c) \/ ExecutionThrows(c)
      PROVE  KindInv'
  BY <1>3 DEF Submit, SimulatedOnly, ExecutionThrows, Go, registers, callVars
<1>4. ASSUME NEW c \in Calls, AlreadyWrapped(c) PROVE KindInv'
  BY <1>4 DEF AlreadyWrapped, Go, callVars, Contracts
<1>5. ASSUME NEW c \in Calls, Return(c) PROVE KindInv'
  BY <1>5 DEF Return, Go, callVars, Contracts, Hashes
<1>6. ASSUME NEW c \in Calls, Include(c) PROVE KindInv'
  BY <1>6, MadeTyped DEF Include, registers, callVars
<1>7. ASSUME NEW c \in Calls, Discard(c) PROVE KindInv'
  BY <1>7 DEF Discard, registers, callVars
<1>8. CASE UNCHANGED vars
  BY <1>8 DEF vars, registers, callVars
<1> QED
  BY <1>1, <1>2, <1>3, <1>4, <1>5, <1>6, <1>7, <1>8 DEF Next, Method, Called

LEMMA KindInitial == Init => KindInv
<1> SUFFICES ASSUME Init PROVE KindInv
  OBVIOUS
<1>1. PICK made \in SUBSET ({"ownCode"} \cup Assets) :
        entries = {"givenCode", "givenContract"} \cup made
  BY DEF Init
<1>2. entries \subseteq LedgerEntries
  BY <1>1 DEF LedgerEntries, Contracts, Hashes
<1>3. /\ contractId \in Contracts \cup {"none"} /\ wasmHash \in Hashes \cup {"none"}
      /\ spec \in {"none", "given", "own"} /\ constructed \in Parameters
  BY DEF Init, Parameters, Contracts, Hashes
<1>4. /\ kind = [c \in Calls |-> "none"] /\ simulateOnly = [c \in Calls |-> FALSE]
      /\ target = [c \in Calls |-> "none"] /\ pc = [c \in Calls |-> "idle"]
      /\ tx = [c \in Calls |-> "none"]
  BY DEF Init
<1> QED
  BY <1>2, <1>3, <1>4 DEF KindInv, TypeOK

\* TypeOK: the registers, the calls and the ledger keep their types.
THEOREM EngineTypeCorrect == Spec => []TypeOK
<1>1. KindInv => TypeOK
  BY DEF KindInv
<1> QED
  BY KindInitial, KindInductive, <1>1, PTL DEF Spec

-----------------------------------------------------------------------------
\* A call begins: it and nothing else moves.
LEMMA CalledStep ==
  ASSUME KindInv, NEW c \in Calls, Called(c)
  PROVE  /\ pc[c] = "idle" /\ pc'[c] \in {"reading", "compiling", "simulating", "rejected"}
         /\ UNCHANGED <<constructed, contractId, wasmHash, spec, tx, entries>>
         /\ \A e \in Calls \ {c} : pc'[e] = pc[e] /\ kind'[e] = kind[e] /\ target'[e] = target[e]
         /\ kind'[c] = "deploy" /\ pc'[c] = "simulating" =>
              target'[c] = wasmHash /\ wasmHash # "none"
<1>1. PICK k \in Kinds, only \in BOOLEAN, a \in Assets : Call(c, k, only, a)
  BY DEF Called
<1>2. /\ kind' = [kind EXCEPT ![c] = k]
      /\ target' = [target EXCEPT ![c] = Target(k, a)]
      /\ \/ RequirementsMet(k) /\ pc' = [pc EXCEPT ![c] = FirstAwait(k)]
         \/ pc' = [pc EXCEPT ![c] = "rejected"]
  BY <1>1 DEF Call, Go
<1>3. pc[c] = "idle" /\ UNCHANGED <<constructed, contractId, wasmHash, spec, tx, entries>>
  BY <1>1 DEF Call, registers
<1>4. FirstAwait(k) \in {"reading", "compiling", "simulating"}
  BY TargetTyped DEF KindInv
<1>5. pc'[c] \in {"reading", "compiling", "simulating", "rejected"}
  BY <1>2, <1>4 DEF KindInv, TypeOK
<1>6. ASSUME k = "deploy", pc'[c] = "simulating" PROVE target'[c] = wasmHash /\ wasmHash # "none"
  BY <1>2, <1>6, TargetTyped DEF KindInv, TypeOK, RequirementsMet
<1> QED
  BY <1>2, <1>3, <1>5, <1>6 DEF KindInv, TypeOK

\* What a transaction made is on the ledger, and so is what is registered.
RegisteredInv ==
  /\ KindInv
  /\ RegisteredOnLedger
  /\ \A c \in Calls : tx[c] = "succeeded" => Made(c) \subseteq entries

\* Kinds, targets and the ledger only change where no transaction is known.
LEMMA MadeStable ==
  ASSUME KindInv, Next, NEW c \in Calls, pc[c] # "idle"
  PROVE  kind'[c] = kind[c] /\ target'[c] = target[c] /\ Made(c)' = Made(c)
<1>1. PICK d \in Calls : Method(d) \/ Include(d) \/ Discard(d)
  BY DEF Next
<1>2. CASE Called(d)
  BY <1>2, CalledStep DEF Made
<1>3. CASE ~Called(d)
  <2>1. UNCHANGED callVars
    BY <1>1, <1>3, CalledStep
       DEF Method, EntryFound, SpecLoaded, Submit, SimulatedOnly,
           AlreadyWrapped, ExecutionThrows, Return, Include, Discard
  <2> QED
    BY <2>1 DEF callVars, Made
<1> QED
  BY <1>2, <1>3

LEMMA RegisteredInductive == RegisteredInv /\ [Next]_vars => RegisteredInv'
<1> SUFFICES ASSUME RegisteredInv, [Next]_vars PROVE RegisteredInv'
  OBVIOUS
<1>1. KindInv /\ KindInv'
  BY KindInductive DEF RegisteredInv
<1>2. CASE UNCHANGED vars
  BY <1>1, <1>2 DEF vars, registers, callVars, RegisteredInv, RegisteredOnLedger, Made
<1>3. CASE Next
  <2>1. PICK d \in Calls : Method(d) \/ Include(d) \/ Discard(d)
    BY <1>3 DEF Next
  <2>2. entries \subseteq entries'
    BY <1>1, <2>1, CalledStep
       DEF Method, EntryFound, SpecLoaded, Submit, SimulatedOnly,
           AlreadyWrapped, ExecutionThrows, Return, Include, Discard
  <2>3. ASSUME NEW c \in Calls, tx'[c] = "succeeded" PROVE Made(c)' \subseteq entries'
    <3>1. tx[c] = "succeeded" \/ (c = d /\ Include(d) /\ tx[c] = "pending")
      BY <1>1, <2>1, <2>3, CalledStep
         DEF Method, EntryFound, SpecLoaded, Submit, SimulatedOnly,
             AlreadyWrapped, ExecutionThrows, Return, Include, Discard,
             RegisteredInv, KindInv, TypeOK
    <3>2. pc[c] # "idle"
      BY <3>1 DEF RegisteredInv, KindInv
    <3>3. Made(c)' = Made(c)
      BY <1>3, <3>2, MadeStable DEF RegisteredInv
    <3> QED
      BY <2>2, <3>1, <3>3 DEF RegisteredInv, Include
  <2>4. RegisteredOnLedger'
    <3>1. CASE AlreadyWrapped(d)
      BY <2>2, <3>1 DEF AlreadyWrapped, RegisteredInv, RegisteredOnLedger
    <3>2. CASE Return(d)
      <4>1. Made(d) \subseteq entries'
        BY <2>2, <3>2 DEF Return, RegisteredInv
      <4> QED
        BY <2>2, <3>2, <4>1 DEF Return, Made, RegisteredInv, RegisteredOnLedger
    <3>3. CASE ~AlreadyWrapped(d) /\ ~Return(d)
      <4>1. contractId' = contractId /\ wasmHash' = wasmHash
        BY <1>1, <2>1, <3>3, CalledStep
           DEF Method, EntryFound, SpecLoaded, Submit, SimulatedOnly,
               ExecutionThrows, Include, Discard, registers
      <4> QED
        BY <2>2, <4>1 DEF RegisteredInv, RegisteredOnLedger
    <3> QED
      BY <3>1, <3>2, <3>3
  <2> QED
    BY <1>1, <2>3, <2>4 DEF RegisteredInv
<1> QED
  BY <1>2, <1>3

\* RegisteredOnLedger: a register never names what is not on the ledger.
THEOREM RegistersAreReal == Spec => []RegisteredOnLedger
<1>1. Init => RegisteredInv
  BY KindInitial DEF Init, RegisteredInv, RegisteredOnLedger, Parameters
<1>2. RegisteredInv => RegisteredOnLedger
  BY DEF RegisteredInv
<1> QED
  BY RegisteredInductive, <1>1, <1>2, PTL DEF Spec

-----------------------------------------------------------------------------
\* The hash is the one of the construction until that of the engine's own wasm
\* takes its place for good, and a deploy has the one that was registered.
DeployedInv ==
  /\ RegisteredInv
  /\ \A c \in Calls : c \in entries => kind[c] = "deploy" /\ tx[c] = "succeeded"
  /\ wasmHash \in {constructed.wasmHash, "ownCode"}
  /\ \A c \in Calls : kind[c] = "deploy" /\ (pc[c] = "simulating" \/ tx[c] # "none") =>
       target[c] \in entries /\ target[c] \in {constructed.wasmHash, wasmHash}

LEMMA DeployedInductive == DeployedInv /\ [Next]_vars => DeployedInv'
<1> SUFFICES ASSUME DeployedInv, [Next]_vars PROVE DeployedInv'
  OBVIOUS
<1>1. RegisteredInv' /\ KindInv /\ TypeOK
  BY RegisteredInductive DEF DeployedInv, RegisteredInv, KindInv
<1>2. CASE UNCHANGED vars
  BY <1>1, <1>2 DEF vars, registers, callVars, DeployedInv
<1>3. CASE Next
  <2>1. PICK d \in Calls : Method(d) \/ Include(d) \/ Discard(d)
    BY <1>3 DEF Next
  <2>2. constructed' = constructed
    BY <1>1, <2>1, CalledStep
       DEF Method, EntryFound, SpecLoaded, Submit, SimulatedOnly,
           AlreadyWrapped, ExecutionThrows, Return, Include, Discard
  <2>3. wasmHash' = wasmHash \/ wasmHash' = "ownCode"
    BY <1>1, <2>1, CalledStep
       DEF Method, EntryFound, SpecLoaded, Submit, SimulatedOnly,
           AlreadyWrapped, ExecutionThrows, Return, Include, Discard, registers, KindInv
  <2>4. ASSUME NEW c \in Calls, c \in entries' PROVE kind'[c] = "deploy" /\ tx'[c] = "succeeded"
    <3>1. CASE c \in entries
      <4>1. kind[c] = "deploy" /\ tx[c] = "succeeded" /\ pc[c] \notin {"idle", "simulating"}
        BY <1>1, <3>1 DEF DeployedInv, KindInv
      <4>2. tx'[c] = "succeeded"
        BY <1>1, <2>1, <3>1, <4>1, CalledStep
           DEF Method, EntryFound, SpecLoaded, Submit, SimulatedOnly,
               AlreadyWrapped, ExecutionThrows, Return, Include, Discard, TypeOK
      <4> QED
        BY <1>1, <1>3, <4>1, <4>2, MadeStable
    <3>2. CASE c \notin entries
      <4>1. Include(d) /\ c \in Made(d)
        BY <1>1, <2>1, <2>4, <3>2, CalledStep
           DEF Method, EntryFound, SpecLoaded, Submit, SimulatedOnly,
               AlreadyWrapped, ExecutionThrows, Return, Include, Discard
      <4>2. c = d /\ kind[d] = "deploy"
        BY <1>1, <4>1, EngineAssumption DEF Made, KindInv, Hashes
      <4> QED
        BY <1>1, <4>1, <4>2 DEF Include, callVars, TypeOK
    <3> QED
      BY <3>1, <3>2
  <2>5. ASSUME NEW c \in Calls, kind'[c] = "deploy", pc'[c] = "simulating" \/ tx'[c] # "none"
        PROVE  target'[c] \in entries' /\ target'[c] \in {constructed.wasmHash, wasmHash'}
    <3> entries \subseteq entries'
      BY <1>1, <2>1, CalledStep
         DEF Method, EntryFound, SpecLoaded, Submit, SimulatedOnly,
             AlreadyWrapped, ExecutionThrows, Return, Include, Discard
    <3>1. CASE pc[c] = "idle"
      <4>1. c = d /\ Called(d)
        BY <1>1, <2>1, <2>5, <3>1, CalledStep
           DEF Method, EntryFound, SpecLoaded, Submit,
               SimulatedOnly, AlreadyWrapped, ExecutionThrows, Return, Include, Discard,
               TypeOK, KindInv, Go, callVars, DeployedInv
      <4>2. tx'[c] = "none"
        BY <3>1, <4>1, <1>1, CalledStep DEF KindInv
      <4>3. target'[c] = wasmHash /\ wasmHash' = wasmHash /\ wasmHash # "none"
        BY <1>1, <2>5, <4>1, <4>2, CalledStep
      <4> QED
        BY <4>3 DEF DeployedInv, RegisteredInv, RegisteredOnLedger
    <3>2. CASE pc[c] # "idle"
      <4>1. kind[c] = "deploy" /\ target'[c] = target[c]
        BY <1>1, <1>3, <2>5, <3>2, MadeStable
      <4>2. pc[c] = "simulating" \/ tx[c] # "none" \/ EntryFound(c)
        BY <1>1, <2>1, <2>5, <3>2, CalledStep
           DEF Method, EntryFound, SpecLoaded, Submit, SimulatedOnly,
               AlreadyWrapped, ExecutionThrows, Return, Include, Discard, TypeOK, Go
      <4>3. ~EntryFound(c)
        BY <1>1, <4>1 DEF EntryFound, KindInv
      <4> QED
        BY <2>3, <2>5, <4>1, <4>2, <4>3 DEF DeployedInv
    <3> QED
      BY <3>1, <3>2
  <2> QED
    BY <1>1, <2>2, <2>3, <2>4, <2>5 DEF DeployedInv
<1> QED
  BY <1>2, <1>3

\* DeployedRunsUploaded: every contract the engine deployed runs code on the
\* ledger, which it was given or has uploaded and registered.
THEOREM DeploysUploadedCode == Spec => []DeployedRunsUploaded
<1>1. Init => DeployedInv
  BY KindInitial, EngineAssumption
     DEF Init, DeployedInv, RegisteredInv, RegisteredOnLedger, Parameters, Hashes
<1>2. DeployedInv => DeployedRunsUploaded
  BY DEF DeployedInv, DeployedRunsUploaded, RegisteredInv, RegisteredOnLedger
<1> QED
  BY DeployedInductive, <1>1, <1>2, PTL DEF Spec

-----------------------------------------------------------------------------
LEMMA StoredInductive == KindInv /\ StoredIsRegistered /\ [Next]_vars => StoredIsRegistered'
<1> SUFFICES ASSUME KindInv, StoredIsRegistered, [Next]_vars PROVE StoredIsRegistered'
  OBVIOUS
<1>1. CASE UNCHANGED vars
  BY <1>1 DEF vars, registers, callVars, StoredIsRegistered, Stored, Resolved
<1>2. CASE Next
  <2>1. PICK d \in Calls : Method(d) \/ Include(d) \/ Discard(d)
    BY <1>2 DEF Next
  <2>2. CASE AlreadyWrapped(d) \/ Return(d)
    <3>1. UNCHANGED callVars /\ pc'[d] = "resolved" /\ \A e \in Calls \ {d} : pc'[e] = pc[e]
      BY <2>2 DEF AlreadyWrapped, Return, Go, KindInv, TypeOK
    <3>2. CASE kind[d] \in {"wrap", "deploy"}
      <4>1. contractId' = IF kind[d] = "wrap" THEN target[d] ELSE d
        BY <2>2, <3>2 DEF AlreadyWrapped, Return
      <4>2. contractId' \in Stored'
        BY <3>1, <3>2, <4>1 DEF callVars, Stored, Resolved
      <4> QED
        BY <4>2 DEF StoredIsRegistered
    <3>3. CASE kind[d] \notin {"wrap", "deploy"}
      <4>1. contractId' = contractId
        BY <2>2, <3>3 DEF AlreadyWrapped, Return
      <4>2. Resolved("wrap")' = Resolved("wrap") /\ Resolved("deploy")' = Resolved("deploy")
        BY <3>1, <3>3 DEF callVars, Resolved
      <4>3. Stored' = Stored
        BY <3>1, <4>2 DEF callVars, Stored
      <4> QED
        BY <4>1, <4>3 DEF StoredIsRegistered
    <3> QED
      BY <3>2, <3>3
  <2>3. CASE ~AlreadyWrapped(d) /\ ~Return(d)
    <3>1. contractId' = contractId
      BY <2>1, <2>3, CalledStep
         DEF Method, EntryFound, SpecLoaded, Submit, SimulatedOnly,
             ExecutionThrows, Include, Discard, registers
    <3>2. ASSUME NEW e \in Calls, pc'[e] = "resolved", kind'[e] \in {"wrap", "deploy"}
          PROVE  pc[e] = "resolved"
      <4>1. CASE Called(d)
        BY <3>2, <4>1, CalledStep
      <4>2. CASE SimulatedOnly(d) \/ SpecLoaded(d)
        BY <3>2, <4>2 DEF SimulatedOnly, SpecLoaded, Go, callVars, KindInv, TypeOK
      <4>3. CASE ~(Called(d) \/ SimulatedOnly(d) \/ SpecLoaded(d))
        BY <2>1, <2>3, <3>2, <4>3, CalledStep
           DEF Method, EntryFound, Submit, ExecutionThrows,
               Include, Discard, Go, KindInv, TypeOK
      <4> QED
        BY <4>1, <4>2, <4>3
    <3>3. ASSUME NEW e \in Calls, pc[e] = "resolved"
          PROVE  pc'[e] = "resolved" /\ kind'[e] = kind[e] /\ target'[e] = target[e]
      <4>1. pc'[e] = "resolved"
        BY <2>1, <2>3, <3>3, CalledStep
           DEF Method, EntryFound, SpecLoaded, Submit, SimulatedOnly,
               ExecutionThrows, Include, Discard, Go, KindInv, TypeOK
      <4> QED
        BY <1>2, <3>3, <4>1, MadeStable
    <3>4. Resolved("wrap")' = Resolved("wrap") /\ Resolved("deploy")' = Resolved("deploy")
      BY <3>2, <3>3 DEF Resolved
    <3>5. \A e \in Resolved("wrap") : target'[e] = target[e]
      BY <3>3 DEF Resolved
    <3>6. Stored' = Stored
      BY <3>4, <3>5 DEF Stored
    <3> QED
      BY <3>1, <3>6 DEF StoredIsRegistered
  <2> QED
    BY <2>2, <2>3
<1> QED
  BY <1>1, <1>2

\* StoredIsRegistered: after a wrap or a deploy the engine has the contract of one
\* that resolved, whoever made it.
THEOREM StoredContractsAreRegistered == Spec => []StoredIsRegistered
<1>1. Init => StoredIsRegistered
  BY DEF Init, StoredIsRegistered, Stored, Resolved
<1> QED
  BY KindInitial, KindInductive, StoredInductive, <1>1, PTL DEF Spec

-----------------------------------------------------------------------------
\* A step of the handlers is one of the engine, or leaves the engine alone.
LEMMA HandlersStep == [AssetNext]_allAssetVars => [Next]_vars
<1> SUFFICES ASSUME [AssetNext]_allAssetVars PROVE [Next]_vars
  OBVIOUS
<1>1. ASSUME NEW c \in Calls, EngineCall(c) PROVE Called(c)
  BY <1>1, AssetAssumption DEF EngineCall, Called
<1>2. ASSUME NEW c \in Calls, NEW m \in TokenCalls, TokenCall(c, m) PROVE Called(c)
  <2>1. (IF m.fn \in Reads THEN "read" ELSE "invoke") \in Kinds /\ (m.fn \in Reads) \in BOOLEAN
    BY DEF Kinds
  <2> QED
    BY <1>2, <2>1, AssetAssumption DEF TokenCall, Called
<1>3. ASSUME NEW c \in Calls, TokenStep(c) PROVE Next
  BY <1>1, <1>2, <1>3 DEF TokenStep, TokenSubmit, TokenInclude, Next, Method
<1>4. ASSUME NEW k \in ClassicCalls, ClassicStep(k) PROVE UNCHANGED vars
  BY <1>4 DEF ClassicStep, ClassicCall, ClassicSubmit, ClassicInclude, ClassicDiscard,
              ClassicReturn, ClassicThrows
<1>5. CASE UNCHANGED allAssetVars
  BY <1>5 DEF allAssetVars
<1> QED
  BY <1>3, <1>4, <1>5 DEF AssetNext

\* Whatever the handlers of an asset do, their engine is a contract engine: what
\* is proved of its registers holds in them.
THEOREM HandlersImplementEngine == AssetSpec => Spec
<1>1. AssetInit => Init
  BY DEF AssetInit
<1> QED
  BY HandlersStep, <1>1, PTL DEF AssetSpec, Spec

\* Wraps are of the handler's asset, so that the register and the calls in flight
\* know no contract but the handler's own.
OneAssetInv ==
  /\ KindInv
  /\ \A c \in Calls : pc[c] = "idle" => kind[c] = "none"
  /\ \A c \in Calls : kind[c] = "wrap" => target[c] = Asset
  /\ TokenIsTheAsset

\* What a handler may call it may go on calling.
LEMMA OwnGrows ==
  ASSUME UNCHANGED constructed,
         \A c \in Resolved("deploy") : kind'[c] = "deploy" /\ pc'[c] = "resolved"
  PROVE  Own \subseteq Own'
BY DEF Own, Resolved

LEMMA OneAssetInductive == OneAssetInv /\ [AssetNext]_allAssetVars => OneAssetInv'
<1> SUFFICES ASSUME OneAssetInv, [AssetNext]_allAssetVars PROVE OneAssetInv'
  OBVIOUS
<1>1. KindInv /\ KindInv' /\ TypeOK
  BY HandlersStep, KindInductive DEF OneAssetInv, KindInv
<1>2. CASE UNCHANGED vars
  BY <1>1, <1>2 DEF vars, registers, callVars, OneAssetInv, TokenIsTheAsset, Own, Resolved
<1>3. ASSUME NEW c \in Calls, NEW k \in Kinds, NEW only \in BOOLEAN, Call(c, k, only, Asset)
      PROVE  OneAssetInv'
  <2>1. /\ pc[c] = "idle" /\ kind[c] = "none"
        /\ kind' = [kind EXCEPT ![c] = k]
        /\ target' = [target EXCEPT ![c] = Target(k, Asset)]
        /\ UNCHANGED <<constructed, contractId>>
        /\ pc'[c] # "idle" /\ \A d \in Calls \ {c} : pc'[d] = pc[d]
        /\ pc'[c] # "rejected" => RequirementsMet(k)
    BY <1>1, <1>3, TargetTyped, AssetAssumption
       DEF Call, Go, registers, OneAssetInv, TypeOK
  <2>2. kind'[c] = k /\ target'[c] = Target(k, Asset)
        /\ \A d \in Calls \ {c} : kind'[d] = kind[d] /\ target'[d] = target[d]
    BY <1>1, <2>1 DEF TypeOK
  <2>3. Own \subseteq Own'
    BY <2>1, <2>2, OwnGrows DEF Resolved
  <2>4. k = "wrap" => Target(k, Asset) = Asset
    BY <1>1, TargetTyped, AssetAssumption
  <2>5. k \in {"invoke", "read"} => Target(k, Asset) = contractId
    BY DEF Target
  <2>6. TokenIsTheAsset'
    <3>1. k \in {"invoke", "read"} /\ pc'[c] # "rejected" => contractId # "none"
      BY <2>1 DEF RequirementsMet
    <3>2. contractId' # "none" => contractId' \in Own'
      BY <2>1, <2>3 DEF OneAssetInv, TokenIsTheAsset
    <3>3. ASSUME NEW d \in Calls, kind'[d] \in {"invoke", "read"}, pc'[d] # "rejected"
          PROVE  target'[d] \in Own'
      BY <2>1, <2>2, <2>3, <2>5, <3>1, <3>2, <3>3 DEF OneAssetInv, TokenIsTheAsset
    <3> QED
      BY <3>2, <3>3 DEF TokenIsTheAsset
  <2> QED
    BY <1>1, <2>1, <2>2, <2>4, <2>6 DEF OneAssetInv
<1>4. ASSUME NEW c \in Calls, AlreadyWrapped(c) \/ Return(c) PROVE OneAssetInv'
  <2>1. /\ UNCHANGED <<constructed, callVars>> /\ pc[c] # "rejected" /\ pc[c] # "idle"
        /\ pc' = [pc EXCEPT ![c] = "resolved"]
        /\ IF kind[c] = "deploy" THEN contractId' = c
           ELSE contractId' = contractId \/ contractId' = Asset
    BY <1>4 DEF AlreadyWrapped, Return, Go, OneAssetInv
  <2>2. pc'[c] = "resolved" /\ \A d \in Calls \ {c} : pc'[d] = pc[d]
    BY <1>1, <2>1 DEF TypeOK
  <2>3. Own \subseteq Own'
    BY <2>1, <2>2, OwnGrows DEF Resolved, callVars
  <2>4. contractId' # "none" => contractId' \in Own'
    <3>1. CASE kind[c] = "deploy"
      BY <2>1, <2>2, <3>1 DEF Own, Resolved, callVars
    <3>2. CASE kind[c] # "deploy"
      BY <2>1, <2>3, <3>2 DEF OneAssetInv, TokenIsTheAsset, Own
    <3> QED
      BY <3>1, <3>2
  <2>5. TokenIsTheAsset'
    BY <2>1, <2>2, <2>3, <2>4 DEF OneAssetInv, TokenIsTheAsset, callVars
  <2> QED
    BY <1>1, <2>1, <2>2, <2>5 DEF OneAssetInv, callVars
<1>5. ASSUME NEW c \in Calls,
             \/ EntryFound(c) \/ SpecLoaded(c) \/ Submit(c) \/ SimulatedOnly(c)
             \/ ExecutionThrows(c) \/ Include(c) \/ Discard(c)
      PROVE  OneAssetInv'
  <2>1. UNCHANGED <<constructed, contractId, callVars>>
    BY <1>5 DEF EntryFound, SpecLoaded, Submit, SimulatedOnly, ExecutionThrows, Include,
                Discard, registers
  <2>2. \A d \in Calls : /\ pc'[d] # "rejected" => pc[d] # "rejected"
                         /\ pc'[d] = "idle" => pc[d] = "idle"
                         /\ pc[d] = "resolved" => pc'[d] = "resolved"
    BY <1>1, <1>5 DEF EntryFound, SpecLoaded, Submit, SimulatedOnly, ExecutionThrows, Include,
                      Discard, Go, TypeOK
  <2>3. Own \subseteq Own'
    BY <2>1, <2>2, OwnGrows DEF Resolved, callVars
  <2>4. TokenIsTheAsset'
    BY <2>1, <2>2, <2>3 DEF OneAssetInv, TokenIsTheAsset, callVars
  <2> QED
    BY <1>1, <2>1, <2>2, <2>4 DEF OneAssetInv, callVars
<1>6. ASSUME NEW c \in Calls, TokenStep(c) PROVE OneAssetInv'
  <2>1. ASSUME EngineCall(c) PROVE OneAssetInv'
    BY <1>3, <2>1 DEF EngineCall
  <2>2. ASSUME NEW m \in TokenCalls, TokenCall(c, m) PROVE OneAssetInv'
    <3>1. (IF m.fn \in Reads THEN "read" ELSE "invoke") \in Kinds
          /\ (m.fn \in Reads) \in BOOLEAN
      BY DEF Kinds
    <3> QED
      BY <1>3, <2>2, <3>1 DEF TokenCall
  <2> QED
    BY <1>4, <1>5, <1>6, <2>1, <2>2 DEF TokenStep, TokenSubmit, TokenInclude
<1>7. ASSUME NEW k \in ClassicCalls, ClassicStep(k) PROVE OneAssetInv'
  BY <1>2, <1>7 DEF ClassicStep, ClassicCall, ClassicSubmit, ClassicInclude, ClassicDiscard,
                    ClassicReturn, ClassicThrows
<1>8. CASE UNCHANGED allAssetVars
  BY <1>2, <1>8 DEF allAssetVars
<1> QED
  BY <1>6, <1>7, <1>8 DEF AssetNext

\* TokenIsTheAsset: the token handler calls the contract of its asset, or one it
\* was given or deployed itself, and no other.
THEOREM TokenHandlerCallsAsset == AssetSpec => []TokenIsTheAsset
<1>1. AssetInit => OneAssetInv
  <2> SUFFICES ASSUME AssetInit PROVE OneAssetInv
    OBVIOUS
  <2>1. Init
    BY DEF AssetInit
  <2>2. KindInv
    BY <2>1, KindInitial
  <2>3. contractId = constructed.contractId /\ \A c \in Calls : kind[c] = "none"
    BY <2>1 DEF Init
  <2> QED
    BY <2>1, <2>2, <2>3 DEF OneAssetInv, TokenIsTheAsset, Own, Init
<1>2. OneAssetInv => TokenIsTheAsset
  BY DEF OneAssetInv
<1> QED
  BY OneAssetInductive, <1>1, <1>2, PTL DEF AssetSpec

-----------------------------------------------------------------------------
(* Sums over sets of calls.                                                *)

\* Induction over a finite set: among some of its subsets one is minimal.
LEMMA MinimalSubset ==
  ASSUME NEW S, IsFiniteSet(S), NEW B \in SUBSET (SUBSET S), B # {}
  PROVE  \E T \in B : \A U \in SUBSET T : U # T => U \notin B
<1>1. IsWellFoundedOn(StrictSubsetOrdering(S), SUBSET S)
  BY FS_StrictSubsetOrderingWellFounded, FS_FiniteSubsetsOfFinite
<1>2. PICK T \in B : \A U \in B : <<U, T>> \notin StrictSubsetOrdering(S)
  BY <1>1, WFMin
<1> QED
  BY <1>2 DEF StrictSubsetOrdering

AnyOf(s) == CHOOSE x \in s : TRUE

\* f sums the amounts over each subset of T, as the fold does.
Sums(f, amounts, T) ==
  f = [s \in SUBSET T |->
         IF s = {} THEN 0 ELSE amounts[AnyOf(s)] + f[s \ {AnyOf(s)}]]

TheSums(amounts, T) == CHOOSE f : Sums(f, amounts, T)

LEMMA TotalIsSum ==
  ASSUME NEW amounts, NEW T
  PROVE  Total(amounts, T) = TheSums(amounts, T)[T]
  BY DEF Total, MapThenSumSet, MapThenFoldSet, TheSums, Sums, AnyOf

LEMMA SumsAgree ==
  ASSUME NEW amounts, NEW T, NEW U, IsFiniteSet(T), NEW f, NEW g,
         Sums(f, amounts, T), Sums(g, amounts, U), NEW s \in SUBSET T, s \subseteq U
  PROVE  f[s] = g[s]
<1> SUFFICES ASSUME f[s] # g[s] PROVE FALSE
  OBVIOUS
<1> DEFINE B == {t \in SUBSET T : t \subseteq U /\ f[t] # g[t]}
<1>1. PICK t \in B : \A u \in SUBSET t : u # t => u \notin B
  <2> B # {} /\ B \in SUBSET (SUBSET T)
    OBVIOUS
  <2> HIDE DEF B
  <2> QED
    BY MinimalSubset
<1>2. t # {}
  BY <1>1 DEF Sums
<1>3. AnyOf(t) \in t
  BY <1>2 DEF AnyOf
<1>4. f[t \ {AnyOf(t)}] = g[t \ {AnyOf(t)}]
  BY <1>1, <1>3
<1>5. /\ f[t] = amounts[AnyOf(t)] + f[t \ {AnyOf(t)}]
      /\ g[t] = amounts[AnyOf(t)] + g[t \ {AnyOf(t)}]
  BY <1>1, <1>2 DEF Sums
<1> QED
  BY <1>1, <1>4, <1>5

LEMMA SumsExist ==
  ASSUME NEW amounts, NEW S, IsFiniteSet(S)
  PROVE  Sums(TheSums(amounts, S), amounts, S)
<1>1. \A T : (\E f : Sums(f, amounts, T)) => Sums(TheSums(amounts, T), amounts, T)
  BY DEF TheSums
<1> SUFFICES ASSUME ~ \E f : Sums(f, amounts, S) PROVE FALSE
  BY <1>1
<1> DEFINE B == {T \in SUBSET S : ~ \E f : Sums(f, amounts, T)}
<1>2. PICK T \in B : \A U \in SUBSET T : U # T => U \notin B
  <2> B # {} /\ B \in SUBSET (SUBSET S)
    OBVIOUS
  <2> HIDE DEF B
  <2> QED
    BY MinimalSubset
<1>3. \A U \in SUBSET T : U # T => Sums(TheSums(amounts, U), amounts, U) /\ IsFiniteSet(U)
  BY <1>1, <1>2, FS_Subset
<1> DEFINE F(t) == IF t = {} THEN 0
                   ELSE amounts[AnyOf(t)] + TheSums(amounts, t \ {AnyOf(t)})[t \ {AnyOf(t)}]
           f == [t \in SUBSET T |-> F(t)]
<1>4. ASSUME NEW s \in SUBSET T, s # T PROVE F(s) = TheSums(amounts, s)[s]
  <2>1. Sums(TheSums(amounts, s), amounts, s) /\ IsFiniteSet(s)
    BY <1>3, <1>4
  <2>2. CASE s = {}
    BY <2>1, <2>2 DEF Sums
  <2>3. CASE s # {}
    <3>1. AnyOf(s) \in s
      BY <2>3 DEF AnyOf
    <3> DEFINE r == s \ {AnyOf(s)}
    <3>2. r \in SUBSET T /\ r # T /\ r \in SUBSET s
      BY <3>1
    <3>3. Sums(TheSums(amounts, r), amounts, r)
      BY <1>3, <3>2
    <3>4. TheSums(amounts, s)[r] = TheSums(amounts, r)[r]
      <4> HIDE DEF r
      <4> QED
        BY <2>1, <3>2, <3>3, SumsAgree
    <3>5. TheSums(amounts, s)[s] = amounts[AnyOf(s)] + TheSums(amounts, s)[r]
      BY <2>1, <2>3 DEF Sums
    <3>6. F(s) = amounts[AnyOf(s)] + TheSums(amounts, r)[r]
      BY <2>3
    <3> QED
      BY <3>4, <3>5, <3>6
  <2> QED
    BY <2>2, <2>3
<1>5. ASSUME NEW s \in SUBSET T, s # {} PROVE F(s) = amounts[AnyOf(s)] + f[s \ {AnyOf(s)}]
  <2>1. AnyOf(s) \in s
    BY <1>5 DEF AnyOf
  <2>2. s \ {AnyOf(s)} \in SUBSET T /\ s \ {AnyOf(s)} # T
    BY <2>1
  <2>3. f[s \ {AnyOf(s)}] = F(s \ {AnyOf(s)})
    BY <2>2
  <2>4. F(s \ {AnyOf(s)}) = TheSums(amounts, s \ {AnyOf(s)})[s \ {AnyOf(s)}]
    <3> HIDE DEF F
    <3> QED
      BY <1>4, <2>2
  <2> QED
    BY <1>5, <2>3, <2>4
<1>6. F({}) = 0
  OBVIOUS
<1> HIDE DEF F
<1>7. Sums(f, amounts, T)
  BY <1>5, <1>6 DEF Sums
<1> QED
  BY <1>2, <1>7

LEMMA TotalEmpty == ASSUME NEW amounts PROVE Total(amounts, {}) = 0
<1>1. Sums(TheSums(amounts, {}), amounts, {})
  BY FS_EmptySet, SumsExist
<1> QED
  BY <1>1, TotalIsSum DEF Sums

LEMMA TotalUnfolds ==
  ASSUME NEW amounts, NEW S, IsFiniteSet(S), S # {}
  PROVE  /\ AnyOf(S) \in S
         /\ Total(amounts, S) = amounts[AnyOf(S)] + Total(amounts, S \ {AnyOf(S)})
<1> DEFINE R == S \ {AnyOf(S)}
<1>1. AnyOf(S) \in S
  BY DEF AnyOf
<1>2. Sums(TheSums(amounts, S), amounts, S)
  BY SumsExist
<1>3. Sums(TheSums(amounts, R), amounts, R) 
  BY SumsExist, FS_RemoveElement
<1>4. TheSums(amounts, S)[R] = TheSums(amounts, R)[R]
  <2>1. R \in SUBSET S
    OBVIOUS
  <2> HIDE DEF R
  <2> QED
    BY <2>1, <1>2, <1>3, SumsAgree
<1>5. TheSums(amounts, S)[S] = amounts[AnyOf(S)] + TheSums(amounts, S)[R]
  BY <1>2 DEF Sums
<1> QED
  BY <1>1, <1>4, <1>5, TotalIsSum

\* What is summed does not matter outside of the set.
LEMMA TotalSame ==
  ASSUME NEW S, IsFiniteSet(S), NEW amounts, NEW others, \A x \in S : amounts[x] = others[x]
  PROVE  Total(amounts, S) = Total(others, S)
<1> SUFFICES ASSUME Total(amounts, S) # Total(others, S) PROVE FALSE
  OBVIOUS
<1> DEFINE B == {T \in SUBSET S : Total(amounts, T) # Total(others, T)}
<1>1. PICK T \in B : \A U \in SUBSET T : U # T => U \notin B
  <2> B # {} /\ B \in SUBSET (SUBSET S)
    OBVIOUS
  <2> HIDE DEF B
  <2> QED
    BY MinimalSubset
<1>2. T # {}
  BY <1>1, TotalEmpty
<1>3. IsFiniteSet(T)
  BY <1>1, FS_Subset
<1>4. /\ AnyOf(T) \in T
      /\ Total(amounts, T) = amounts[AnyOf(T)] + Total(amounts, T \ {AnyOf(T)})
      /\ Total(others, T) = others[AnyOf(T)] + Total(others, T \ {AnyOf(T)})
  BY <1>2, <1>3, TotalUnfolds
<1>5. Total(amounts, T \ {AnyOf(T)}) = Total(others, T \ {AnyOf(T)})
  BY <1>1, <1>4
<1> QED
  BY <1>1, <1>4, <1>5

\* The order does not matter: any element may be summed last.
LEMMA TotalWithout ==
  ASSUME NEW S, IsFiniteSet(S), NEW amounts, \A x \in S : amounts[x] \in Int
  PROVE  /\ Total(amounts, S) \in Int
         /\ \A c \in S : Total(amounts, S) = amounts[c] + Total(amounts, S \ {c})
<1> DEFINE Good(T) == /\ Total(amounts, T) \in Int
                      /\ \A c \in T : Total(amounts, T) = amounts[c] + Total(amounts, T \ {c})
           B == {T \in SUBSET S : ~ Good(T)}
<1> SUFFICES ASSUME B # {} PROVE FALSE
  OBVIOUS
<1>1. PICK T \in B : \A U \in SUBSET T : U # T => U \notin B
  <2> B \in SUBSET (SUBSET S)
    OBVIOUS
  <2> HIDE DEF B
  <2> QED
    BY MinimalSubset
<1>2. IsFiniteSet(T) /\ T \in SUBSET S /\ ~ Good(T)
  BY <1>1, FS_Subset
<1>3. T # {}
  <2>1. Good({})
    BY TotalEmpty
  <2> HIDE DEF Good
  <2> QED
    BY <1>2, <2>1
<1> DEFINE a == AnyOf(T)
<1>4. a \in T /\ Total(amounts, T) = amounts[a] + Total(amounts, T \ {a})
  BY <1>2, <1>3, TotalUnfolds
<1> HIDE DEF a
<1>5. \A c \in T : Good(T \ {c})
  BY <1>1, <1>2
<1>6. Total(amounts, T) \in Int
  BY <1>2, <1>4, <1>5
<1>7. ASSUME NEW c \in T PROVE Total(amounts, T) = amounts[c] + Total(amounts, T \ {c})
  <2>1. CASE c = a
    BY <2>1, <1>4
  <2>2. CASE c # a
    <3>1. /\ Total(amounts, T \ {a}) = amounts[c] + Total(amounts, (T \ {a}) \ {c})
          /\ Total(amounts, T \ {c}) = amounts[a] + Total(amounts, (T \ {c}) \ {a})
      BY <1>4, <1>5, <2>2
    <3>2. (T \ {a}) \ {c} = (T \ {c}) \ {a}
      OBVIOUS
    <3>3. Good((T \ {a}) \ {c})
      <4>1. (T \ {a}) \ {c} \in SUBSET T /\ (T \ {a}) \ {c} # T
        BY <1>4
      <4> QED
        BY <1>1, <1>2, <4>1
    <3>4. amounts[a] \in Int /\ amounts[c] \in Int
      BY <1>2, <1>4
    <3>5. Total(amounts, (T \ {a}) \ {c}) \in Int
      BY <3>3
    <3>6. Total(amounts, T) = amounts[a] + (amounts[c] + Total(amounts, (T \ {a}) \ {c}))
      BY <3>1, <1>4
    <3>7. Total(amounts, T \ {c}) = amounts[a] + Total(amounts, (T \ {a}) \ {c})
      BY <3>1, <3>2
    <3> HIDE DEF Good
    <3> QED
      BY <3>4, <3>5, <3>6, <3>7
  <2> QED
    BY <2>1, <2>2
<1> QED
  BY <1>2, <1>6, <1>7

\* One more summand.
LEMMA TotalMore ==
  ASSUME NEW S, IsFiniteSet(S), NEW amounts, NEW c, c \notin S,
         \A x \in S \cup {c} : amounts[x] \in Int
  PROVE  /\ Total(amounts, S) \in Int
         /\ Total(amounts, S \cup {c}) = Total(amounts, S) + amounts[c]
<1>1. IsFiniteSet(S \cup {c}) /\ (S \cup {c}) \ {c} = S
  BY FS_AddElement
<1>2. Total(amounts, S) \in Int
  BY TotalWithout
<1>3. Total(amounts, S \cup {c}) = amounts[c] + Total(amounts, (S \cup {c}) \ {c})
  BY <1>1, TotalWithout
<1>4. amounts[c] \in Int
  OBVIOUS
<1>5. Total(amounts, S \cup {c}) = amounts[c] + Total(amounts, S)
  BY <1>1, <1>3
<1> QED
  BY <1>2, <1>4, <1>5

-----------------------------------------------------------------------------
(* Powers of ten.                                                          *)

\* Induction over the naturals: among some of them one is the least.
LEMMA LeastNatural ==
  ASSUME NEW B \in SUBSET Nat, B # {}
  PROVE  \E n \in B : \A m \in 0..(n - 1) : m \notin B
<1> DEFINE less == {ss \in Nat \X Nat : ss[1] < ss[2]}
<1>1. IsWellFoundedOn(less, Nat)
  BY NatLessThanWellFounded DEF OpToRel
<1>2. PICK n \in B : \A m \in B : <<m, n>> \notin less
  <2> HIDE DEF less
  <2> QED
    BY <1>1, WFMin
<1>3. \A m \in B : ~ (m < n)
  BY <1>2
<1> QED
  BY <1>3

Powers(f, n) == f \in [0..n -> Nat \ {0}] /\ f[0] = 1 /\ \A k \in 1..n : f[k] = 10 * f[k - 1]

LEMMA PowersAgree ==
  ASSUME NEW n \in Nat, NEW m \in Nat, NEW f, NEW g, Powers(f, n), Powers(g, m),
         NEW k \in 0..n, k <= m
  PROVE  f[k] = g[k]
<1> SUFFICES ASSUME f[k] # g[k] PROVE FALSE
  OBVIOUS
<1> DEFINE B == {i \in 0..k : f[i] # g[i]}
<1>1. PICK i \in B : \A j \in 0..(i - 1) : j \notin B
  <2> B # {} /\ B \in SUBSET Nat
    OBVIOUS
  <2> HIDE DEF B
  <2> QED
    BY LeastNatural
<1>2. i # 0
  BY DEF Powers
<1>3. f[i - 1] = g[i - 1]
  BY <1>1, <1>2
<1>4. f[i] = 10 * f[i - 1] /\ g[i] = 10 * g[i - 1]
  BY <1>2 DEF Powers
<1> QED
  BY <1>3, <1>4

LEMMA PowersExist == \A n \in Nat : \E f : Powers(f, n)
<1> DEFINE B == {n \in Nat : ~ \E f : Powers(f, n)}
<1> SUFFICES ASSUME B # {} PROVE FALSE
  OBVIOUS
<1>1. PICK n \in B : \A m \in 0..(n - 1) : m \notin B
  <2> B \in SUBSET Nat
    OBVIOUS
  <2> HIDE DEF B
  <2> QED
    BY LeastNatural
<1>2. CASE n = 0
  <2>1. Powers([k \in 0..0 |-> 1], 0)
    BY DEF Powers
  <2> QED
    BY <1>2, <2>1
<1>3. CASE n # 0
  <2>1. PICK f : Powers(f, n - 1)
    BY <1>1, <1>3
  <2> DEFINE g == [k \in 0..n |-> IF k = n THEN 10 * f[n - 1] ELSE f[k]]
  <2>2. f[n - 1] \in Nat \ {0} /\ \A k \in 0..(n - 1) : f[k] \in Nat \ {0}
    BY <1>3, <2>1 DEF Powers
  <2>3. g \in [0..n -> Nat \ {0}]
    BY <2>2
  <2>4. g[0] = 1 /\ \A k \in 1..n : g[k] = 10 * g[k - 1]
    BY <1>3, <2>1 DEF Powers
  <2> QED
    BY <2>3, <2>4 DEF Powers
<1> QED
  BY <1>2, <1>3

\* 10^n is a positive number.
LEMMA PowerTyped ==
  /\ PowerOfTen \in [Nat -> Nat \ {0}]
  /\ PowerOfTen[0] = 1 /\ \A n \in Nat : PowerOfTen[n + 1] = 10 * PowerOfTen[n]
<1> DEFINE upTo == [n \in Nat |-> CHOOSE f : Powers(f, n)]
           P == [n \in Nat |-> upTo[n][n]]
<1>1. \A n \in Nat : Powers(upTo[n], n)
  BY PowersExist
<1> HIDE DEF upTo
<1>2. P \in [Nat -> Nat \ {0}] /\ P[0] = 1
  BY <1>1 DEF Powers
<1>3. ASSUME NEW n \in Nat, n # 0 PROVE P[n] = 10 * P[n - 1]
  <2>1. upTo[n][n] = 10 * upTo[n][n - 1]
    BY <1>1, <1>3 DEF Powers
  <2>2. upTo[n][n - 1] = upTo[n - 1][n - 1]
    <3>1. n - 1 \in Nat /\ n - 1 \in 0..n /\ n - 1 <= n - 1
      BY <1>3
    <3> QED
      BY <1>1, <3>1, PowersAgree
  <2> QED
    BY <1>3, <2>1, <2>2
<1>4. P = [n \in Nat |-> IF n = 0 THEN 1 ELSE 10 * P[n - 1]]
  BY <1>2, <1>3
<1> HIDE DEF P
<1>5. PowerOfTen = [n \in Nat |-> IF n = 0 THEN 1 ELSE 10 * PowerOfTen[n - 1]]
  BY <1>4 DEF PowerOfTen
<1>6. \A n \in Nat : PowerOfTen[n] = P[n]
  <2> DEFINE B == {n \in Nat : PowerOfTen[n] # P[n]}
  <2> SUFFICES ASSUME B # {} PROVE FALSE
    OBVIOUS
  <2>1. PICK n \in B : \A m \in 0..(n - 1) : m \notin B
    <3> B \in SUBSET Nat
      OBVIOUS
    <3> HIDE DEF B
    <3> QED
      BY LeastNatural
  <2>2. CASE n = 0
    BY <1>4, <1>5, <2>2
  <2>3. CASE n # 0
    <3>1. PowerOfTen[n - 1] = P[n - 1]
      BY <2>1, <2>3
    <3> QED
      BY <1>4, <1>5, <2>3, <3>1
  <2> QED
    BY <2>2, <2>3
<1>7. PowerOfTen = P
  BY <1>2, <1>5, <1>6
<1> QED
  BY <1>2, <1>3, <1>7

-----------------------------------------------------------------------------
(* The ledger: operations and transactions.                                *)

LEMMA MaxOfOneAndTwo == Max({1}) = 1 /\ Max({2}) = 2 /\ Max({1, 2}) = 2
  BY DEF Max

\* The ledger after no operation, one, and two.
LEMMA AfterNone == ASSUME NEW l PROVE After(l, <<>>) = l
<1> DEFINE It == CHOOSE f : f = [s \in SUBSET {} |->
                   IF s = {} THEN l ELSE Effect(f[s \ {Max(s)}], <<>>[Max(s)])]
<1>1. DOMAIN <<>> = {}
  OBVIOUS
<1>2. After(l, <<>>) = It[{}]
  BY <1>1 DEF After, FoldLeft, MapThenFoldSet
<1> QED
  BY <1>2

LEMMA AfterOne == ASSUME NEW l, NEW o PROVE After(l, <<o>>) = Effect(l, o)
<1> DEFINE Body(f, s) == IF s = {} THEN l ELSE Effect(f[s \ {Max(s)}], <<o>>[Max(s)])
           It == CHOOSE f : f = [s \in SUBSET {1} |-> Body(f, s)]
           g == [s \in SUBSET {1} |-> IF s = {} THEN l ELSE Effect(l, o)]
<1>1. DOMAIN <<o>> = {1} /\ <<o>>[1] = o
  OBVIOUS
<1>2. After(l, <<o>>) = It[{1}]
  BY <1>1 DEF After, FoldLeft, MapThenFoldSet
<1>3. SUBSET {1} = {{}, {1}} /\ {1} \ {1} = {} /\ {1} # {}
  OBVIOUS
<1>4. g = [s \in SUBSET {1} |-> Body(g, s)]
  <2>1. g[{}] = Body(g, {}) /\ g[{1}] = Body(g, {1})
    BY <1>1, <1>3, MaxOfOneAndTwo
  <2>2. \A s \in SUBSET {1} : g[s] = Body(g, s)
    <3> HIDE DEF g, Body
    <3> QED
      BY <1>3, <2>1
  <2> HIDE DEF Body
  <2> QED
    BY <2>2
<1>5. It = [s \in SUBSET {1} |-> Body(It, s)]
  <2> HIDE DEF Body, g
  <2> QED
    BY <1>4
<1> HIDE DEF It
<1>6. It[{}] = Body(It, {}) /\ It[{1}] = Body(It, {1})
  <2> HIDE DEF Body
  <2> QED
    BY <1>3, <1>5
<1>7. Body(It, {}) = l /\ Body(It, {1}) = Effect(It[{}], o)
  BY <1>1, <1>3, MaxOfOneAndTwo
<1> QED
  BY <1>2, <1>6, <1>7

LEMMA AfterTwo ==
  ASSUME NEW l, NEW o, NEW p PROVE After(l, <<o, p>>) = Effect(Effect(l, o), p)
<1> DEFINE Body(f, s) == IF s = {} THEN l ELSE Effect(f[s \ {Max(s)}], <<o, p>>[Max(s)])
           It == CHOOSE f : f = [s \in SUBSET {1, 2} |-> Body(f, s)]
           g == [s \in SUBSET {1, 2} |->
                   IF s = {} THEN l
                   ELSE IF s = {1} THEN Effect(l, o)
                   ELSE IF s = {2} THEN Effect(l, p)
                   ELSE Effect(Effect(l, o), p)]
<1>1. DOMAIN <<o, p>> = {1, 2} /\ <<o, p>>[1] = o /\ <<o, p>>[2] = p
  OBVIOUS
<1>2. After(l, <<o, p>>) = It[{1, 2}]
  BY <1>1 DEF After, FoldLeft, MapThenFoldSet
<1>3. /\ SUBSET {1, 2} = {{}, {1}, {2}, {1, 2}}
      /\ {1} \ {1} = {} /\ {2} \ {2} = {} /\ {1, 2} \ {2} = {1}
      /\ {1} # {} /\ {2} # {} /\ {1, 2} # {} /\ {1} # {2} /\ {1, 2} # {1} /\ {1, 2} # {2}
  OBVIOUS
<1>4. \A s \in SUBSET {1, 2} : g[s] = Body(g, s)
  <2> USE <1>1, <1>3, MaxOfOneAndTwo
  <2>1. g[{}] = Body(g, {})
    OBVIOUS
  <2>2. g[{1}] = Body(g, {1})
    OBVIOUS
  <2>3. g[{2}] = Body(g, {2})
    OBVIOUS
  <2>4. g[{1, 2}] = Body(g, {1, 2})
    OBVIOUS
  <2> HIDE DEF g, Body
  <2> QED
    BY <2>1, <2>2, <2>3, <2>4
<1>5. g = [s \in SUBSET {1, 2} |-> Body(g, s)]
  <2> HIDE DEF Body
  <2> QED
    BY <1>4
<1>6. It = [s \in SUBSET {1, 2} |-> Body(It, s)]
  <2> HIDE DEF Body, g
  <2> QED
    BY <1>5
<1> HIDE DEF It
<1>7. It[{}] = l /\ It[{1}] = Effect(It[{}], o) /\ It[{1, 2}] = Effect(It[{1}], p)
  BY <1>1, <1>3, <1>6, MaxOfOneAndTwo
<1> QED
  BY <1>2, <1>7

LEMMA AllowsOne ==
  ASSUME NEW l, NEW o, AllowsAll(l, <<o>>) PROVE Allows(l, o)
<1>1. SubSeq(<<o>>, 1, 0) = <<>> /\ Len(<<o>>) = 1 /\ <<o>>[1] = o
  OBVIOUS
<1>2. Allows(After(l, SubSeq(<<o>>, 1, 0)), <<o>>[1])
  <2>1. 1 - 1 = 0 /\ 1 \in 1..Len(<<o>>)
    BY <1>1
  <2> QED
    BY <2>1 DEF AllowsAll
<1> QED
  BY <1>1, <1>2, AfterNone

LEMMA FirstOfTwo == ASSUME NEW o, NEW p PROVE SubSeq(<<o, p>>, 1, 1) = <<o>>
<1> DEFINE s == <<o, p>>
           t == SubSeq(s, 1, 1)
<1>1. s \in Seq({o, p}) /\ Len(s) = 2 /\ s[1] = o
  OBVIOUS
<1>2. t \in Seq({o, p}) /\ Len(t) = 1 /\ t[1] = o
  <2> HIDE DEF s
  <2> QED
    BY <1>1
<1>3. t = [i \in 1..1 |-> o]
  <2> HIDE DEF t
  <2> QED
    BY <1>2
<1>4. <<o>> = [i \in 1..1 |-> o]
  OBVIOUS
<1> QED
  BY <1>3, <1>4

LEMMA AllowsTwo ==
  ASSUME NEW l, NEW o, NEW p, AllowsAll(l, <<o, p>>)
  PROVE  Allows(l, o) /\ Allows(Effect(l, o), p)
<1>1. /\ SubSeq(<<o, p>>, 1, 0) = <<>> /\ SubSeq(<<o, p>>, 1, 1) = <<o>>
      /\ Len(<<o, p>>) = 2 /\ <<o, p>>[1] = o /\ <<o, p>>[2] = p
  <2>1. Len(<<o, p>>) = 2 /\ <<o, p>>[1] = o /\ <<o, p>>[2] = p
    OBVIOUS
  <2>2. SubSeq(<<o, p>>, 1, 0) = <<>>
    OBVIOUS
  <2>3. SubSeq(<<o, p>>, 1, 1) = <<o>>
    BY FirstOfTwo
  <2> QED
    BY <2>1, <2>2, <2>3
<1>2. \A n \in 1..2 : Allows(After(l, SubSeq(<<o, p>>, 1, n - 1)), <<o, p>>[n])
  BY <1>1 DEF AllowsAll
<1>3. Allows(After(l, SubSeq(<<o, p>>, 1, 0)), <<o, p>>[1])
  <2>1. 1 - 1 = 0 /\ 1 \in 1..2
    OBVIOUS
  <2> QED
    BY <1>2, <2>1
<1>4. Allows(After(l, SubSeq(<<o, p>>, 1, 1)), <<o, p>>[2])
  <2>1. 2 - 1 = 1 /\ 2 \in 1..2
    OBVIOUS
  <2> QED
    BY <1>2, <2>1
<1> QED
  BY <1>1, <1>3, <1>4, AfterNone, AfterOne

\* What the balance of h changes by when the amount goes from one account to another.
Change(from, to, amount, h) ==
  (IF to = h THEN amount ELSE 0) - (IF from = h THEN amount ELSE 0)

LEMMA PayEffect ==
  ASSUME NEW l \in Ledgers, NEW from \in Accounts, NEW to \in Accounts, NEW amount \in Nat,
         NEW spender \in Holders \cup {NoOne},
         Allows(l, Pay(from, to, amount, spender))
  PROVE  /\ Effect(l, Pay(from, to, amount, spender)) \in Ledgers
         /\ \A h \in Holders : Effect(l, Pay(from, to, amount, spender)).balance[h] =
                                 l.balance[h] + Change(from, to, amount, h)
<1> DEFINE o == Pay(from, to, amount, spender)
           b == Moved(l.balance, from, to, amount)
           a == [p \in DOMAIN l.allowance |->
                  IF p = <<from, spender>> THEN l.allowance[p] - amount ELSE l.allowance[p]]
<1>1. /\ o.op = "pay" /\ o.from = from /\ o.to = to
      /\ o.amount = amount /\ o.spender = spender
  BY DEF Pay
<1>2. Effect(l, o) = [l EXCEPT !.balance = b, !.allowance = a]
  <2> HIDE DEF o
  <2> QED
    BY <1>1 DEF Effect
<1>3. /\ Has(l, from, amount)
      /\ spender # NoOne => l.allowance[<<from, spender>>] >= amount
  <2>1. Allows(l, o)
    OBVIOUS
  <2> HIDE DEF o
  <2> QED
    BY <1>1, <2>1 DEF Allows
<1>4. /\ l.trust \in SUBSET Holders /\ l.balance \in [Holders -> Nat]
      /\ l.allowance \in [Holders \X Holders -> Nat]
      /\ l = [trust |-> l.trust, balance |-> l.balance, allowance |-> l.allowance]
  BY DEF Ledgers
<1>5. b \in [Holders -> Nat]
      /\ \A h \in Holders : b[h] = l.balance[h] + Change(from, to, amount, h)
  <2>1. Issuer \notin Holders
    BY AssetAssumption
  <2>2. from \in Holders => l.balance[from] >= amount
    BY <1>3, <2>1 DEF Has
  <2>3. ASSUME NEW h \in Holders
        PROVE  /\ l.balance[h] + (IF h = to THEN amount ELSE 0) - (IF h = from THEN amount ELSE 0)
                    \in Nat
               /\ l.balance[h] + (IF h = to THEN amount ELSE 0) - (IF h = from THEN amount ELSE 0)
                    = l.balance[h] + Change(from, to, amount, h)
    BY <1>4, <2>2 DEF Change
  <2> QED
    BY <2>3 DEF Moved
<1>6. a \in [Holders \X Holders -> Nat]
  <2>1. DOMAIN l.allowance = Holders \X Holders
    BY <1>4
  <2>2. ASSUME NEW p \in Holders \X Holders, p = <<from, spender>>
        PROVE  l.allowance[p] - amount \in Nat
    <3>1. spender # NoOne
      BY <2>2, AssetAssumption DEF Accounts
    <3>2. l.allowance[p] >= amount
      BY <1>3, <2>2, <3>1
    <3>3. l.allowance[p] \in Nat
      BY <1>4
    <3> QED
      BY <3>2, <3>3
  <2>3. ASSUME NEW p \in Holders \X Holders
        PROVE  (IF p = <<from, spender>> THEN l.allowance[p] - amount ELSE l.allowance[p]) \in Nat
    BY <1>4, <2>2
  <2> QED
    BY <2>1, <2>3
<1>7. Effect(l, o) = [trust |-> l.trust, balance |-> b, allowance |-> a]
  <2> HIDE DEF o, a, b
  <2> QED
    BY <1>2, <1>4
<1> HIDE DEF a, b
<1> QED
  BY <1>4, <1>5, <1>6, <1>7 DEF Ledgers

LEMMA ClawbackEffect ==
  ASSUME NEW l \in Ledgers, NEW from \in Holders, NEW amount \in Nat,
         Allows(l, Clawback(from, amount))
  PROVE  /\ Effect(l, Clawback(from, amount)) \in Ledgers
         /\ \A h \in Holders : Effect(l, Clawback(from, amount)).balance[h] =
                                 l.balance[h] + Change(from, Issuer, amount, h)
<1> DEFINE o == Clawback(from, amount)
           b == Moved(l.balance, from, Issuer, amount)
<1>1. o.op = "clawback" /\ o.from = from /\ o.amount = amount
  BY DEF Clawback
<1>2. Effect(l, o) = [l EXCEPT !.balance = b]
  <2> HIDE DEF o
  <2> QED
    BY <1>1 DEF Effect
<1>3. l.balance[from] >= amount
  <2>1. Allows(l, o)
    OBVIOUS
  <2> HIDE DEF o
  <2> QED
    BY <1>1, <2>1 DEF Allows
<1>4. /\ l.trust \in SUBSET Holders /\ l.balance \in [Holders -> Nat]
      /\ l.allowance \in [Holders \X Holders -> Nat]
      /\ l = [trust |-> l.trust, balance |-> l.balance, allowance |-> l.allowance]
  BY DEF Ledgers
<1>5. b \in [Holders -> Nat]
      /\ \A h \in Holders : b[h] = l.balance[h] + Change(from, Issuer, amount, h)
  <2>1. ASSUME NEW h \in Holders
        PROVE  /\ l.balance[h] + (IF h = Issuer THEN amount ELSE 0)
                    - (IF h = from THEN amount ELSE 0) \in Nat
               /\ l.balance[h] + (IF h = Issuer THEN amount ELSE 0)
                    - (IF h = from THEN amount ELSE 0)
                    = l.balance[h] + Change(from, Issuer, amount, h)
    BY <1>3, <1>4 DEF Change
  <2> QED
    BY <2>1 DEF Moved
<1>6. Effect(l, o) = [trust |-> l.trust, balance |-> b, allowance |-> l.allowance]
  <2> HIDE DEF o, b
  <2> QED
    BY <1>2, <1>4
<1> HIDE DEF b
<1> QED
  BY <1>4, <1>5, <1>6 DEF Ledgers

LEMMA OtherEffects ==
  ASSUME NEW l \in Ledgers, NEW h \in Holders, NEW g \in Holders, NEW amount \in Nat
  PROVE  /\ Effect(l, Trust(h)) \in Ledgers /\ Effect(l, Trust(h)).balance = l.balance
         /\ Effect(l, SetFlags) = l
         /\ Effect(l, Approve(h, g, amount)) \in Ledgers
         /\ Effect(l, Approve(h, g, amount)).balance = l.balance
<1>1. /\ l.trust \in SUBSET Holders /\ l.balance \in [Holders -> Nat]
      /\ l.allowance \in [Holders \X Holders -> Nat]
      /\ l = [trust |-> l.trust, balance |-> l.balance, allowance |-> l.allowance]
  BY DEF Ledgers
<1>2. Effect(l, Trust(h)) = [l EXCEPT !.trust = l.trust \cup {h}]
  <2>1. Trust(h).op = "trust" /\ Trust(h).to = h
    BY DEF Trust
  <2> QED
    BY <2>1 DEF Effect
<1>3. Effect(l, SetFlags) = l
  <2>1. SetFlags.op = "flags"
    BY DEF SetFlags
  <2> QED
    BY <2>1 DEF Effect
<1>4. Effect(l, Approve(h, g, amount)) =
        [l EXCEPT !.allowance = [l.allowance EXCEPT ![<<h, g>>] = amount]]
  <2>1. /\ Approve(h, g, amount).op = "approve" /\ Approve(h, g, amount).from = h
        /\ Approve(h, g, amount).spender = g /\ Approve(h, g, amount).amount = amount
    BY DEF Approve
  <2> QED
    BY <2>1 DEF Effect
<1>5. [l.allowance EXCEPT ![<<h, g>>] = amount] \in [Holders \X Holders -> Nat]
  BY <1>1
<1>6. Effect(l, Trust(h)) = [trust |-> l.trust \cup {h}, balance |-> l.balance,
                             allowance |-> l.allowance]
  BY <1>1, <1>2
<1>7. Effect(l, Approve(h, g, amount)) =
        [trust |-> l.trust, balance |-> l.balance,
         allowance |-> [l.allowance EXCEPT ![<<h, g>>] = amount]]
  BY <1>1, <1>4
<1> QED
  BY <1>1, <1>3, <1>5, <1>6, <1>7 DEF Ledgers

-----------------------------------------------------------------------------
(* The methods: what they ask for is what their operations do.             *)

LEMMA PaymentMoves ==
  ASSUME NEW l \in Ledgers, NEW from \in Accounts, NEW to \in Accounts, NEW amount \in Nat,
         NEW spender \in Holders \cup {NoOne}, NEW ops,
         ops = <<Pay(from, to, amount, spender)>>, AllowsAll(l, ops)
  PROVE  /\ After(l, ops) \in Ledgers
         /\ \A h \in Holders :
              After(l, ops).balance[h] = l.balance[h] + Change(from, to, amount, h)
  BY AfterOne, AllowsOne, PayEffect

\* The calls of token functions, and the operations of each.
LEMMA TokenCallShapes ==
  ASSUME NEW m \in TokenCalls
  PROVE  \/ /\ m.fn \in Reads \cup {"initialize", "set_admin", "set_authorized"}
            /\ TokenOps(m) = <<>>
         \/ /\ m.fn = "mint" /\ m.to \in Holders /\ m.amount \in Nat
            /\ TokenOps(m) = <<Pay(Issuer, m.to, m.amount, NoOne)>>
         \/ /\ m.fn = "clawback" /\ m.from \in Holders /\ m.amount \in Nat
            /\ TokenOps(m) = <<Clawback(m.from, m.amount)>>
         \/ /\ m.fn = "burn" /\ m.from \in Holders /\ m.amount \in Nat
            /\ TokenOps(m) = <<Pay(m.from, Issuer, m.amount, NoOne)>>
         \/ /\ m.fn = "transfer" /\ m.from \in Holders /\ m.to \in Holders /\ m.amount \in Nat
            /\ TokenOps(m) = <<Pay(m.from, m.to, m.amount, NoOne)>>
         \/ /\ m.fn = "burn_from" /\ m.from \in Holders /\ m.spender \in Holders
            /\ m.amount \in Nat
            /\ TokenOps(m) = <<Pay(m.from, Issuer, m.amount, m.spender)>>
         \/ /\ m.fn = "transfer_from" /\ m.from \in Holders /\ m.to \in Holders
            /\ m.spender \in Holders /\ m.amount \in Nat
            /\ TokenOps(m) = <<Pay(m.from, m.to, m.amount, m.spender)>>
         \/ /\ m.fn = "approve" /\ m.from \in Holders /\ m.spender \in Holders
            /\ m.amount \in Nat
            /\ TokenOps(m) = <<Approve(m.from, m.spender, m.amount)>>
<1>1. Payers \subseteq Holders /\ Stroops \subseteq Nat
  BY AssetAssumption
<1>2. \A a \in AdminCalls :
        \/ a.fn \in {"initialize", "set_admin", "set_authorized"}
        \/ a.fn = "mint" /\ a.to \in Holders /\ a.amount \in Nat
        \/ a.fn = "clawback" /\ a.from \in Holders /\ a.amount \in Nat
  BY <1>1 DEF AdminCalls
<1>3. \A a \in HolderCalls :
        /\ a.fn \in {"burn", "transfer", "burn_from", "transfer_from", "approve"}
        /\ a.from \in Holders /\ a.amount \in Nat
        /\ a.fn \in {"transfer", "transfer_from"} => a.to \in Holders
        /\ a.fn \in {"burn_from", "transfer_from", "approve"} => a.spender \in Holders
  <2>1. \A p \in Pairs : p[1] \in Holders /\ p[2] \in Holders
    BY <1>1 DEF Pairs
  <2> QED
    BY <1>1, <2>1 DEF HolderCalls
<1>4. CASE m \in AdminCalls
  <2>1. TokenOps(m) = AdminOps(m)
    BY <1>4 DEF TokenOps
  <2> QED
    BY <1>2, <1>4, <2>1 DEF AdminOps
<1>5. CASE m \in HolderCalls
  <2>1. TokenOps(m) = HolderOps(m)
    BY <1>2, <1>3, <1>5 DEF TokenOps
  <2> QED
    BY <1>3, <1>5, <2>1 DEF HolderOps
<1>6. CASE m \notin AdminCalls \cup HolderCalls
  <2>1. TokenOps(m) = <<>> /\ m.fn \in Reads
    BY <1>6 DEF TokenOps, TokenCalls
  <2> QED
    BY <2>1
<1> QED
  BY <1>4, <1>5, <1>6

LEMMA TokenMovesTyped ==
  ASSUME NEW m \in TokenCalls, NEW h \in Holders
  PROVE  TokenMoves(m, h) \in Int
  BY TokenCallShapes DEF TokenMoves, Reads

\* What the contract does to a ledger that lets it is what the method says.
LEMMA TokenMovesBalances ==
  ASSUME NEW l \in Ledgers, NEW m \in TokenCalls, AllowsAll(l, TokenOps(m))
  PROVE  /\ After(l, TokenOps(m)) \in Ledgers
         /\ \A h \in Holders : TokenMoves(m, h) \in Int
         /\ \A h \in Holders : After(l, TokenOps(m)).balance[h] = l.balance[h] + TokenMoves(m, h)
<1>1. l.balance \in [Holders -> Nat]
  BY DEF Ledgers
<1>2. /\ Issuer \in Accounts /\ Holders \subseteq Accounts /\ Issuer \notin Holders
      /\ NoOne \in Holders \cup {NoOne}
  BY AssetAssumption DEF Accounts
<1>3. ASSUME NEW from \in Accounts, NEW to \in Accounts, NEW spender \in Holders \cup {NoOne},
             m.amount \in Nat, TokenOps(m) = <<Pay(from, to, m.amount, spender)>>,
             \A h \in Holders : TokenMoves(m, h) = Change(from, to, m.amount, h)
      PROVE  /\ After(l, TokenOps(m)) \in Ledgers
             /\ \A h \in Holders : TokenMoves(m, h) \in Int
             /\ \A h \in Holders : After(l, TokenOps(m)).balance[h] = l.balance[h] + TokenMoves(m, h)
  <2>1. \A h \in Holders : Change(from, to, m.amount, h) \in Int
    BY <1>3 DEF Change
  <2> QED
    BY <1>3, <2>1, PaymentMoves
<1>4. CASE m.fn \in Reads \cup {"initialize", "set_admin", "set_authorized"}
           /\ TokenOps(m) = <<>>
  <2>1. \A h \in Holders : TokenMoves(m, h) = 0
    BY <1>4 DEF TokenMoves, Reads
  <2> QED
    BY <1>1, <1>4, <2>1, AfterNone
<1>5. CASE m.fn = "mint" /\ m.to \in Holders /\ m.amount \in Nat
           /\ TokenOps(m) = <<Pay(Issuer, m.to, m.amount, NoOne)>>
  <2>1. \A h \in Holders : TokenMoves(m, h) = Change(Issuer, m.to, m.amount, h)
    BY <1>2, <1>5 DEF TokenMoves, Change
  <2> QED
    BY <1>2, <1>3, <1>5, <2>1
<1>6. CASE m.fn = "clawback" /\ m.from \in Holders /\ m.amount \in Nat
           /\ TokenOps(m) = <<Clawback(m.from, m.amount)>>
  <2>1. \A h \in Holders : /\ TokenMoves(m, h) = Change(m.from, Issuer, m.amount, h)
                           /\ TokenMoves(m, h) \in Int
    BY <1>2, <1>6 DEF TokenMoves, Change
  <2>2. /\ Allows(l, Clawback(m.from, m.amount))
        /\ After(l, TokenOps(m)) = Effect(l, Clawback(m.from, m.amount))
    BY <1>6, AllowsOne, AfterOne
  <2> QED
    BY <1>6, <2>1, <2>2, ClawbackEffect
<1>7. CASE m.fn \in {"burn", "burn_from"} /\ m.from \in Holders /\ m.amount \in Nat
           /\ \E spender \in Holders \cup {NoOne} :
                TokenOps(m) = <<Pay(m.from, Issuer, m.amount, spender)>>
  <2>1. \A h \in Holders : TokenMoves(m, h) = Change(m.from, Issuer, m.amount, h)
    BY <1>2, <1>7 DEF TokenMoves, Change
  <2> QED
    BY <1>2, <1>3, <1>7, <2>1
<1>8. CASE /\ m.fn \in {"transfer", "transfer_from"}
           /\ m.from \in Holders /\ m.to \in Holders /\ m.amount \in Nat
           /\ \E spender \in Holders \cup {NoOne} :
                TokenOps(m) = <<Pay(m.from, m.to, m.amount, spender)>>
  <2>1. \A h \in Holders : TokenMoves(m, h) = Change(m.from, m.to, m.amount, h)
    BY <1>8 DEF TokenMoves, Change
  <2> QED
    BY <1>2, <1>3, <1>8, <2>1
<1>9. CASE m.fn = "approve" /\ m.from \in Holders /\ m.spender \in Holders /\ m.amount \in Nat
           /\ TokenOps(m) = <<Approve(m.from, m.spender, m.amount)>>
  <2>1. \A h \in Holders : TokenMoves(m, h) = 0
    BY <1>9 DEF TokenMoves
  <2>2. /\ Effect(l, Approve(m.from, m.spender, m.amount)) \in Ledgers
        /\ Effect(l, Approve(m.from, m.spender, m.amount)).balance = l.balance
    BY <1>9, OtherEffects
  <2> QED
    BY <1>1, <1>9, <2>1, <2>2, AfterOne
<1> QED
  BY <1>2, <1>4, <1>5, <1>6, <1>7, <1>8, <1>9, TokenCallShapes

LEMMA Strooped ==
  ASSUME NEW n \in Nat
  PROVE  toStroops(n) = PowerOfTen[Decimals] * n /\ toStroops(n) \in Nat
<1> DEFINE ten == PowerOfTen[Decimals]
<1>1. ten \in Nat /\ toStroops(n) = n * ten
  BY PowerTyped, UnitAssumption DEF toStroops, toDecimals
<1> HIDE DEF ten
<1>2. n * ten = ten * n /\ n * ten \in Nat
  BY <1>1
<1> QED
  BY <1>1, <1>2 DEF ten

\* The methods of the classic handler, and the operations of each.
LEMMA ClassicShapes ==
  ASSUME NEW m \in ClassicMethods
  PROVE  /\ m.from \in Accounts /\ m.to \in Accounts /\ m.amount \in Nat
         /\ m.adds \subseteq {Issuer}
         /\ \/ m.ops = <<Pay(m.from, m.to, toStroops(m.amount), NoOne)>>
            \/ /\ m.to \in Holders
               /\ m.ops = <<Trust(m.to), Pay(m.from, m.to, toStroops(m.amount), NoOne)>>
            \/ m.to = m.from /\ m.amount = 0 /\ m.ops = <<SetFlags>>
            \/ m.to = m.from /\ m.amount = 0 /\ m.to \in Holders /\ m.ops = <<Trust(m.to)>>
<1>1. /\ Payers \subseteq Holders /\ Amounts \subseteq Nat
      /\ Issuer \in Accounts /\ Holders \subseteq Accounts
  BY AssetAssumption DEF Accounts
<1>2. CASE \E p \in Pairs, n \in Amounts : m = transfer(p[1], p[2], n)
  <2>1. \A p \in Pairs : p[1] \in Holders /\ p[2] \in Holders
    BY <1>1 DEF Pairs
  <2> QED
    BY <1>1, <1>2, <2>1 DEF transfer
<1>3. CASE \E h \in Payers, n \in Amounts : m = burn(h, n)
  BY <1>1, <1>3 DEF burn, transfer
<1>4. CASE \E h \in Holders, n \in Amounts : m = mint(h, n)
  BY <1>1, <1>4 DEF mint
<1>5. CASE m = setFlags
  BY <1>1, <1>5 DEF setFlags
<1>6. CASE \E h \in Holders, n \in Amounts : m = addTrustlineAndMint(h, n)
  BY <1>1, <1>6 DEF addTrustlineAndMint
<1>7. CASE \E h \in Holders : m = addTrustline(h)
  BY <1>1, <1>7 DEF addTrustline
<1> QED
  BY <1>2, <1>3, <1>4, <1>5, <1>6, <1>7 DEF ClassicMethods

LEMMA ClassicMovesTyped ==
  ASSUME NEW m \in ClassicMethods, NEW h \in Holders
  PROVE  ClassicMoves(m, h) \in Int
<1> DEFINE moved == PowerOfTen[Decimals] * m.amount
<1>1. moved \in Nat
  <2>1. PowerOfTen[Decimals] \in Nat /\ m.amount \in Nat
    BY ClassicShapes, PowerTyped, UnitAssumption
  <2> HIDE DEF PowerOfTen
  <2> QED
    BY <2>1
<1>2. ClassicMoves(m, h) = (IF m.to = h THEN moved ELSE 0) - (IF m.from = h THEN moved ELSE 0)
  BY DEF ClassicMoves
<1> HIDE DEF moved
<1> QED
  BY <1>1, <1>2

LEMMA ClassicMovesBalances ==
  ASSUME NEW l \in Ledgers, NEW m \in ClassicMethods, AllowsAll(l, m.ops)
  PROVE  /\ After(l, m.ops) \in Ledgers
         /\ \A h \in Holders : ClassicMoves(m, h) \in Int
         /\ \A h \in Holders : After(l, m.ops).balance[h] = l.balance[h] + ClassicMoves(m, h)
<1>1. l.balance \in [Holders -> Nat]
  BY DEF Ledgers
<1>2. /\ m.from \in Accounts /\ m.to \in Accounts /\ m.amount \in Nat
      /\ NoOne \in Holders \cup {NoOne}
  BY ClassicShapes
<1>3. /\ toStroops(m.amount) \in Nat
      /\ \A h \in Holders : /\ ClassicMoves(m, h) = Change(m.from, m.to, toStroops(m.amount), h)
                            /\ ClassicMoves(m, h) \in Int
  <2>1. toStroops(m.amount) = PowerOfTen[Decimals] * m.amount /\ toStroops(m.amount) \in Nat
    BY <1>2, Strooped
  <2>2. \A h \in Holders : ClassicMoves(m, h) = Change(m.from, m.to, toStroops(m.amount), h)
    BY <2>1 DEF ClassicMoves, Change
  <2>3. \A h \in Holders : Change(m.from, m.to, toStroops(m.amount), h) \in Int
    BY <2>1 DEF Change
  <2> QED
    BY <2>1, <2>2, <2>3
<1>4. CASE m.ops = <<Pay(m.from, m.to, toStroops(m.amount), NoOne)>>
  BY <1>2, <1>3, <1>4, PaymentMoves
<1>5. CASE /\ m.to \in Holders
           /\ m.ops = <<Trust(m.to), Pay(m.from, m.to, toStroops(m.amount), NoOne)>>
  <2> DEFINE l2 == Effect(l, Trust(m.to))
             o == Pay(m.from, m.to, toStroops(m.amount), NoOne)
  <2>1. l2 \in Ledgers /\ l2.balance = l.balance
    BY <1>5, OtherEffects
  <2>2. Allows(l2, o) /\ After(l, m.ops) = Effect(l2, o)
    BY <1>5, AllowsTwo, AfterTwo
  <2>3. /\ Effect(l2, o) \in Ledgers
        /\ \A h \in Holders : Effect(l2, o).balance[h] =
                                l2.balance[h] + Change(m.from, m.to, toStroops(m.amount), h)
    <3> HIDE DEF l2
    <3> QED
      BY <1>2, <1>3, <2>1, <2>2, PayEffect
  <2> HIDE DEF l2, o
  <2> QED
    BY <1>3, <2>1, <2>2, <2>3
<1>6. CASE m.to = m.from /\ m.amount = 0 /\ m.ops = <<SetFlags>>
  <2>1. \A h \in Holders : ClassicMoves(m, h) = 0
    BY <1>6, PowerTyped, UnitAssumption DEF ClassicMoves
  <2>2. Effect(l, SetFlags) = l
    BY DEF Effect, SetFlags
  <2> QED
    BY <1>1, <1>6, <2>1, <2>2, AfterOne
<1>7. CASE m.to = m.from /\ m.amount = 0 /\ m.to \in Holders /\ m.ops = <<Trust(m.to)>>
  <2>1. \A h \in Holders : ClassicMoves(m, h) = 0
    BY <1>7, PowerTyped, UnitAssumption DEF ClassicMoves
  <2>2. Effect(l, Trust(m.to)) \in Ledgers /\ Effect(l, Trust(m.to)).balance = l.balance
    BY <1>2, <1>7, OtherEffects
  <2> QED
    BY <1>1, <1>7, <2>1, <2>2, AfterOne
<1> QED
  BY <1>4, <1>5, <1>6, <1>7, ClassicShapes

-----------------------------------------------------------------------------
(* The calls.                                                              *)

\* What the kind of a call says of its method and its options; and a call that
\* resolved, of either handler, was included.
MethodInv ==
  /\ KindInv
  /\ AssetTypeOK
  /\ \A c \in Calls : pc[c] = "idle" => kind[c] = "none"
  /\ \A c \in Calls : kind[c] \in {"invoke", "read"} => method[c] \in TokenCalls
  /\ \A c \in Calls : kind[c] = "read" => simulateOnly[c] /\ tx[c] = "none"
  /\ \A c \in Calls : kind[c] = "invoke" =>
       ~simulateOnly[c] /\ (pc[c] = "resolved" => tx[c] = "succeeded")
  /\ \A k \in ClassicCalls : classic[k] # NotCalled =>
       (classic[k].state = "resolved" => classic[k].tx = "succeeded")

\* A step of the engine alone that begins no call.
LEMMA MethodGoesOn ==
  ASSUME MethodInv, KindInv', UNCHANGED assetVars, NEW c \in Calls,
         \/ EntryFound(c) \/ SpecLoaded(c) \/ Submit(c) \/ SimulatedOnly(c)
         \/ AlreadyWrapped(c) \/ ExecutionThrows(c) \/ Return(c) \/ Include(c) \/ Discard(c)
  PROVE  MethodInv'
<1>1. KindInv /\ TypeOK /\ TypeOK' /\ AssetTypeOK /\ UNCHANGED <<method, classic, ledger>>
  BY DEF MethodInv, KindInv, assetVars
<1>2. UNCHANGED callVars
  BY DEF EntryFound, SpecLoaded, Submit, SimulatedOnly, AlreadyWrapped, ExecutionThrows,
         Return, Include, Discard
<1>3. AssetTypeOK'
  BY <1>1 DEF AssetTypeOK
<1>4. pc[c] # "idle" /\ pc'[c] # "idle" /\ \A e \in Calls \ {c} : pc'[e] = pc[e] /\ tx'[e] = tx[e]
  BY <1>1 DEF EntryFound, SpecLoaded, Submit, SimulatedOnly, AlreadyWrapped, ExecutionThrows,
              Return, Include, Discard, Go, TypeOK, KindInv
<1>5. kind[c] = "read" => tx'[c] = "none"
  BY <1>1 DEF EntryFound, SpecLoaded, Submit, SimulatedOnly, AlreadyWrapped, ExecutionThrows,
              Return, Include, Discard, Go, TypeOK, KindInv, MethodInv
<1>6. kind[c] = "invoke" /\ pc'[c] = "resolved" => tx'[c] = "succeeded"
  BY <1>1 DEF EntryFound, SpecLoaded, Submit, SimulatedOnly, AlreadyWrapped, ExecutionThrows,
              Return, Include, Discard, Go, TypeOK, KindInv, MethodInv
<1> QED
  BY <1>1, <1>2, <1>3, <1>4, <1>5, <1>6 DEF MethodInv, callVars

\* A call begins: nothing but its method and its place is set.
LEMMA MethodBegins ==
  ASSUME MethodInv, KindInv', NEW c \in Calls, NEW k \in Kinds, NEW only \in BOOLEAN,
         Call(c, k, only, Asset), UNCHANGED <<classic, ledger>>,
         \/ method' = method /\ k \notin {"invoke", "read"}
         \/ \E m \in TokenCalls : method' = [method EXCEPT ![c] = m]
  PROVE  MethodInv'
<1>1. KindInv /\ TypeOK /\ TypeOK' /\ AssetTypeOK
  BY DEF MethodInv, KindInv
<1>2. /\ pc[c] = "idle" /\ MayBeCalled(k, only) /\ tx' = tx /\ tx[c] = "none"
      /\ kind' = [kind EXCEPT ![c] = k]
      /\ simulateOnly' = [simulateOnly EXCEPT ![c] = only]
      /\ pc' = [pc EXCEPT ![c] = FirstAwait(k)] \/ pc' = [pc EXCEPT ![c] = "rejected"]
  BY <1>1 DEF Call, Go, KindInv
<1>3. pc'[c] \notin {"idle", "resolved"}
  BY <1>1, <1>2, TargetTyped, AssetAssumption DEF TypeOK
<1>4. AssetTypeOK'
  BY <1>1 DEF AssetTypeOK
<1>5. k \in {"invoke", "read"} => method'[c] \in TokenCalls
  BY <1>1 DEF AssetTypeOK
<1>6. \A e \in Calls \ {c} :
         /\ kind'[e] = kind[e] /\ simulateOnly'[e] = simulateOnly[e]
         /\ pc'[e] = pc[e] /\ method'[e] = method[e]
  BY <1>1, <1>2 DEF TypeOK, AssetTypeOK
<1>7. kind'[c] = k /\ simulateOnly'[c] = only
  BY <1>1, <1>2 DEF TypeOK
<1>8. (k = "read" => only) /\ (k = "invoke" => ~only)
  BY <1>2 DEF MayBeCalled
<1> QED
  BY <1>2, <1>3, <1>4, <1>5, <1>6, <1>7, <1>8 DEF MethodInv

\* The classic handler's calls: one changes, and the ledger is still one.
LEMMA MethodClassic ==
  ASSUME MethodInv, NEW k \in ClassicCalls, ClassicStep(k)
  PROVE  MethodInv'
<1>1. KindInv /\ AssetTypeOK /\ UNCHANGED <<vars, method>>
  BY DEF MethodInv, ClassicStep, ClassicCall, ClassicSubmit, ClassicInclude, ClassicDiscard,
         ClassicReturn, ClassicThrows
<1>2. NotCalled \notin ClassicCallStates
  BY DEF NotCalled, ClassicCallStates
<1>3. \E s \in ClassicCallStates :
        /\ classic' = [classic EXCEPT ![k] = s]
        /\ s.state = "resolved" => s.tx = "succeeded"
  <2>1. CASE \E m \in ClassicMethods : ClassicCall(k, m)
    <3>1. PICK m \in ClassicMethods : ClassicCall(k, m)
      BY <2>1
    <3>2. m.adds \subseteq {Issuer}
      BY ClassicShapes
    <3> DEFINE r == [method |-> m, signers |-> Holders \cup m.adds, tx |-> "none",
                     state |-> IF requireIssuerAccount(m) THEN "executing" ELSE "rejected"]
    <3>3. r \in ClassicCallStates /\ r.state # "resolved"
      BY <3>2 DEF ClassicCallStates, Accounts
    <3>4. classic' = [classic EXCEPT ![k] = r]
      BY <3>1 DEF ClassicCall
    <3> HIDE DEF r
    <3> QED
      BY <3>3, <3>4
  <2>2. CASE ClassicSubmit(k) \/ ClassicInclude(k) \/ ClassicDiscard(k) \/ ClassicReturn(k)
             \/ ClassicThrows(k)
    <3>1. classic[k] \in ClassicCallStates
      BY <1>1, <2>2 DEF ClassicSubmit, ClassicInclude, ClassicDiscard, ClassicReturn,
                        ClassicThrows, AssetTypeOK, NotCalled
    <3> QED
      BY <1>2, <2>2, <3>1 DEF ClassicSubmit, ClassicInclude, ClassicDiscard, ClassicReturn,
                        ClassicThrows, ClassicCallStates, MethodInv
  <2> QED
    BY <2>1, <2>2 DEF ClassicStep
<1>4. ledger' \in Ledgers
  <2>1. CASE ClassicInclude(k)
    <3>1. classic[k].method \in ClassicMethods
      BY <1>1, <2>1 DEF ClassicInclude, AssetTypeOK, ClassicCallStates
    <3> QED
      BY <1>1, <2>1, <3>1, ClassicMovesBalances DEF ClassicInclude, AssetTypeOK
  <2>2. CASE ledger' = ledger
    BY <1>1, <2>2 DEF AssetTypeOK
  <2> QED
    BY <2>1, <2>2 DEF ClassicStep, ClassicCall, ClassicSubmit, ClassicDiscard, ClassicReturn,
                      ClassicThrows
<1>5. AssetTypeOK' /\ KindInv'
  BY <1>1, <1>3, <1>4 DEF AssetTypeOK, KindInv, TypeOK, vars, registers, callVars
<1>6. \A j \in ClassicCalls : classic'[j] # NotCalled =>
        (classic'[j].state = "resolved" => classic'[j].tx = "succeeded")
  BY <1>1, <1>3 DEF MethodInv, AssetTypeOK
<1> QED
  BY <1>1, <1>5, <1>6 DEF MethodInv, vars, callVars

LEMMA MethodInductive == MethodInv /\ [AssetNext]_allAssetVars => MethodInv'
<1> SUFFICES ASSUME MethodInv, [AssetNext]_allAssetVars PROVE MethodInv'
  OBVIOUS
<1>1. KindInv /\ KindInv' /\ TypeOK' /\ AssetTypeOK
  BY HandlersStep, KindInductive DEF MethodInv, KindInv
<1>2. ASSUME NEW c \in Calls, EngineCall(c) PROVE MethodInv'
  <2>1. PICK k \in Kinds \ {"invoke", "read"}, only \in BOOLEAN : Call(c, k, only, Asset)
    BY <1>2 DEF EngineCall
  <2> QED
    BY <1>1, <1>2, <2>1, MethodBegins DEF EngineCall, assetVars
<1>3. ASSUME NEW c \in Calls, NEW m \in TokenCalls, TokenCall(c, m) PROVE MethodInv'
  <2>1. (IF m.fn \in Reads THEN "read" ELSE "invoke") \in Kinds /\ (m.fn \in Reads) \in BOOLEAN
    BY DEF Kinds
  <2> QED
    BY <1>1, <1>3, <2>1, MethodBegins DEF TokenCall
<1>4. ASSUME NEW c \in Calls, TokenInclude(c) PROVE MethodInv'
  <2>1. Include(c) /\ Passes(c) /\ UNCHANGED <<method, classic>>
    BY <1>4 DEF TokenInclude
  <2>2. ledger' \in Ledgers
    <3>1. CASE OnAsset(c)
      <4>1. method[c] \in TokenCalls
        BY <3>1 DEF OnAsset, MethodInv
      <4> QED
        BY <1>1, <1>4, <2>1, <3>1, <4>1, TokenMovesBalances DEF TokenInclude, Passes, AssetTypeOK
    <3>2. CASE ~OnAsset(c)
      BY <1>1, <1>4, <3>2 DEF TokenInclude, AssetTypeOK
    <3> QED
      BY <3>1, <3>2
  <2>3. AssetTypeOK'
    BY <1>1, <2>1, <2>2 DEF AssetTypeOK
  <2>4. /\ UNCHANGED <<callVars, pc>> /\ tx[c] = "pending" /\ tx' = [tx EXCEPT ![c] = "succeeded"]
    BY <2>1 DEF Include
  <2>5. \A e \in Calls : (tx'[e] = tx[e]) \/ (tx[e] = "pending" /\ tx'[e] = "succeeded")
    BY <1>1, <2>4 DEF KindInv, TypeOK
  <2> QED
    BY <1>1, <2>1, <2>3, <2>4, <2>5 DEF MethodInv, callVars
<1>5. ASSUME NEW c \in Calls, TokenStep(c) PROVE MethodInv'
  BY <1>1, <1>2, <1>3, <1>4, <1>5, MethodGoesOn DEF TokenStep, TokenSubmit
<1>6. CASE UNCHANGED allAssetVars
  BY <1>1, <1>6 DEF allAssetVars, assetVars, vars, callVars, registers, MethodInv, AssetTypeOK
<1> QED
  BY <1>5, <1>6, MethodClassic DEF AssetNext

-----------------------------------------------------------------------------
(* The balances.                                                           *)

\* The calls that took effect: those whose transaction a ledger included.
Done == {c \in TokenSent : tx[c] = "succeeded"}
KDone == {k \in ClassicSent : classic[k].tx = "succeeded"}

AccountedInv ==
  /\ MethodInv
  /\ IsFiniteSet(Done) /\ IsFiniteSet(KDone)
  /\ \A h \in Holders :
       ledger.balance[h] = Opening[h] + Total(TokenAsked(h), Done) + Total(ClassicAsked(h), KDone)

\* A call that sent its transaction stays what it is.
LEMMA SentStable ==
  ASSUME MethodInv, [AssetNext]_allAssetVars, NEW c \in Calls, tx[c] # "none"
  PROVE  kind'[c] = kind[c] /\ method'[c] = method[c] /\ OnAsset(c)' = OnAsset(c)
<1>1. KindInv /\ pc[c] # "idle" /\ AssetTypeOK
  BY DEF MethodInv, KindInv
<1>2. CASE UNCHANGED vars
  <2>1. ASSUME NEW d \in Calls, TokenStep(d) PROVE method'[c] = method[c]
    BY <1>1, <1>2, <2>1
       DEF vars, TokenStep, TokenSubmit, TokenInclude, EngineCall, TokenCall, assetVars,
           Call, AssetTypeOK
  <2>2. method'[c] = method[c]
    BY <2>1 DEF AssetNext, ClassicStep, ClassicCall, ClassicSubmit, ClassicInclude,
                ClassicDiscard, ClassicReturn, ClassicThrows, allAssetVars, assetVars
  <2> QED
    BY <1>2, <2>2 DEF vars, callVars, OnAsset
<1>3. CASE Next
  <2>1. kind'[c] = kind[c] /\ target'[c] = target[c]
    BY <1>1, <1>3, MadeStable
  <2>2. constructed' = constructed
    BY <1>1, <1>3, CalledStep
       DEF Next, Method, EntryFound, SpecLoaded, Submit, SimulatedOnly,
           AlreadyWrapped, ExecutionThrows, Return, Include, Discard
  <2>3. ASSUME NEW d \in Calls, TokenStep(d) PROVE method'[c] = method[c]
    BY <1>1, <2>3 DEF TokenStep, TokenSubmit, TokenInclude, EngineCall, TokenCall, assetVars,
                      Call, AssetTypeOK
  <2>4. method'[c] = method[c]
    BY <2>3 DEF AssetNext, ClassicStep, ClassicCall, ClassicSubmit, ClassicInclude,
                ClassicDiscard, ClassicReturn, ClassicThrows, allAssetVars, assetVars
  <2> QED
    BY <2>1, <2>2, <2>4 DEF OnAsset
<1> QED
  BY <1>2, <1>3, HandlersStep

\* As long as no call of the token's is included, its sum stays.
LEMMA TokenTotalKept ==
  ASSUME AccountedInv, [AssetNext]_allAssetVars,
         \A c \in Calls : \/ tx'[c] = "succeeded" <=> tx[c] = "succeeded"
                          \/ tx[c] = "pending" /\ ~OnAsset(c)
  PROVE  /\ Done' = Done
         /\ \A h \in Holders : Total(TokenAsked(h), Done)' = Total(TokenAsked(h), Done)
<1>1. Done' = Done /\ \A c \in Done : method'[c] = method[c] /\ c \in TokenSent /\ c \in TokenSent'
  <2>1. \A c \in Calls : tx'[c] = "succeeded" =>
           kind'[c] = kind[c] /\ method'[c] = method[c] /\ OnAsset(c)' = OnAsset(c)
    BY SentStable DEF AccountedInv
  <2> QED
    BY <2>1 DEF Done, TokenSent
<1>2. ASSUME NEW h \in Holders
      PROVE  Total(TokenAsked(h), Done)' = Total(TokenAsked(h), Done)
  <2>1. \A c \in Done : TokenAsked(h)'[c] = TokenAsked(h)[c]
    BY <1>1 DEF TokenAsked, TokenMoves
  <2>2. Total(TokenAsked(h)', Done) = Total(TokenAsked(h), Done)
    BY <2>1, TotalSame DEF AccountedInv
  <2> QED
    BY <1>1, <2>2
<1> QED
  BY <1>1, <1>2

\* An included call of the token's adds what it asked for.
LEMMA TokenTotalGrows ==
  ASSUME AccountedInv, [AssetNext]_allAssetVars, NEW c \in Calls, TokenInclude(c), OnAsset(c)
  PROVE  /\ IsFiniteSet(Done')
         /\ \A h \in Holders :
              /\ Total(TokenAsked(h), Done) \in Int
              /\ Total(TokenAsked(h), Done)' = Total(TokenAsked(h), Done) + TokenMoves(method[c], h)
<1>1. MethodInv /\ KindInv /\ TypeOK /\ Include(c) /\ UNCHANGED method
  BY DEF AccountedInv, MethodInv, KindInv, TokenInclude
<1>2. tx[c] = "pending" /\ tx' = [tx EXCEPT ![c] = "succeeded"]
  BY <1>1 DEF Include
<1>3. kind[c] = "invoke"
  BY <1>1, <1>2 DEF MethodInv, OnAsset
<1>4. \A e \in Calls : tx'[e] = "succeeded" =>
        kind'[e] = kind[e] /\ OnAsset(e)' = OnAsset(e) /\ (tx[e] = "succeeded" \/ e = c)
  BY <1>1, <1>2, SentStable DEF TypeOK
<1>5. kind'[c] = kind[c] /\ OnAsset(c)' = OnAsset(c) /\ tx'[c] = "succeeded"
  BY <1>1, <1>2, SentStable DEF TypeOK
<1>6. \A e \in Calls : tx[e] = "succeeded" => tx'[e] = "succeeded"
  BY <1>1, <1>2 DEF TypeOK
<1>7. Done' = Done \cup {c} /\ c \notin Done
  BY <1>2, <1>3, <1>4, <1>5, <1>6 DEF Done, TokenSent
<1>8. IsFiniteSet(Done) /\ IsFiniteSet(Done')
  BY <1>7, FS_AddElement DEF AccountedInv
<1>9. \A e \in Done \cup {c} : e \in TokenSent /\ e \in TokenSent' /\ method[e] \in TokenCalls
  <2>1. Done' \subseteq TokenSent' /\ Done \subseteq TokenSent /\ c \in TokenSent
    BY <1>2, <1>3 DEF Done, TokenSent
  <2>2. \A e \in TokenSent : method[e] \in TokenCalls
    BY <1>1 DEF TokenSent, MethodInv
  <2> QED
    BY <1>7, <2>1, <2>2
<1>10. ASSUME NEW h \in Holders
       PROVE  /\ Total(TokenAsked(h), Done) \in Int
              /\ Total(TokenAsked(h), Done)' = Total(TokenAsked(h), Done) + TokenMoves(method[c], h)
  <2>1. \A e \in Done \cup {c} : TokenAsked(h)[e] = TokenMoves(method[e], h)
                              /\ TokenAsked(h)'[e] = TokenMoves(method[e], h)
    BY <1>1, <1>9 DEF TokenAsked, TokenMoves
  <2>2. \A e \in Done \cup {c} : TokenMoves(method[e], h) \in Int
    BY <1>9, TokenMovesTyped
  <2>3. /\ Total(TokenAsked(h), Done) \in Int
        /\ Total(TokenAsked(h), Done \cup {c})
             = Total(TokenAsked(h), Done) + TokenMoves(method[c], h)
    BY <1>7, <1>8, <2>1, <2>2, TotalMore
  <2>4. Total(TokenAsked(h)', Done \cup {c}) = Total(TokenAsked(h), Done \cup {c})
    BY <1>7, <1>8, <2>1, TotalSame
  <2> QED
    BY <1>7, <2>3, <2>4
<1> QED
  BY <1>8, <1>10

LEMMA ClassicTotalKept ==
  ASSUME AccountedInv,
         \A k \in ClassicCalls :
           \/ classic'[k] = classic[k]
           \/ /\ classic'[k] # NotCalled /\ classic'[k].tx # "succeeded"
              /\ classic[k] # NotCalled => classic[k].tx # "succeeded"
           \/ /\ classic[k] # NotCalled /\ classic'[k] # NotCalled
              /\ classic'[k].tx = classic[k].tx /\ classic'[k].method = classic[k].method
  PROVE  /\ KDone' = KDone
         /\ \A h \in Holders : Total(ClassicAsked(h), KDone)' = Total(ClassicAsked(h), KDone)
<1>1. KDone' = KDone
  BY DEF KDone, ClassicSent
<1>2. \A k \in KDone : classic'[k].method = classic[k].method /\ k \in ClassicSent /\ k \in ClassicSent'
  BY <1>1 DEF KDone, ClassicSent
<1>3. ASSUME NEW h \in Holders
      PROVE  Total(ClassicAsked(h), KDone)' = Total(ClassicAsked(h), KDone)
  <2>1. \A k \in KDone : ClassicAsked(h)'[k] = ClassicAsked(h)[k]
    BY <1>2 DEF ClassicAsked, ClassicMoves
  <2>2. Total(ClassicAsked(h)', KDone) = Total(ClassicAsked(h), KDone)
    BY <2>1, TotalSame DEF AccountedInv
  <2> QED
    BY <1>1, <2>2
<1> QED
  BY <1>1, <1>3

LEMMA ClassicTotalGrows ==
  ASSUME AccountedInv, NEW k \in ClassicCalls, ClassicInclude(k)
  PROVE  /\ IsFiniteSet(KDone')
         /\ \A h \in Holders :
              /\ Total(ClassicAsked(h), KDone) \in Int
              /\ Total(ClassicAsked(h), KDone)'
                   = Total(ClassicAsked(h), KDone) + ClassicMoves(classic[k].method, h)
<1>1. /\ AssetTypeOK /\ classic[k] \in ClassicCallStates /\ classic[k].tx = "pending"
      /\ classic' = [classic EXCEPT ![k].tx = "succeeded"]
  BY DEF AccountedInv, MethodInv, AssetTypeOK, ClassicInclude
<1>2. /\ classic'[k].tx = "succeeded" /\ classic'[k].method = classic[k].method
      /\ classic'[k] # NotCalled
      /\ \A j \in ClassicCalls \ {k} : classic'[j] = classic[j]
  BY <1>1 DEF AssetTypeOK, ClassicCallStates, NotCalled
<1>3. KDone' = KDone \cup {k} /\ k \notin KDone
  BY <1>1, <1>2 DEF KDone, ClassicSent
<1>4. IsFiniteSet(KDone) /\ IsFiniteSet(KDone')
  BY <1>3, FS_AddElement DEF AccountedInv
<1>5. \A j \in KDone \cup {k} : /\ j \in ClassicSent /\ j \in ClassicSent'
                                /\ classic[j].method \in ClassicMethods
                                /\ classic'[j].method = classic[j].method
  <2>1. KDone' \subseteq ClassicSent' /\ KDone \subseteq ClassicSent /\ k \in ClassicSent
    BY <1>1 DEF KDone, ClassicSent, ClassicInclude
  <2>2. \A j \in ClassicSent : classic[j].method \in ClassicMethods
    BY <1>1 DEF ClassicSent, AssetTypeOK, ClassicCallStates
  <2>3. \A j \in ClassicSent : classic'[j].method = classic[j].method
    BY <1>2 DEF ClassicSent
  <2> QED
    BY <1>3, <2>1, <2>2, <2>3
<1>6. ASSUME NEW h \in Holders
      PROVE  /\ Total(ClassicAsked(h), KDone) \in Int
             /\ Total(ClassicAsked(h), KDone)'
                  = Total(ClassicAsked(h), KDone) + ClassicMoves(classic[k].method, h)
  <2>1. \A j \in KDone \cup {k} : ClassicAsked(h)[j] = ClassicMoves(classic[j].method, h)
                              /\ ClassicAsked(h)'[j] = ClassicMoves(classic[j].method, h)
    BY <1>5 DEF ClassicAsked, ClassicMoves
  <2>2. \A j \in KDone \cup {k} : ClassicMoves(classic[j].method, h) \in Int
    BY <1>5, ClassicMovesTyped
  <2>3. /\ Total(ClassicAsked(h), KDone) \in Int
        /\ Total(ClassicAsked(h), KDone \cup {k})
             = Total(ClassicAsked(h), KDone) + ClassicMoves(classic[k].method, h)
    <3>1. \A j \in KDone \cup {k} : ClassicAsked(h)[j] \in Int
      BY <2>1, <2>2
    <3>2. ClassicAsked(h)[k] = ClassicMoves(classic[k].method, h)
      BY <2>1
    <3> QED
      BY <1>3, <1>4, <3>1, <3>2, TotalMore
  <2>4. Total(ClassicAsked(h)', KDone \cup {k}) = Total(ClassicAsked(h), KDone \cup {k})
    BY <1>3, <1>4, <2>1, TotalSame
  <2> QED
    BY <1>3, <2>3, <2>4
<1> QED
  BY <1>4, <1>6

LEMMA TokenTotalTyped ==
  ASSUME AccountedInv, NEW h \in Holders
  PROVE  Total(TokenAsked(h), Done) \in Int
<1>1. \A c \in Done : c \in TokenSent /\ method[c] \in TokenCalls
  BY DEF Done, TokenSent, AccountedInv, MethodInv
<1>2. \A c \in Done : TokenAsked(h)[c] \in Int
  BY <1>1, TokenMovesTyped DEF TokenAsked
<1> QED
  BY <1>2, TotalWithout DEF AccountedInv

LEMMA ClassicTotalTyped ==
  ASSUME AccountedInv, NEW h \in Holders
  PROVE  Total(ClassicAsked(h), KDone) \in Int
<1>1. \A k \in KDone : k \in ClassicSent /\ classic[k].method \in ClassicMethods
  BY DEF KDone, ClassicSent, AccountedInv, MethodInv, AssetTypeOK, ClassicCallStates
<1>2. \A k \in KDone : ClassicAsked(h)[k] \in Int
  BY <1>1, ClassicMovesTyped DEF ClassicAsked
<1> QED
  BY <1>2, TotalWithout DEF AccountedInv

\* Who signs, submits, loses, returns or throws moves no balance, and includes no call.
LEMMA AccountedUnmoved ==
  ASSUME AccountedInv, [AssetNext]_allAssetVars, UNCHANGED ledger,
         \A c \in Calls : \/ tx'[c] = "succeeded" <=> tx[c] = "succeeded"
                          \/ tx[c] = "pending" /\ ~OnAsset(c),
         \A k \in ClassicCalls :
           \/ classic'[k] = classic[k]
           \/ /\ classic'[k] # NotCalled /\ classic'[k].tx # "succeeded"
              /\ classic[k] # NotCalled => classic[k].tx # "succeeded"
           \/ /\ classic[k] # NotCalled /\ classic'[k] # NotCalled
              /\ classic'[k].tx = classic[k].tx /\ classic'[k].method = classic[k].method
  PROVE  AccountedInv'
<1>1. MethodInv'
  BY MethodInductive DEF AccountedInv
<1>2. /\ Done' = Done
      /\ \A h \in Holders : Total(TokenAsked(h), Done)' = Total(TokenAsked(h), Done)
  BY TokenTotalKept
<1>3. /\ KDone' = KDone
      /\ \A h \in Holders : Total(ClassicAsked(h), KDone)' = Total(ClassicAsked(h), KDone)
  BY ClassicTotalKept
<1> QED
  BY <1>1, <1>2, <1>3 DEF AccountedInv

LEMMA AccountedInductive == AccountedInv /\ [AssetNext]_allAssetVars => AccountedInv'
<1> SUFFICES ASSUME AccountedInv, [AssetNext]_allAssetVars PROVE AccountedInv'
  OBVIOUS
<1>1. /\ MethodInv /\ MethodInv' /\ KindInv /\ TypeOK /\ AssetTypeOK /\ ledger \in Ledgers
      /\ Opening \in [Holders -> Nat] /\ ledger.balance \in [Holders -> Nat]
  BY MethodInductive, AssetAssumption DEF AccountedInv, MethodInv, KindInv, AssetTypeOK, Ledgers
<1>2. CASE UNCHANGED allAssetVars
  BY <1>2, AccountedUnmoved DEF allAssetVars, assetVars, vars
<1>3. ASSUME NEW c \in Calls, TokenInclude(c), OnAsset(c) PROVE AccountedInv'
  <2>1. method[c] \in TokenCalls /\ AllowsAll(ledger, TokenOps(method[c]))
    BY <1>1, <1>3 DEF TokenInclude, Passes, OnAsset, MethodInv
  <2>2. /\ ledger' = After(ledger, TokenOps(method[c])) /\ UNCHANGED <<method, classic>>
    BY <1>3 DEF TokenInclude
  <2>3. \A h \in Holders : /\ TokenMoves(method[c], h) \in Int
                           /\ ledger'.balance[h] = ledger.balance[h] + TokenMoves(method[c], h)
    BY <1>1, <2>1, <2>2, TokenMovesBalances
  <2>4. /\ IsFiniteSet(Done')
        /\ \A h \in Holders :
             /\ Total(TokenAsked(h), Done) \in Int
             /\ Total(TokenAsked(h), Done)' = Total(TokenAsked(h), Done) + TokenMoves(method[c], h)
    BY <1>3, TokenTotalGrows
  <2>5. /\ KDone' = KDone
        /\ \A h \in Holders : Total(ClassicAsked(h), KDone)' = Total(ClassicAsked(h), KDone)
    BY <2>2, ClassicTotalKept
  <2>6. ASSUME NEW h \in Holders
        PROVE  ledger'.balance[h] = Opening[h] + Total(TokenAsked(h), Done)'
                                      + Total(ClassicAsked(h), KDone)'
    <3>1. Total(ClassicAsked(h), KDone) \in Int
      BY ClassicTotalTyped
    <3>2. ledger.balance[h] = Opening[h] + Total(TokenAsked(h), Done) + Total(ClassicAsked(h), KDone)
      BY DEF AccountedInv
    <3> QED
      BY <1>1, <2>3, <2>4, <2>5, <3>1, <3>2
  <2> QED
    BY <1>1, <2>4, <2>5, <2>6 DEF AccountedInv
<1>4. ASSUME NEW k \in ClassicCalls, ClassicInclude(k) PROVE AccountedInv'
  <2>1. classic[k].method \in ClassicMethods /\ AllowsAll(ledger, classic[k].method.ops)
    BY <1>1, <1>4 DEF ClassicInclude, AssetTypeOK, ClassicCallStates
  <2>2. /\ ledger' = After(ledger, classic[k].method.ops) /\ UNCHANGED vars
    BY <1>4 DEF ClassicInclude
  <2>3. \A h \in Holders :
          /\ ClassicMoves(classic[k].method, h) \in Int
          /\ ledger'.balance[h] = ledger.balance[h] + ClassicMoves(classic[k].method, h)
    BY <1>1, <2>1, <2>2, ClassicMovesBalances
  <2>4. /\ IsFiniteSet(KDone')
        /\ \A h \in Holders :
             /\ Total(ClassicAsked(h), KDone) \in Int
             /\ Total(ClassicAsked(h), KDone)'
                  = Total(ClassicAsked(h), KDone) + ClassicMoves(classic[k].method, h)
    BY <1>4, ClassicTotalGrows
  <2>5. /\ Done' = Done
        /\ \A h \in Holders : Total(TokenAsked(h), Done)' = Total(TokenAsked(h), Done)
    BY <2>2, TokenTotalKept DEF vars
  <2>6. ASSUME NEW h \in Holders
        PROVE  ledger'.balance[h] = Opening[h] + Total(TokenAsked(h), Done)'
                                      + Total(ClassicAsked(h), KDone)'
    <3>1. Total(TokenAsked(h), Done) \in Int
      BY TokenTotalTyped
    <3>2. ledger.balance[h] = Opening[h] + Total(TokenAsked(h), Done) + Total(ClassicAsked(h), KDone)
      BY DEF AccountedInv
    <3> QED
      BY <1>1, <2>3, <2>4, <2>5, <3>1, <3>2
  <2> QED
    BY <1>1, <2>4, <2>5, <2>6 DEF AccountedInv
<1>5. ASSUME NEW c \in Calls, TokenStep(c), ~(TokenInclude(c) /\ OnAsset(c)) PROVE AccountedInv'
  <2>1. CASE TokenInclude(c)
    <3>1. UNCHANGED <<ledger, classic>>
      BY <1>5, <2>1 DEF TokenInclude
    <3>2. tx[c] = "pending" /\ ~OnAsset(c) /\ \A d \in Calls \ {c} : tx'[d] = tx[d]
      BY <1>1, <1>5, <2>1 DEF TokenInclude, Include, TypeOK
    <3> QED
      BY <3>1, <3>2, AccountedUnmoved
  <2>2. CASE ~TokenInclude(c)
    <3>1. UNCHANGED <<ledger, classic>>
      BY <1>5, <2>2 DEF TokenStep, EngineCall, TokenCall, TokenSubmit, assetVars
    <3>2. \A d \in Calls : tx'[d] = "succeeded" <=> tx[d] = "succeeded"
      BY <1>1, <1>5, <2>2
         DEF TokenStep, EngineCall, TokenCall, TokenSubmit, Call, EntryFound, SpecLoaded,
             Submit, SimulatedOnly, AlreadyWrapped, ExecutionThrows, Return, Discard, TypeOK,
             KindInv
    <3> QED
      BY <3>1, <3>2, AccountedUnmoved
  <2> QED
    BY <2>1, <2>2
<1>6. ASSUME NEW k \in ClassicCalls, ClassicStep(k), ~ClassicInclude(k) PROVE AccountedInv'
  <2>1. UNCHANGED <<vars, ledger>>
    BY <1>6 DEF ClassicStep, ClassicCall, ClassicSubmit, ClassicDiscard, ClassicReturn,
                ClassicThrows
  <2>2. \A j \in ClassicCalls \ {k} : classic'[j] = classic[j]
    BY <1>1, <1>6 DEF ClassicStep, ClassicCall, ClassicSubmit, ClassicDiscard, ClassicReturn,
                ClassicThrows, AssetTypeOK
  <2>3. \/ /\ classic'[k] # NotCalled /\ classic'[k].tx # "succeeded"
           /\ classic[k] # NotCalled => classic[k].tx # "succeeded"
        \/ /\ classic[k] # NotCalled /\ classic'[k] # NotCalled
           /\ classic'[k].tx = classic[k].tx /\ classic'[k].method = classic[k].method
    <3>1. CASE \E m \in ClassicMethods : ClassicCall(k, m)
      BY <1>1, <3>1 DEF ClassicCall, AssetTypeOK, NotCalled
    <3>2. CASE ClassicSubmit(k) \/ ClassicDiscard(k) \/ ClassicReturn(k) \/ ClassicThrows(k)
      <4>1. classic[k] \in ClassicCallStates
        BY <1>1, <3>2 DEF ClassicSubmit, ClassicDiscard, ClassicReturn, ClassicThrows,
                          AssetTypeOK, NotCalled
      <4>2. classic[k] # NotCalled
        BY <4>1 DEF ClassicCallStates, NotCalled
      <4>3. classic'[k] # NotCalled
        BY <1>1, <3>2, <4>1 DEF ClassicSubmit, ClassicDiscard, ClassicReturn, ClassicThrows,
                          AssetTypeOK, ClassicCallStates, NotCalled
      <4> QED
        BY <1>1, <3>2, <4>1, <4>2, <4>3
           DEF ClassicSubmit, ClassicDiscard, ClassicReturn, ClassicThrows, AssetTypeOK,
               ClassicCallStates
    <3> QED
      BY <1>6, <3>1, <3>2 DEF ClassicStep
  <2> QED
    BY <2>1, <2>2, <2>3, AccountedUnmoved DEF vars
<1> QED
  BY <1>2, <1>3, <1>4, <1>5, <1>6 DEF AssetNext

LEMMA AccountedInitial == AssetInit => AccountedInv
<1> SUFFICES ASSUME AssetInit PROVE AccountedInv
  OBVIOUS
<1>1. KindInv /\ \A c \in Calls : kind[c] = "none" /\ tx[c] = "none"
  BY KindInitial DEF AssetInit, Init
<1>2. ledger = [trust |-> Opened, balance |-> Opening,
                allowance |-> [p \in Holders \X Holders |-> 0]]
  BY DEF AssetInit
<1>3. ledger \in Ledgers /\ ledger.balance = Opening
  BY <1>2, AssetAssumption DEF Ledgers
<1>4. MethodInv
  BY <1>1, <1>3 DEF AssetInit, MethodInv, AssetTypeOK, KindInv
<1>5. Done = {} /\ KDone = {}
  BY <1>1 DEF AssetInit, Done, TokenSent, KDone, ClassicSent
<1> QED
  BY <1>3, <1>4, <1>5, TotalEmpty, FS_EmptySet, AssetAssumption DEF AccountedInv

LEMMA AccountedAlways == AssetSpec => []AccountedInv
  BY AccountedInitial, AccountedInductive, PTL DEF AssetSpec

\* AssetTypeOK: methods, classic calls, balances and allowances keep their
\* types; no balance or allowance goes below zero.
THEOREM AssetTypeCorrect == AssetSpec => []AssetTypeOK
<1>1. AccountedInv => AssetTypeOK
  BY DEF AccountedInv, MethodInv
<1> QED
  BY AccountedAlways, <1>1, PTL

\* BalancesAccountForCalls: the balances are those at the start and what the
\* included calls of both handlers asked for, for any number of calls.
THEOREM BalancesAreAccounted == AssetSpec => []BalancesAccountForCalls
<1>1. AccountedInv => BalancesAccountForCalls
  <2> SUFFICES ASSUME AccountedInv PROVE BalancesAccountForCalls
    OBVIOUS
  <2>1. Done \in SUBSET TokenSent /\ KDone \in SUBSET ClassicSent
    BY DEF Done, KDone
  <2>2. \A c \in TokenSent : pc[c] = "resolved" => c \in Done
    BY DEF AccountedInv, MethodInv, TokenSent, Done
  <2>3. \A k \in ClassicSent : classic[k].state = "resolved" => k \in KDone
    BY DEF AccountedInv, MethodInv, ClassicSent, KDone
  <2>4. \A h \in Holders :
          ledger.balance[h] =
            Opening[h] + Total(TokenAsked(h), Done) + Total(ClassicAsked(h), KDone)
    BY DEF AccountedInv
  <2> QED
    BY <2>1, <2>2, <2>3, <2>4 DEF BalancesAccountForCalls
<1> QED
  BY AccountedAlways, <1>1, PTL

=============================================================================
