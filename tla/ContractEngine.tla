--------------------------- MODULE ContractEngine ---------------------------
(***************************************************************************)
(* One ContractEngine object (core/contract-engine) and the calls made to  *)
(* it.  The engine remembers a contract id, a wasm hash and a spec.  Every *)
(* method checks what it requires and reads the registers before its first *)
(* await, and writes a register after its last: calls that overlap see the *)
(* registers of their beginning and overwrite those of the moment.         *)
(*                                                                         *)
(* The execution of a transaction is what TransactionPipelines promises of *)
(* it: it returns only once a ledger included the transaction with success *)
(* (ReturnedMeansSucceeded), and may reject at any time, with the          *)
(* transaction pending or included.  Left out are arguments, outputs, the   *)
(* contents of contracts, and whether an entry is archived: that makes a   *)
(* simulation fail, as anything may.                                       *)
(***************************************************************************)
CONSTANTS
  Calls,   \* calls of the engine's methods; a deploy's name is its contract's
  Assets   \* classic assets, each named as the contract that wraps it

Hashes == {"givenCode", "ownCode"}   \* the constructor's, and that of the wasm
Contracts == {"givenContract"} \cup Calls \cup Assets
LedgerEntries == Hashes \cup Contracts

Kinds == {"upload", "deploy", "wrap", "invoke", "read",
          "restoreInstance", "restoreCode", "loadSpec"}

ASSUME EngineAssumption ==
  /\ Calls \cap Assets = {}
  /\ (Calls \cup Assets) \cap (Hashes \cup {"none", "givenContract"}) = {}
  /\ Assets # {}

VARIABLES
  constructed,   \* contractParameters, as the constructor got them
  contractId,    \* the engine's registers; the wasm never changes
  wasmHash,
  spec,
  kind,          \* call -> its method
  simulateOnly,  \* call -> its option
  target,        \* call -> the entry it uses or makes, read when it began
  pc,            \* call -> what it awaits, or how it ended
  tx,            \* call -> its transaction on the network
  entries        \* code and contract instances on the ledger, live or archived

registers == <<contractId, wasmHash, spec>>
callVars == <<kind, simulateOnly, target>>
vars == <<constructed, registers, callVars, pc, tx, entries>>

Parameters == [contractId : {"none", "givenContract"}, wasmHash : {"none", "givenCode"},
               spec : {"none", "given"}, wasm : BOOLEAN]

TypeOK ==
  /\ constructed \in Parameters
  /\ contractId \in Contracts \cup {"none"}
  /\ wasmHash \in Hashes \cup {"none"}
  /\ spec \in {"none", "given", "own"}
  /\ kind \in [Calls -> Kinds \cup {"none"}]
  /\ simulateOnly \in [Calls -> BOOLEAN]
  /\ target \in [Calls -> LedgerEntries \cup {"none"}]
  /\ pc \in [Calls -> {"idle", "reading", "simulating", "executing", "compiling",
                       "resolved", "rejected"}]
  /\ tx \in [Calls -> {"none", "pending", "succeeded", "failed"}]
  /\ entries \subseteq LedgerEntries

\* What the constructor is given exists; the wasm may have been uploaded, and
\* assets wrapped, by others.
Init ==
  /\ constructed \in Parameters
  /\ contractId = constructed.contractId
  /\ wasmHash = constructed.wasmHash
  /\ spec = constructed.spec
  /\ kind = [c \in Calls |-> "none"]
  /\ simulateOnly = [c \in Calls |-> FALSE]
  /\ target = [c \in Calls |-> "none"]
  /\ pc = [c \in Calls |-> "idle"]
  /\ tx = [c \in Calls |-> "none"]
  /\ \E made \in SUBSET ({"ownCode"} \cup Assets) :
       entries = {"givenCode", "givenContract"} \cup made

Go(c, where) == pc' = [pc EXCEPT ![c] = where]

-----------------------------------------------------------------------------
(* The calls.                                                              *)

\* requireContractId, requireNoContractId, requireWasm, requireWasmHash and
\* requireSpec.
RequirementsMet(k) ==
  /\ k \in {"upload", "loadSpec"} => constructed.wasm
  /\ k \in {"deploy", "restoreInstance", "restoreCode"} => wasmHash # "none"
  /\ k = "wrap" => contractId = "none"
  /\ k \in {"invoke", "read", "restoreInstance"} => contractId # "none"
  /\ k \in {"invoke", "read"} => spec # "none"

\* The entry that a call of kind k, for asset a if it wraps one, is about.
Target(k, a) ==
  CASE k = "upload" -> "ownCode"
    [] k \in {"deploy", "restoreCode"} -> wasmHash
    [] k = "wrap" -> a
    [] k \in {"invoke", "read", "restoreInstance"} -> contractId
    [] k = "loadSpec" -> "none"

FirstAwait(k) ==
  CASE k \in {"restoreInstance", "restoreCode"} -> "reading"
    [] k = "loadSpec" -> "compiling"
    [] OTHER -> "simulating"

\* Some methods set simulateOnly themselves, or have no options.
MayBeCalled(k, only) == (k = "read" => only) /\ (k \in {"invoke", "loadSpec"} => ~only)

\* A method runs to its first await; or it rejects: a requirement is not met,
\* or the arguments have no spec or do not fit it.
Call(c, k, only, a) ==
  /\ pc[c] = "idle" /\ MayBeCalled(k, only)
  /\ kind' = [kind EXCEPT ![c] = k]
  /\ simulateOnly' = [simulateOnly EXCEPT ![c] = only]
  /\ target' = [target EXCEPT ![c] = Target(k, a)]
  /\ \/ RequirementsMet(k) /\ Go(c, FirstAwait(k))
     \/ (RequirementsMet(k) => k \in {"deploy", "invoke", "read"}) /\ Go(c, "rejected")
  /\ UNCHANGED <<constructed, registers, tx, entries>>

Called(c) == \E k \in Kinds, only \in BOOLEAN, a \in Assets : Call(c, k, only, a)

\* getLedgerEntries finds the entry to restore.  It may miss an archived one
\* (ExecutionThrows).
EntryFound(c) ==
  /\ pc[c] = "reading" /\ target[c] \in entries
  /\ Go(c, "simulating")
  /\ UNCHANGED <<constructed, registers, callVars, tx, entries>>

\* The contract's spec is in the wasm, or is not (ExecutionThrows).
SpecLoaded(c) ==
  /\ pc[c] = "compiling"
  /\ spec' = "own"
  /\ Go(c, "resolved")
  /\ UNCHANGED <<constructed, contractId, wasmHash, callVars, tx, entries>>

-----------------------------------------------------------------------------
(* Their transactions.                                                     *)

\* The ledger, as it is, may let the transaction of c succeed.
Possible(c) ==
  CASE kind[c] = "upload" -> TRUE
    [] kind[c] = "wrap" -> target[c] \notin entries
    [] OTHER -> target[c] \in entries

\* What the transaction makes.  Code that is there may be uploaded again.
Made(c) ==
  CASE kind[c] \in {"upload", "wrap"} -> {target[c]}
    [] kind[c] = "deploy" -> {c}
    [] OTHER -> {}

\* The simulation succeeds and the transaction is submitted.
Submit(c) ==
  /\ pc[c] = "simulating" /\ Possible(c) /\ ~simulateOnly[c]
  /\ Go(c, "executing")
  /\ tx' = [tx EXCEPT ![c] = "pending"]
  /\ UNCHANGED <<constructed, registers, callVars, entries>>

\* With simulateOnly the pipeline returns after the simulation.  Upload, deploy
\* and wrap look for the output of a transaction then, and reject.
SimulatedOnly(c) ==
  /\ pc[c] = "simulating" /\ Possible(c) /\ simulateOnly[c]
  /\ Go(c, IF kind[c] \in {"upload", "deploy", "wrap"} THEN "rejected" ELSE "resolved")
  /\ UNCHANGED <<constructed, registers, callVars, tx, entries>>

\* Mutant: the id in the simulation's error is not stored.
AlreadyWrappedForgotten(c) ==
  /\ pc[c] = "simulating" /\ kind[c] = "wrap" /\ target[c] \in entries
  /\ Go(c, "resolved")
  /\ UNCHANGED <<constructed, registers, callVars, tx, entries>>

\* The simulation's error says that the asset's contract exists, and which it is.
AlreadyWrapped(c) ==
  /\ pc[c] = "simulating" /\ kind[c] = "wrap" /\ target[c] \in entries
  /\ contractId' = target[c]
  /\ Go(c, "resolved")
  /\ UNCHANGED <<constructed, wasmHash, spec, callVars, tx, entries>>

\* The request, the simulation or a later part of the execution fails, the
\* transaction's fate notwithstanding; or the output cannot be extracted.
ExecutionThrows(c) ==
  /\ pc[c] \in {"reading", "compiling", "simulating", "executing"}
  /\ Go(c, "rejected")
  /\ UNCHANGED <<constructed, registers, callVars, tx, entries>>

\* Mutant: the outcome of the transaction is not waited for.
ReturnAfterSubmission(c) ==
  /\ pc[c] = "executing" /\ tx[c] \in {"pending", "succeeded"}
  /\ contractId' = CASE kind[c] = "deploy" -> c
                     [] kind[c] = "wrap" -> target[c]
                     [] OTHER -> contractId
  /\ wasmHash' = IF kind[c] = "upload" THEN target[c] ELSE wasmHash
  /\ Go(c, "resolved")
  /\ UNCHANGED <<constructed, spec, callVars, tx, entries>>

\* Mutant: upload and deploy store their hash where the contract id belongs.
ReturnStoresTarget(c) ==
  /\ pc[c] = "executing" /\ tx[c] = "succeeded"
  /\ contractId' = IF kind[c] \in {"upload", "deploy", "wrap"} THEN target[c] ELSE contractId
  /\ Go(c, "resolved")
  /\ UNCHANGED <<constructed, wasmHash, spec, callVars, tx, entries>>

\* Mutant: deploy forgets the hash that it used.
ReturnConsumesHash(c) ==
  /\ pc[c] = "executing" /\ tx[c] = "succeeded"
  /\ contractId' = CASE kind[c] = "deploy" -> c
                     [] kind[c] = "wrap" -> target[c]
                     [] OTHER -> contractId
  /\ wasmHash' = CASE kind[c] = "upload" -> target[c]
                   [] kind[c] = "deploy" -> "none"
                   [] OTHER -> wasmHash
  /\ Go(c, "resolved")
  /\ UNCHANGED <<constructed, spec, callVars, tx, entries>>

\* The pipeline returns, and the method stores what the transaction made.
Return(c) ==
  /\ pc[c] = "executing" /\ tx[c] = "succeeded"
  /\ CASE kind[c] = "upload" -> wasmHash' = target[c] /\ UNCHANGED contractId
       [] kind[c] = "deploy" -> contractId' = c /\ UNCHANGED wasmHash
       [] kind[c] = "wrap" -> contractId' = target[c] /\ UNCHANGED wasmHash
       [] OTHER -> UNCHANGED <<contractId, wasmHash>>
  /\ Go(c, "resolved")
  /\ UNCHANGED <<constructed, spec, callVars, tx, entries>>

Method(c) ==
  \/ Called(c)
  \/ EntryFound(c) \/ SpecLoaded(c)
  \/ Submit(c) \/ SimulatedOnly(c) \/ AlreadyWrapped(c)
  \/ ExecutionThrows(c) \/ Return(c)

-----------------------------------------------------------------------------
(* The ledger.                                                             *)

\* A ledger includes the transaction.
Include(c) ==
  /\ tx[c] = "pending" /\ Possible(c)
  /\ tx' = [tx EXCEPT ![c] = "succeeded"]
  /\ entries' = entries \cup Made(c)
  /\ UNCHANGED <<constructed, registers, callVars, pc>>

\* The network refuses or forgets the transaction, or a ledger includes it and
\* it fails.
Discard(c) ==
  /\ tx[c] = "pending"
  /\ tx' = [tx EXCEPT ![c] = "failed"]
  /\ UNCHANGED <<constructed, registers, callVars, pc, entries>>

Next == \E c \in Calls : Method(c) \/ Include(c) \/ Discard(c)

Spec == Init /\ [][Next]_vars

-----------------------------------------------------------------------------
(* Properties *)

\* The engine never remembers a contract or code that is not on the ledger,
\* however calls overlap, fail half way or only simulate.
RegisteredOnLedger ==
  /\ contractId # "none" => contractId \in entries
  /\ wasmHash # "none" => wasmHash \in entries

\* "It would've been necessary to either initiate the instance with this
\* argument or to have performed an uploadWasm": whatever the engine deployed,
\* registered or not, is an instance of code on the ledger, that it was given at
\* construction or has uploaded and still has registered, however deploys overlap
\* uploads and one another.
DeployedRunsUploaded ==
  \A c \in Calls : kind[c] = "deploy" /\ c \in entries =>
    target[c] \in entries /\ target[c] \in {constructed.wasmHash, wasmHash}

Resolved(k) == {c \in Calls : kind[c] = k /\ pc[c] = "resolved"}

\* What the wraps and deploys that resolved have put into the register.
Stored == {target[c] : c \in Resolved("wrap")} \cup Resolved("deploy")

\* After a wrap or a deploy that resolved, the engine has the contract of one
\* that did, made by it, there before, or made by a call that was rejected: never
\* that of a call that overlapped it and failed, nor the one of the construction,
\* nor none.
StoredIsRegistered == Stored # {} => contractId \in Stored

=============================================================================
