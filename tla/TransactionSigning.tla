------------------------- MODULE TransactionSigning -------------------------
(***************************************************************************)
(* How an envelope gets its signatures: the classic sign requirements and  *)
(* sign transaction pipelines (core/pipelines), run again by the fee bump  *)
(* plugin for its own envelope, and one Freighter account handler          *)
(* (account/account-handler/freighter) that may be among the signers.      *)
(*                                                                         *)
(* The handler remembers a public key.  A signer is looked up by its key   *)
(* before the handler asks the extension whether it is ready; the key is   *)
(* read again, for the request to sign, after the answer.  Loads, calls of *)
(* connect and loadPublicKey, and disconnect write it at any time.         *)
(*                                                                         *)
(* Between two questions to the extension its user may install it, allow   *)
(* the application, change network or account: each answer is a choice.    *)
(* So is which signers a caller passes.  A transaction's operations are    *)
(* chosen as the loop over them goes.  Left out are their contents, and    *)
(* the levels of signatures, which signing ignores too.                    *)
(***************************************************************************)
EXTENDS Integers, Sequences, FiniteSets

CONSTANTS
  Jobs,            \* classic transactions
  Accounts,
  NoKey,           \* the empty public key
  Connects,        \* the application's calls of connect and loadPublicKey
  MaxOperations,   \* bound on the different operations of one
  Fees             \* in stroops; of transactions, and per operation of headers

ASSUME SigningAssumption ==
  /\ NoKey \notin Accounts /\ "source" \notin Accounts
  /\ Jobs \cap Connects = {}
  /\ MaxOperations \in Nat
  /\ Fees \subseteq Nat \ {0}

-----------------------------------------------------------------------------
(* Requirements.                                                           *)

low == 1
medium == 2
high == 3

\* Each kind stands for those that the code treats alike.  A setOptions with
\* weights or thresholds differs from one where all that are set are zero.
ListedKinds == {"allowTrust", "payment", "setOptions", "setOptionsZero",
                "setOptionsWeights", "accountMerge"}
OperationKinds == ListedKinds \cup {"invokeHostFunction"}

Operations == [type : OperationKinds, source : Accounts \cup {"source"}]
Requirements == [publicKey : Accounts, thresholdLevel : {low, medium, high}]

\* The switch of getRequiredSignatureThresholdForClassicOperation, which tests
\* the fields of setOptions for truth.
Threshold(type) ==
  IF type = "allowTrust" THEN low
  ELSE IF type \in {"setOptionsWeights", "accountMerge"} THEN high
  ELSE medium

\* Mutant: the word that stands for the transaction's source is kept.
SourceKept(bundled, operation) == operation.source

\* The first of the requirements is that of the transaction's source.
SourceOf(bundled, operation) ==
  IF operation.source = "source" THEN bundled[1].publicKey ELSE operation.source

\* Mutant: a later requirement replaces an earlier one of the account.
BundleLast(bundled, requirement) ==
  IF \E i \in DOMAIN bundled : bundled[i].publicKey = requirement.publicKey
  THEN [i \in DOMAIN bundled |->
          IF bundled[i].publicKey = requirement.publicKey THEN requirement ELSE bundled[i]]
  ELSE Append(bundled, requirement)

\* A round of the loop of bundleSignatureRequirements.
Bundle(bundled, requirement) ==
  IF \E i \in DOMAIN bundled : bundled[i].publicKey = requirement.publicKey
  THEN [i \in DOMAIN bundled |->
          IF bundled[i].publicKey = requirement.publicKey
             /\ requirement.thresholdLevel > bundled[i].thresholdLevel
          THEN requirement ELSE bundled[i]]
  ELSE Append(bundled, requirement)

TransactionRequirement(source) == [publicKey |-> source, thresholdLevel |-> medium]

FeeBumpRequirement(feeSource) == [publicKey |-> feeSource, thresholdLevel |-> low]

\* The least power of ten above a fee tells how many digits it has.
above[fee \in Nat] == IF fee < 10 THEN 10 ELSE 10 * above[fee \div 10]

\* '>=' on two fees, which are strings: the first digit that differs decides, and
\* when one string begins the other the longer is the greater.
StringAtLeast(a, b) ==
  LET x == a * above[b]
      y == b * above[a]
  IN x > y \/ (x = y /\ a >= b)

-----------------------------------------------------------------------------
VARIABLES
  publicKey,      \* of the Freighter handler
  load,           \* a load of that key -> what it awaits
  stage,          \* job -> what it awaits, or how it ended
  envelope,       \* job -> the envelope being signed
  requirements,   \* job -> those of that envelope
  at,             \* job -> the requirement it is at
  request,        \* job -> the account it asked the extension to sign for
  signatures,     \* job -> the signers of each of its envelopes
  bump,           \* job -> the fees that the plugin compared, and its verdict
  operations,     \* job -> those looped over, until it signs; history
  required,       \* job -> whose signatures each envelope required; history
  rekeyed         \* job -> the key was written since the handler was found; history

handler == <<publicKey, load>>
signing == <<stage, envelope, requirements, at, request, signatures, bump>>
history == <<operations, required>>
vars == <<handler, signing, history, rekeyed>>

\* A job's failed check of the extension calls connect, once: that load has
\* the name of the job.
Loads == Connects \cup Jobs
Envelopes == {"transaction", "feeBump"}

TypeOK ==
  /\ publicKey \in Accounts \cup {NoKey}
  /\ load \in [Loads -> {"idle", "loading", "over"}]
  /\ stage \in [Jobs -> {"idle", "bundling", "signing", "checking", "extension",
                        "resolved", "rejected"}]
  /\ envelope \in [Jobs -> Envelopes]
  /\ requirements \in [Jobs -> Seq(Requirements)]
  /\ at \in [Jobs -> Nat \ {0}]
  /\ request \in [Jobs -> Accounts \cup {NoKey}]
  /\ signatures \in [Jobs -> [Envelopes -> SUBSET Accounts]]
  /\ bump \in [Jobs -> [same : BOOLEAN, fee : Fees \cup {0}, header : Fees \cup {0}]]
  /\ operations \in [Jobs -> SUBSET Operations]
  /\ required \in [Jobs -> [Envelopes -> SUBSET Accounts]]
  /\ rekeyed \in [Jobs -> BOOLEAN]

Init ==
  /\ publicKey = NoKey
  /\ load = [l \in Loads |-> "idle"]
  /\ stage = [j \in Jobs |-> "idle"]
  /\ envelope = [j \in Jobs |-> "transaction"]
  /\ requirements = [j \in Jobs |-> <<>>]
  /\ at = [j \in Jobs |-> 1]
  /\ request = [j \in Jobs |-> NoKey]
  /\ signatures = [j \in Jobs |-> [e \in Envelopes |-> {}]]
  /\ bump = [j \in Jobs |-> [same |-> FALSE, fee |-> 0, header |-> 0]]
  /\ operations = [j \in Jobs |-> {}]
  /\ required = [j \in Jobs |-> [e \in Envelopes |-> {}]]
  /\ rekeyed = [j \in Jobs |-> FALSE]

Go(j, where) == stage' = [stage EXCEPT ![j] = where]
GoLoad(l, where) == load' = [load EXCEPT ![l] = where]

-----------------------------------------------------------------------------
(* The handler's key.                                                      *)

Write(key) ==
  /\ publicKey' = key
  /\ rekeyed' = [j \in Jobs |-> rekeyed[j] \/ (stage[j] = "checking" /\ key # publicKey)]
  /\ UNCHANGED <<signing, history>>

\* connect, or loadPublicKey, which await isFreighterConnected: installed,
\* allowed and on the right network.  With enforceConnection and a callback a
\* check that finds no permission asks the user for it, and then loads again:
\* the same load, that takes longer.
Connect(l) ==
  /\ l \in Connects /\ load[l] = "idle"
  /\ GoLoad(l, "loading")
  /\ UNCHANGED <<publicKey, signing, history, rekeyed>>

\* The extension is not ready, or the user does not give the key.
LoadEnds(l) ==
  /\ load[l] = "loading"
  /\ GoLoad(l, "over")
  /\ UNCHANGED <<publicKey, signing, history, rekeyed>>

\* The extension gives the key of the account that is selected.
KeyLoaded(l) ==
  /\ load[l] = "loading"
  /\ GoLoad(l, "over")
  /\ \E key \in Accounts : Write(key)

Disconnect == Write(NoKey) /\ UNCHANGED load

-----------------------------------------------------------------------------
(* Signing.                                                                *)

Current(j) == requirements[j][at[j]].publicKey
Keys(rs) == {rs[i].publicKey : i \in DOMAIN rs}

\* process() of the requirements pipeline: the source, then each operation.
Start(j, source) ==
  /\ stage[j] = "idle"
  /\ requirements' = [requirements EXCEPT ![j] = <<TransactionRequirement(source)>>]
  /\ Go(j, "bundling")
  /\ UNCHANGED <<handler, envelope, at, request, signatures, bump, history, rekeyed>>

\* Operations of the types that are not listed, those of contracts among them,
\* require nothing.
NextOperation(j, operation) ==
  /\ stage[j] = "bundling"
  /\ Cardinality(operations[j] \cup {operation}) <= MaxOperations
  /\ operations' = [operations EXCEPT ![j] = @ \cup {operation}]
  /\ requirements' =
       IF operation.type \in ListedKinds
       THEN [requirements EXCEPT ![j] =
               Bundle(@, [publicKey |-> SourceOf(@, operation),
                          thresholdLevel |-> Threshold(operation.type)])]
       ELSE requirements
  /\ UNCHANGED <<handler, stage, envelope, at, request, signatures, bump, required, rekeyed>>

Bundled(j) ==
  /\ stage[j] = "bundling"
  /\ operations' = [operations EXCEPT ![j] = {}]
  /\ required' = [required EXCEPT ![j]["transaction"] = Keys(requirements[j])]
  /\ Go(j, "signing")
  /\ UNCHANGED <<handler, envelope, requirements, at, request, signatures, bump, rekeyed>>

Sign(j, key) ==
  /\ signatures' = [signatures EXCEPT ![j][envelope[j]] = @ \cup {key}]
  /\ at' = [at EXCEPT ![j] = @ + 1]

Unsigned(j) == stage[j] = "signing" /\ at[j] \in DOMAIN requirements[j]

\* A signer with the required key is found, and signs.
LocalSigner(j) ==
  /\ Unsigned(j)
  /\ Sign(j, Current(j))
  /\ UNCHANGED <<handler, stage, envelope, requirements, request, bump, history, rekeyed>>

\* No signer is found, or it has a signature schema, or throws.
SignerMissing(j) ==
  /\ Unsigned(j)
  /\ Go(j, "rejected")
  /\ UNCHANGED <<handler, envelope, requirements, at, request, signatures, bump, history, rekeyed>>

\* Mutant: the handler is taken for the signer whatever its key.
FreighterFoundByPlace(j) ==
  /\ Unsigned(j)
  /\ Go(j, "checking")
  /\ UNCHANGED <<handler, envelope, requirements, at, request, signatures, bump, history, rekeyed>>

\* The signer found is the Freighter handler: sign awaits isFreighterConnected.
FreighterFound(j) ==
  /\ Unsigned(j) /\ publicKey = Current(j)
  /\ Go(j, "checking")
  /\ UNCHANGED <<handler, envelope, requirements, at, request, signatures, bump, history, rekeyed>>

\* The extension is ready and is asked to sign for the account of the handler.
FreighterReady(j) ==
  /\ stage[j] = "checking"
  /\ request' = [request EXCEPT ![j] = publicKey]
  /\ Go(j, "extension")
  /\ UNCHANGED <<handler, envelope, requirements, at, signatures, bump, history, rekeyed>>

\* It is not: sign throws, and has called connect without awaiting it.
FreighterNotReady(j) ==
  /\ stage[j] = "checking"
  /\ Go(j, "rejected")
  /\ GoLoad(j, "loading")
  /\ UNCHANGED <<publicKey, envelope, requirements, at, request, signatures, bump,
                 history, rekeyed>>

\* The extension signs for the account it was asked to, or, asked for none, for
\* the one that is selected.
ExtensionSigns(j) ==
  /\ stage[j] = "extension"
  /\ \E key \in Accounts :
       (request[j] = NoKey \/ key = request[j]) /\ Sign(j, key)
  /\ Go(j, "signing")
  /\ UNCHANGED <<handler, envelope, requirements, request, bump, history, rekeyed>>

ExtensionRefuses(j) ==
  /\ stage[j] = "extension"
  /\ Go(j, "rejected")
  /\ UNCHANGED <<handler, envelope, requirements, at, request, signatures, bump, history, rekeyed>>

Signed(j) == stage[j] = "signing" /\ at[j] \notin DOMAIN requirements[j]

\* There is no fee bump plugin, or the envelope is its own.
Submit(j) ==
  /\ Signed(j)
  /\ Go(j, "resolved")
  /\ UNCHANGED <<handler, envelope, requirements, at, request, signatures, bump, history, rekeyed>>

\* The fee bump pipeline and the requirements of its envelope.
Wrap(j, feeSource) ==
  LET requirement == FeeBumpRequirement(feeSource)
  IN /\ envelope' = [envelope EXCEPT ![j] = "feeBump"]
     /\ requirements' = [requirements EXCEPT ![j] = <<requirement>>]
     /\ at' = [at EXCEPT ![j] = 1]
     /\ required' = [required EXCEPT ![j]["feeBump"] = {feeSource}]

\* Mutant: the fee of the same payer may only stay the same or fall.
FeeBumpInverted(j, fee, source, header) ==
  /\ Signed(j) /\ envelope[j] = "transaction"
  /\ LET same == source = requirements[j][1].publicKey
     IN /\ bump' = [bump EXCEPT ![j] = [same |-> same, fee |-> fee, header |-> header]]
        /\ IF same /\ StringAtLeast(header, fee)
           THEN Go(j, "resolved") /\ UNCHANGED <<envelope, requirements, at, required>>
           ELSE Wrap(j, source) /\ UNCHANGED stage
  /\ UNCHANGED <<handler, request, signatures, operations, rekeyed>>

\* preProcess of the plugin: a bump that has no effect is not made.  The payer
\* of the transaction is the first of its requirements.
FeeBump(j, fee, source, header) ==
  /\ Signed(j) /\ envelope[j] = "transaction"
  /\ LET same == source = requirements[j][1].publicKey
     IN /\ bump' = [bump EXCEPT ![j] = [same |-> same, fee |-> fee, header |-> header]]
        /\ IF same /\ StringAtLeast(fee, header)
           THEN Go(j, "resolved") /\ UNCHANGED <<envelope, requirements, at, required>>
           ELSE Wrap(j, source) /\ UNCHANGED stage
  /\ UNCHANGED <<handler, request, signatures, operations, rekeyed>>

\* The library finds the header's fee too low to wrap the transaction.
WrapThrows(j) ==
  /\ Signed(j) /\ envelope[j] = "transaction"
  /\ Go(j, "rejected")
  /\ UNCHANGED <<handler, envelope, requirements, at, request, signatures, bump, history, rekeyed>>

-----------------------------------------------------------------------------
Handler ==
  \/ \E l \in Loads : Connect(l) \/ LoadEnds(l) \/ KeyLoaded(l)
  \/ Disconnect

Job(j) ==
  \/ \E source \in Accounts : Start(j, source)
  \/ \E operation \in Operations : NextOperation(j, operation)
  \/ Bundled(j)
  \/ LocalSigner(j) \/ SignerMissing(j)
  \/ FreighterFound(j) \/ FreighterReady(j) \/ FreighterNotReady(j)
  \/ ExtensionSigns(j) \/ ExtensionRefuses(j)
  \/ \E fee \in Fees, source \in Accounts, header \in Fees : FeeBump(j, fee, source, header)
  \/ WrapThrows(j) \/ Submit(j)

Next == Handler \/ \E j \in Jobs : Job(j)

Spec == Init /\ [][Next]_vars

-----------------------------------------------------------------------------
(* Properties *)

\* The network's thresholds: setOptions that touches signers or thresholds,
\* whatever it sets them to, is high; every operation counts.
NetworkThreshold(type) ==
  IF type = "allowTrust" THEN low
  ELSE IF type \in {"payment", "setOptions", "invokeHostFunction"} THEN medium
  ELSE high

Understated == {"setOptionsZero", "invokeHostFunction"}

\* What the operations so far ask of an account.  Of the source the code asks
\* medium at least, where low would do for the transaction itself.
Thresholds(j, a) ==
  LET source == requirements[j][1].publicKey
      Uses(operation) == operation.source = a \/ (operation.source = "source" /\ a = source)
  IN {NetworkThreshold(operation.type) : operation \in {o \in operations[j] : Uses(o)}}
       \cup (IF a = source THEN {medium} ELSE {})

\* "The necessary signatures to validate the transaction": the bundle names each
\* account that the network will ask for a signature, once, with the highest
\* threshold it will ask for, whatever the operations and their order; but for
\* the kinds the code understates (setOptions with zeros, contract operations).
RequirementsAreThresholds ==
  \A j \in Jobs :
    stage[j] = "bundling" /\ (\A operation \in operations[j] : operation.type \notin Understated) =>
      /\ \A i, k \in DOMAIN requirements[j] :
           requirements[j][i].publicKey = requirements[j][k].publicKey => i = k
      /\ {requirements[j][i] : i \in DOMAIN requirements[j]} =
           {r \in Requirements : r.thresholdLevel \in Thresholds(j, r.publicKey)
              /\ \A t \in Thresholds(j, r.publicKey) : t <= r.thresholdLevel}

\* "Throwing an error in case a signer is missing": an envelope that is handed
\* on has the required signatures and no other, the one inside a fee bump too,
\* although nobody looks at what a signer signed; unless the handler connected
\* or disconnected between being found and asking the extension.
SignedAsRequired ==
  \A j \in Jobs :
    stage[j] = "resolved" /\ ~rekeyed[j] =>
      \A e \in {"transaction", envelope[j]} : signatures[j][e] = required[j][e]

\* "A fee bump for the same source account is only effective if the fee is
\* increased": the plugin bumps exactly when it is, or another account pays.
\* Fees are compared as strings, so this is of fees with as many digits.
BumpedWhenEffective ==
  \A j \in Jobs :
    LET b == bump[j]
    IN stage[j] = "resolved" /\ b.fee # 0 /\ above[b.fee] = above[b.header] =>
         (envelope[j] = "feeBump" <=> ~b.same \/ b.header > b.fee)

=============================================================================
