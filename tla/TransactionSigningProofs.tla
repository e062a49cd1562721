---------------------- MODULE TransactionSigningProofs ----------------------
(***************************************************************************)
(* Theorems on TransactionSigning, for any transactions of any number of   *)
(* operations, any accounts and any connections.                           *)
(***************************************************************************)
EXTENDS TransactionSigning, WellFoundedInduction, TLAPS

\* One round of the bundling loop keeps a list of requirements one, and its
\* first account.
LEMMA BundleTyped ==
  ASSUME NEW bundled \in Seq(Requirements), bundled # <<>>, NEW r \in Requirements
  PROVE  /\ Bundle(bundled, r) \in Seq(Requirements)
         /\ Bundle(bundled, r) # <<>>
         /\ Bundle(bundled, r)[1].publicKey = bundled[1].publicKey
<1>1. Len(bundled) \in Nat /\ Len(bundled) >= 1 /\ DOMAIN bundled = 1..Len(bundled)
  OBVIOUS
<1>2. \A i \in DOMAIN bundled : bundled[i] \in Requirements
  OBVIOUS
<1>3. CASE \E i \in DOMAIN bundled : bundled[i].publicKey = r.publicKey
  <2> DEFINE b == [i \in DOMAIN bundled |->
                     IF bundled[i].publicKey = r.publicKey
                        /\ r.thresholdLevel > bundled[i].thresholdLevel
                     THEN r ELSE bundled[i]]
  <2>1. Bundle(bundled, r) = b
    BY <1>3 DEF Bundle
  <2>2. \A i \in 1..Len(bundled) : b[i] \in Requirements
    BY <1>1, <1>2
  <2>3. DOMAIN b = 1..Len(bundled) /\ b \in [1..Len(bundled) -> Requirements]
    BY <1>1, <2>2
  <2>4. b \in Seq(Requirements) /\ Len(b) = Len(bundled)
    BY <1>1, <2>3
  <2>5. b[1].publicKey = bundled[1].publicKey
    BY <1>1
  <2> HIDE DEF b
  <2> QED
    BY <1>1, <2>1, <2>4, <2>5
<1>4. CASE ~ \E i \in DOMAIN bundled : bundled[i].publicKey = r.publicKey
  <2>1. Bundle(bundled, r) = Append(bundled, r)
    BY <1>4 DEF Bundle
  <2> QED
    BY <1>1, <2>1
<1> QED
  BY <1>3, <1>4

\* The requirement of an operation names an account.
LEMMA OperationRequires ==
  ASSUME NEW bundled \in Seq(Requirements), bundled # <<>>,
         NEW o \in Operations, o.type \in ListedKinds
  PROVE  /\ SourceOf(bundled, o) \in Accounts
         /\ [publicKey |-> SourceOf(bundled, o), thresholdLevel |-> Threshold(o.type)]
              \in Requirements
<1>1. bundled[1] \in Requirements
  OBVIOUS
<1>2. SourceOf(bundled, o) \in Accounts
  BY <1>1 DEF SourceOf, Operations, Requirements
<1>3. Threshold(o.type) \in {low, medium, high}
  BY DEF Threshold, ListedKinds
<1> QED
  BY <1>2, <1>3 DEF Requirements

\* Requirements name accounts.
LEMMA KeysTyped ==
  ASSUME NEW rs \in Seq(Requirements)
  PROVE  /\ Keys(rs) \subseteq Accounts
         /\ \A i \in DOMAIN rs : rs[i].publicKey \in Accounts
<1>1. \A i \in DOMAIN rs : rs[i] \in Requirements
  OBVIOUS
<1>2. \A r \in Requirements : r.publicKey \in Accounts
  BY DEF Requirements
<1> QED
  BY <1>1, <1>2 DEF Keys

-----------------------------------------------------------------------------
(* Types.                                                                  *)

\* Once its loop began, a job has a requirement.
TypedInv ==
  /\ TypeOK
  /\ \A j \in Jobs : stage[j] # "idle" => requirements[j] # <<>>

LEMMA HandlerKeepsTypes ==
  ASSUME TypedInv, Handler
  PROVE  TypedInv'
<1> USE DEF TypedInv, TypeOK
<1>1. ASSUME NEW l \in Loads, Connect(l) \/ LoadEnds(l) \/ KeyLoaded(l)
      PROVE  TypedInv'
  BY <1>1 DEF Connect, LoadEnds, KeyLoaded, Write, GoLoad, signing, history
<1>2. CASE Disconnect
  BY <1>2 DEF Disconnect, Write, signing, history
<1> QED
  BY <1>1, <1>2 DEF Handler

LEMMA RequirementsKeepTypes ==
  ASSUME TypedInv, NEW j \in Jobs,
         \/ \E source \in Accounts : Start(j, source)
         \/ \E operation \in Operations : NextOperation(j, operation)
         \/ Bundled(j)
  PROVE  TypedInv'
<1> USE DEF TypedInv, TypeOK
<1>1. ASSUME NEW source \in Accounts, Start(j, source) PROVE TypedInv'
  <2>1. TransactionRequirement(source) \in Requirements
    BY DEF TransactionRequirement, Requirements
  <2>2. <<TransactionRequirement(source)>> \in Seq(Requirements)
        /\ <<TransactionRequirement(source)>> # <<>>
    BY <2>1
  <2> QED
    BY <1>1, <2>2 DEF Start, Go, handler, history
<1>2. ASSUME NEW operation \in Operations, NextOperation(j, operation) PROVE TypedInv'
  <2>1. requirements[j] \in Seq(Requirements) /\ requirements[j] # <<>>
    BY <1>2 DEF NextOperation
  <2>2. requirements' \in [Jobs -> Seq(Requirements)] /\ requirements'[j] # <<>>
        /\ \A k \in Jobs : k # j => requirements'[k] = requirements[k]
    <3>1. CASE operation.type \in ListedKinds
      <4> DEFINE r == [publicKey |-> SourceOf(requirements[j], operation),
                       thresholdLevel |-> Threshold(operation.type)]
      <4>1. requirements' = [requirements EXCEPT ![j] = Bundle(requirements[j], r)]
        BY <1>2, <3>1 DEF NextOperation
      <4>2. r \in Requirements
        BY <2>1, <3>1, OperationRequires
      <4> HIDE DEF r
      <4>3. Bundle(requirements[j], r) \in Seq(Requirements) /\ Bundle(requirements[j], r) # <<>>
        BY <2>1, <4>2, BundleTyped
      <4> QED
        BY <4>1, <4>3
    <3>2. CASE operation.type \notin ListedKinds
      BY <1>2, <2>1, <3>2 DEF NextOperation
    <3> QED
      BY <3>1, <3>2
  <2>3. operations' \in [Jobs -> SUBSET Operations]
    BY <1>2 DEF NextOperation
  <2> QED
    BY <1>2, <2>2, <2>3 DEF NextOperation, handler
<1>3. CASE Bundled(j)
  <2>1. Keys(requirements[j]) \subseteq Accounts
    BY KeysTyped
  <2> QED
    BY <1>3, <2>1 DEF Bundled, Go, handler, Envelopes
<1> QED
  BY <1>1, <1>2, <1>3

LEMMA SigningKeepsTypes ==
  ASSUME TypedInv, NEW j \in Jobs,
         \/ LocalSigner(j) \/ SignerMissing(j)
         \/ FreighterFound(j) \/ FreighterReady(j) \/ FreighterNotReady(j)
         \/ ExtensionSigns(j) \/ ExtensionRefuses(j)
         \/ WrapThrows(j) \/ Submit(j)
  PROVE  TypedInv'
<1> USE DEF TypedInv, TypeOK
<1>1. ASSUME NEW key \in Accounts, Sign(j, key)
      PROVE  /\ signatures' \in [Jobs -> [Envelopes -> SUBSET Accounts]]
             /\ at' \in [Jobs -> Nat \ {0}]
  BY <1>1 DEF Sign
<1>2. CASE LocalSigner(j)
  <2>1. Current(j) \in Accounts
    BY <1>2, KeysTyped DEF LocalSigner, Unsigned, Current
  <2>2. Sign(j, Current(j))
    BY <1>2 DEF LocalSigner
  <2>3. /\ signatures' \in [Jobs -> [Envelopes -> SUBSET Accounts]]
        /\ at' \in [Jobs -> Nat \ {0}]
    BY <1>1, <2>1, <2>2
  <2> QED
    BY <1>2, <2>3 DEF LocalSigner, handler, history
<1>3. CASE SignerMissing(j) \/ ExtensionRefuses(j) \/ WrapThrows(j) \/ Submit(j)
  BY <1>3 DEF SignerMissing, ExtensionRefuses, WrapThrows, Submit, Unsigned, Signed, Go,
     handler, history
<1>4. CASE FreighterFound(j)
  BY <1>4 DEF FreighterFound, Unsigned, Go, handler, history
<1>7. CASE FreighterReady(j)
  BY <1>7 DEF FreighterReady, Go, handler, history
<1>5. CASE FreighterNotReady(j)
  BY <1>5 DEF FreighterNotReady, Go, GoLoad, Loads, history
<1>6. CASE ExtensionSigns(j)
  <2>1. PICK key \in Accounts : Sign(j, key)
    BY <1>6 DEF ExtensionSigns
  <2> QED
    BY <1>1, <1>6, <2>1 DEF ExtensionSigns, Go, handler, history
<1> QED
  BY <1>2, <1>3, <1>4, <1>5, <1>6, <1>7

LEMMA FeeBumpKeepsTypes ==
  ASSUME TypedInv, NEW j \in Jobs, NEW fee \in Fees, NEW source \in Accounts,
         NEW header \in Fees, FeeBump(j, fee, source, header)
  PROVE  TypedInv'
<1> USE DEF TypedInv, TypeOK
<1> DEFINE same == source = requirements[j][1].publicKey
<1>1. bump' \in [Jobs -> [same : BOOLEAN, fee : Fees \cup {0}, header : Fees \cup {0}]]
  <2>1. bump' = [bump EXCEPT ![j] = [same |-> same, fee |-> fee, header |-> header]]
    BY DEF FeeBump
  <2>2. same \in BOOLEAN
    OBVIOUS
  <2> HIDE DEF same
  <2> QED
    BY <2>1, <2>2
<1>2. CASE Go(j, "resolved") /\ UNCHANGED <<envelope, requirements, at, required>>
  BY <1>1, <1>2 DEF FeeBump, Signed, Go, handler
<1>3. CASE Wrap(j, source) /\ UNCHANGED stage
  <2>1. FeeBumpRequirement(source) \in Requirements
    BY DEF FeeBumpRequirement, Requirements
  <2>2. <<FeeBumpRequirement(source)>> \in Seq(Requirements)
        /\ <<FeeBumpRequirement(source)>> # <<>>
    BY <2>1
  <2> QED
    BY <1>1, <1>3, <2>2 DEF FeeBump, Wrap, Envelopes, handler
<1> QED
  BY <1>2, <1>3 DEF FeeBump

LEMMA TypedInductive == TypedInv /\ [Next]_vars => TypedInv'
<1> SUFFICES ASSUME TypedInv, [Next]_vars PROVE TypedInv'
  OBVIOUS
<1>1. CASE UNCHANGED vars
  BY <1>1 DEF vars, handler, signing, history, TypedInv, TypeOK
<1>2. ASSUME NEW j \in Jobs, Job(j) PROVE TypedInv'
  BY <1>2, RequirementsKeepTypes, SigningKeepsTypes, FeeBumpKeepsTypes DEF Job
<1> QED
  BY <1>1, <1>2, HandlerKeepsTypes DEF Next

\* TypeOK: every variable keeps its type; what the bundling loop makes is a
\* list of requirements, however long it runs.
THEOREM SigningTypeCorrect == Spec => []TypeOK
<1>1. Init => TypedInv
  BY DEF Init, TypedInv, TypeOK, Envelopes
<1>2. TypedInv => TypeOK
  BY DEF TypedInv
<1> QED
  BY <1>1, <1>2, TypedInductive, PTL DEF Spec

-----------------------------------------------------------------------------
(* Signatures.                                                             *)

Begun(j) == stage[j] \notin {"idle", "bundling"}
Past(rs, n) == {rs[i].publicKey : i \in 1..(n - 1)}

\* Unless the handler's key was written while it was checked, what is signed is
\* what the loop over the requirements has passed.
JobInv(j) ==
  /\ at[j] \in 1..(Len(requirements[j]) + 1)
  /\ stage[j] \in {"checking", "extension"} => at[j] \in DOMAIN requirements[j]
  /\ stage[j] = "resolved" => at[j] = Len(requirements[j]) + 1
  /\ ~Begun(j) =>
       at[j] = 1 /\ envelope[j] = "transaction" /\ signatures[j]["transaction"] = {}
  /\ envelope[j] = "transaction" => signatures[j]["feeBump"] = {}
  /\ Begun(j) => required[j][envelope[j]] = Keys(requirements[j])
  /\ ~rekeyed[j] =>
       /\ stage[j] = "checking" => publicKey = Current(j)
       /\ stage[j] = "extension" => request[j] = Current(j)
       /\ Begun(j) => signatures[j][envelope[j]] = Past(requirements[j], at[j])
       /\ envelope[j] = "feeBump" => signatures[j]["transaction"] = required[j]["transaction"]

SignedInv == TypedInv /\ \A j \in Jobs : JobInv(j)

\* At the end of the loop everything is past.
LEMMA PastAll ==
  ASSUME NEW rs \in Seq(Requirements), NEW n \in 1..(Len(rs) + 1)
  PROVE  /\ n \in DOMAIN rs => Past(rs, n + 1) = Past(rs, n) \cup {rs[n].publicKey}
         /\ n \notin DOMAIN rs => n = Len(rs) + 1 /\ Past(rs, n) = Keys(rs)
         /\ Past(rs, 1) = {}
<1>1. Len(rs) \in Nat /\ DOMAIN rs = 1..Len(rs)
  OBVIOUS
<1>2. ASSUME n \in DOMAIN rs PROVE Past(rs, n + 1) = Past(rs, n) \cup {rs[n].publicKey}
  <2>1. 1..((n + 1) - 1) = 1..(n - 1) \cup {n}
    BY <1>1, <1>2
  <2> QED
    BY <2>1 DEF Past
<1>3. ASSUME n \notin DOMAIN rs PROVE n = Len(rs) + 1 /\ Past(rs, n) = Keys(rs)
  <2>1. n = Len(rs) + 1 /\ 1..(n - 1) = DOMAIN rs
    BY <1>1, <1>3
  <2> QED
    BY <2>1 DEF Past, Keys
<1>4. Past(rs, 1) = {}
  BY DEF Past
<1> QED
  BY <1>2, <1>3, <1>4

\* What JobInv says of a job depends on its own variables, its mark and, while
\* it checks the handler, the key.
LEMMA OtherJobs ==
  ASSUME NEW k \in Jobs, JobInv(k),
         stage'[k] = stage[k], envelope'[k] = envelope[k],
         requirements'[k] = requirements[k], at'[k] = at[k],
         request'[k] = request[k], signatures'[k] = signatures[k],
         required'[k] = required[k],
         rekeyed[k] => rekeyed'[k],
         stage[k] = "checking" /\ ~rekeyed'[k] => publicKey' = publicKey
  PROVE  JobInv(k)'
  BY DEF JobInv, Begun, Current

LEMMA HandlerKeepsSigned ==
  ASSUME SignedInv, Handler
  PROVE  SignedInv'
<1>1. TypedInv'
  BY HandlerKeepsTypes DEF SignedInv
<1>2. ASSUME NEW k \in Jobs PROVE JobInv(k)'
  <2>1. UNCHANGED <<signing, history>>
    BY DEF Handler, Connect, LoadEnds, KeyLoaded, Disconnect, Write
  <2>2. /\ rekeyed[k] => rekeyed'[k]
        /\ stage[k] = "checking" /\ ~rekeyed'[k] => publicKey' = publicKey
    <3>1. ASSUME NEW key, Write(key)
          PROVE  /\ rekeyed[k] => rekeyed'[k]
                 /\ stage[k] = "checking" /\ ~rekeyed'[k] => publicKey' = publicKey
      BY <1>2, <3>1 DEF Write
    <3>2. (\E key : Write(key)) \/ UNCHANGED <<publicKey, rekeyed>>
      BY DEF Handler, Connect, LoadEnds, KeyLoaded, Disconnect
    <3> QED
      BY <3>1, <3>2
  <2> QED
    BY <1>2, <2>1, <2>2, OtherJobs DEF SignedInv, signing, history
<1> QED
  BY <1>1, <1>2 DEF SignedInv

LEMMA RequirementsKeepSigned ==
  ASSUME SignedInv, TypedInv', NEW j \in Jobs,
         \/ \E source \in Accounts : Start(j, source)
         \/ \E operation \in Operations : NextOperation(j, operation)
         \/ Bundled(j)
  PROVE  SignedInv'
<1>1. TypedInv /\ JobInv(j)
  BY DEF SignedInv
<1> USE DEF TypedInv, TypeOK
<1>2. UNCHANGED <<publicKey, envelope, at, request, signatures, rekeyed>>
  BY DEF Start, NextOperation, Bundled, handler
<1>3. requirements'[j] # <<>> /\ Len(requirements'[j]) \in Nat \ {0}
  <2>1. requirements'[j] # <<>> /\ requirements'[j] \in Seq(Requirements)
    BY <1>1 DEF Start, NextOperation, Bundled, Go
  <2> QED
    BY <2>1
<1>4. ASSUME NEW k \in Jobs, k # j PROVE JobInv(k)'
  <2>1. stage'[k] = stage[k] /\ requirements'[k] = requirements[k] /\ required'[k] = required[k]
    <3>1. ASSUME NEW source \in Accounts, Start(j, source)
          PROVE  stage'[k] = stage[k] /\ requirements'[k] = requirements[k] /\ required' = required
      BY <1>1, <1>4, <3>1 DEF Start, Go, history
    <3>2. ASSUME NEW operation \in Operations, NextOperation(j, operation)
          PROVE  stage' = stage /\ requirements'[k] = requirements[k] /\ required' = required
      BY <1>1, <1>4, <3>2 DEF NextOperation
    <3>3. CASE Bundled(j)
      BY <1>1, <1>4, <3>3 DEF Bundled, Go
    <3> QED
      BY <3>1, <3>2, <3>3
  <2> QED
    BY <1>2, <1>4, <2>1, OtherJobs DEF SignedInv
<1>5. ~Begun(j) /\ at[j] = 1 /\ envelope[j] = "transaction"
      /\ signatures[j]["transaction"] = {} /\ signatures[j]["feeBump"] = {}
  BY <1>1 DEF Start, NextOperation, Bundled, Begun, JobInv
<1>6. JobInv(j)'
  <2>1. CASE Bundled(j)
    <3>1. stage'[j] = "signing" /\ requirements' = requirements
          /\ required'[j]["transaction"] = Keys(requirements[j])
      BY <1>1, <2>1 DEF Bundled, Go, Envelopes
    <3>2. Past(requirements[j], 1) = {}
      BY DEF Past
    <3> QED
      BY <1>2, <1>3, <1>5, <3>1, <3>2 DEF JobInv, Begun
  <2>2. CASE \/ \E source \in Accounts : Start(j, source)
             \/ \E operation \in Operations : NextOperation(j, operation)
    <3>1. stage'[j] = "bundling"
      BY <1>1, <2>2 DEF Start, NextOperation, Go
    <3> QED
      BY <1>2, <1>3, <1>5, <3>1 DEF JobInv, Begun
  <2> QED
    BY <2>1, <2>2
<1> QED
  BY <1>4, <1>6 DEF SignedInv

\* A job that signs the current requirement as it should, or whose key was
\* written, goes on as JobInv says.
LEMMA SignKeeps ==
  ASSUME SignedInv, NEW j \in Jobs, NEW key \in Accounts, Sign(j, key),
         at[j] \in DOMAIN requirements[j], Begun(j), stage'[j] = "signing",
         rekeyed[j] \/ key = Current(j),
         UNCHANGED <<envelope, requirements, required, rekeyed>>
  PROVE  JobInv(j)'
<1> USE DEF SignedInv, TypedInv, TypeOK
<1>1. /\ requirements[j] \in Seq(Requirements) /\ Len(requirements[j]) \in Nat
      /\ at[j] \in 1..Len(requirements[j])
  OBVIOUS
<1>2. /\ at'[j] = at[j] + 1
      /\ signatures'[j][envelope[j]] = signatures[j][envelope[j]] \cup {key}
      /\ \A e \in Envelopes : e # envelope[j] => signatures'[j][e] = signatures[j][e]
  BY DEF Sign
<1>3. Past(requirements[j], at[j] + 1) = Past(requirements[j], at[j]) \cup {Current(j)}
  <2>1. at[j] \in 1..(Len(requirements[j]) + 1)
    BY <1>1
  <2> QED
    BY <1>1, <2>1, PastAll DEF Current
<1>4. JobInv(j)
  OBVIOUS
<1>5. envelope[j] = "transaction" => signatures'[j]["feeBump"] = {}
  BY <1>2, <1>4 DEF JobInv, Envelopes
<1>6. envelope[j] = "feeBump" => signatures'[j]["transaction"] = signatures[j]["transaction"]
  BY <1>2 DEF Envelopes
<1>7. ~rekeyed[j] => signatures'[j][envelope[j]] = Past(requirements[j], at'[j])
  BY <1>2, <1>3, <1>4 DEF JobInv
<1>8. /\ at'[j] \in 1..(Len(requirements[j]) + 1)
      /\ required[j][envelope[j]] = Keys(requirements[j])
  BY <1>1, <1>2, <1>4 DEF JobInv
<1> QED
  BY <1>4, <1>5, <1>6, <1>7, <1>8 DEF JobInv, Begun

LEMMA SigningKeepsSigned ==
  ASSUME SignedInv, TypedInv', NEW j \in Jobs,
         \/ LocalSigner(j) \/ SignerMissing(j)
         \/ FreighterFound(j) \/ FreighterReady(j) \/ FreighterNotReady(j)
         \/ ExtensionSigns(j) \/ ExtensionRefuses(j)
         \/ WrapThrows(j) \/ Submit(j)
  PROVE  SignedInv'
<1>1. TypedInv /\ JobInv(j)
  BY DEF SignedInv
<1>2. UNCHANGED <<publicKey, envelope, requirements, required, rekeyed>>
  BY DEF LocalSigner, SignerMissing, FreighterFound, FreighterReady, FreighterNotReady,
         ExtensionSigns, ExtensionRefuses, WrapThrows, Submit, handler, history
<1>3. ASSUME NEW k \in Jobs, k # j PROVE JobInv(k)'
  <2>1. stage'[k] = stage[k] /\ at'[k] = at[k] /\ request'[k] = request[k]
        /\ signatures'[k] = signatures[k]
    BY <1>1, <1>3
      DEF TypedInv, TypeOK, LocalSigner, SignerMissing, FreighterFound, FreighterReady,
          FreighterNotReady, ExtensionSigns, ExtensionRefuses, WrapThrows, Submit, Go, Sign
  <2> QED
    BY <1>2, <1>3, <2>1, OtherJobs DEF SignedInv
<1>4. stage \in [Jobs -> {"idle", "bundling", "signing", "checking", "extension",
                          "resolved", "rejected"}]
      /\ request \in [Jobs -> Accounts \cup {NoKey}]
      /\ requirements[j] \in Seq(Requirements) /\ at[j] \in 1..(Len(requirements[j]) + 1)
  BY <1>1 DEF TypedInv, TypeOK, JobInv
<1>5. CASE LocalSigner(j)
  <2>1. Current(j) \in Accounts
    BY <1>4, <1>5, KeysTyped DEF LocalSigner, Unsigned, Current
  <2> QED
    BY <1>2, <1>3, <1>5, <2>1, SignKeeps DEF LocalSigner, Unsigned, Begun, SignedInv
<1>6. CASE ExtensionSigns(j)
  <2>1. stage[j] = "extension" /\ stage'[j] = "signing" /\ at[j] \in DOMAIN requirements[j]
    BY <1>1, <1>4, <1>6 DEF ExtensionSigns, Go, JobInv
  <2>2. PICK key \in Accounts : (request[j] = NoKey \/ key = request[j]) /\ Sign(j, key)
    BY <1>6 DEF ExtensionSigns
  <2>3. Current(j) \in Accounts
    BY <1>4, <2>1, KeysTyped DEF Current
  <2>4. rekeyed[j] \/ key = Current(j)
    BY <1>1, <2>1, <2>2, <2>3, SigningAssumption DEF JobInv
  <2> QED
    BY <1>2, <1>3, <2>1, <2>2, <2>4, SignKeeps DEF Begun, SignedInv
<1>7. CASE SignerMissing(j) \/ FreighterNotReady(j) \/ ExtensionRefuses(j) \/ WrapThrows(j)
  <2>1. stage'[j] = "rejected" /\ Begun(j) /\ UNCHANGED <<at, request, signatures>>
    BY <1>4, <1>7 DEF SignerMissing, FreighterNotReady, ExtensionRefuses, WrapThrows,
       Unsigned, Signed, Go, Begun
  <2>2. JobInv(j)'
    BY <1>1, <1>2, <2>1 DEF JobInv, Begun
  <2> QED
    BY <1>3, <2>2 DEF SignedInv
<1>8. CASE FreighterFound(j)
  <2>1. stage[j] = "signing" /\ stage'[j] = "checking" /\ publicKey = Current(j)
        /\ at[j] \in DOMAIN requirements[j] /\ UNCHANGED <<at, request, signatures>>
    BY <1>4, <1>8 DEF FreighterFound, Unsigned, Go
  <2>2. Current(j)' = Current(j)
    BY <1>2, <2>1 DEF Current
  <2>3. JobInv(j)'
    BY <1>1, <1>2, <2>1, <2>2 DEF JobInv, Begun
  <2> QED
    BY <1>3, <2>3 DEF SignedInv
<1>9. CASE FreighterReady(j)
  <2>1. stage[j] = "checking" /\ stage'[j] = "extension" /\ request'[j] = publicKey
        /\ UNCHANGED <<at, signatures>>
    BY <1>4, <1>9 DEF FreighterReady, Go
  <2>2. Current(j)' = Current(j)
    BY <1>2, <2>1 DEF Current
  <2>3. JobInv(j)'
    BY <1>1, <1>2, <2>1, <2>2 DEF JobInv, Begun
  <2> QED
    BY <1>3, <2>3 DEF SignedInv
<1>10. CASE Submit(j)
  <2>1. stage[j] = "signing" /\ stage'[j] = "resolved" /\ at[j] \notin DOMAIN requirements[j]
        /\ UNCHANGED <<at, request, signatures>>
    BY <1>4, <1>10 DEF Submit, Signed, Go
  <2>2. at[j] = Len(requirements[j]) + 1
    BY <1>4, <2>1, PastAll
  <2>3. JobInv(j)'
    BY <1>1, <1>2, <2>1, <2>2 DEF JobInv, Begun
  <2> QED
    BY <1>3, <2>3 DEF SignedInv
<1> QED
  BY <1>5, <1>6, <1>7, <1>8, <1>9, <1>10

LEMMA FeeBumpKeepsSigned ==
  ASSUME SignedInv, TypedInv', NEW j \in Jobs, NEW fee \in Fees, NEW source \in Accounts,
         NEW header \in Fees, FeeBump(j, fee, source, header)
  PROVE  SignedInv'
<1>1. TypedInv /\ JobInv(j)
  BY DEF SignedInv
<1> USE DEF TypedInv, TypeOK
<1>2. /\ stage[j] = "signing" /\ at[j] \notin DOMAIN requirements[j]
      /\ envelope[j] = "transaction"
      /\ UNCHANGED <<publicKey, request, signatures, rekeyed>>
  BY DEF FeeBump, Signed, handler
<1>3. /\ at[j] = Len(requirements[j]) + 1
      /\ Past(requirements[j], at[j]) = Keys(requirements[j])
  BY <1>1, <1>2, PastAll DEF JobInv
<1>4. CASE Go(j, "resolved") /\ UNCHANGED <<envelope, requirements, at, required>>
  <2>1. stage'[j] = "resolved" /\ \A k \in Jobs : k # j => stage'[k] = stage[k]
    BY <1>1, <1>4 DEF Go
  <2>2. JobInv(j)'
    BY <1>1, <1>2, <1>3, <1>4, <2>1 DEF JobInv, Begun
  <2>3. ASSUME NEW k \in Jobs, k # j PROVE JobInv(k)'
    BY <1>2, <1>4, <2>1, <2>3, OtherJobs DEF SignedInv
  <2> QED
    BY <2>2, <2>3 DEF SignedInv
<1>5. CASE Wrap(j, source) /\ UNCHANGED stage
  <2> DEFINE r == FeeBumpRequirement(source)
  <2>1. /\ envelope'[j] = "feeBump" /\ requirements'[j] = <<r>> /\ at'[j] = 1
        /\ required'[j]["feeBump"] = {source}
        /\ required'[j]["transaction"] = required[j]["transaction"]
    BY <1>1, <1>5 DEF Wrap, Envelopes
  <2>2. Len(<<r>>) = 1 /\ Keys(<<r>>) = {source} /\ Past(<<r>>, 1) = {}
    <3>1. DOMAIN <<r>> = {1} /\ <<r>>[1].publicKey = source
      BY DEF FeeBumpRequirement
    <3> QED
      BY <3>1 DEF Keys, Past
  <2>3. ~rekeyed[j] => signatures[j]["transaction"] = required[j]["transaction"]
    BY <1>1, <1>2, <1>3 DEF JobInv, Begun
  <2>4. signatures[j]["feeBump"] = {}
    BY <1>1, <1>2 DEF JobInv
  <2> HIDE DEF r
  <2>5. JobInv(j)'
    <3>1. stage'[j] = "signing" /\ at'[j] \in 1..(Len(requirements'[j]) + 1)
      BY <1>2, <1>5, <2>1, <2>2
    <3>2. required'[j][envelope'[j]] = Keys(requirements'[j])
      BY <2>1, <2>2
    <3>3. signatures'[j][envelope'[j]] = Past(requirements'[j], at'[j])
      BY <1>2, <2>1, <2>2, <2>4
    <3>4. ~rekeyed'[j] => signatures'[j]["transaction"] = required'[j]["transaction"]
      BY <1>2, <2>1, <2>3
    <3> QED
      BY <2>1, <3>1, <3>2, <3>3, <3>4 DEF JobInv, Begun
  <2>6. ASSUME NEW k \in Jobs, k # j PROVE JobInv(k)'
    <3>1. envelope'[k] = envelope[k] /\ requirements'[k] = requirements[k]
          /\ at'[k] = at[k] /\ required'[k] = required[k]
      BY <1>1, <1>5, <2>6 DEF Wrap
    <3> QED
      BY <1>2, <1>5, <2>6, <3>1, OtherJobs DEF SignedInv
  <2> QED
    BY <2>5, <2>6 DEF SignedInv
<1> QED
  BY <1>4, <1>5 DEF FeeBump

LEMMA SignedInductive == SignedInv /\ [Next]_vars => SignedInv'
<1> SUFFICES ASSUME SignedInv, [Next]_vars PROVE SignedInv'
  OBVIOUS
<1>1. TypedInv'
  BY TypedInductive DEF SignedInv
<1>2. CASE UNCHANGED vars
  <2>1. ASSUME NEW k \in Jobs PROVE JobInv(k)'
    BY <1>2, <2>1, OtherJobs DEF SignedInv, vars, handler, signing, history
  <2> QED
    BY <1>1, <2>1 DEF SignedInv
<1>3. ASSUME NEW j \in Jobs, Job(j) PROVE SignedInv'
  BY <1>1, <1>3, RequirementsKeepSigned, SigningKeepsSigned, FeeBumpKeepsSigned DEF Job
<1> QED
  BY <1>2, <1>3, HandlerKeepsSigned DEF Next

\* SignedAsRequired: an envelope that is handed on, and the one in it, carries
\* the signatures required and no other, however calls of the handler overlap
\* with it, unless its key was written while it was being checked.
THEOREM EnvelopesSignedAsRequired == Spec => []SignedAsRequired
<1>1. Init => SignedInv
  <2> SUFFICES ASSUME Init PROVE SignedInv
    OBVIOUS
  <2>1. TypedInv
    BY DEF Init, TypedInv, TypeOK, Envelopes
  <2>2. ASSUME NEW j \in Jobs PROVE JobInv(j)
    BY <2>2 DEF Init, JobInv, Begun, Envelopes
  <2> QED
    BY <2>1, <2>2 DEF SignedInv
<1>2. SignedInv => SignedAsRequired
  <2> SUFFICES ASSUME SignedInv, NEW j \in Jobs, stage[j] = "resolved", ~rekeyed[j],
                      NEW e \in {"transaction", envelope[j]}
               PROVE  signatures[j][e] = required[j][e]
    BY DEF SignedAsRequired
  <2>1. JobInv(j) /\ requirements[j] \in Seq(Requirements) /\ envelope[j] \in Envelopes
    BY DEF SignedInv, TypedInv, TypeOK
  <2>2. at[j] \notin DOMAIN requirements[j] /\ at[j] \in 1..(Len(requirements[j]) + 1)
    BY <2>1 DEF JobInv
  <2>3. Past(requirements[j], at[j]) = Keys(requirements[j])
    BY <2>1, <2>2, PastAll
  <2> QED
    BY <2>1, <2>3 DEF JobInv, Begun, Envelopes
<1> QED
  BY <1>1, <1>2, SignedInductive, PTL DEF Spec

-----------------------------------------------------------------------------
(* Requirements.                                                           *)

Levels == {low, medium, high}

\* rs has an entry for each account with thresholds in T, and of their highest.
Covers(rs, T) ==
  /\ \A i, k \in DOMAIN rs : rs[i].publicKey = rs[k].publicKey => i = k
  /\ \A i \in DOMAIN rs :
       /\ rs[i].thresholdLevel \in T[rs[i].publicKey]
       /\ \A t \in T[rs[i].publicKey] : t <= rs[i].thresholdLevel
  /\ \A a \in Accounts : T[a] # {} => \E i \in DOMAIN rs : rs[i].publicKey = a

\* A round of the bundling loop adds a threshold to those that are covered.
LEMMA BundleCovers ==
  ASSUME NEW rs \in Seq(Requirements), NEW T \in [Accounts -> SUBSET Levels],
         Covers(rs, T), NEW r \in Requirements
  PROVE  Covers(Bundle(rs, r), [T EXCEPT ![r.publicKey] = @ \cup {r.thresholdLevel}])
<1> DEFINE U == [T EXCEPT ![r.publicKey] = @ \cup {r.thresholdLevel}]
<1>1. /\ r.publicKey \in Accounts /\ r.thresholdLevel \in Nat
      /\ \A i \in DOMAIN rs : rs[i].publicKey \in Accounts /\ rs[i].thresholdLevel \in Nat
  <2>1. \A q \in Requirements : q.publicKey \in Accounts /\ q.thresholdLevel \in Nat
    BY DEF Requirements, low, medium, high
  <2>2. \A i \in DOMAIN rs : rs[i] \in Requirements
    OBVIOUS
  <2> QED
    BY <2>1, <2>2
<1>2. /\ U[r.publicKey] = T[r.publicKey] \cup {r.thresholdLevel}
      /\ \A a \in Accounts : a # r.publicKey => U[a] = T[a]
  BY <1>1
<1>3. \A a \in Accounts : \A t \in T[a] : t \in Nat
  BY DEF Levels, low, medium, high
<1> HIDE DEF U
<1>4. CASE \E i \in DOMAIN rs : rs[i].publicKey = r.publicKey
  <2>1. PICK n \in DOMAIN rs : rs[n].publicKey = r.publicKey
    BY <1>4
  <2> DEFINE b == Bundle(rs, r)
  <2>2. DOMAIN b = DOMAIN rs
    BY <1>4 DEF Bundle
  <2>3. \A i \in DOMAIN rs : i # n => rs[i].publicKey # r.publicKey
    BY <2>1 DEF Covers
  <2>4. \A i \in DOMAIN rs : i # n => b[i] = rs[i]
    BY <1>4, <2>3 DEF Bundle
  <2>5. b[n] = IF r.thresholdLevel > rs[n].thresholdLevel THEN r ELSE rs[n]
    BY <1>4, <2>1 DEF Bundle
  <2>6. \A i \in DOMAIN rs : b[i].publicKey = rs[i].publicKey
    BY <2>1, <2>4, <2>5
  <2> HIDE DEF b
  <2>7. b[n].thresholdLevel \in U[b[n].publicKey]
        /\ \A t \in U[b[n].publicKey] : t <= b[n].thresholdLevel
    <3>1. rs[n].thresholdLevel \in T[r.publicKey] /\ \A t \in T[r.publicKey] : t <= rs[n].thresholdLevel
      BY <2>1 DEF Covers
    <3>2. CASE r.thresholdLevel > rs[n].thresholdLevel
      BY <1>1, <1>2, <1>3, <2>1, <2>5, <3>1, <3>2
    <3>3. CASE ~(r.thresholdLevel > rs[n].thresholdLevel)
      BY <1>1, <1>2, <1>3, <2>1, <2>5, <3>1, <3>3
    <3> QED
      BY <3>2, <3>3
  <2>8. \A i \in DOMAIN b :
          /\ b[i].thresholdLevel \in U[b[i].publicKey]
          /\ \A t \in U[b[i].publicKey] : t <= b[i].thresholdLevel
    BY <1>1, <1>2, <2>2, <2>3, <2>4, <2>7 DEF Covers
  <2>9. \A a \in Accounts : U[a] # {} => \E i \in DOMAIN b : b[i].publicKey = a
    BY <1>2, <2>1, <2>2, <2>6 DEF Covers
  <2>10. \A i, k \in DOMAIN b : b[i].publicKey = b[k].publicKey => i = k
    BY <2>2, <2>6 DEF Covers
  <2> QED
    BY <2>8, <2>9, <2>10 DEF Covers, U, b
<1>5. CASE ~ \E i \in DOMAIN rs : rs[i].publicKey = r.publicKey
  <2> DEFINE b == Bundle(rs, r)
             m == Len(rs) + 1
  <2>1. b = Append(rs, r)
    BY <1>5 DEF Bundle
  <2>2. /\ m \in DOMAIN b /\ b[m] = r /\ DOMAIN b = DOMAIN rs \cup {m}
        /\ \A i \in DOMAIN rs : b[i] = rs[i]
    BY <2>1
  <2> HIDE DEF b, m
  <2>3. T[r.publicKey] = {}
    BY <1>1, <1>5 DEF Covers
  <2>4. U[r.publicKey] = {r.thresholdLevel}
    BY <1>2, <2>3
  <2>5. \A i, k \in DOMAIN b : b[i].publicKey = b[k].publicKey => i = k
    BY <1>5, <2>2 DEF Covers
  <2>6. \A i \in DOMAIN b :
          /\ b[i].thresholdLevel \in U[b[i].publicKey]
          /\ \A t \in U[b[i].publicKey] : t <= b[i].thresholdLevel
    <3>1. ASSUME NEW i \in DOMAIN rs
          PROVE  /\ b[i].thresholdLevel \in U[b[i].publicKey]
                 /\ \A t \in U[b[i].publicKey] : t <= b[i].thresholdLevel
      BY <1>1, <1>2, <1>5, <2>2, <3>1 DEF Covers
    <3>2. /\ b[m].thresholdLevel \in U[b[m].publicKey]
          /\ \A t \in U[b[m].publicKey] : t <= b[m].thresholdLevel
      BY <1>1, <2>2, <2>4
    <3> QED
      BY <2>2, <3>1, <3>2
  <2>7. \A a \in Accounts : U[a] # {} => \E i \in DOMAIN b : b[i].publicKey = a
    BY <1>2, <2>2 DEF Covers
  <2> QED
    BY <2>5, <2>6, <2>7 DEF Covers, U, b
<1> QED
  BY <1>4, <1>5

ThresholdsOf(j) == [a \in Accounts |-> Thresholds(j, a)]

BundledInv ==
  /\ TypedInv
  /\ \A j \in Jobs : stage[j] = "idle" => operations[j] = {}
  /\ \A j \in Jobs :
       stage[j] = "bundling" /\ (\A o \in operations[j] : o.type \notin Understated) =>
         Covers(requirements[j], ThresholdsOf(j))

LEMMA ThresholdsTyped ==
  ASSUME TypedInv, NEW j \in Jobs
  PROVE  ThresholdsOf(j) \in [Accounts -> SUBSET Levels]
<1>1. \A o \in Operations : NetworkThreshold(o.type) \in Levels
  BY DEF NetworkThreshold, Levels
<1>2. operations[j] \subseteq Operations
  BY DEF TypedInv, TypeOK
<1>3. ASSUME NEW a \in Accounts PROVE Thresholds(j, a) \subseteq Levels
  BY <1>1, <1>2 DEF Thresholds, Levels
<1> QED
  BY <1>3 DEF ThresholdsOf

LEMMA NextOperationKeepsBundled ==
  ASSUME BundledInv, NEW j \in Jobs, NEW o \in Operations, NextOperation(j, o),
         \A p \in operations'[j] : p.type \notin Understated
  PROVE  Covers(requirements'[j], ThresholdsOf(j)')
<1> DEFINE rs == requirements[j]
           account == SourceOf(rs, o)
           r == [publicKey |-> account, thresholdLevel |-> Threshold(o.type)]
<1>1. /\ rs \in Seq(Requirements) /\ rs # <<>>
      /\ operations'[j] = operations[j] \cup {o} /\ operations[j] \subseteq Operations
  BY DEF BundledInv, TypedInv, TypeOK, NextOperation
<1>2. o.type \notin Understated /\ \A p \in operations[j] : p.type \notin Understated
  BY <1>1
<1>3. o.type \in ListedKinds /\ NetworkThreshold(o.type) = Threshold(o.type)
  BY <1>2 DEF Operations, OperationKinds, ListedKinds, Understated, NetworkThreshold, Threshold
<1>4. r \in Requirements /\ account \in Accounts
  BY <1>1, <1>3, OperationRequires
<1>5. requirements'[j] = Bundle(rs, r)
  BY <1>3 DEF NextOperation, BundledInv, TypedInv, TypeOK
<1>6. requirements'[j][1].publicKey = rs[1].publicKey
  BY <1>1, <1>4, <1>5, BundleTyped
<1>7. Covers(rs, ThresholdsOf(j))
  BY <1>2 DEF BundledInv, NextOperation
<1>8. ASSUME NEW a \in Accounts
      PROVE  Thresholds(j, a)' = Thresholds(j, a) \cup
                                 (IF a = account THEN {Threshold(o.type)} ELSE {})
  <2> DEFINE source == rs[1].publicKey
             Uses(p) == p.source = a \/ (p.source = "source" /\ a = source)
  <2>1. Uses(o) <=> a = account
    BY <1>8, SigningAssumption DEF SourceOf
  <2>2. /\ Thresholds(j, a) = {NetworkThreshold(p.type) : p \in {q \in operations[j] : Uses(q)}}
                                \cup (IF a = source THEN {medium} ELSE {})
        /\ Thresholds(j, a)' = {NetworkThreshold(p.type) : p \in {q \in operations'[j] : Uses(q)}}
                                \cup (IF a = source THEN {medium} ELSE {})
    BY <1>6 DEF Thresholds
  <2>3. {q \in operations'[j] : Uses(q)} =
          {q \in operations[j] : Uses(q)} \cup (IF a = account THEN {o} ELSE {})
    BY <1>1, <2>1
  <2> HIDE DEF Uses, source, account
  <2> QED
    BY <1>3, <2>2, <2>3
<1>9. ThresholdsOf(j)' = [ThresholdsOf(j) EXCEPT ![account] = @ \cup {Threshold(o.type)}]
  BY <1>4, <1>8 DEF ThresholdsOf
<1>10. ThresholdsOf(j) \in [Accounts -> SUBSET Levels]
  BY ThresholdsTyped DEF BundledInv
<1>11. r.publicKey = account /\ r.thresholdLevel = Threshold(o.type)
  OBVIOUS
<1> HIDE DEF rs, account, r
<1>12. Covers(Bundle(rs, r), [ThresholdsOf(j) EXCEPT ![r.publicKey] = @ \cup {r.thresholdLevel}])
  BY <1>1, <1>4, <1>7, <1>10, BundleCovers
<1> QED
  BY <1>5, <1>9, <1>11, <1>12

LEMMA StartBundles ==
  ASSUME BundledInv, NEW j \in Jobs, NEW source \in Accounts, Start(j, source)
  PROVE  Covers(requirements'[j], ThresholdsOf(j)')
<1> DEFINE rs == <<TransactionRequirement(source)>>
<1>1. requirements'[j] = rs /\ operations'[j] = {}
  BY DEF Start, history, BundledInv, TypedInv, TypeOK
<1>2. DOMAIN rs = {1} /\ rs[1].publicKey = source /\ rs[1].thresholdLevel = medium
  BY DEF TransactionRequirement
<1> HIDE DEF rs
<1>3. ASSUME NEW a \in Accounts
      PROVE  ThresholdsOf(j)'[a] = IF a = source THEN {medium} ELSE {}
  BY <1>1, <1>2, <1>3 DEF ThresholdsOf, Thresholds
<1> QED
  BY <1>1, <1>2, <1>3 DEF Covers, medium

\* Everything else leaves a bundling job alone.
LEMMA BundlingUntouched ==
  ASSUME BundledInv, NEW k \in Jobs, stage'[k] = stage[k],
         requirements'[k] = requirements[k], operations'[k] = operations[k]
  PROVE  /\ stage'[k] = "idle" => operations'[k] = {}
         /\ stage'[k] = "bundling" /\ (\A o \in operations'[k] : o.type \notin Understated) =>
              Covers(requirements'[k], ThresholdsOf(k)')
<1>1. ThresholdsOf(k)' = ThresholdsOf(k)
  BY DEF ThresholdsOf, Thresholds
<1> QED
  BY <1>1 DEF BundledInv

LEMMA BundledInductive == BundledInv /\ [Next]_vars => BundledInv'
<1> SUFFICES ASSUME BundledInv, [Next]_vars PROVE BundledInv'
  OBVIOUS
<1>1. TypedInv /\ TypedInv'
  BY TypedInductive DEF BundledInv
<1> USE DEF TypedInv, TypeOK
<1>2. CASE Handler \/ UNCHANGED vars
  <2>1. UNCHANGED <<stage, requirements, operations>>
    BY <1>2 DEF Handler, Connect, LoadEnds, KeyLoaded, Disconnect, Write, vars, signing, history
  <2> QED
    BY <1>1, <2>1, BundlingUntouched DEF BundledInv
<1>3. ASSUME NEW j \in Jobs, NEW source \in Accounts, Start(j, source) PROVE BundledInv'
  <2>1. stage'[j] = "bundling" /\ \A k \in Jobs : k # j =>
          stage'[k] = stage[k] /\ requirements'[k] = requirements[k] /\ operations'[k] = operations[k]
    BY <1>1, <1>3 DEF Start, Go, history
  <2>2. Covers(requirements'[j], ThresholdsOf(j)')
    BY <1>3, StartBundles
  <2> QED
    BY <1>1, <2>1, <2>2, BundlingUntouched DEF BundledInv
<1>4. ASSUME NEW j \in Jobs, NEW o \in Operations, NextOperation(j, o) PROVE BundledInv'
  <2>1. stage' = stage /\ stage[j] = "bundling" /\ \A k \in Jobs : k # j =>
          requirements'[k] = requirements[k] /\ operations'[k] = operations[k]
    BY <1>1, <1>4 DEF NextOperation
  <2>2. (\A p \in operations'[j] : p.type \notin Understated) =>
          Covers(requirements'[j], ThresholdsOf(j)')
    BY <1>4, NextOperationKeepsBundled
  <2> QED
    BY <1>1, <2>1, <2>2, BundlingUntouched DEF BundledInv
<1>5. ASSUME NEW j \in Jobs, Bundled(j) PROVE BundledInv'
  <2>1. stage'[j] = "signing" /\ \A k \in Jobs : k # j =>
          stage'[k] = stage[k] /\ requirements'[k] = requirements[k] /\ operations'[k] = operations[k]
    BY <1>1, <1>5 DEF Bundled, Go
  <2> QED
    BY <1>1, <2>1, BundlingUntouched DEF BundledInv
<1>6. ASSUME NEW j \in Jobs,
             stage'[j] \notin {"idle", "bundling"}, UNCHANGED operations,
             \A k \in Jobs : k # j => stage'[k] = stage[k] /\ requirements'[k] = requirements[k]
      PROVE  BundledInv'
  BY <1>1, <1>6, BundlingUntouched DEF BundledInv
<1>7. ASSUME NEW j \in Jobs,
             \/ LocalSigner(j) \/ SignerMissing(j)
             \/ FreighterFound(j) \/ FreighterReady(j) \/ FreighterNotReady(j)
             \/ ExtensionSigns(j) \/ ExtensionRefuses(j)
             \/ WrapThrows(j) \/ Submit(j)
      PROVE  BundledInv'
  <2>1. UNCHANGED <<operations, requirements>>
    BY <1>7 DEF LocalSigner, SignerMissing, FreighterFound, FreighterReady, FreighterNotReady,
       ExtensionSigns, ExtensionRefuses, WrapThrows, Submit, history
  <2>2. stage'[j] \notin {"idle", "bundling"} /\ \A k \in Jobs : k # j => stage'[k] = stage[k]
    BY <1>1, <1>7 DEF LocalSigner, SignerMissing, FreighterFound, FreighterReady,
       FreighterNotReady, ExtensionSigns, ExtensionRefuses, WrapThrows, Submit, Go, Unsigned
  <2> QED
    BY <1>6, <2>1, <2>2
<1>8. ASSUME NEW j \in Jobs, NEW fee \in Fees, NEW source \in Accounts, NEW header \in Fees,
             FeeBump(j, fee, source, header)
      PROVE  BundledInv'
  <2>1. UNCHANGED operations /\ stage[j] = "signing"
    BY <1>8 DEF FeeBump, Signed
  <2>2. CASE Go(j, "resolved") /\ UNCHANGED <<envelope, requirements, at, required>>
    BY <1>1, <1>6, <2>1, <2>2 DEF Go
  <2>3. CASE Wrap(j, source) /\ UNCHANGED stage
    BY <1>1, <1>6, <2>1, <2>3 DEF Wrap
  <2> QED
    BY <1>8, <2>2, <2>3 DEF FeeBump
<1> QED
  BY <1>2, <1>3, <1>4, <1>5, <1>7, <1>8 DEF Next, Job

\* RequirementsAreThresholds: whatever operations a transaction has, in whatever
\* order, its requirements are the thresholds the network will ask for.
THEOREM BundleIsThresholds == Spec => []RequirementsAreThresholds
<1>1. Init => BundledInv
  BY DEF Init, BundledInv, TypedInv, TypeOK, Envelopes
<1>2. BundledInv => RequirementsAreThresholds
  <2> SUFFICES ASSUME BundledInv, NEW j \in Jobs, stage[j] = "bundling",
                      \A o \in operations[j] : o.type \notin Understated
               PROVE  /\ \A i, k \in DOMAIN requirements[j] :
                           requirements[j][i].publicKey = requirements[j][k].publicKey => i = k
                      /\ {requirements[j][i] : i \in DOMAIN requirements[j]} =
                           {r \in Requirements : r.thresholdLevel \in Thresholds(j, r.publicKey)
                              /\ \A t \in Thresholds(j, r.publicKey) : t <= r.thresholdLevel}
    BY DEF RequirementsAreThresholds
  <2> DEFINE rs == requirements[j]
             Highest(r) == /\ r.thresholdLevel \in Thresholds(j, r.publicKey)
                           /\ \A t \in Thresholds(j, r.publicKey) : t <= r.thresholdLevel
  <2>1. rs \in Seq(Requirements) /\ Covers(rs, ThresholdsOf(j))
    BY DEF BundledInv, TypedInv, TypeOK
  <2>2. \A r \in Requirements : r.publicKey \in Accounts /\ r.thresholdLevel \in Nat
                                /\ r = [publicKey |-> r.publicKey, thresholdLevel |-> r.thresholdLevel]
    BY DEF Requirements, low, medium, high
  <2>3. \A i \in DOMAIN rs : rs[i] \in Requirements /\ rs[i].publicKey \in Accounts
    BY <2>1, <2>2
  <2>4. \A a \in Accounts : ThresholdsOf(j)[a] = Thresholds(j, a)
    BY DEF ThresholdsOf
  <2> HIDE DEF rs
  <2>5. \A i \in DOMAIN rs : Highest(rs[i])
    BY <2>1, <2>3, <2>4 DEF Covers
  <2>6. ASSUME NEW r \in Requirements, Highest(r) PROVE \E i \in DOMAIN rs : r = rs[i]
    <3>1. PICK i \in DOMAIN rs : rs[i].publicKey = r.publicKey
      BY <2>1, <2>2, <2>4, <2>6 DEF Covers
    <3>2. rs[i].thresholdLevel <= r.thresholdLevel /\ r.thresholdLevel <= rs[i].thresholdLevel
      BY <2>5, <2>6, <3>1
    <3> QED
      BY <2>2, <2>3, <3>1, <3>2
  <2>7. {rs[i] : i \in DOMAIN rs} = {r \in Requirements : Highest(r)}
    BY <2>3, <2>5, <2>6
  <2>8. \A i, k \in DOMAIN rs : rs[i].publicKey = rs[k].publicKey => i = k
    BY <2>1 DEF Covers
  <2> QED
    BY <2>7, <2>8 DEF rs
<1> QED
  BY <1>1, <1>2, BundledInductive, PTL DEF Spec

-----------------------------------------------------------------------------
(* Fee bumps.                                                              *)

\* Induction over the naturals: among some of them one is the least.
LEMMA LeastNatural ==
  ASSUME NEW B \in SUBSET Nat, B # {}
  PROVE  \E n \in B : \A m \in B : n <= m
<1> DEFINE less == {ss \in Nat \X Nat : ss[1] < ss[2]}
<1>1. IsWellFoundedOn(less, Nat)
  BY NatLessThanWellFounded DEF OpToRel
<1>2. PICK n \in B : \A m \in B : <<m, n>> \notin less
  <2> HIDE DEF less
  <2> QED
    BY <1>1, WFMin
<1>3. ASSUME NEW m \in B, m < n PROVE FALSE
  BY <1>2, <1>3
<1> QED
  BY <1>3

LEMMA Tenth ==
  ASSUME NEW n \in Nat, n >= 10
  PROVE  n \div 10 \in Nat /\ n \div 10 < n
OBVIOUS

\* f is the recursion of above, for fees up to m.
AboveTo(f, m) ==
  /\ f \in [0..m -> Nat \ {0}]
  /\ \A n \in 0..m : f[n] = IF n < 10 THEN 10 ELSE 10 * f[n \div 10]

LEMMA AboveToExists == \A m \in Nat : \E f : AboveTo(f, m)
<1> DEFINE B == {m \in Nat : ~ \E f : AboveTo(f, m)}
<1> SUFFICES ASSUME B # {} PROVE FALSE
  OBVIOUS
<1>1. PICK m \in B : \A n \in B : m <= n
  <2> B \in SUBSET Nat
    OBVIOUS
  <2> HIDE DEF B
  <2> QED
    BY LeastNatural
<1>2. CASE m = 0
  <2>1. AboveTo([n \in 0..0 |-> 10], 0)
    BY DEF AboveTo
  <2> QED
    BY <1>2, <2>1
<1>3. CASE m # 0
  <2>1. PICK f : AboveTo(f, m - 1)
    BY <1>1, <1>3
  <2> DEFINE g == [n \in 0..m |-> IF n < m THEN f[n]
                                  ELSE IF m < 10 THEN 10 ELSE 10 * f[m \div 10]]
  <2>2. m >= 10 => m \div 10 \in 0..(m - 1)
    BY Tenth
  <2>3. g \in [0..m -> Nat \ {0}]
    BY <1>3, <2>1, <2>2 DEF AboveTo
  <2>4. ASSUME NEW n \in 0..m PROVE g[n] = IF n < 10 THEN 10 ELSE 10 * g[n \div 10]
    <3>1. n >= 10 => n \div 10 \in 0..m /\ n \div 10 < m
      BY Tenth
    <3>2. n >= 10 => g[n \div 10] = f[n \div 10]
      BY <3>1
    <3>3. CASE n = m
      <4> HIDE DEF g
      <4>1. g[n] = IF m < 10 THEN 10 ELSE 10 * f[m \div 10]
        BY <3>3 DEF g
      <4> QED
        BY <3>2, <3>3, <4>1
    <3>4. CASE n < m
      <4>1. f[n] = IF n < 10 THEN 10 ELSE 10 * f[n \div 10]
        BY <2>1, <3>4 DEF AboveTo
      <4>2. g[n] = f[n]
        BY <3>4
      <4> HIDE DEF g
      <4> QED
        BY <3>2, <4>1, <4>2
    <3> QED
      BY <3>3, <3>4
  <2>5. AboveTo(g, m)
    <3> HIDE DEF g
    <3> QED
      BY <2>3, <2>4 DEF AboveTo
  <2> QED
    BY <2>5
<1> QED
  BY <1>2, <1>3

LEMMA AboveAgree ==
  ASSUME NEW k \in Nat, NEW m \in Nat, NEW f, NEW g, AboveTo(f, k), AboveTo(g, m),
         NEW n \in 0..k, n <= m
  PROVE  f[n] = g[n]
<1> DEFINE B == {i \in 0..n : f[i] # g[i]}
<1> SUFFICES ASSUME B # {} PROVE FALSE
  OBVIOUS
<1>1. PICK i \in B : \A j \in B : i <= j
  <2> B \in SUBSET Nat
    OBVIOUS
  <2> HIDE DEF B
  <2> QED
    BY LeastNatural
<1>2. /\ f[i] = IF i < 10 THEN 10 ELSE 10 * f[i \div 10]
      /\ g[i] = IF i < 10 THEN 10 ELSE 10 * g[i \div 10]
  BY DEF AboveTo
<1>3. i >= 10 => i \div 10 \in 0..n /\ i \div 10 < i
  BY Tenth
<1>4. i >= 10 => f[i \div 10] = g[i \div 10]
  BY <1>1, <1>3
<1> QED
  BY <1>2, <1>4

\* The recursion is a function: a power of ten above a fee is a positive number.
LEMMA AboveTyped == \A n \in Nat : above[n] \in Nat \ {0}
<1> DEFINE upTo == [n \in Nat |-> CHOOSE f : AboveTo(f, n)]
           A == [n \in Nat |-> upTo[n][n]]
<1>1. \A n \in Nat : AboveTo(upTo[n], n)
  BY AboveToExists
<1> HIDE DEF upTo
<1>2. A \in [Nat -> Nat \ {0}]
  BY <1>1 DEF AboveTo
<1>3. ASSUME NEW n \in Nat PROVE A[n] = IF n < 10 THEN 10 ELSE 10 * A[n \div 10]
  <2>1. upTo[n][n] = IF n < 10 THEN 10 ELSE 10 * upTo[n][n \div 10]
    BY <1>1 DEF AboveTo
  <2>2. ASSUME n >= 10 PROVE upTo[n][n \div 10] = upTo[n \div 10][n \div 10]
    <3>1. n \div 10 \in Nat /\ n \div 10 \in 0..n
      BY <2>2, Tenth
    <3> QED
      BY <1>1, <3>1, AboveAgree
  <2>3. n >= 10 => n \div 10 \in Nat
    BY Tenth
  <2> QED
    BY <2>1, <2>2, <2>3
<1>4. A = [n \in Nat |-> IF n < 10 THEN 10 ELSE 10 * A[n \div 10]]
  BY <1>2, <1>3
<1> HIDE DEF A
<1>5. above = [n \in Nat |-> IF n < 10 THEN 10 ELSE 10 * above[n \div 10]]
  BY <1>4 DEF above
<1>6. \A n \in Nat : above[n] = A[n]
  <2> DEFINE B == {n \in Nat : above[n] # A[n]}
  <2> SUFFICES ASSUME B # {} PROVE FALSE
    OBVIOUS
  <2>1. PICK n \in B : \A m \in B : n <= m
    <3> B \in SUBSET Nat
      OBVIOUS
    <3> HIDE DEF B
    <3> QED
      BY LeastNatural
  <2>2. /\ above[n] = IF n < 10 THEN 10 ELSE 10 * above[n \div 10]
        /\ A[n] = IF n < 10 THEN 10 ELSE 10 * A[n \div 10]
    BY <1>4, <1>5
  <2>3. n >= 10 => above[n \div 10] = A[n \div 10]
    BY <2>1, Tenth
  <2> QED
    BY <2>2, <2>3
<1> QED
  BY <1>2, <1>6

\* Multiplying by the same positive number keeps the order.
LEMMA ScaleCompare ==
  ASSUME NEW a \in Nat, NEW b \in Nat, NEW p \in Nat \ {0}
  PROVE  (a * p > b * p \/ (a * p = b * p /\ a >= b)) <=> a >= b
<1>1. CASE a >= b
  <2>1. a * p = b * p + (a - b) * p
    BY <1>1
  <2>2. (a - b) * p >= 0
    BY <1>1
  <2>3. a * p \in Nat /\ b * p \in Nat /\ (a - b) * p \in Nat
    BY <1>1
  <2> QED
    BY <1>1, <2>1, <2>2, <2>3
<1>2. CASE a < b
  <2>1. b * p = a * p + (b - a) * p
    BY <1>2
  <2>2. (b - a) * p >= 1
    BY <1>2
  <2>3. a * p \in Nat /\ b * p \in Nat /\ (b - a) * p \in Nat
    BY <1>2
  <2> QED
    BY <1>2, <2>1, <2>2, <2>3
<1> QED
  BY <1>1, <1>2

\* Strings of as many digits compare as numbers.
LEMMA StringsCompare ==
  ASSUME NEW a \in Nat, NEW b \in Nat, above[a] = above[b]
  PROVE  StringAtLeast(a, b) <=> a >= b
<1>1. above[a] \in Nat \ {0}
  BY AboveTyped
<1>2. StringAtLeast(a, b) <=>
        a * above[a] > b * above[a] \/ (a * above[a] = b * above[a] /\ a >= b)
  BY DEF StringAtLeast
<1> QED
  BY <1>1, <1>2, ScaleCompare

\* Once the plugin has compared fees, the envelope is the one it decided for.
BumpInv ==
  /\ TypedInv
  /\ \A j \in Jobs : bump[j].fee # 0 =>
       (envelope[j] = "feeBump" <=>
          ~(bump[j].same /\ StringAtLeast(bump[j].fee, bump[j].header)))
  /\ \A j \in Jobs : bump[j].fee # 0 => bump[j].header # 0

\* No step of any job or of the handler breaks it.
LEMMA BumpInductive == BumpInv /\ [Next]_vars => BumpInv'
<1> SUFFICES ASSUME BumpInv, [Next]_vars PROVE BumpInv'
  OBVIOUS
<1>1. TypedInv /\ TypedInv'
  BY TypedInductive DEF BumpInv
<1>2. ASSUME NEW j \in Jobs, NEW fee \in Fees, NEW source \in Accounts, NEW header \in Fees,
             FeeBump(j, fee, source, header)
      PROVE  BumpInv'
  <2> DEFINE same == source = requirements[j][1].publicKey
  <2>1. /\ bump' = [bump EXCEPT ![j] = [same |-> same, fee |-> fee, header |-> header]]
        /\ envelope[j] = "transaction"
        /\ IF same /\ StringAtLeast(fee, header)
           THEN UNCHANGED envelope ELSE envelope' = [envelope EXCEPT ![j] = "feeBump"]
    BY <1>2 DEF FeeBump, Wrap
  <2>2. DOMAIN bump = Jobs /\ DOMAIN envelope = Jobs /\ header # 0
    BY <1>1, SigningAssumption DEF TypedInv, TypeOK
  <2>3. /\ bump'[j] = [same |-> same, fee |-> fee, header |-> header]
        /\ \A k \in Jobs \ {j} : bump'[k] = bump[k] /\ envelope'[k] = envelope[k]
    BY <2>1, <2>2
  <2>4. envelope'[j] = "feeBump" <=> ~(same /\ StringAtLeast(fee, header))
    BY <2>1, <2>2
  <2> HIDE DEF same
  <2> QED
    BY <1>1, <2>2, <2>3, <2>4 DEF BumpInv
<1>3. CASE UNCHANGED <<bump, envelope>>
  BY <1>1, <1>3 DEF BumpInv
<1>4. ASSUME NEW j \in Jobs, Job(j),
             \A fee \in Fees, source \in Accounts, header \in Fees :
               ~FeeBump(j, fee, source, header)
      PROVE  UNCHANGED <<bump, envelope>>
  BY <1>4 DEF Job, Start, NextOperation, Bundled, LocalSigner, SignerMissing, FreighterFound,
       FreighterReady, FreighterNotReady, ExtensionSigns, ExtensionRefuses, WrapThrows, Submit
<1>5. ASSUME Handler \/ UNCHANGED vars PROVE UNCHANGED <<bump, envelope>>
  BY <1>5 DEF Handler, Connect, LoadEnds, KeyLoaded, Disconnect, Write, vars, signing
<1> QED
  BY <1>2, <1>3, <1>4, <1>5 DEF Next

\* "A fee bump for the same source account is only effective if the fee is
\* increased": of fees with as many digits, the plugin bumps exactly when it is, or
\* another account pays, although it compares strings.
THEOREM BumpsAreEffective == Spec => []BumpedWhenEffective
<1>1. Init => BumpInv
  BY DEF Init, BumpInv, TypedInv, TypeOK, Envelopes
<1>2. BumpInv => BumpedWhenEffective
  <2>1. ASSUME BumpInv, NEW j \in Jobs, bump[j].fee # 0, above[bump[j].fee] = above[bump[j].header]
        PROVE  envelope[j] = "feeBump" <=> ~bump[j].same \/ bump[j].header > bump[j].fee
    <3> DEFINE fee == bump[j].fee
               header == bump[j].header
    <3>1. fee \in Fees /\ header \in Fees /\ bump[j].same \in BOOLEAN
      BY <2>1 DEF BumpInv, TypedInv, TypeOK
    <3>2. envelope[j] = "feeBump" <=> ~(bump[j].same /\ StringAtLeast(fee, header))
      BY <2>1 DEF BumpInv
    <3>3. above[fee] = above[header]
      BY <2>1
    <3> HIDE DEF fee, header
    <3>4. fee \in Nat /\ header \in Nat
      BY <3>1, SigningAssumption
    <3>5. StringAtLeast(fee, header) <=> fee >= header
      BY <3>3, <3>4, StringsCompare
    <3>6. fee >= header <=> ~(header > fee)
      BY <3>4
    <3>7. envelope[j] = "feeBump" <=> ~bump[j].same \/ header > fee
      BY <3>2, <3>5, <3>6
    <3> QED
      BY <3>7 DEF fee, header
  <2> QED
    BY <2>1 DEF BumpedWhenEffective
<1> QED
  BY <1>1, <1>2, BumpInductive, PTL DEF Spec

=============================================================================
