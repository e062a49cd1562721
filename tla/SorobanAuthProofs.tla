------------------------- MODULE SorobanAuthProofs -------------------------
(***************************************************************************)
(* Theorems on SorobanAuth, for any entries, signers, bounds and clock.    *)
(***************************************************************************)
EXTENDS SorobanAuth, TLAPS

\* TypeOK but for the number of the transaction returned: what the conversion
\* of a number no double holds yields is beyond the prover.
AuthTypeOK ==
  /\ input \in Inputs
  /\ pc \in {"called", "signing", "ledger", "signature", "simulation", "returned", "threw"}
  /\ toSign \subseteq Entries
  /\ entry \in Entries \cup {"none"}
  /\ timeout \in Int /\ expiration \in Int
  /\ signed \subseteq Signatures
  /\ authorized \subseteq Entries
  /\ now \in Nat /\ ledger \in Nat /\ closedAt \in Nat
  /\ pc = "signature" => entry \in Entries /\ Credential[entry] \in input.signers
  /\ pc = "ledger" => entry \in Entries /\ Credential[entry] \in input.signers

\* Division, as the rounding uses it.
LEMMA Quotient ==
  ASSUME NEW a \in Int, NEW b \in Nat \ {0}
  PROVE  /\ a \div b \in Int
         /\ b * (a \div b) <= a
         /\ a < b * (a \div b) + b
  BY Z3

LEMMA ExpirationTyped ==
  ASSUME AuthTypeOK
  PROVE  /\ Expiration(ledger) \in Int /\ TimeToExpire \in Int
         /\ input.maxTime \in Nat /\ input.maxLedger \in Nat
<1>1. 2 * timeout + LedgerTime \in Int /\ 2 * LedgerTime \in Nat \ {0}
  BY AuthAssumption DEF AuthTypeOK
<1>2. (2 * timeout + LedgerTime) \div (2 * LedgerTime) \in Int
  BY <1>1, Quotient
<1>3. input.maxTime \in Nat /\ input.maxLedger \in Nat
  BY AuthAssumption DEF AuthTypeOK, Inputs
<1> QED
  BY <1>2, <1>3, AuthAssumption DEF Expiration, TimeToExpire, AuthTypeOK

LEMMA AuthTypes == Spec => []AuthTypeOK
<1>1. Init => AuthTypeOK
  BY DEF Init, AuthTypeOK, Inputs
<1>2. AuthTypeOK /\ [Next]_vars => AuthTypeOK'
  <2> SUFFICES ASSUME AuthTypeOK, [Next]_vars PROVE AuthTypeOK'
    OBVIOUS
  <2>0. /\ Expiration(ledger) \in Int /\ TimeToExpire \in Int
        /\ input.maxTime \in Nat /\ input.maxLedger \in Nat
    BY ExpirationTyped
  <2> USE DEF AuthTypeOK, clockVars, processVars
  <2>1. CASE Tick \/ LedgerCloses
    BY <2>1 DEF Tick, LedgerCloses
  <2>2. CASE Skip \/ NoSignersProvided \/ SignerNotFound \/ RequestFails \/ SimulationAnswers
    BY <2>2 DEF Skip, NoSignersProvided, SignerNotFound, RequestFails, SimulationAnswers, Throw
  <2>3. CASE Begin
    BY <2>3 DEF Begin, EntriesToSign, Inputs
  <2>4. ASSUME NEW e \in Entries, NextEntry(e) PROVE AuthTypeOK'
    BY <2>0, <2>4 DEF NextEntry
  <2>5. CASE LedgerAnswers
    BY <2>0, <2>5 DEF LedgerAnswers
  <2>6. CASE SignerAnswers
    <3>1. Credential[entry] \in UNION SignerSets
      BY <2>6 DEF SignerAnswers, Inputs
    <3> QED
      BY <2>6, <3>1 DEF SignerAnswers, Signatures
  <2>7. CASE UpdateTransaction
    BY <2>7 DEF UpdateTransaction, SourceEntries, Inputs, Signatures
  <2>8. CASE UNCHANGED vars
    BY <2>8 DEF vars
  <2>9. ASSUME NEW key \in UNION SignerSets, FreighterAnswers(key) PROVE AuthTypeOK'
    BY <2>9 DEF FreighterAnswers, Signatures
  <2> QED
    BY <2>1, <2>2, <2>3, <2>4, <2>5, <2>6, <2>7, <2>8, <2>9 DEF Next, Process
<1> QED
  BY <1>1, <1>2, PTL DEF Spec

IsNumber == sequence \in Int

\* Up to 2^53 the rebuild takes off what the builder adds.
LEMMA SafeNumbersKept ==
  ASSUME NEW n \in Nat \ {0}, n <= MaxSafe
  PROVE  RebuiltSequence(n) = n
<1>1. MaxSafe \in Nat /\ n - 1 \in Nat /\ n - 1 <= MaxSafe
  BY AuthAssumption
<1>2. ToDouble(n) = n
  BY DEF ToDouble
<1>3. ToDouble(n - 1) = n - 1
  BY <1>1 DEF ToDouble
<1>4. ToDecimal(n - 1) = n - 1
  BY <1>1 DEF ToDecimal
<1> QED
  BY <1>2, <1>3, <1>4 DEF RebuiltSequence

\* The variables keep their types, if the sequence numbers are ones a double
\* holds.
THEOREM AuthTypeCorrect ==
  ASSUME \A n \in Sequences : n <= MaxSafe
  PROVE  Spec => []TypeOK
<1>1. Init => IsNumber
  BY AuthAssumption DEF Init, Inputs, IsNumber
<1>2. AuthTypeOK /\ IsNumber /\ [Next]_vars => IsNumber'
  <2> SUFFICES ASSUME AuthTypeOK, IsNumber, [Next]_vars PROVE IsNumber'
    OBVIOUS
  <2>1. CASE UpdateTransaction
    <3>1. /\ input.sequence \in Nat \ {0} /\ input.sequence <= MaxSafe
          /\ MaxSafe \in Nat
      BY AuthAssumption DEF AuthTypeOK, Inputs
    <3>2. RebuiltSequence(input.sequence) = input.sequence
      BY <3>1, SafeNumbersKept
    <3> QED
      BY <2>1, <3>1, <3>2 DEF UpdateTransaction, IsNumber
  <2> QED
    BY <2>1 DEF Next, Process, Tick, LedgerCloses, Skip, NoSignersProvided, Begin, SignerNotFound,
       NextEntry, LedgerAnswers, SignerAnswers, FreighterAnswers, SimulationAnswers, RequestFails, Throw,
       processVars, vars, IsNumber
<1>3. AuthTypeOK /\ IsNumber => TypeOK
  BY DEF AuthTypeOK, TypeOK, IsNumber
<1> QED
  BY <1>1, <1>2, <1>3, AuthTypes, PTL DEF Spec

-----------------------------------------------------------------------------
\* The entries accounted for at each stage of process().
Accounted ==
  /\ pc = "called" => authorized = input.simulated
  /\ \A s \in signed : s.by = Credential[s.entry] \/ Credential[s.entry] \in Freighters
  /\ pc = "called" => signed = {}
  /\ pc = "signing" => EntriesToSign = toSign \cup {s.entry : s \in signed}
  /\ pc \in {"ledger", "signature"} =>
       EntriesToSign = toSign \cup {s.entry : s \in signed} \cup {entry}
  /\ pc \in {"simulation", "returned"} =>
       /\ authorized = input.simulated \cup input.additional \cup input.presigned
       /\ EntriesToSign \subseteq {s.entry : s \in signed}

\* FullyAuthorized: what is returned has every entry, each signed by the account
\* it names.
THEOREM ReturnedFullyAuthorized == Spec => []FullyAuthorized
<1>1. Init => Accounted
  BY DEF Init, Accounted
<1>2. AuthTypeOK /\ Accounted /\ [Next]_vars => Accounted'
  <2> SUFFICES ASSUME AuthTypeOK, Accounted, [Next]_vars PROVE Accounted'
    OBVIOUS
  <2>1. input' = input /\ EntriesToSign' = EntriesToSign
    BY DEF Next, Process, Tick, LedgerCloses, Skip, NoSignersProvided, Begin, SignerNotFound,
       NextEntry, LedgerAnswers, SignerAnswers, FreighterAnswers, UpdateTransaction, SimulationAnswers,
       RequestFails, Throw, vars, EntriesToSign, SourceEntries
  <2> USE DEF Accounted, clockVars, processVars
  <2>2. CASE Tick \/ LedgerCloses \/ UNCHANGED vars
    BY <2>1, <2>2 DEF Tick, LedgerCloses, vars
  <2>3. CASE NoSignersProvided \/ SignerNotFound \/ RequestFails
    BY <2>1, <2>3 DEF NoSignersProvided, SignerNotFound, RequestFails, Throw
  <2>4. CASE Skip
    BY <2>1, <2>4 DEF Skip, EntriesToSign
  <2>5. CASE Begin
    BY <2>1, <2>5 DEF Begin
  <2>6. ASSUME NEW e \in Entries, NextEntry(e) PROVE Accounted'
    <3>1. /\ pc = "signing" /\ e \in toSign /\ toSign' = toSign \ {e} /\ entry' = e
          /\ signed' = signed /\ pc' \in {"ledger", "signature"}
      BY <2>6 DEF NextEntry
    <3> QED
      BY <2>1, <3>1
  <2>7. CASE LedgerAnswers
    BY <2>1, <2>7 DEF LedgerAnswers
  <2>8. CASE SignerAnswers
    <3> DEFINE new == [entry |-> entry, by |-> Credential[entry], until |-> expiration]
    <3>1. signed' = signed \cup {new} /\ pc = "signature" /\ pc' = "signing" /\ toSign' = toSign
      BY <2>8 DEF SignerAnswers
    <3>2. new.entry = entry /\ new.by = Credential[entry]
      OBVIOUS
    <3> HIDE DEF new
    <3>3. {s.entry : s \in signed'} = {s.entry : s \in signed} \cup {entry}
      BY <3>1, <3>2
    <3> QED
      BY <2>1, <3>1, <3>2, <3>3
  <2>9. CASE UpdateTransaction
    <3>1. authorized' = SourceEntries \cup input.presigned \cup EntriesToSign
      BY <2>9 DEF UpdateTransaction
    <3>2. EntriesToSign = (input.simulated \ SourceEntries) \cup input.additional
      BY DEF EntriesToSign
    <3>3. SourceEntries \subseteq input.simulated
      BY DEF SourceEntries
    <3>4. authorized' = input.simulated \cup input.additional \cup input.presigned
      BY <3>1, <3>2, <3>3
    <3> QED
      BY <2>1, <2>9, <3>4 DEF UpdateTransaction
  <2>10. CASE SimulationAnswers
    BY <2>1, <2>10 DEF SimulationAnswers
  <2>11. ASSUME NEW key \in UNION SignerSets, FreighterAnswers(key) PROVE Accounted'
    <3> DEFINE new == [entry |-> entry, by |-> key, until |-> 0]
    <3>1. /\ signed' = signed \cup {new} /\ pc = "signature" /\ pc' = "signing" /\ toSign' = toSign
          /\ Credential[entry] \in Freighters
      BY <2>11 DEF FreighterAnswers
    <3>2. new.entry = entry
      OBVIOUS
    <3> HIDE DEF new
    <3>3. {s.entry : s \in signed'} = {s.entry : s \in signed} \cup {entry}
      BY <3>1, <3>2
    <3> QED
      BY <2>1, <3>1, <3>2, <3>3
  <2> QED
    BY <2>2, <2>3, <2>4, <2>5, <2>6, <2>7, <2>8, <2>9, <2>10, <2>11 DEF Next, Process
<1>3. Accounted => FullyAuthorized
  BY DEF Accounted, FullyAuthorized
<1> QED
  BY <1>1, <1>2, <1>3, AuthTypes, PTL DEF Spec

\* SafeSequenceKept: up to 2^53 the transaction returned has the sequence number
\* it was built with.
THEOREM SafeSequencesKept == Spec => []SafeSequenceKept
<1> DEFINE Kept == input.sequence <= MaxSafe => sequence = input.sequence
<1>1. Init => Kept
  BY DEF Init
<1>2. AuthTypeOK /\ Kept /\ [Next]_vars => Kept'
  <2> SUFFICES ASSUME AuthTypeOK, Kept, [Next]_vars PROVE Kept'
    OBVIOUS
  <2>1. CASE UpdateTransaction
    <3>1. input.sequence \in Nat \ {0}
      BY AuthAssumption DEF AuthTypeOK, Inputs
    <3> QED
      BY <2>1, <3>1, SafeNumbersKept DEF UpdateTransaction
  <2> QED
    BY <2>1 DEF Next, Process, Tick, LedgerCloses, Skip, NoSignersProvided, Begin, SignerNotFound,
       NextEntry, LedgerAnswers, SignerAnswers, FreighterAnswers, SimulationAnswers, RequestFails, Throw,
       processVars, vars
<1>3. Kept => SafeSequenceKept
  BY DEF SafeSequenceKept, SequenceKept
<1> QED
  BY <1>1, <1>2, <1>3, AuthTypes, PTL DEF Spec

-----------------------------------------------------------------------------
(* Signatures outlive transactions.  A signature valid until a ledger covers *)
(* the time bound if no ledger after that one can close in time: with next   *)
(* the first moment a ledger may close, the k-th ledger after that closes    *)
(* k * LedgerTime later at the earliest.                                     *)

NextClose == IF now >= closedAt + LedgerTime THEN now ELSE closedAt + LedgerTime

Covers(until) ==
  /\ now <= input.maxTime => ledger <= until
  /\ \A k \in Nat : NextClose + k * LedgerTime <= input.maxTime => ledger + k + 1 <= until

LifetimeInv ==
  /\ input.maxLedger > 0 =>
       /\ pc # "ledger"
       /\ pc = "signature" => expiration = input.maxLedger
       /\ \A s \in signed : Credential[s.entry] \notin Freighters => s.until = input.maxLedger
  /\ input.maxLedger = 0 /\ input.maxTime > 0 =>
       /\ pc = "ledger" => timeout + now >= input.maxTime
       /\ pc = "signature" => Covers(expiration)
       /\ \A s \in signed : Credential[s.entry] \notin Freighters => Covers(s.until)

\* The ledger's number that the server answers, and the time left when it was
\* asked, cover the bound: at most one ledger closes at once and one more every
\* LedgerTime.
LEMMA ExpirationCovers ==
  ASSUME AuthTypeOK, timeout + now >= input.maxTime
  PROVE  Covers(Expiration(ledger))
<1> DEFINE a == 2 * timeout + LedgerTime
           b == 2 * LedgerTime
           q == a \div b
<1>1. /\ a \in Int /\ b \in Nat \ {0} /\ LedgerTime \in Nat \ {0} /\ timeout \in Int
      /\ now \in Nat /\ ledger \in Nat /\ closedAt \in Nat /\ input.maxTime \in Nat
  BY ExpirationTyped, AuthAssumption DEF AuthTypeOK
<1>2. q \in Int /\ a < b * q + b
  BY <1>1, Quotient
<1>3. Expiration(ledger) = ledger + 1 + q
  BY DEF Expiration
<1>4. NextClose \in Nat /\ NextClose >= now
  BY <1>1 DEF NextClose
<1> HIDE DEF q
<1>5. ASSUME NEW k \in Nat, now + k * LedgerTime <= input.maxTime
      PROVE  k <= q
  <2>1. k * LedgerTime \in Nat /\ b * q \in Int
    BY <1>1, <1>2
  <2>2. 2 * (k * LedgerTime) < b * q + b
    BY <1>1, <1>2, <1>5, <2>1
  <2>3. 2 * (k * LedgerTime) = b * k
    BY <1>1
  <2>4. b * k < b * (q + 1)
    BY <1>1, <1>2, <2>2, <2>3
  <2>5. k < q + 1
    BY <1>1, <1>2, <2>4
  <2> QED
    BY <1>2, <2>5
<1>6. now <= input.maxTime => 0 <= q
  BY <1>1, <1>5
<1>7. ASSUME NEW k \in Nat, NextClose + k * LedgerTime <= input.maxTime
      PROVE  ledger + k + 1 <= ledger + 1 + q
  <2>1. k * LedgerTime \in Nat
    BY <1>1
  <2>2. now + k * LedgerTime <= input.maxTime
    BY <1>1, <1>4, <1>7, <2>1
  <2> QED
    BY <1>1, <1>2, <1>5, <2>2
<1> QED
  BY <1>1, <1>2, <1>3, <1>6, <1>7 DEF Covers

\* Neither the clock nor a ledger uncovers a signature.
LEMMA CoverKept ==
  ASSUME AuthTypeOK, NEW until \in Int, Covers(until), Tick \/ LedgerCloses
  PROVE  Covers(until)'
<1>1. /\ LedgerTime \in Nat \ {0} /\ input' = input /\ input.maxTime \in Nat
      /\ now \in Nat /\ ledger \in Nat /\ closedAt \in Nat
  BY ExpirationTyped, AuthAssumption DEF AuthTypeOK, Tick, LedgerCloses
<1>2. CASE Tick
  <2>1. ledger' = ledger /\ now' = now + 1 /\ NextClose \in Nat /\ NextClose' \in Nat /\ NextClose <= NextClose'
    BY <1>1, <1>2 DEF Tick, NextClose
  <2>2. ASSUME NEW k \in Nat, NextClose' + k * LedgerTime <= input.maxTime
        PROVE  ledger + k + 1 <= until
    <3>1. k * LedgerTime \in Nat
      BY <1>1
    <3>2. NextClose + k * LedgerTime <= input.maxTime
      BY <1>1, <2>1, <2>2, <3>1
    <3> QED
      BY <3>2 DEF Covers
  <2> QED
    BY <1>1, <2>1, <2>2 DEF Covers
<1>3. CASE LedgerCloses
  <2>1. /\ NextClose = now /\ now' = now /\ ledger' = ledger + 1
        /\ NextClose' = now + LedgerTime
    BY <1>1, <1>3 DEF LedgerCloses, NextClose
  <2>2. now <= input.maxTime => ledger + 1 <= until
    <3>1. 0 * LedgerTime = 0 /\ 0 \in Nat
      BY <1>1
    <3>2. NextClose + 0 * LedgerTime <= input.maxTime => ledger + 0 + 1 <= until
      BY <3>1 DEF Covers
    <3> QED
      BY <1>1, <2>1, <3>1, <3>2
  <2>3. ASSUME NEW k \in Nat, NextClose' + k * LedgerTime <= input.maxTime
        PROVE  ledger + 1 + k + 1 <= until
    <3>1. /\ k + 1 \in Nat /\ k * LedgerTime \in Nat
          /\ (k + 1) * LedgerTime = k * LedgerTime + LedgerTime
      BY <1>1
    <3>2. NextClose + (k + 1) * LedgerTime <= input.maxTime
      BY <1>1, <2>1, <2>3, <3>1
    <3>3. ledger + (k + 1) + 1 <= until
      BY <3>1, <3>2 DEF Covers
    <3> QED
      BY <1>1, <3>3
  <2> QED
    BY <1>1, <2>1, <2>2, <2>3 DEF Covers
<1> QED
  BY <1>2, <1>3

\* SignaturesOutliveTransaction: no signature expires before the transaction it
\* is for.
THEOREM SignaturesOutlive == Spec => []SignaturesOutliveTransaction
<1>1. Init => LifetimeInv
  BY DEF Init, LifetimeInv
<1>2. AuthTypeOK /\ LifetimeInv /\ [Next]_vars => LifetimeInv'
  <2> SUFFICES ASSUME AuthTypeOK, LifetimeInv, [Next]_vars PROVE LifetimeInv'
    OBVIOUS
  <2>1. /\ input.maxTime \in Nat /\ input.maxLedger \in Nat
        /\ timeout \in Int /\ expiration \in Int /\ now \in Nat
        /\ \A s \in signed : s.until \in Int
    BY ExpirationTyped DEF AuthTypeOK, Signatures
  <2>2. CASE Tick \/ LedgerCloses
    <3>1. /\ input' = input /\ pc' = pc /\ signed' = signed /\ expiration' = expiration
          /\ timeout' = timeout /\ now' \in Nat /\ now' >= now
      BY <2>1, <2>2 DEF Tick, LedgerCloses, processVars
    <3>2. \A until \in Int : Covers(until) => Covers(until)'
      BY <2>2, CoverKept
    <3> QED
      BY <2>1, <3>1, <3>2 DEF LifetimeInv
  <2>3. ASSUME UNCHANGED <<input, clockVars>> PROVE \A until : Covers(until)' = Covers(until)
    BY <2>3 DEF Covers, NextClose, clockVars
  <2>4. CASE \/ Skip \/ NoSignersProvided \/ Begin \/ SignerNotFound \/ UpdateTransaction
             \/ SimulationAnswers \/ RequestFails \/ UNCHANGED vars
    <3>1. /\ UNCHANGED <<input, clockVars>> /\ signed' = signed /\ expiration' = expiration
          /\ timeout' = timeout
          /\ pc' \in {"ledger", "signature"} => pc' = pc
      BY <2>4 DEF Skip, NoSignersProvided, Begin, SignerNotFound, UpdateTransaction,
         SimulationAnswers, RequestFails, Throw, processVars, vars
    <3> QED
      BY <2>3, <3>1 DEF LifetimeInv, clockVars
  <2>5. ASSUME NEW e \in Entries, NextEntry(e) PROVE LifetimeInv'
    <3>1. UNCHANGED <<input, clockVars>> /\ signed' = signed
      BY <2>5 DEF NextEntry
    <3>2. CASE input.maxLedger > 0
      BY <2>5, <3>1, <3>2 DEF NextEntry, LifetimeInv
    <3>3. CASE ~(input.maxLedger > 0)
      <4>1. pc' = "ledger" /\ timeout' = TimeToExpire /\ now' = now
        BY <2>5, <3>3 DEF NextEntry, clockVars
      <4>2. input.maxTime > 0 => timeout' + now' >= input.maxTime
        BY <2>1, <4>1 DEF TimeToExpire
      <4> QED
        BY <2>3, <3>1, <3>3, <4>1, <4>2 DEF LifetimeInv
    <3> QED
      BY <3>2, <3>3
  <2>6. CASE LedgerAnswers
    <3>1. /\ UNCHANGED <<input, clockVars>> /\ signed' = signed /\ expiration' = Expiration(ledger)
          /\ pc = "ledger" /\ pc' = "signature"
      BY <2>6 DEF LedgerAnswers
    <3>2. ~(input.maxLedger > 0)
      BY <3>1 DEF LifetimeInv
    <3>3. input.maxTime > 0 => Covers(expiration')
      BY <2>1, <3>1, <3>2, ExpirationCovers DEF LifetimeInv
    <3> QED
      BY <2>3, <3>1, <3>2, <3>3 DEF LifetimeInv
  <2>7. CASE SignerAnswers
    <3> DEFINE new == [entry |-> entry, by |-> Credential[entry], until |-> expiration]
    <3>1. /\ UNCHANGED <<input, clockVars>> /\ signed' = signed \cup {new} /\ new.until = expiration
          /\ pc = "signature" /\ pc' = "signing" /\ expiration' = expiration
      BY <2>7 DEF SignerAnswers
    <3> HIDE DEF new
    <3> QED
      BY <2>3, <3>1 DEF LifetimeInv
  <2>8. ASSUME NEW key \in UNION SignerSets, FreighterAnswers(key) PROVE LifetimeInv'
    <3> DEFINE new == [entry |-> entry, by |-> key, until |-> 0]
    <3>1. /\ UNCHANGED <<input, clockVars>> /\ signed' = signed \cup {new}
          /\ new.entry = entry /\ Credential[entry] \in Freighters
          /\ pc' = "signing" /\ expiration' = expiration
      BY <2>8 DEF FreighterAnswers
    <3> HIDE DEF new
    <3> QED
      BY <2>3, <3>1 DEF LifetimeInv
  <2> QED
    BY <2>2, <2>4, <2>5, <2>6, <2>7, <2>8 DEF Next, Process
<1>3. AuthTypeOK /\ LifetimeInv => SignaturesOutliveTransaction
  <2> SUFFICES ASSUME AuthTypeOK, LifetimeInv, MayBeIncluded, NEW s \in signed,
                      Credential[s.entry] \notin Freighters,
                      input.maxTime > 0 \/ input.maxLedger > 0
               PROVE  ledger <= s.until
    BY DEF SignaturesOutliveTransaction
  <2>1. input.maxTime \in Nat /\ input.maxLedger \in Nat
    BY ExpirationTyped
  <2>2. CASE input.maxLedger > 0
    BY <2>2 DEF LifetimeInv, MayBeIncluded
  <2>3. CASE input.maxLedger = 0
    BY <2>1, <2>3 DEF LifetimeInv, MayBeIncluded, Covers
  <2> QED
    BY <2>1, <2>2, <2>3
<1> QED
  BY <1>1, <1>2, <1>3, AuthTypes, PTL DEF Spec

=============================================================================
