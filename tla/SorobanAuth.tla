---------------------------- MODULE SorobanAuth ----------------------------
(***************************************************************************)
(* process() of the Soroban auth pipeline (core/pipelines/soroban-auth):   *)
(* every authorization entry that is not covered by the source's own       *)
(* signature is signed by the account it names, the transaction is rebuilt *)
(* with the signed entries and simulated again.                            *)
(*                                                                         *)
(* Signers may be wallets that ask a person, and the number of a ledger is *)
(* asked for each entry, so the clock and the ledger move between any two  *)
(* steps.  Time is in ticks; the transaction's time bound is a tick.       *)
(* Transactions are their sequence number and their entries.               *)
(***************************************************************************)
EXTENDS Integers

CONSTANTS
  Entries,         \* authorization entries
  Credential,      \* entry -> the account to sign it, "source" or "contract"
  SignerSets,      \* the accounts whose handlers may be given
  Freighters,      \* the accounts that Freighter handlers are connected to
  Sequences,       \* the sequence numbers a transaction may have
  MaxSafe,         \* 2^53: doubles hold every integer up to it
  MaxTimes,        \* the values timeBounds.maxTime may have; 0 is none
  MaxLedgers,      \* the values ledgerBounds.maxLedger may have; 0 is none
  LedgerTime,      \* ticks in the five seconds the code takes a ledger to last
  DefaultTimeout,  \* ticks in the ten minutes without a time bound
  MaxNow           \* the clock stops here: a bound of the model

ASSUME AuthAssumption ==
  /\ \A signers \in SignerSets : signers \cap {"source", "contract"} = {}
  /\ Sequences \subseteq Nat \ {0}
  /\ MaxSafe \in Nat
  /\ MaxTimes \subseteq Nat
  /\ MaxLedgers \subseteq Nat
  /\ LedgerTime \in Nat \ {0}
  /\ DefaultTimeout \in Nat
  /\ MaxNow \in Nat

VARIABLES
  input,       \* the transaction, the simulation's and the additional entries
  pc,          \* where process() is
  toSign,      \* authEntriesToSign not yet signed
  entry,       \* the entry being signed
  timeout,     \* computed before the ledger is asked for
  expiration,  \* the ledger the next signature is valid until
  signed,      \* the entries signed, by whom, and until when
  authorized,  \* the entries of the rebuilt transaction
  sequence,    \* the sequence number of the transaction returned
  now,         \* Date.now()
  ledger,      \* the latest ledger
  closedAt     \* when it closed

processVars == <<toSign, entry, timeout, expiration, signed, authorized, sequence>>
clockVars == <<now, ledger, closedAt>>
vars == <<input, pc, processVars, clockVars>>

Inputs == [simulated : SUBSET Entries,   \* simulation.result.auth
           additional : SUBSET Entries,  \* additionalSorobanAuthToSign
           presigned : SUBSET Entries,   \* additionalSignedSorobanAuth
           signers : SignerSets,
           sequence : Sequences, maxTime : MaxTimes, maxLedger : MaxLedgers]

Signatures == [entry : Entries, by : UNION SignerSets, until : Int]

TypeOK ==
  /\ input \in Inputs
  /\ pc \in {"called", "signing", "ledger", "signature", "simulation", "returned", "threw"}
  /\ toSign \subseteq Entries
  /\ entry \in Entries \cup {"none"}
  /\ timeout \in Int /\ expiration \in Int
  /\ signed \subseteq Signatures
  /\ authorized \subseteq Entries
  /\ sequence \in Int
  /\ now \in Nat /\ ledger \in Nat /\ closedAt \in Nat

\* Each entry comes from one of the three sources.
Init ==
  /\ input \in Inputs
  /\ input.simulated \cap input.additional = {}
  /\ (input.simulated \cup input.additional) \cap input.presigned = {}
  /\ pc = "called"
  /\ toSign = {} /\ entry = "none" /\ timeout = 0 /\ expiration = 0
  /\ signed = {} /\ authorized = input.simulated
  /\ sequence = input.sequence
  /\ now = 0 /\ ledger = 0 /\ closedAt = 0

-----------------------------------------------------------------------------
(* The clock and the ledger.                                               *)

Tick ==
  /\ now < MaxNow
  /\ now' = now + 1
  /\ UNCHANGED <<input, pc, processVars, ledger, closedAt>>

\* Ledgers are at least LedgerTime apart, and may be later.
LedgerCloses ==
  /\ now >= closedAt + LedgerTime
  /\ ledger' = ledger + 1 /\ closedAt' = now
  /\ UNCHANGED <<input, pc, processVars, now>>

-----------------------------------------------------------------------------
(* Sequence numbers as JavaScript numbers.                                 *)

\* The distance between the doubles around n.
spacing[n \in Nat] == IF n <= MaxSafe THEN 1 ELSE 2 * spacing[(n + 1) \div 2]

\* Number(n): the nearest double, or of two the one with the even mantissa.
ToDouble(n) ==
  IF n <= MaxSafe THEN n
  ELSE LET s == spacing[n]
           below == n \div s
           over == 2 * (n % s)
       IN  IF over > s \/ (over = s /\ below % 2 = 1) THEN (below + 1) * s ELSE below * s

\* d.toString(): of the decimals with the fewest significant digits that read
\* back as d, the nearest; below 2^53 that is d itself.
ToDecimal(d) ==
  IF d <= MaxSafe THEN d
  ELSE LET readAsD == {m \in (d - spacing[d])..(d + spacing[d]) : ToDouble(m) = d}
           digits(n) == {m \in readAsD : \E k \in 0..8 : m % 10^k = 0 /\ m \div 10^k < 10^n}
           fewest == CHOOSE n \in 1..9 : digits(n) # {} /\ (n = 1 \/ digits(n - 1) = {})
           distance(m) == IF m < d THEN d - m ELSE m - d
       IN  CHOOSE m \in digits(fewest) : \A o \in digits(fewest) : distance(m) <= distance(o)

\* Mutant: the builder's increment is not made up for.
RebuildAddsOne(n) == ToDecimal(ToDouble(n)) + 1

\* updateTransaction: (Number(sequence) - 1).toString(), to which the builder
\* adds one.
RebuiltSequence(n) == ToDecimal(ToDouble(ToDouble(n) - 1)) + 1

-----------------------------------------------------------------------------
(* process().                                                              *)

SourceEntries == {e \in input.simulated : Credential[e] = "source"}

\* Mutant: the additional entries are forgotten.
EntriesOfSimulation == input.simulated \ SourceEntries

\* authEntriesToSign: what the simulation asks for but the source's own, and
\* what the caller adds.
EntriesToSign == (input.simulated \ SourceEntries) \cup input.additional

Throw == pc' = "threw" /\ UNCHANGED <<input, processVars, clockVars>>

\* Nothing to sign and nothing signed to add: the transaction as it is.
Skip ==
  /\ pc = "called"
  /\ EntriesToSign = {} /\ input.presigned = {}
  /\ pc' = "returned"
  /\ UNCHANGED <<input, processVars, clockVars>>

NoSignersProvided ==
  /\ pc = "called"
  /\ EntriesToSign # {} \/ input.presigned # {}
  /\ input.signers = {}
  /\ Throw

Begin ==
  /\ pc = "called"
  /\ EntriesToSign # {} \/ input.presigned # {}
  /\ input.signers # {}
  /\ pc' = "signing"
  /\ toSign' = EntriesToSign
  /\ UNCHANGED <<input, entry, timeout, expiration, signed, authorized, sequence, clockVars>>

\* The entry names a contract, or an account none of the signers has.
SignerNotFound ==
  /\ pc = "signing"
  /\ \E e \in toSign : Credential[e] \notin input.signers
  /\ Throw

TimeToExpire == IF input.maxTime > 0 THEN input.maxTime - now ELSE DefaultTimeout

\* Mutant: an entry whose signer is missing is taken as well.
NextEntryUnchecked(e) ==
  /\ pc = "signing" /\ e \in toSign
  /\ entry' = e
  /\ toSign' = toSign \ {e}
  /\ IF input.maxLedger > 0
     THEN pc' = "signature" /\ expiration' = input.maxLedger /\ UNCHANGED timeout
     ELSE pc' = "ledger" /\ timeout' = TimeToExpire /\ UNCHANGED expiration
  /\ UNCHANGED <<input, signed, authorized, sequence, clockVars>>

\* The next entry's signer is found; the ledger bound, if any, is the signature's
\* expiration, else the latest ledger is asked for.
NextEntry(e) ==
  /\ pc = "signing" /\ e \in toSign
  /\ Credential[e] \in input.signers
  /\ entry' = e
  /\ toSign' = toSign \ {e}
  /\ IF input.maxLedger > 0
     THEN pc' = "signature" /\ expiration' = input.maxLedger /\ UNCHANGED timeout
     ELSE pc' = "ledger" /\ timeout' = TimeToExpire /\ UNCHANGED expiration
  /\ UNCHANGED <<input, signed, authorized, sequence, clockVars>>

\* Mutant: the ledger that closes next is not counted.
ExpirationWithoutNext(latest) == latest + (2 * timeout + LedgerTime) \div (2 * LedgerTime)

\* (latest + timeout / 5 + 1).toFixed(0), which rounds a half up.
Expiration(latest) == latest + 1 + (2 * timeout + LedgerTime) \div (2 * LedgerTime)

\* getLatestLedger answers with the ledger of the moment.
LedgerAnswers ==
  /\ pc = "ledger"
  /\ pc' = "signature"
  /\ expiration' = Expiration(ledger)
  /\ UNCHANGED <<input, toSign, entry, timeout, signed, authorized, sequence, clockVars>>

\* The signer holds the key of the account, and signs the entry.
SignerAnswers ==
  /\ pc = "signature" /\ Credential[entry] \notin Freighters
  /\ pc' = "signing"
  /\ signed' = signed \cup {[entry |-> entry, by |-> Credential[entry], until |-> expiration]}
  /\ UNCHANGED <<input, toSign, entry, timeout, expiration, authorized, sequence, clockVars>>

\* A Freighter handler hands the entry to the extension as it is, with the
\* expiration it has from the simulation, which is 0; to be signed by the account
\* that the handler is connected to by then.
FreighterAnswers(publicKey) ==
  /\ pc = "signature" /\ Credential[entry] \in Freighters
  /\ pc' = "signing"
  /\ signed' = signed \cup {[entry |-> entry, by |-> publicKey, until |-> 0]}
  /\ UNCHANGED <<input, toSign, entry, timeout, expiration, authorized, sequence, clockVars>>

\* All entries are signed: the transaction is rebuilt and simulated.
UpdateTransaction ==
  /\ pc = "signing" /\ toSign = {}
  /\ pc' = "simulation"
  /\ authorized' = SourceEntries \cup input.presigned \cup {s.entry : s \in signed}
  /\ sequence' = RebuiltSequence(input.sequence)
  /\ UNCHANGED <<input, toSign, entry, timeout, expiration, signed, clockVars>>

\* The assembled transaction keeps the entries it was simulated with.
SimulationAnswers ==
  /\ pc = "simulation"
  /\ pc' = "returned"
  /\ UNCHANGED <<input, processVars, clockVars>>

\* The server, the signer or the simulation rejects, or the rebuild fails.
RequestFails ==
  /\ pc \in {"ledger", "signature", "simulation"} \/ (pc = "signing" /\ toSign = {})
  /\ Throw

Process ==
  \/ Skip \/ NoSignersProvided \/ Begin
  \/ SignerNotFound \/ \E e \in Entries : NextEntry(e)
  \/ LedgerAnswers \/ SignerAnswers
  \/ \E publicKey \in UNION SignerSets : FreighterAnswers(publicKey)
  \/ UpdateTransaction \/ SimulationAnswers
  \/ RequestFails

Next == Process \/ Tick \/ LedgerCloses

Spec == Init /\ [][Next]_vars

-----------------------------------------------------------------------------
(* Properties *)

\* A transaction is returned only with every entry it needs: those of its source
\* as they were, those the caller signed, and every other one signed by the
\* account it names, or by what Freighter is connected to by then if a handler of
\* it was found for that account, however signers and requests fail on the way.
FullyAuthorized ==
  pc = "returned" =>
    /\ authorized = input.simulated \cup input.additional \cup input.presigned
    /\ \A e \in EntriesToSign : \E s \in signed :
         s.entry = e /\ (s.by = Credential[e] \/ Credential[e] \in Freighters)

\* The transaction may be included by a ledger of the current time and number.
MayBeIncluded ==
  /\ input.maxTime > 0 => now <= input.maxTime
  /\ input.maxLedger > 0 => ledger <= input.maxLedger

\* "The signatures will be valid up to the same ledger as the transaction": none
\* expires while a transaction with a bound may still be included, however long
\* the ledger's number or a signature take, if ledgers do not close faster than
\* the code expects.  It is not so of what Freighter signs.
SignaturesOutliveTransaction ==
  (input.maxTime > 0 \/ input.maxLedger > 0) /\ MayBeIncluded
    => \A s \in signed : Credential[s.entry] \notin Freighters => ledger <= s.until

\* The rebuilt transaction has the sequence number of the original.
SequenceKept == pc = "returned" => sequence = input.sequence

\* SequenceKept, for the numbers a double holds.
SafeSequenceKept == input.sequence <= MaxSafe => SequenceKept

=============================================================================
