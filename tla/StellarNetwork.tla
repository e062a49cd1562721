--------------------------- MODULE StellarNetwork ---------------------------
(***************************************************************************)
(* The network the pipelines talk to, as far as src/ uses it: Horizon gives*)
(* an account's sequence number and submits classic transactions, the RPC  *)
(* server takes Soroban transactions and tells their status.  A submitted  *)
(* transaction waits until a ledger includes it or it can no longer be     *)
(* included; a ledger includes only the next sequence number of an account.*)
(***************************************************************************)
EXTENDS Naturals

CONSTANTS
  Accounts,       \* source accounts
  HorizonMayLag   \* Horizon may know of a ledger later than the RPC server

VARIABLES
  ledgerSeq,   \* sequence number of each account in the ledger
  horizonSeq,  \* the one Horizon's loadAccount returns
  queue,       \* submitted transactions a ledger may still include
  succeeded,   \* included transactions that succeeded
  failed       \* included transactions that failed

networkVars == <<ledgerSeq, horizonSeq, queue, succeeded, failed>>

NetworkInit ==
  /\ ledgerSeq = [a \in Accounts |-> 0]
  /\ horizonSeq = [a \in Accounts |-> 0]
  /\ queue = {}
  /\ succeeded = {}
  /\ failed = {}

\* A ledger includes transaction t; either way it consumes the number.
Include(t) ==
  /\ t \in queue
  /\ t.seq = ledgerSeq[t.source] + 1
  /\ queue' = queue \ {t}
  /\ ledgerSeq' = [ledgerSeq EXCEPT ![t.source] = t.seq]
  /\ horizonSeq' = IF HorizonMayLag THEN horizonSeq ELSE ledgerSeq'
  /\ \/ succeeded' = succeeded \cup {t} /\ UNCHANGED failed
     \/ failed' = failed \cup {t} /\ UNCHANGED succeeded

\* Transaction t expires, or is dropped for its sequence number.
Discard(t) ==
  /\ t \in queue
  /\ queue' = queue \ {t}
  /\ UNCHANGED <<ledgerSeq, horizonSeq, succeeded, failed>>

HorizonIngests(a) ==
  /\ horizonSeq[a] < ledgerSeq[a]
  /\ horizonSeq' = [horizonSeq EXCEPT ![a] = ledgerSeq[a]]
  /\ UNCHANGED <<ledgerSeq, queue, succeeded, failed>>

NetworkStep ==
  \/ \E t \in queue : Include(t) \/ Discard(t)
  \/ \E a \in Accounts : HorizonIngests(a)

\* What a submission may leave behind: the network took t, or turned it down.
Offer(t) ==
  /\ queue' \in {queue, queue \cup {t}}
  /\ UNCHANGED <<ledgerSeq, horizonSeq, succeeded, failed>>

=============================================================================
