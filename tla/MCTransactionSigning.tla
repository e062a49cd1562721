------------------------ MODULE MCTransactionSigning ------------------------
(***************************************************************************)
(* Two transactions and their fee bumps; jobs and accounts are alike.      *)
(***************************************************************************)
EXTENDS TransactionSigning, TLC

Symmetry == Permutations(Jobs) \cup Permutations(Accounts)

=============================================================================
