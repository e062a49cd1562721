---------------------------- MODULE MCAutoRestore ----------------------------
(***************************************************************************)
(* A Soroban transaction whose footprint may have to be restored, a Soroban*)
(* simulation and a classic transaction, on two accounts they share in any *)
(* way, as they do without the channel accounts plugin.                    *)
(***************************************************************************)
EXTENDS AutoRestore

CONSTANTS invoke, read, restoreTx, pay

MCKind == [i \in Executions |-> IF i = pay THEN "classic" ELSE "soroban"]
MCRestoreOf == [i \in Outer |-> restoreTx]

=============================================================================
