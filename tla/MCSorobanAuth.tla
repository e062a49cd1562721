---------------------------- MODULE MCSorobanAuth ----------------------------
(***************************************************************************)
(* An entry for each of two accounts, one of which may be missing among the*)
(* signers and the other signs with Freighter, one of the source and one   *)
(* of a contract.                                                          *)
(***************************************************************************)
EXTENDS SorobanAuth

CONSTANTS alice, bob, ofAlice, ofBob, ofSource, ofContract

MCCredential ==
  [e \in Entries |-> CASE e = ofAlice -> alice
                      [] e = ofBob -> bob
                      [] e = ofSource -> "source"
                      [] e = ofContract -> "contract"]
MCSignerSets == {{}, {alice}, {alice, bob}}
MCSequences == 1..40

=============================================================================
