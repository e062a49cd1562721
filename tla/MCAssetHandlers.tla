-------------------------- MODULE MCAssetHandlers ---------------------------
(***************************************************************************)
(* Two calls of the token handler's engine and one of the classic handler, *)
(* over two accounts of which one has a trustline and 1.96 units.          *)
(***************************************************************************)
EXTENDS AssetHandlers

CONSTANTS rich, poor

MCOpening == (rich :> 196) @@ (poor :> 0)

MCFunctions ==
  {"mint", "transfer", "burn", "approve", "transfer_from", "burn_from", "clawback", "balance"}

\* What a handler uploads is new to the ledger.  A handler is given wasm or a
\* contract; with the wasm its hash as well, so that two deploys overlap, or an
\* upload and a deploy, if its asset is not wrapped.
MCInit ==
  /\ AssetInit
  /\ "ownCode" \notin entries
  /\ constructed.wasm <=> constructed.contractId = "none"
  /\ constructed.wasmHash = "givenCode" => constructed.wasm /\ Asset \notin entries

MCSpec == MCInit /\ [][AssetNext]_allAssetVars

CallSymmetry == Permutations(Calls)

=============================================================================
