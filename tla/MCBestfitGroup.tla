--------------------------- MODULE MCBestfitGroup ---------------------------
(***************************************************************************)
(* Small instances of BestfitGroup for TLC.                                *)
(***************************************************************************)
EXTENDS BestfitGroup, TLC

\* Identifiers are only ever compared
SymmetricUUIDs == Permutations(UUID)

=============================================================================
