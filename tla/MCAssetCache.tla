---------------------------- MODULE MCAssetCache ----------------------------
(***************************************************************************)
(* AssetCache for TLC: processes, releases and temporary names are         *)
(* interchangeable.                                                        *)
(***************************************************************************)
EXTENDS AssetCache, TLC

Symmetry == Permutations(Procs) \cup Permutations(Releases) \cup Permutations(Temps)
=============================================================================
