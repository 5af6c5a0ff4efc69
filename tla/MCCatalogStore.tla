---------------------------- MODULE MCCatalogStore ----------------------------
(***************************************************************************)
(* CatalogStore for TLC.                                                   *)
(***************************************************************************)
EXTENDS CatalogStore, TLC

(* A task is nothing but a name, and the run checks invariants only.       *)
Symmetry == Permutations(Tasks)
===============================================================================
