------------------------- MODULE MCLibraryLifecycle -------------------------
(* Instances of LibraryLifecycle for TLC.                                  *)
EXTENDS LibraryLifecycle, TLC

(* Requests differ only in what they ask for, which is chosen when they    *)
(* arrive.                                                                 *)
RequestSymmetry == Permutations(Scans \ {Startup})

ServerKinds == {"index", "refresh", "auto", "remove", "edit", "stream"}
LeasedKinds == {"local", "auto", "remove"}
=============================================================================
