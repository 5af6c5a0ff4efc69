--------------------------- MODULE MCLibraryRoots ---------------------------
(* An instance of LibraryRoots for TLC.                                    *)
EXTENDS LibraryRoots, TLC

(* Neither folders nor requests are told apart, and no property is about   *)
(* one of them.                                                            *)
Symmetries == Permutations(Roots) \cup Permutations(Tasks)
=============================================================================
