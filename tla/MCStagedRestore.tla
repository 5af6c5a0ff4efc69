-------------------------- MODULE MCStagedRestore --------------------------
(* An instance of StagedRestore for TLC: two managed folders, and a backup *)
(* that was made when one of them did not exist.                           *)
EXTENDS StagedRestore, TLC

CONSTANTS a, b

TwoFolders == <<"Config", "Artwork">>
TwoArchives == [x \in {a, b} |-> IF x = a THEN {"Config", "Artwork"} ELSE {"Config"}]

Symmetries == Permutations(Uploads)
=============================================================================
