----------------------------- MODULE MCScanSlot -----------------------------
(* An instance of ScanSlot for TLC: a request may never arrive, and then   *)
(* the slot is at rest.                                                    *)
EXTENDS ScanSlot, TLC

RequestSymmetry == Permutations(Scans \ {Startup})
=============================================================================
