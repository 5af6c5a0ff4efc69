-------------------------- MODULE MCSnapshotWorker --------------------------
(* An instance of SnapshotWorker for TLC.                                  *)
EXTENDS SnapshotWorker

(* The catalog changes and returns, and changes again.                     *)
ReturningCatalogs == [v \in Versions |-> v % 2]
=============================================================================
