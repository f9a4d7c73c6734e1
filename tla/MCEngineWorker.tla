--------------------------- MODULE MCEngineWorker ---------------------------
(* Small instances of EngineWorker for TLC. *)
EXTENDS EngineWorker

=============================================================================
