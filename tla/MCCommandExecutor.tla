------------------------- MODULE MCCommandExecutor -------------------------
(* Small instances of CommandExecutor for TLC. *)
EXTENDS CommandExecutor
=============================================================================
