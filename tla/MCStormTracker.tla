--------------------------- MODULE MCStormTracker ---------------------------
(* Small instances of StormTracker for TLC. *)
EXTENDS StormTracker, TLC

\* Hosts and alert types are interchangeable here: no property orders them.
Symmetry == Permutations(Host) \cup Permutations(AlertType)
=============================================================================
