--------------------------- MODULE MCAlertPipeline ---------------------------
(* Small instances of AlertPipeline for TLC. *)
EXTENDS AlertPipeline

TwoHosts == {1, 2}
OneHost  == {1}

\* COOLDOWN's order: the more urgent, the shorter.
ShortCooldowns == [s \in Severity |-> IF s = "critical" THEN 1 ELSE 2]
ShortestCooldowns == [s \in Severity |-> IF s = "critical" THEN 0 ELSE 1]
=============================================================================
