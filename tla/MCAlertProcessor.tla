-------------------------- MODULE MCAlertProcessor --------------------------
(* Small instances of AlertProcessor for TLC. *)
EXTENDS AlertProcessor

\* A critical alert (two channels), and two alerts of one source that share
\* an id, as two alerts of one type in one second do.
ClashingAlerts ==
    {[id |-> "e1", severity |-> "critical", source |-> "s1"],
     [id |-> "e2", severity |-> "high",     source |-> "s2"],
     [id |-> "e2", severity |-> "critical", source |-> "s2"]}

\* Two alerts of one source, with two channels and with one.
TwoAlerts ==
    {[id |-> "e1", severity |-> "critical", source |-> "s1"],
     [id |-> "e2", severity |-> "low",      source |-> "s1"]}
=============================================================================
