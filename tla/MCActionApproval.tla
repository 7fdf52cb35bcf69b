-------------------------- MODULE MCActionApproval --------------------------
(* Small instances of ActionApproval for TLC. *)
EXTENDS ActionApproval, TLC

\* REPROPOSAL_COOLDOWN's order: the more urgent, the shorter.
Cooldowns == [s \in Severity |-> IF s = "critical" THEN 1 ELSE 2]

\* All incidents on one host.
OneHost == [i \in Incident |-> CHOOSE h \in Host : TRUE]

\* Nothing tells one action from another.
AnyAction == Permutations(Action)
=============================================================================
