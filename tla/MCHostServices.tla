--------------------------- MODULE MCHostServices ---------------------------
(* Small instances of HostServices for TLC. *)
EXTENDS HostServices

Values == 1..3

Times(n, v) == [i \in 1..n |-> v]

\* Sizes 0, 1, 2, 3, in any order, and around 20, where p95 leaves the maximum.
Samples == {<<>>, <<2>>, <<2, 1>>, <<3, 1, 2>>,
            <<2>> \o Times(19, 1), <<3>> \o Times(20, 1)}

Trigger(type, min) == [type |-> type, min |-> min]

Files == {Broken,
          [id |-> "crash",  triggers |-> <<Trigger("crash", "high")>>],
          [id |-> "desync", triggers |-> <<Trigger("desync", "critical"), Trigger("crash", "low")>>],
          [id |-> "duties", triggers |-> <<Trigger("desync", "urgent")>>]}
=============================================================================
