---------------------------- MODULE AlertDelivery ----------------------------
(***************************************************************************)
(* What the queue and the Hermes agent promise together, without files,    *)
(* cursors, batches or crashes: alerts are logged in the order they were   *)
(* accepted; a logged alert is recorded at most once per id; only what is  *)
(* recorded is notified, at most once per channel; and a prefix of the log *)
(* is acknowledged only when every whole entry of it is on record.  An     *)
(* entry damaged on its way into the log carries no promise.               *)
(***************************************************************************)
EXTENDS Naturals, Sequences

CONSTANTS
    Alert,     \* alerts, with an id each
    Channels   \* notification channels

VARIABLES
    log,       \* accepted alerts, [alert, whole]
    acked,     \* length of the acknowledged prefix
    records,   \* recorded alerts
    attempts   \* attempts[a][ch]: notifications of a on channel ch

vars == <<log, acked, records, attempts>>

Init ==
    /\ log = <<>>
    /\ acked = 0
    /\ records = {}
    /\ attempts = [a \in Alert |-> [ch \in Channels |-> 0]]

OnRecord(a) == \E r \in records : r.id = a.id

Accept(a, whole) ==
    /\ log' = Append(log, [alert |-> a, whole |-> whole])
    /\ UNCHANGED <<acked, records, attempts>>

Record(a) ==
    /\ \E i \in DOMAIN log : log[i].alert = a
    /\ ~OnRecord(a)
    /\ records' = records \cup {a}
    /\ UNCHANGED <<log, acked, attempts>>

Notify(a, ch) ==
    /\ a \in records
    /\ attempts[a][ch] = 0
    /\ attempts' = [attempts EXCEPT ![a][ch] = 1]
    /\ UNCHANGED <<log, acked, records>>

Acknowledge(n) ==
    /\ acked < n
    /\ \A i \in 1..n : log[i].whole => OnRecord(log[i].alert)
    /\ acked' = n
    /\ UNCHANGED <<log, records, attempts>>

\* The acknowledgement is lost; what was recorded and notified is not.
Rewind ==
    /\ acked' = 0
    /\ UNCHANGED <<log, records, attempts>>

Next ==
    \/ \E a \in Alert, whole \in BOOLEAN : Accept(a, whole)
    \/ \E a \in Alert : Record(a)
    \/ \E a \in Alert, ch \in Channels : Notify(a, ch)
    \/ \E n \in 1..Len(log) : Acknowledge(n)
    \/ Rewind

Spec == Init /\ [][Next]_vars
=============================================================================
