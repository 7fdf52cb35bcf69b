------------------------------ MODULE Dispatch ------------------------------
(***************************************************************************)
(* What a dispatch promises its caller: every channel the payload is       *)
(* routed to completes once, in any order, with success or without; the    *)
(* call returns when the last one has, with one result per channel in the  *)
(* order of the routing.  It never raises.                                 *)
(***************************************************************************)
EXTENDS Naturals, Sequences

CONSTANTS
    Payload,   \* what may be dispatched
    Route      \* Route[p]: the channels of payload p, in order

VARIABLES
    calls,     \* the payloads dispatched so far
    sending,   \* channels of the last call that have not completed
    succeeded, \* channels of the last call that have, with success
    returned   \* the results of the calls that have returned

vars == <<calls, sending, succeeded, returned>>

Init == calls = <<>> /\ sending = {} /\ succeeded = {} /\ returned = <<>>

Idle == Len(returned) = Len(calls)

Call(p) ==
    /\ Idle
    /\ calls' = Append(calls, p)
    /\ sending' = {Route[p][i] : i \in DOMAIN Route[p]}
    /\ succeeded' = {}
    /\ UNCHANGED returned

Complete(channel, success) ==
    /\ channel \in sending
    /\ sending' = sending \ {channel}
    /\ succeeded' = IF success THEN succeeded \cup {channel} ELSE succeeded
    /\ UNCHANGED <<calls, returned>>

Return ==
    /\ ~Idle /\ sending = {}
    /\ LET route == Route[calls[Len(calls)]]
       IN  returned' = Append(returned, [i \in DOMAIN route |->
               [channel |-> route[i], success |-> route[i] \in succeeded]])
    /\ UNCHANGED <<calls, sending, succeeded>>

Next ==
    \/ \E p \in Payload : Call(p)
    \/ \E channel \in sending, success \in BOOLEAN : Complete(channel, success)
    \/ Return

Spec == Init /\ [][Next]_vars
=============================================================================
