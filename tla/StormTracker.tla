---------------------------- MODULE StormTracker ----------------------------
(***************************************************************************)
(* The storm detector fed with any stream of alerts.  The whole stream is  *)
(* kept in `log`, against which the answers are compared.                  *)
(***************************************************************************)
EXTENDS StormWindows

CONSTANTS
    Severity,            \* severities of the alerts, some of low .. critical
    MaxTime, MaxAlerts   \* bounds of the model

ASSUME BoundAssumption == MaxTime \in Nat /\ MaxAlerts \in Nat

VARIABLES
    now,      \* the clock
    tracker,  \* the detector
    log       \* every alert checked, with its time and its verdict

vars == <<now, tracker, log>>

Alert == [host : Host, type : AlertType, severity : Severity]

Init ==
    /\ now = 0
    /\ tracker = NewTracker
    /\ log = <<>>

Check(alert) ==
    /\ Len(log) < MaxAlerts
    /\ LET result == CheckAlert(tracker, alert, now)
       IN  /\ tracker' = result.tracker
           /\ log' = Append(log, [ts |-> now, alert |-> alert,
                                  verdict |-> result.verdict, severity |-> result.severity])
    /\ UNCHANGED now

Tick ==
    /\ now < MaxTime
    /\ now' = now + 1
    /\ UNCHANGED <<tracker, log>>

Next == Tick \/ \E alert \in Alert : Check(alert)

Spec == Init /\ [][Next]_vars

-----------------------------------------------------------------------------
(* Properties.                                                             *)

TypeOK ==
    /\ now \in 0..MaxTime
    /\ tracker \in [hostAlerts    : [Host -> Seq([ts : 0..MaxTime, type : AlertType])],
                    crossHost     : [AlertType -> SUBSET [host : Host, ts : 0..MaxTime]],
                    bundleCounter : Nat]
    /\ log \in Seq([ts : 0..MaxTime, alert : Alert,
                    verdict : {"pass", "single", "cross"},
                    severity : {"none", "high", "critical"}])

\* The alerts up to k that a check of log entry k may count: inside the
\* window, and after the last bundle that `cleared` picks out.
Counted(k, window, same(_), cleared(_)) ==
    {j \in 1..k : /\ same(j)
                  /\ log[j].ts >= log[k].ts - window
                  /\ \A b \in j..(k - 1) : ~cleared(b)}

OfHost(k) == LET same(j) == log[j].alert.host = log[k].alert.host
             IN  Counted(k, SingleWindow, same,
                         LAMBDA b : same(b) /\ log[b].verdict = "single")

OfType(k) == LET same(j) == log[j].alert.type = log[k].alert.type
             IN  Counted(k, CrossWindow, same,
                         LAMBDA b : same(b) /\ log[b].verdict = "cross")

\* A single-host bundle is made when, and only when, more than the threshold
\* of alerts of one host fall in the window since the host's last bundle.
SingleHostStormsFound ==
    \A k \in DOMAIN log :
        log[k].verdict = "single" <=> Cardinality(OfHost(k)) > SingleThreshold

\* A cross-host bundle is made when, and only when, the threshold of hosts
\* raised one type in the window since the type's last bundle; a single-host
\* bundle made at that moment postpones it to the type's next alert.
CrossHostStormsFound ==
    \A k \in DOMAIN log :
        log[k].verdict = "cross" <=>
            /\ log[k].verdict # "single"
            /\ Cardinality({log[j].alert.host : j \in OfType(k)}) >= CrossThreshold

\* The detector's memory is bounded: between two checks no host has more
\* than the threshold of alerts on its list.
HostListBounded ==
    \A h \in Host : Len(tracker.hostAlerts[h]) <= SingleThreshold
=============================================================================
