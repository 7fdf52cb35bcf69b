---------------------------- MODULE StormWindows ----------------------------
(***************************************************************************)
(* The webhook receiver's in-memory storm detector.  check_alert is called *)
(* for one alert after the other; it records the alert, drops what has     *)
(* left the windows, and says whether the alert passes on its own or is    *)
(* replaced by a bundle.                                                   *)
(*                                                                         *)
(* The detector is an operator on a record: StormTracker calls it on any   *)
(* stream of alerts, WebhookReceiver calls it from its handler.            *)
(***************************************************************************)
EXTENDS Integers, Sequences, FiniteSets

CONSTANTS
    Host, AlertType,   \* labels of the alerts
    SingleThreshold,   \* SINGLE_HOST_THRESHOLD (3)
    SingleWindow,      \* SINGLE_HOST_WINDOW, in clock ticks
    CrossThreshold,    \* CROSS_HOST_THRESHOLD (2)
    CrossWindow        \* CROSS_HOST_WINDOW, in clock ticks

ASSUME ThresholdAssumption ==
    /\ SingleThreshold \in Nat \ {0} /\ CrossThreshold \in Nat \ {0}
    /\ SingleWindow \in Nat /\ CrossWindow \in Nat

-----------------------------------------------------------------------------
(* The detector.  hostAlerts[h] lists the alerts of host h; crossHost[t]   *)
(* holds the latest alert of type t of each host.                          *)

Tracker(hostAlerts, crossHost, bundleCounter) ==
    [hostAlerts |-> hostAlerts, crossHost |-> crossHost, bundleCounter |-> bundleCounter]

NewTracker == Tracker([h \in Host |-> <<>>], [t \in AlertType |-> {}], 0)

Others(entries, host)      == {e \in entries : e.host # host}
NotBefore(entries, cutoff) == {e \in entries : e.ts >= cutoff}

RecordAlert(tracker, alert, now) ==
    Tracker([tracker.hostAlerts EXCEPT
                 ![alert.host] = Append(@, [ts |-> now, type |-> alert.type])],
            [tracker.crossHost EXCEPT
                 ![alert.type] = Others(@, alert.host) \cup {[host |-> alert.host, ts |-> now]}],
            tracker.bundleCounter)

\* The entries of a list, in order, that are not older than the cutoff.
Recent(list, cutoff) ==
    LET kept[n \in 0..Len(list)] ==
            IF n = 0 THEN <<>>
            ELSE IF list[n].ts >= cutoff THEN Append(kept[n - 1], list[n])
            ELSE kept[n - 1]
    IN  kept[Len(list)]

CleanupBefore(tracker, hostCutoff, typeCutoff) ==
    Tracker([h \in Host |-> Recent(tracker.hostAlerts[h], hostCutoff)],
            [t \in AlertType |-> NotBefore(tracker.crossHost[t], typeCutoff)],
            tracker.bundleCounter)

\* Faulty variant: the strict comparison drops the edge of the window.
CleanupStrict(tracker, now) ==
    CleanupBefore(tracker, now - SingleWindow + 1, now - CrossWindow + 1)

\* Faulty variant: one cutoff for both structures.
CleanupOneCutoff(tracker, now) ==
    CleanupBefore(tracker, now - SingleWindow, now - SingleWindow)

Cleanup(tracker, now) ==
    CleanupBefore(tracker, now - SingleWindow, now - CrossWindow)

\* Faulty variant: the bundle inherits the trigger's severity as it is.
SingleHostSeverityInherited(alert) == alert.severity

\* The minimal alerts of a single-host bundle carry the trigger's severity,
\* so to_alert looks at the trigger only.
SingleHostSeverity(alert) == IF alert.severity = "critical" THEN "critical" ELSE "high"

Pass(tracker) == [tracker |-> tracker, verdict |-> "pass", severity |-> "none", hosts |-> {}]

\* Faulty variant: the host's list is not cleared.
SingleHostBundleKept(tracker, alert) ==
    [tracker  |-> Tracker(tracker.hostAlerts, tracker.crossHost, tracker.bundleCounter + 1),
     verdict  |-> "single",
     severity |-> SingleHostSeverity(alert),
     hosts    |-> {alert.host}]

SingleHostBundle(tracker, alert) ==
    [tracker  |-> Tracker([tracker.hostAlerts EXCEPT ![alert.host] = <<>>], tracker.crossHost,
                          tracker.bundleCounter + 1),
     verdict  |-> "single",
     severity |-> SingleHostSeverity(alert),
     hosts    |-> {alert.host}]

\* One bundle id for each other host and one for the bundle.
CrossHostBundle(tracker, alert) ==
    LET entries == tracker.crossHost[alert.type]
    IN  [tracker  |-> Tracker(tracker.hostAlerts,
                              [tracker.crossHost EXCEPT ![alert.type] = {}],
                              tracker.bundleCounter + Cardinality(entries)),
         verdict  |-> "cross",
         severity |-> "critical",
         hosts    |-> {e.host : e \in entries}]

IsSingleHostStorm(tracker, alert) == Len(tracker.hostAlerts[alert.host]) > SingleThreshold
IsCrossHostStorm(tracker, alert)  == Cardinality(tracker.crossHost[alert.type]) >= CrossThreshold

\* check_alert: a single-host storm is looked for first.
CheckAlert(before, alert, now) ==
    LET tracker == Cleanup(RecordAlert(before, alert, now), now)
    IN  IF IsSingleHostStorm(tracker, alert)     THEN SingleHostBundle(tracker, alert)
        ELSE IF IsCrossHostStorm(tracker, alert) THEN CrossHostBundle(tracker, alert)
        ELSE Pass(tracker)
=============================================================================
