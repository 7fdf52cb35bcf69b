--------------------------- MODULE WebhookReceiver ---------------------------
(***************************************************************************)
(* The webhook receiver between Alertmanager and the queue.  One POST is   *)
(* handled in steps: the context of each alert is fetched, each alert is   *)
(* compared with the last incident of its type and host, the survivors go  *)
(* through the storm detector, and the result is appended to alerts.jsonl  *)
(* one line at a time.  The handler does not yield once it has the         *)
(* request's body, but the agent, another process, fills the incidents     *)
(* table in between, a call may raise, and a crash may come between two    *)
(* lookups or two appends, or in the middle of an append.                  *)
(*                                                                         *)
(* Alertmanager is external: it posts, as often as it likes, what fires    *)
(* and what has been resolved.  AlertPipeline adds the agent.              *)
(***************************************************************************)
EXTENDS StormWindows, SequencesExt

CONSTANTS
    Severity,     \* severities Alertmanager uses, some of low .. critical
    Cooldown,     \* COOLDOWN, in ticks: a function of the severity
    DatabaseSet,  \* is INCIDENTS_DB_PATH set for the receiver?
    LookupMayFail, \* may SQLite fail a lookup?
    GroupSize,    \* alerts of one POST, at most
    MaxTime, MaxPosts, MaxFires, MaxFailures  \* bounds of the model

ASSUME HostAssumption == Host \subseteq Nat
ASSUME CooldownAssumption == Cooldown \in [Severity -> Nat]
ASSUME BoundAssumption == /\ MaxTime \in Nat /\ MaxPosts \in Nat
                          /\ MaxFires \in Nat /\ MaxFailures \in Nat

\* SEVERITY_ORDER: the smaller, the more urgent.
SeverityOrder == [critical |-> 1, high |-> 2, medium |-> 3, low |-> 4]

ASSUME SeverityAssumption == Severity \subseteq DOMAIN SeverityOrder

Source   == [type : AlertType, host : Host]
NotFired == [status |-> "inactive"]
NoTime   == -1

VARIABLES
    now,      \* the clock; ids have a resolution of one tick
    firing,   \* Alertmanager's alerts, by source
    pc,       \* the handler: "idle", "context", "dedup" or "append"
    request,  \* the alerts of the POST in hand
    batch,    \* alerts still to be compared with the incidents
    pending,  \* alerts that survived
    toAppend, \* lines still to be appended
    tracker,  \* the storm detector
    queue,    \* alerts.jsonl: lines, and beginnings of lines
    rows,     \* the incidents table, written by the agent
    posts, fires, failures  \* bounded counters; a crash is a failure

envVars     == <<firing, fires>>
handlerVars == <<pc, request, batch, pending, toAppend, tracker>>
receiverVars == <<now, envVars, handlerVars, queue, rows, posts, failures>>

\* What an append leaves in the file: a line, its beginning, or the whole
\* record without the newline.
Parts == {"line", "head", "body"}

ReceiverInit ==
    /\ now = 0
    /\ firing = [s \in Source |-> NotFired]
    /\ pc = "idle"
    /\ request = <<>> /\ batch = <<>> /\ pending = <<>> /\ toAppend = <<>>
    /\ tracker = NewTracker
    /\ queue = <<>>
    /\ rows = {}
    /\ posts = 0 /\ fires = 0 /\ failures = 0

Tick ==
    /\ now < MaxTime
    /\ now' = now + 1
    /\ UNCHANGED <<envVars, handlerVars, queue, rows, posts, failures>>

-----------------------------------------------------------------------------
(* Alertmanager.                                                           *)

\* A rule fires, or fires again after it was resolved, or at another severity.
Fire(s, severity) ==
    /\ fires < MaxFires
    /\ firing[s].status = "firing" => severity # firing[s].severity
    /\ fires' = fires + 1
    /\ firing' = [firing EXCEPT ![s] =
           [status |-> "firing", severity |-> severity, since |-> now]]
    /\ UNCHANGED <<now, handlerVars, queue, rows, posts, failures>>

Resolve(s) ==
    /\ firing[s].status = "firing"
    /\ firing' = [firing EXCEPT ![s].status = "resolved"]
    /\ UNCHANGED <<now, fires, handlerVars, queue, rows, posts, failures>>

-----------------------------------------------------------------------------
(* Receiving a POST.                                                       *)

\* _generate_event_id: the type and the second, whatever the host.
EventId(type, time) == <<type, time>>

\* normalize_alertmanager_alert
Normalize(s) ==
    [id |-> EventId(s.type, now), type |-> s.type, host |-> s.host,
     severity |-> firing[s].severity, status |-> firing[s].status,
     fired_at |-> firing[s].since]

\* Alertmanager posts a group; the payload is validated and normalised.
Post(group) ==
    /\ pc = "idle"
    /\ posts < MaxPosts
    /\ posts' = posts + 1
    /\ \A i \in DOMAIN group : firing[group[i]].status # "inactive"
    /\ request' = [i \in DOMAIN group |-> Normalize(group[i])]
    /\ batch' = request'
    /\ pc' = "context"
    /\ UNCHANGED <<now, envVars, pending, toAppend, tracker, queue, rows, failures>>

\* An exception leaves the handler, the response is a 500.  The detector
\* keeps what it has counted.
Raise ==
    /\ failures < MaxFailures
    /\ failures' = failures + 1
    /\ pc' = "idle"
    /\ request' = <<>> /\ batch' = <<>> /\ toAppend' = <<>>
    /\ UNCHANGED <<now, envVars, pending, tracker, rows, posts>>

\* fetch_context_snapshot for each alert, whatever it finds (ContextFetcher).
FetchContext ==
    /\ pc = "context"
    /\ pc' = "dedup"
    /\ UNCHANGED <<now, envVars, request, batch, pending, toAppend, tracker, queue, rows, posts, failures>>

\* Prometheus is slow or drops the connection: TimeoutError and
\* RemoteDisconnected are no URLError and pass through every handler.
FailContext == pc = "context" /\ Raise /\ UNCHANGED queue

-----------------------------------------------------------------------------
(* Phase 1: deduplication.                                                 *)

\* get_last_processed: ORDER BY fired_at DESC LIMIT 1, any of them on a tie.
LastProcessed(alert) ==
    LET same == {r \in rows : r.type = alert.type /\ r.host = alert.host}
    IN  {r \in same : \A other \in same : other.fired_at <= r.fired_at}

\* Faulty variant: no severity breaks through.
ShouldProcessNoEscalation(alert, last) ==
    \/ last.resolved /\ alert.status = "firing"
    \/ last.fired_at = NoTime
    \/ now - last.fired_at > Cooldown[alert.severity]

\* should_process, rules 2, 3 and 4.  Rule 1 is the absence of `last`.
ShouldProcess(alert, last) ==
    \/ last.resolved /\ alert.status = "firing"
    \/ SeverityOrder[alert.severity] < SeverityOrder[last.severity]
    \/ last.fired_at = NoTime
    \/ now - last.fired_at > Cooldown[alert.severity]

Deduplicate(processed) ==
    /\ pc = "dedup"
    /\ batch # <<>>
    /\ batch' = Tail(batch)
    /\ pending' = IF processed THEN Append(pending, Head(batch)) ELSE pending
    /\ UNCHANGED <<now, envVars, request, pc, toAppend, tracker, queue, rows, posts, failures>>

\* Rule 1, and the lookup that fails open: a database that is not there, or
\* cannot be read at the moment, lets every alert through.
ProcessUnknown ==
    /\ pc = "dedup" /\ batch # <<>>
    /\ ~DatabaseSet \/ LookupMayFail \/ LastProcessed(Head(batch)) = {}
    /\ Deduplicate(TRUE)

CompareWithLast ==
    /\ pc = "dedup" /\ batch # <<>>
    /\ DatabaseSet
    /\ \E last \in LastProcessed(Head(batch)) :
           Deduplicate(ShouldProcess(Head(batch), last))

-----------------------------------------------------------------------------
(* Phase 2: storm protection.                                              *)

LeastHost(hosts) == CHOOSE h \in hosts : \A other \in hosts : h <= other

\* AlertBundle.to_alert: the id is made from the original type, or "mixed".
BundleAlert(alert, result) ==
    LET single == result.verdict = "single"
    IN  [id       |-> EventId(IF single THEN "mixed" ELSE alert.type, now),
         type     |-> IF single THEN "storm_single_host" ELSE "storm_cross_host",
         host     |-> LeastHost(result.hosts),
         severity |-> result.severity,
         status   |-> "firing",
         fired_at |-> NoTime]

\* check_alert for one pending alert: it is kept, or replaced by its bundle.
CheckPending(acc, alert) ==
    LET result == CheckAlert(acc.tracker, alert, now)
    IN  [tracker |-> result.tracker,
         final   |-> Append(acc.final, IF result.verdict = "pass" THEN alert
                                       ELSE BundleAlert(alert, result))]

\* The loop over the pending alerts.
CheckedPending ==
    LET checked[n \in 0..Len(pending)] ==
            IF n = 0 THEN [tracker |-> tracker, final |-> <<>>]
            ELSE CheckPending(checked[n - 1], pending[n])
    IN  checked[Len(pending)]

CheckStorms ==
    /\ pc = "dedup"
    /\ batch = <<>>
    /\ tracker' = CheckedPending.tracker
    /\ toAppend' = CheckedPending.final
    /\ pending' = <<>>
    /\ pc' = "append"
    /\ UNCHANGED <<now, envVars, request, batch, queue, rows, posts, failures>>

-----------------------------------------------------------------------------
(* Phase 3: the queue.                                                     *)

AppendAlert ==
    /\ pc = "append"
    /\ toAppend # <<>>
    /\ queue' = Append(queue, [alert |-> Head(toAppend), part |-> "line"])
    /\ toAppend' = Tail(toAppend)
    /\ UNCHANGED <<now, envVars, request, pc, batch, pending, tracker, rows, posts, failures>>

\* Faulty variant: the response goes out with an append to come.
RespondEarly ==
    /\ pc = "append"
    /\ Len(toAppend) <= 1
    /\ pc' = "idle"
    /\ request' = <<>>
    /\ UNCHANGED <<now, envVars, batch, pending, toAppend, tracker, queue, rows, posts, failures>>

\* The response goes out.
Respond ==
    /\ pc = "append"
    /\ toAppend = <<>>
    /\ pc' = "idle"
    /\ request' = <<>>
    /\ UNCHANGED <<now, envVars, batch, pending, toAppend, tracker, queue, rows, posts, failures>>

\* An append that does not end: the disk is full, or the process dies.
LeavesPart ==
    \/ UNCHANGED queue
    \/ \E part \in {"head", "body"} :
           queue' = Append(queue, [alert |-> Head(toAppend), part |-> part])

\* The file cannot be opened, or written to its end.
FailAppend ==
    /\ pc = "append"
    /\ toAppend # <<>>
    /\ LeavesPart
    /\ Raise

\* The process dies and docker restarts it with an empty detector; what was
\* appended stays, the rest of the request is gone.
Crash ==
    /\ IF pc = "append" /\ toAppend # <<>> THEN LeavesPart ELSE UNCHANGED queue
    /\ failures < MaxFailures
    /\ failures' = failures + 1
    /\ pc' = "idle"
    /\ request' = <<>> /\ batch' = <<>> /\ pending' = <<>> /\ toAppend' = <<>>
    /\ tracker' = NewTracker
    /\ UNCHANGED <<now, envVars, rows, posts>>

-----------------------------------------------------------------------------

Groups == UNION {[1..n -> Source] : n \in 1..GroupSize}

Handler ==
    \/ FetchContext \/ FailContext
    \/ ProcessUnknown \/ CompareWithLast
    \/ CheckStorms
    \/ AppendAlert \/ FailAppend \/ Respond

ReceiverNext ==
    \/ Tick
    \/ \E s \in Source, severity \in Severity : Fire(s, severity)
    \/ \E s \in Source : Resolve(s)
    \/ \E group \in Groups : IsInjective(group) /\ Post(group)
    \/ Handler
    \/ Crash

-----------------------------------------------------------------------------
(* Properties.                                                             *)

Time     == 0..MaxTime
Statuses == {"firing", "resolved"}

\* Alertmanager's alerts, and the records of the queue, bundles among them.
Posted == [id : AlertType \X Time, type : AlertType, host : Host, severity : Severity,
           status : Statuses, fired_at : Time]
Queued == [id : (AlertType \cup {"mixed"}) \X Time,
           type : AlertType \cup {"storm_single_host", "storm_cross_host"}, host : Host,
           severity : DOMAIN SeverityOrder, status : Statuses, fired_at : Time \cup {NoTime}]

TypeOK ==
    /\ now \in Time
    /\ firing \in [Source -> {NotFired} \cup
                             [status : Statuses, severity : Severity, since : Time]]
    /\ pc \in {"idle", "context", "dedup", "append"}
    /\ request \in Seq(Posted) /\ batch \in Seq(Posted) /\ pending \in Seq(Posted)
    /\ toAppend \in Seq(Queued)
    /\ pc = "idle" => batch = <<>> /\ pending = <<>> /\ toAppend = <<>> /\ request = <<>>
    /\ tracker.hostAlerts \in [Host -> Seq([ts : Time, type : AlertType])]
    /\ tracker.crossHost \in [AlertType -> SUBSET [host : Host, ts : Time]]
    /\ queue \in Seq([alert : Queued, part : Parts])
    /\ posts \in 0..MaxPosts /\ fires \in 0..MaxFires /\ failures \in 0..MaxFailures

\* The lookup of phase 1 drops the first alert of the batch.
Drops == /\ pc = "dedup" /\ batch # <<>>
         /\ batch' = Tail(batch) /\ pending' = pending /\ failures' = failures

SameSource(r, alert) == r.type = alert.type /\ r.host = alert.host
AsUrgent(r, alert)   == SeverityOrder[r.severity] <= SeverityOrder[alert.severity]
PostedAt(alert)      == alert.id[2]

\* A line that stands for this alert: the alert's own; one of the same host and
\* type, whose outage, this one or another, began within the alert's cooldown;
\* or a bundle made since.
Covers(line, alert) ==
    \/ line = alert
    \/ /\ SameSource(line, alert) /\ AsUrgent(line, alert)
       /\ PostedAt(alert) - line.fired_at <= Cooldown[alert.severity]
    \/ /\ AsUrgent(line, alert) /\ PostedAt(line) >= PostedAt(alert)
       /\ \/ line.type = "storm_single_host" /\ line.host = alert.host
          \/ line.type = "storm_cross_host" /\ line.id[1] = alert.type

\* When a request is answered, each of its alerts is covered by a record of
\* the queue that is at least as urgent, whatever the phases did with it.
AnsweredIsCovered ==
    [][(pc = "append" /\ pc' = "idle" /\ failures' = failures) =>
           \A alert \in ToSet(request) : 
               \E entry \in ToSet(queue) : entry.part # "head" /\ Covers(entry.alert, alert)]_receiverVars

\* An alert that fires anew is never dropped: the outage on record with which
\* it is compared has been resolved since.
NewFiringProcessed ==
    [][(Drops /\ Head(batch).status = "firing") =>
           \E r \in rows : SameSource(r, Head(batch)) /\ r.fired_at = Head(batch).fired_at]_receiverVars
=============================================================================
