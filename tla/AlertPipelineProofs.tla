------------------------- MODULE AlertPipelineProofs -------------------------
(***************************************************************************)
(* What holds of the receiver and the agent together, for any hosts, alert *)
(* types, thresholds, cooldowns and bounds: what is answered with 200 is   *)
(* covered by a record of the queue, and what the queue holds is told, or  *)
(* lost in one of three ways that are known.                               *)
(***************************************************************************)
EXTENDS AlertPipeline, StormWindowsProofs

-----------------------------------------------------------------------------
(* The loop over the pending alerts is a recursive function of their       *)
(* number, which has to be shown to exist; a smallest counterexample stands *)
(* in for the induction.                                                   *)

Checking(g, n) == IF n = 0 THEN [tracker |-> tracker, final |-> <<>>]
                  ELSE CheckPending(g[n - 1], pending[n])

\* The equation of the loop over the pending alerts has a solution for every
\* length: were there none, there would be a least one without.
LEMMA CheckingDefines ==
  \A m \in Nat : \E g : g = [n \in 0..m |-> Checking(g, n)]
<1> DEFINE Defined(m) == \E g : g = [n \in 0..m |-> Checking(g, n)]
           T == {m \in Nat : ~Defined(m)}
<1> SUFFICES ASSUME T # {} PROVE FALSE
  OBVIOUS
<1>1. PICK m \in T : \A n \in T : m <= n
  BY SmallestOf
<1>2. m # 0
  <2> DEFINE g == [n \in 0..0 |-> [tracker |-> tracker, final |-> <<>>]]
  <2>1. g = [n \in 0..0 |-> Checking(g, n)]
    BY DEF Checking
  <2> QED
    BY <1>1, <2>1
<1>3. m - 1 \in Nat /\ Defined(m - 1)
  BY <1>1, <1>2
<1>4. PICK g : g = [n \in 0..(m - 1) |-> Checking(g, n)]
  BY <1>3
<1> DEFINE h == [n \in 0..m |-> IF n = m THEN Checking(g, m) ELSE g[n]]
<1>5. ASSUME NEW n \in 0..m PROVE h[n] = Checking(h, n)
  <2>1. n # 0 => h[n - 1] = g[n - 1]
    BY <1>1, <1>3, <1>5
  <2>2. Checking(h, n) = Checking(g, n)
    BY <2>1 DEF Checking
  <2>3. n # m => n \in 0..(m - 1)
    BY <1>1, <1>3
  <2> QED
    BY <1>4, <2>2, <2>3
<1>6. h = [n \in 0..m |-> Checking(h, n)]
  BY <1>5
<1> QED
  BY <1>1, <1>6

\* CheckedPending is the last value of that solution.
LEMMA CheckedDefined ==
  ASSUME Len(pending) \in Nat
  PROVE  \E g : /\ g = [n \in 0..Len(pending) |-> Checking(g, n)]
                /\ CheckedPending = g[Len(pending)]
<1> DEFINE g == CHOOSE f : f = [n \in 0..Len(pending) |-> Checking(f, n)]
<1>1. g = [n \in 0..Len(pending) |-> Checking(g, n)]
  BY CheckingDefines
<1>2. CheckedPending = g[Len(pending)]
  BY DEF CheckedPending, Checking
<1> QED
  BY <1>1, <1>2

Listed == [ts : Time, type : AlertType]
Seen   == [host : Host, ts : Time]

\* The parts of an alert that Alertmanager posts, and the severities as
\* numbers.
LEMMA PostedFacts ==
  /\ DOMAIN SeverityOrder = {"critical", "high", "medium", "low"}
  /\ \A severity \in DOMAIN SeverityOrder : SeverityOrder[severity] \in 1..4
  /\ Posted \subseteq Queued
  /\ \A alert \in Queued : alert.id[2] \in Int /\ alert.fired_at \in Int
  /\ \A alert \in Posted : /\ alert.severity \in Severity /\ alert.type \in AlertType
                           /\ alert.host \in Host /\ alert.id[2] \in Int
<1>1. DOMAIN SeverityOrder = {"critical", "high", "medium", "low"}
  BY DEF SeverityOrder
<1>2. \A severity \in DOMAIN SeverityOrder : SeverityOrder[severity] \in 1..4
  BY DEF SeverityOrder
<1>3. Posted \subseteq Queued
  BY SeverityAssumption DEF Posted, Queued
<1>4. \A alert \in Queued : alert.id[2] \in Int /\ alert.fired_at \in Int
  BY BoundAssumption DEF Queued, Time, NoTime
<1>5. \A alert \in Posted : /\ alert.severity \in Severity /\ alert.type \in AlertType
                            /\ alert.host \in Host
  BY DEF Posted
<1> QED
  BY <1>1, <1>2, <1>3, <1>4, <1>5

\* The host a bundle is filed under is one of its own.
LEMMA LeastHostIs ==
  /\ \A h \in Host : LeastHost({h}) = h
  /\ \A hosts \in SUBSET Host : hosts # {} => LeastHost(hosts) \in Host
<1>1. ASSUME NEW h \in Host PROVE LeastHost({h}) = h
  <2>1. h <= h
    BY HostAssumption
  <2> QED
    BY <2>1 DEF LeastHost
<1>2. ASSUME NEW hosts \in SUBSET Host, hosts # {} PROVE LeastHost(hosts) \in Host
  <2>1. hosts \in SUBSET Nat
    BY HostAssumption
  <2>2. \E h \in hosts : \A other \in hosts : h <= other
    BY <1>2, <2>1, SmallestOf
  <2> QED
    BY <2>2 DEF LeastHost
<1> QED
  BY <1>1, <1>2

\* What CheckPending appends for an alert: the alert, or a bundle, and either
\* covers the alert.
Outcome(acc, alert) ==
    LET result == CheckAlert(acc.tracker, alert, now)
    IN  IF result.verdict = "pass" THEN alert ELSE BundleAlert(alert, result)

\* One pending alert through the detector: it is passed on as it is, or a
\* bundle that is at least as urgent takes its place.
LEMMA OutcomeCovers ==
  ASSUME TypeOK, NEW acc, Shaped(acc.tracker, Listed, Seen), NEW alert \in Posted
  PROVE  LET next == CheckPending(acc, alert) IN
         /\ Shaped(next.tracker, Listed, Seen)
         /\ next.final = Append(acc.final, Outcome(acc, alert))
         /\ Outcome(acc, alert) \in Queued
         /\ PostedAt(alert) <= now => Covers(Outcome(acc, alert), alert)
<1> DEFINE before == acc.tracker
           result == CheckAlert(before, alert, now)
<1>1. /\ alert.host \in Host /\ alert.type \in AlertType /\ alert.severity \in Severity
      /\ now \in Time /\ now \in Int
      /\ [ts |-> now, type |-> alert.type] \in Listed /\ [host |-> alert.host, ts |-> now] \in Seen
      /\ \A e \in Listed : e.ts \in Int
  BY BoundAssumption DEF TypeOK, Posted, Listed, Seen, Time
<1>2. /\ Shaped(result.tracker, Listed, Seen)
      /\ result.verdict \in {"pass", "single", "cross"}
      /\ result.verdict = "single" =>
             result.severity = SingleHostSeverity(alert) /\ result.hosts = {alert.host}
      /\ result.verdict = "cross" =>
             /\ result.severity = "critical" /\ result.hosts # {}
             /\ \A h \in result.hosts : \E e \in Seen : e.host = h
  <2>1. Fits(alert, now, Listed, Seen)
    BY <1>1 DEF Fits
  <2> QED
    BY <2>1, CheckAlertOutcome
<1>3. CheckPending(acc, alert) =
          [tracker |-> result.tracker, final |-> Append(acc.final, Outcome(acc, alert))]
  BY DEF CheckPending, Outcome
<1>4. Outcome(acc, alert) = IF result.verdict = "pass" THEN alert ELSE BundleAlert(alert, result)
  BY DEF Outcome
<1> DEFINE out == Outcome(acc, alert)
           order == SeverityOrder[alert.severity]
<1>5. order \in 1..4 /\ alert.severity \in {"critical", "high", "medium", "low"}
  BY <1>1, PostedFacts, SeverityAssumption
<1> HIDE DEF result
<1>6. CASE result.verdict = "pass"
  <2>1. out = alert
    BY <1>4, <1>6
  <2> QED
    BY <1>2, <1>3, <2>1, PostedFacts DEF Covers
<1>7. CASE result.verdict = "single"
  <2>1. LeastHost(result.hosts) = alert.host
    BY <1>1, <1>2, <1>7, LeastHostIs
  <2>2. out = [id |-> <<"mixed", now>>, type |-> "storm_single_host", host |-> alert.host,
               severity |-> SingleHostSeverity(alert), status |-> "firing", fired_at |-> NoTime]
    BY <1>2, <1>4, <1>7, <2>1 DEF BundleAlert, EventId
  <2>3. SingleHostSeverity(alert) \in {"critical", "high"}
    BY DEF SingleHostSeverity
  <2>4. out \in Queued
    BY <1>1, <2>2, <2>3, PostedFacts DEF Queued, Statuses
  <2>5. AsUrgent(out, alert)
    BY <1>5, <2>2 DEF AsUrgent, SingleHostSeverity, SeverityOrder
  <2>6. PostedAt(alert) <= now => Covers(out, alert)
    BY <1>1, <2>2, <2>5, PostedFacts DEF Covers, PostedAt
  <2> HIDE DEF out
  <2> QED
    BY <1>2, <1>3, <2>4, <2>6 DEF out
<1>8. CASE result.verdict = "cross"
  <2>1. LeastHost(result.hosts) \in Host
    <3>1. result.hosts \in SUBSET Host /\ result.hosts # {}
      BY <1>2, <1>8 DEF Seen
    <3> QED
      BY <3>1, LeastHostIs
  <2>2. out = [id |-> <<alert.type, now>>, type |-> "storm_cross_host",
               host |-> LeastHost(result.hosts), severity |-> "critical", status |-> "firing",
               fired_at |-> NoTime]
    BY <1>2, <1>4, <1>8 DEF BundleAlert, EventId
  <2>3. out \in Queued
    BY <1>1, <2>1, <2>2, PostedFacts DEF Queued, Statuses
  <2>4. AsUrgent(out, alert)
    BY <1>5, <2>2 DEF AsUrgent, SeverityOrder
  <2>5. PostedAt(alert) <= now => Covers(out, alert)
    BY <1>1, <2>2, <2>4, PostedFacts DEF Covers, PostedAt
  <2> HIDE DEF out
  <2> QED
    BY <1>2, <1>3, <2>3, <2>5 DEF out
<1> QED
  BY <1>2, <1>6, <1>7, <1>8

\* Phase 2 as a whole: each pending alert is covered by a record to append.
LEMMA CheckedCovers ==
  ASSUME TypeOK, \A i \in DOMAIN pending : PostedAt(pending[i]) <= now
  PROVE  /\ Shaped(CheckedPending.tracker, Listed, Seen)
         /\ CheckedPending.final \in Seq(Queued)
         /\ \A i \in DOMAIN pending : \E j \in DOMAIN CheckedPending.final :
                Covers(CheckedPending.final[j], pending[i])
<1>1. /\ Len(pending) \in Nat /\ DOMAIN pending = 1..Len(pending)
      /\ \A i \in DOMAIN pending : pending[i] \in Posted
  BY LenProperties, ElementOfSeq DEF TypeOK
<1>2. PICK g : /\ g = [n \in 0..Len(pending) |-> Checking(g, n)]
               /\ CheckedPending = g[Len(pending)]
  BY <1>1, CheckedDefined
<1> DEFINE Covered(m) == \A i \in 1..m : \E j \in DOMAIN g[m].final :
                             Covers(g[m].final[j], pending[i])
           Good(m) == /\ Shaped(g[m].tracker, Listed, Seen)
                      /\ g[m].final \in Seq(Queued) /\ Covered(m)
           T == {m \in 0..Len(pending) : ~Good(m)}
<1>3. T = {}
  <2> SUFFICES ASSUME T # {} PROVE FALSE
    OBVIOUS
  <2>1. PICK m \in T : \A n \in T : m <= n
    <3>1. T \in SUBSET Nat
      BY <1>1
    <3> HIDE DEF T
    <3> QED
      BY <3>1, SmallestOf
  <2>2. m # 0
    <3>1. g[0] = [tracker |-> tracker, final |-> <<>>]
      <4>1. 0 \in 0..Len(pending)
        BY <1>1
      <4> QED
        BY <1>2, <4>1 DEF Checking
    <3>2. Shaped(tracker, Listed, Seen)
      BY DEF TypeOK, Shaped, Listed, Seen
    <3>3. <<>> \in Seq(Queued)
      BY EmptySeq
    <3>4. Good(0)
      <4>1. g[0].tracker = tracker /\ g[0].final = <<>> /\ 1..0 = {}
        BY <3>1
      <4>2. Covered(0)
        BY <4>1
      <4> QED
        BY <3>2, <3>3, <4>1, <4>2
    <3> HIDE DEF Good
    <3> QED
      BY <2>1, <3>4
  <2> HIDE DEF Good
  <2>3. m \in 1..Len(pending) /\ Good(m - 1) /\ g[m] = Checking(g, m)
    <3>1. m \in 0..Len(pending) /\ m - 1 \in 0..Len(pending)
      BY <1>1, <2>1, <2>2
    <3>2. m - 1 \notin T
      BY <1>1, <2>1, <3>1
    <3>3. g[m] = Checking(g, m)
      BY <1>2, <3>1
    <3> QED
      BY <1>1, <2>2, <3>1, <3>2, <3>3
  <2> DEFINE before == g[m - 1]
             alert == pending[m]
  <2>4. /\ Shaped(before.tracker, Listed, Seen) /\ before.final \in Seq(Queued)
        /\ alert \in Posted /\ PostedAt(alert) <= now
        /\ g[m] = CheckPending(before, alert)
        /\ \A i \in 1..(m - 1) : \E j \in DOMAIN before.final :
               Covers(before.final[j], pending[i])
    BY <1>1, <2>2, <2>3 DEF Good, Checking
  <2> HIDE DEF before, alert
  <2>5. /\ Shaped(g[m].tracker, Listed, Seen)
        /\ g[m].final = Append(before.final, Outcome(before, alert))
        /\ Outcome(before, alert) \in Queued /\ Covers(Outcome(before, alert), alert)
    BY <2>4, OutcomeCovers
  <2>6. /\ g[m].final \in Seq(Queued) /\ Len(before.final) \in Nat
        /\ DOMAIN before.final = 1..Len(before.final)
        /\ DOMAIN g[m].final = 1..(Len(before.final) + 1)
        /\ g[m].final[Len(before.final) + 1] = Outcome(before, alert)
        /\ \A j \in 1..Len(before.final) : g[m].final[j] = before.final[j]
    BY <2>4, <2>5, AppendProperties, LenProperties
  <2>7. Covered(m)
    <3> SUFFICES ASSUME NEW i \in 1..m
                 PROVE  \E j \in DOMAIN g[m].final : Covers(g[m].final[j], pending[i])
      OBVIOUS
    <3>1. CASE i = m
      <4>1. Len(before.final) + 1 \in DOMAIN g[m].final
        BY <2>6
      <4> QED
        BY <2>5, <2>6, <3>1, <4>1 DEF alert
    <3>2. CASE i # m
      <4>1. i \in 1..(m - 1)
        BY <2>3, <3>2
      <4>2. PICK j \in DOMAIN before.final : Covers(before.final[j], pending[i])
        BY <2>4, <4>1
      <4>3. j \in DOMAIN g[m].final /\ g[m].final[j] = before.final[j]
        BY <2>6, <4>2
      <4> QED
        BY <4>2, <4>3
    <3> QED
      BY <3>1, <3>2
  <2>8. Good(m)
    BY <2>5, <2>6, <2>7 DEF Good
  <2> QED
    BY <2>1, <2>8
<1>4. Good(Len(pending))
  <2> HIDE DEF Good
  <2>1. Len(pending) \in 0..Len(pending) /\ Len(pending) \notin T
    BY <1>1, <1>3
  <2> QED
    BY <2>1
<1> QED
  BY <1>1, <1>2, <1>4

-----------------------------------------------------------------------------
(* The receiver's types, and what its lists hold in each phase.            *)

OnTime(alerts) == \A i \in DOMAIN alerts : PostedAt(alerts[i]) <= now

Phases ==
    /\ pc = "context" => batch = request /\ pending = <<>> /\ toAppend = <<>>
    /\ pc = "dedup" => toAppend = <<>>
    /\ pc = "append" => batch = <<>> /\ pending = <<>>
    /\ OnTime(batch) /\ OnTime(pending)

\* Where nothing is in hand nothing is from the future.
LEMMA NothingOnTime ==
  /\ \A S : <<>> \in Seq(S) /\ DOMAIN <<>> = {}
  /\ OnTime(<<>>)
BY EmptySeq DEF OnTime

\* The receiver starts idle and empty-handed.
LEMMA ReceiverStart == Init => TypeOK /\ Phases
<1> SUFFICES ASSUME Init PROVE TypeOK /\ Phases
  OBVIOUS
<1>1. /\ tracker.hostAlerts = [h \in Host |-> <<>>] /\ tracker.crossHost = [t \in AlertType |-> {}]
  BY DEF Init, ReceiverInit, NewTracker, Tracker
<1>2. Phases
  BY NothingOnTime DEF Init, ReceiverInit, Phases
<1>3. TypeOK
  <2>1. now \in Time /\ NotFired \in {NotFired}
    BY BoundAssumption DEF Init, ReceiverInit, Time
  <2> QED
    BY <1>1, <2>1, NothingOnTime, BoundAssumption DEF Init, ReceiverInit, TypeOK
<1> QED
  BY <1>2, <1>3

\* What an append that does not end leaves of the queue.
LEMMA PartType ==
  ASSUME TypeOK, toAppend # <<>>, LeavesPart
  PROVE  queue' \in Seq([alert : Queued, part : Parts])
<1>1. Head(toAppend) \in Queued
  BY HeadTailProperties DEF TypeOK
<1>2. queue \in Seq([alert : Queued, part : Parts])
  BY DEF TypeOK
<1>3. CASE UNCHANGED queue
  BY <1>2, <1>3
<1>4. ASSUME NEW part \in {"head", "body"},
             queue' = Append(queue, [alert |-> Head(toAppend), part |-> part])
      PROVE  queue' \in Seq([alert : Queued, part : Parts])
  <2>1. [alert |-> Head(toAppend), part |-> part] \in [alert : Queued, part : Parts]
    BY <1>1 DEF Parts
  <2> QED
    BY <1>2, <1>4, <2>1, AppendProperties
<1> QED
  BY <1>3, <1>4 DEF LeavesPart

\* An exception ends the request and leaves the queue as it is or with a part
\* of a line.
LEMMA RaiseKeeps ==
  ASSUME TypeOK, Phases, pc \in {"context", "append"}, Raise,
         queue' \in Seq([alert : Queued, part : Parts])
  PROVE  TypeOK' /\ Phases'
<1>1. /\ pending = <<>> /\ pending' = <<>> /\ batch' = <<>> /\ request' = <<>> /\ toAppend' = <<>>
      /\ pc' = "idle" /\ UNCHANGED <<now, firing, fires, tracker, posts>>
      /\ failures' \in 0..MaxFailures
  BY BoundAssumption DEF Phases, Raise, TypeOK, envVars
<1>2. Phases'
  BY <1>1, NothingOnTime DEF Phases, OnTime
<1>3. TypeOK'
  BY <1>1, NothingOnTime DEF TypeOK
<1> QED
  BY <1>2, <1>3

\* An alert that is dropped or goes on keeps the types.
LEMMA DeduplicateKeeps ==
  ASSUME TypeOK, Phases, pc = "dedup", batch # <<>>, NEW processed \in BOOLEAN,
         Deduplicate(processed)
  PROVE  TypeOK' /\ Phases'
<1>1. /\ Head(batch) \in Posted /\ Tail(batch) \in Seq(Posted) /\ Head(batch) = batch[1]
      /\ Len(batch) \in Nat \ {0} /\ DOMAIN batch = 1..Len(batch)
      /\ DOMAIN Tail(batch) = 1..(Len(batch) - 1)
      /\ \A i \in 1..(Len(batch) - 1) : Tail(batch)[i] = batch[i + 1]
  BY HeadTailProperties, LenProperties, EmptySeq DEF TypeOK
<1>2. /\ batch' = Tail(batch) /\ pending' \in {pending, Append(pending, Head(batch))}
      /\ UNCHANGED <<now, firing, fires, request, pc, toAppend, tracker, queue, posts, failures>>
  BY DEF Deduplicate, envVars
<1>3. Append(pending, Head(batch)) \in Seq(Posted)
  BY <1>1, AppendProperties DEF TypeOK
<1>4. OnTime(Tail(batch)) /\ PostedAt(Head(batch)) <= now
  <2>1. \A i \in 1..(Len(batch) - 1) : i + 1 \in DOMAIN batch
    BY <1>1
  <2>2. 1 \in DOMAIN batch
    BY <1>1
  <2> QED
    BY <1>1, <2>1, <2>2 DEF Phases, OnTime
<1>5. OnTime(Append(pending, Head(batch)))
  <2>1. /\ DOMAIN Append(pending, Head(batch)) = 1..(Len(pending) + 1) /\ Len(pending) \in Nat
        /\ Append(pending, Head(batch))[Len(pending) + 1] = Head(batch)
        /\ \A i \in 1..Len(pending) : Append(pending, Head(batch))[i] = pending[i]
        /\ DOMAIN pending = 1..Len(pending)
    BY <1>1, AppendProperties, LenProperties DEF TypeOK
  <2>2. \A i \in 1..(Len(pending) + 1) : i = Len(pending) + 1 \/ i \in 1..Len(pending)
    BY <2>1
  <2> QED
    BY <1>4, <2>1, <2>2 DEF Phases, OnTime
<1>6. Phases'
  BY <1>2, <1>4, <1>5 DEF Phases, OnTime
<1>7. TypeOK'
  BY <1>1, <1>2, <1>3 DEF TypeOK
<1> QED
  BY <1>6, <1>7

\* A POST puts its alerts in hand.
LEMMA PostKeeps ==
  ASSUME TypeOK, Phases, NEW group \in Groups, Post(group)
  PROVE  TypeOK' /\ Phases'
<1>1. PICK n \in 1..GroupSize : group \in [1..n -> Source]
  BY DEF Groups
<1>2. \A i \in 1..n : Normalize(group[i]) \in Posted /\ PostedAt(Normalize(group[i])) = now
  <2> SUFFICES ASSUME NEW i \in 1..n
               PROVE  Normalize(group[i]) \in Posted /\ PostedAt(Normalize(group[i])) = now
    OBVIOUS
  <2> DEFINE s == group[i]
  <2>1. s \in Source
    BY <1>1
  <2>2. firing[s] \in [status : Statuses, severity : Severity, since : Time]
    <3>1. firing[s].status # "inactive"
      BY <1>1 DEF Post
    <3> QED
      BY <2>1, <3>1 DEF TypeOK, NotFired
  <2>3. now \in Time
    BY DEF TypeOK
  <2> QED
    BY <2>1, <2>2, <2>3 DEF Normalize, EventId, Posted, PostedAt, Source
<1> DEFINE new == [i \in 1..n |-> Normalize(group[i])]
<1>3. new \in Seq(Posted) /\ DOMAIN new = 1..n
  BY <1>2, SeqDef
<1>4. /\ request' = new /\ batch' = new /\ pc' = "context" /\ posts' = posts + 1 /\ posts < MaxPosts
      /\ UNCHANGED <<now, firing, fires, pending, toAppend, tracker, queue, failures>>
      /\ pc = "idle"
  BY <1>1 DEF Post, envVars
<1>5. \A i \in DOMAIN new : PostedAt(new[i]) <= now
  <2>1. now <= now
    BY BoundAssumption DEF TypeOK, Time
  <2> QED
    BY <1>2, <1>3, <2>1
<1> HIDE DEF new
<1>6. pending = <<>> /\ toAppend = <<>>
  BY <1>4 DEF TypeOK
<1>7. Phases'
  BY <1>4, <1>5, <1>6, NothingOnTime DEF Phases, OnTime
<1>8. TypeOK'
  <2>1. posts' \in 0..MaxPosts
    BY <1>4, BoundAssumption DEF TypeOK
  <2>2. request' \in Seq(Posted) /\ batch' \in Seq(Posted) /\ pc' = "context"
    BY <1>3, <1>4
  <2> QED
    BY <1>4, <2>1, <2>2 DEF TypeOK
<1> QED
  BY <1>7, <1>8

\* Every step of the receiver and of its environment keeps its types.
LEMMA ReceiverKeeps ==
  TypeOK /\ Phases /\ ReceiverNext => TypeOK' /\ Phases'
<1> SUFFICES ASSUME TypeOK, Phases, ReceiverNext PROVE TypeOK' /\ Phases'
  OBVIOUS
<1>1. CASE Tick
  <2>1. /\ now' \in Time /\ \A t \in Int : t <= now => t <= now'
        /\ UNCHANGED <<firing, fires, pc, request, batch, pending, toAppend, tracker, queue, posts,
                      failures>>
    BY <1>1, BoundAssumption DEF Tick, TypeOK, Time, envVars, handlerVars
  <2>2. /\ \A i \in DOMAIN batch : PostedAt(batch[i]) \in Int
        /\ \A i \in DOMAIN pending : PostedAt(pending[i]) \in Int
    BY PostedFacts, ElementOfSeq, LenProperties DEF TypeOK, PostedAt
  <2>3. Phases'
    BY <2>1, <2>2 DEF Phases, OnTime
  <2>4. TypeOK'
    BY <2>1 DEF TypeOK
  <2> QED
    BY <2>3, <2>4
<1>2. ASSUME NEW s \in Source, NEW severity \in Severity, Fire(s, severity)
      PROVE  TypeOK' /\ Phases'
  <2>1. /\ fires' \in 0..MaxFires
        /\ firing' = [firing EXCEPT ![s] =
                         [status |-> "firing", severity |-> severity, since |-> now]]
        /\ UNCHANGED <<now, pc, request, batch, pending, toAppend, tracker, queue, posts, failures>>
    BY <1>2, BoundAssumption DEF Fire, TypeOK, handlerVars
  <2>2. [status |-> "firing", severity |-> severity, since |-> now] \in
            [status : Statuses, severity : Severity, since : Time]
    BY DEF TypeOK, Statuses
  <2>3. Phases'
    BY <2>1 DEF Phases, OnTime
  <2>4. TypeOK'
    BY <2>1, <2>2 DEF TypeOK
  <2> QED
    BY <2>3, <2>4
<1>3. ASSUME NEW s \in Source, Resolve(s) PROVE TypeOK' /\ Phases'
  <2>1. /\ firing' = [firing EXCEPT ![s].status = "resolved"] /\ firing[s].status = "firing"
        /\ UNCHANGED <<now, fires, pc, request, batch, pending, toAppend, tracker, queue, posts,
                      failures>>
    BY <1>3 DEF Resolve, handlerVars
  <2>2. firing[s] \in [status : Statuses, severity : Severity, since : Time]
    BY <2>1 DEF TypeOK, NotFired
  <2>3. [firing[s] EXCEPT !.status = "resolved"] \in
            [status : Statuses, severity : Severity, since : Time]
    BY <2>2 DEF Statuses
  <2>4. firing' = [firing EXCEPT ![s] = [firing[s] EXCEPT !.status = "resolved"]]
    BY <2>1
  <2>5. Phases'
    BY <2>1 DEF Phases, OnTime
  <2>6. TypeOK'
    BY <2>1, <2>3, <2>4 DEF TypeOK
  <2> QED
    BY <2>5, <2>6
<1>4. ASSUME NEW group \in Groups, Post(group) PROVE TypeOK' /\ Phases'
  BY <1>4, PostKeeps
<1>5. CASE FetchContext
  <2>1. /\ pc = "context" /\ pc' = "dedup"
        /\ UNCHANGED <<now, firing, fires, request, batch, pending, toAppend, tracker, queue, posts,
                      failures>>
    BY <1>5 DEF FetchContext, envVars
  <2>2. Phases'
    BY <2>1 DEF Phases, OnTime
  <2>3. TypeOK'
    BY <2>1 DEF TypeOK
  <2> QED
    BY <2>2, <2>3
<1>6. CASE FailContext
  <2>1. queue' \in Seq([alert : Queued, part : Parts])
    BY <1>6 DEF FailContext, TypeOK
  <2> QED
    BY <1>6, <2>1, RaiseKeeps DEF FailContext
<1>7. CASE ProcessUnknown
  BY <1>7, DeduplicateKeeps DEF ProcessUnknown
<1>8. CASE CompareWithLast
  <2>1. PICK last \in LastProcessed(Head(batch)) :
             Deduplicate(ShouldProcess(Head(batch), last))
    BY <1>8 DEF CompareWithLast
  <2>2. ShouldProcess(Head(batch), last) \in BOOLEAN
    BY DEF ShouldProcess
  <2> QED
    BY <1>8, <2>1, <2>2, DeduplicateKeeps DEF CompareWithLast
<1>9. CASE CheckStorms
  <2>1. /\ pc' = "append" /\ pending' = <<>> /\ batch = <<>> /\ batch' = <<>>
        /\ tracker' = CheckedPending.tracker /\ toAppend' = CheckedPending.final
        /\ UNCHANGED <<now, firing, fires, request, queue, posts, failures>>
    BY <1>9 DEF CheckStorms, envVars
  <2>2. Shaped(CheckedPending.tracker, Listed, Seen) /\ CheckedPending.final \in Seq(Queued)
    BY CheckedCovers DEF Phases, OnTime
  <2>3. Phases'
    BY <2>1, NothingOnTime DEF Phases, OnTime
  <2>4. TypeOK'
    BY <2>1, <2>2, NothingOnTime DEF TypeOK, Shaped, Listed, Seen
  <2> QED
    BY <2>3, <2>4
<1>10. CASE AppendAlert
  <2>1. /\ toAppend # <<>> /\ toAppend' = Tail(toAppend) /\ pc = "append"
        /\ queue' = Append(queue, [alert |-> Head(toAppend), part |-> "line"])
        /\ UNCHANGED <<now, firing, fires, pc, request, batch, pending, tracker, posts, failures>>
    BY <1>10 DEF AppendAlert, envVars
  <2>2. Head(toAppend) \in Queued /\ Tail(toAppend) \in Seq(Queued)
    BY <2>1, HeadTailProperties DEF TypeOK
  <2>3. [alert |-> Head(toAppend), part |-> "line"] \in [alert : Queued, part : Parts]
    BY <2>2 DEF Parts
  <2>4. queue' \in Seq([alert : Queued, part : Parts])
    BY <2>1, <2>3, AppendProperties DEF TypeOK
  <2>5. Phases'
    BY <2>1 DEF Phases, OnTime
  <2>6. TypeOK'
    BY <2>1, <2>2, <2>4 DEF TypeOK
  <2> QED
    BY <2>5, <2>6
<1>11. CASE FailAppend
  BY <1>11, PartType, RaiseKeeps DEF FailAppend
<1>12. CASE Respond
  <2>1. /\ pc = "append" /\ toAppend = <<>> /\ pc' = "idle" /\ request' = <<>>
        /\ UNCHANGED <<now, firing, fires, batch, pending, toAppend, tracker, queue, posts, failures>>
    BY <1>12 DEF Respond, envVars
  <2>2. Phases'
    BY <2>1 DEF Phases, OnTime
  <2>3. TypeOK'
    BY <2>1, NothingOnTime DEF TypeOK, Phases
  <2> QED
    BY <2>2, <2>3
<1>13. CASE Crash
  <2>1. /\ pc' = "idle" /\ request' = <<>> /\ batch' = <<>> /\ pending' = <<>> /\ toAppend' = <<>>
        /\ tracker' = NewTracker /\ failures' \in 0..MaxFailures
        /\ UNCHANGED <<now, firing, fires, posts>>
    BY <1>13, BoundAssumption DEF Crash, TypeOK, envVars
  <2>2. queue' \in Seq([alert : Queued, part : Parts])
    <3>1. CASE pc = "append" /\ toAppend # <<>>
      BY <1>13, <3>1, PartType DEF Crash
    <3>2. CASE ~(pc = "append" /\ toAppend # <<>>)
      BY <1>13, <3>2 DEF Crash, TypeOK
    <3> QED
      BY <3>1, <3>2
  <2>3. /\ tracker'.hostAlerts = [h \in Host |-> <<>>]
        /\ tracker'.crossHost = [t \in AlertType |-> {}]
    BY <2>1 DEF NewTracker, Tracker
  <2>4. Phases'
    BY <2>1, NothingOnTime DEF Phases, OnTime
  <2>5. TypeOK'
    BY <2>1, <2>2, <2>3, NothingOnTime DEF TypeOK
  <2> QED
    BY <2>4, <2>5
<1> QED
  BY <1>1, <1>2, <1>3, <1>4, <1>5, <1>6, <1>7, <1>8, <1>9, <1>10, <1>11, <1>12, <1>13
     DEF ReceiverNext, Handler

AgentFrame == /\ AgentStep
              /\ UNCHANGED <<now, envVars, handlerVars, queue, posts, failures, answered>>

\* No step of the agent touches what the receiver's types speak of, but the
\* table.
LEMMA AgentKeeps ==
  TypeOK /\ Phases /\ (AgentFrame \/ UNCHANGED vars) => TypeOK' /\ Phases'
<1> SUFFICES ASSUME TypeOK, Phases, AgentFrame \/ UNCHANGED vars PROVE TypeOK' /\ Phases'
  OBVIOUS
<1>1. UNCHANGED <<now, firing, fires, pc, request, batch, pending, toAppend, tracker, queue, posts,
                  failures>>
  BY DEF AgentFrame, vars, receiverVars, envVars, handlerVars
<1> QED
  BY <1>1 DEF TypeOK, Phases, OnTime

-----------------------------------------------------------------------------
(* The agent.  Every row was made from a record of the queue that the      *)
(* agent has passed, or is telling; every whole line it has passed was     *)
(* told or is excused.                                                     *)

AgentTypeOK ==
    /\ rows \in SUBSET Incident
    /\ fate \in Seq({"told", "duplicate", "malformed"})
    /\ telling \in BOOLEAN
    /\ Offset \in 0..Len(queue)
    /\ telling => Offset < Len(queue) /\ Row(queue[Offset + 1].alert) \in rows
    /\ crashes \in 0..MaxFailures
    /\ \A r, other \in rows : r.id = other.id => r = other

\* The record at k is on record itself, and was told unless a crash came
\* between, or is being told.
Inserted(k) ==
    /\ Row(queue[k].alert) \in rows /\ queue[k].part # "head"
    /\ \/ k <= Offset /\ (fate[k] = "told" \/ crashes > 0)
       \/ k = Offset + 1 /\ (telling \/ crashes > 0)

\* A row is that of a record of the queue that was read.
RowsFromQueue ==
    \A r \in rows : \E k \in DOMAIN queue : r = Row(queue[k].alert) /\ Inserted(k)

\* A whole line was told, or there is an excuse.
FateKnown ==
    \A i \in DOMAIN fate : queue[i].part = "line" => fate[i] = "told" \/ Excused(i)

AgentInv == AgentTypeOK /\ RowsFromQueue /\ FateKnown

\* Nothing leaves the queue, no row leaves the table, and what was inserted
\* stays so.
Grown ==
    /\ \A i \in DOMAIN queue : i \in DOMAIN queue' /\ queue'[i] = queue[i]
    /\ Len(queue') \in Nat /\ Len(queue') >= Len(queue)
    /\ rows \subseteq rows'
    /\ \A k \in DOMAIN queue : Inserted(k) => Inserted(k)'

\* The queue as a sequence of pieces.
LEMMA QueueFacts ==
  ASSUME TypeOK
  PROVE  /\ Len(queue) \in Nat /\ DOMAIN queue = 1..Len(queue)
         /\ \A i \in DOMAIN queue : queue[i] \in [alert : Queued, part : Parts]
BY LenProperties, ElementOfSeq DEF TypeOK

\* The receiver adds to the queue and never writes the table.
LEMMA ReceiverGrows ==
  ASSUME TypeOK, AgentInv, ReceiverNext, UNCHANGED agentVars
  PROVE  Grown /\ UNCHANGED rows
<1> DEFINE Entry == [alert : Queued, part : Parts]
<1>1. UNCHANGED rows
  BY DEF ReceiverNext, Handler, Tick, Fire, Resolve, Post, FetchContext, FailContext, Raise,
         ProcessUnknown, CompareWithLast, Deduplicate, CheckStorms, AppendAlert, FailAppend,
         Respond, Crash
<1>2. UNCHANGED queue \/ \E entry \in Entry : queue' = Append(queue, entry)
  <2>1. ASSUME toAppend # <<>>, NEW part \in Parts
        PROVE  [alert |-> Head(toAppend), part |-> part] \in Entry
    BY <2>1, HeadTailProperties DEF TypeOK
  <2>2. CASE AppendAlert
    <3>1. toAppend # <<>> /\ queue' = Append(queue, [alert |-> Head(toAppend), part |-> "line"])
      BY <2>2 DEF AppendAlert
    <3> HIDE DEF Entry
    <3> QED
      BY <2>1, <3>1 DEF Parts
  <2>3. ASSUME toAppend # <<>>, LeavesPart
        PROVE  UNCHANGED queue \/ \E entry \in Entry : queue' = Append(queue, entry)
    <3>1. CASE UNCHANGED queue
      BY <3>1
    <3>2. ASSUME NEW part \in {"head", "body"},
                 queue' = Append(queue, [alert |-> Head(toAppend), part |-> part])
          PROVE  \E entry \in Entry : queue' = Append(queue, entry)
      <4> HIDE DEF Entry
      <4>1. part \in Parts
        BY DEF Parts
      <4> QED
        BY <2>1, <2>3, <3>2, <4>1
    <3> QED
      BY <2>3, <3>1, <3>2 DEF LeavesPart
  <2>4. CASE FailAppend
    BY <2>3, <2>4 DEF FailAppend
  <2>5. CASE Crash
    BY <2>3, <2>5 DEF Crash
  <2>6. CASE ~(AppendAlert \/ FailAppend \/ Crash)
    BY <2>6 DEF ReceiverNext, Handler, Tick, Fire, Resolve, Post, FetchContext, FailContext,
                ProcessUnknown, CompareWithLast, Deduplicate, CheckStorms, Respond
  <2> QED
    BY <2>2, <2>4, <2>5, <2>6
<1>3. CASE UNCHANGED queue
  BY <1>1, <1>3, QueueFacts DEF Grown, Inserted, Row, Offset, agentVars
<1>4. ASSUME NEW entry \in Entry, queue' = Append(queue, entry) PROVE Grown
  <2>1. queue \in Seq(Entry)
    BY DEF TypeOK
  <2> HIDE DEF Entry
  <2>2. /\ Len(queue) \in Nat /\ DOMAIN queue = 1..Len(queue)
        /\ Len(queue') = Len(queue) + 1 /\ DOMAIN queue' = 1..(Len(queue) + 1)
        /\ \A i \in 1..Len(queue) : queue'[i] = queue[i]
    BY <1>4, <2>1, AppendProperties, LenProperties
  <2>3. \A k \in DOMAIN queue : Inserted(k) => Inserted(k)'
    BY <1>1, <2>2 DEF Inserted, Row, Offset, agentVars
  <2> QED
    BY <1>1, <2>2, <2>3 DEF Grown
<1> QED
  BY <1>1, <1>2, <1>3, <1>4

\* The agent starts at the beginning of an empty queue.
LEMMA AgentStart == Init => AgentInv
<1> SUFFICES ASSUME Init PROVE AgentInv
  OBVIOUS
<1>1. /\ queue = <<>> /\ rows = {} /\ fate = <<>> /\ telling = FALSE /\ crashes = 0
      /\ Len(queue) = 0 /\ Len(fate) = 0 /\ DOMAIN fate = {}
  BY EmptySeq, LenProperties DEF Init, ReceiverInit
<1>2. AgentTypeOK
  <2>1. fate \in Seq({"told", "duplicate", "malformed"})
    BY <1>1, EmptySeq
  <2>2. Offset \in 0..Len(queue)
    BY <1>1 DEF Offset
  <2>3. crashes \in 0..MaxFailures
    BY <1>1, BoundAssumption
  <2> QED
    BY <1>1, <2>1, <2>2, <2>3 DEF AgentTypeOK
<1> QED
  BY <1>1, <1>2 DEF AgentInv, RowsFromQueue, FateKnown

\* A step that only lets the queue grow disturbs none of it.
LEMMA AgentUndisturbed ==
  ASSUME TypeOK, AgentInv, Grown, UNCHANGED <<rows, fate, telling, crashes>>
  PROVE  AgentInv'
<1>1. /\ Len(queue) \in Nat /\ DOMAIN queue = 1..Len(queue)
      /\ Offset \in 0..Len(queue) /\ DOMAIN fate = 1..Offset
  BY QueueFacts, LenProperties DEF AgentInv, AgentTypeOK, Offset
<1>2. \A i \in 1..Len(queue) : i \in DOMAIN queue' /\ queue'[i] = queue[i]
  BY <1>1 DEF Grown
<1>3. AgentTypeOK'
  <2>1. Offset' = Offset /\ Offset \in 0..Len(queue')
    BY <1>1 DEF Grown, Offset
  <2>2. telling => Offset < Len(queue') /\ queue'[Offset + 1] = queue[Offset + 1]
    BY <1>1, <1>2 DEF AgentInv, AgentTypeOK, Grown
  <2> QED
    BY <2>1, <2>2 DEF AgentInv, AgentTypeOK, Row
<1>4. RowsFromQueue'
  <2> SUFFICES ASSUME NEW r \in rows
               PROVE  \E k \in DOMAIN queue' : r = Row(queue'[k].alert) /\ Inserted(k)'
    BY DEF RowsFromQueue, Row
  <2>1. PICK k \in DOMAIN queue : r = Row(queue[k].alert) /\ Inserted(k)
    BY DEF AgentInv, RowsFromQueue
  <2>2. k \in DOMAIN queue' /\ queue'[k] = queue[k] /\ Inserted(k)'
    BY <2>1 DEF Grown
  <2> QED
    BY <2>1, <2>2
<1>5. FateKnown'
  <2> SUFFICES ASSUME NEW i \in DOMAIN fate, queue[i].part = "line"
               PROVE  fate[i] = "told" \/ Excused(i)'
    BY <1>1, <1>2 DEF FateKnown
  <2>1. fate[i] = "told" \/ Excused(i)
    BY DEF AgentInv, FateKnown
  <2>2. ASSUME Excused(i) PROVE Excused(i)'
    <3>1. \A k \in 1..i : k \in 1..Len(queue) /\ queue'[k] = queue[k]
      BY <1>1, <1>2
    <3>2. i \in 1..i /\ (i > 1 => i - 1 \in 1..i) /\ 1..(i - 1) \subseteq 1..i
      BY <1>1
    <3> QED
      BY <2>2, <3>1, <3>2 DEF Excused, Row
  <2> QED
    BY <2>1, <2>2
<1> QED
  BY <1>3, <1>4, <1>5 DEF AgentInv

\* What readline returns lies behind the offset, and only its last piece may
\* be a whole line.
LEMMA ReadFacts ==
  ASSUME TypeOK, AgentInv, NEW e \in 1..Len(queue), ReadsTo(e)
  PROVE  /\ Offset \in Nat /\ Offset < e /\ e \in Nat /\ e \in DOMAIN queue /\ e <= Len(queue)
         /\ DOMAIN fate = 1..Offset /\ DOMAIN queue = 1..Len(queue) /\ Len(queue) \in Nat
         /\ \A k \in (Offset + 1)..(e - 1) : queue[k].part # "line"
         /\ \A i \in 1..Offset : i \in DOMAIN queue
         /\ queue[e].alert \in Queued /\ queue[e].part \in Parts
<1>1. /\ Len(queue) \in Nat /\ DOMAIN queue = 1..Len(queue)
      /\ queue[e] \in [alert : Queued, part : Parts]
  BY QueueFacts
<1>2. Offset \in 0..Len(queue) /\ DOMAIN fate = 1..Offset
  BY LenProperties DEF AgentInv, AgentTypeOK, Offset
<1>3. /\ Offset < e /\ e <= Len(queue)
      /\ \A k \in (Offset + 1)..(e - 1) : queue[k].part # "line"
  BY DEF ReadsTo
<1>4. /\ Offset \in Nat /\ e \in Nat /\ e \in DOMAIN queue
      /\ \A i \in 1..Offset : i \in DOMAIN queue
  BY <1>1, <1>2
<1>5. queue[e].alert \in Queued /\ queue[e].part \in Parts
  BY <1>1
<1> QED
  BY <1>1, <1>2, <1>3, <1>4, <1>5

\* The row of a line that is read is inserted: no row has its id.
LEMMA ReadNewKeeps ==
  ASSUME TypeOK, AgentInv, ~telling, NEW e \in 1..Len(queue), ReadNew(e), UNCHANGED queue
  PROVE  AgentInv'
<1> DEFINE row == Row(queue[e].alert)
<1>1. /\ ReadsTo(e) /\ e = Offset + 1 /\ queue[e].part # "head" /\ ~IdTaken(queue[e].alert.id)
      /\ rows' = rows \cup {row} /\ telling' = TRUE /\ UNCHANGED <<queue, fate, crashes>>
  BY DEF ReadNew, IsRecord
<1>2. /\ Offset \in Nat /\ e \in DOMAIN queue /\ DOMAIN queue = 1..Len(queue) /\ Len(queue) \in Nat
      /\ DOMAIN fate = 1..Offset /\ e <= Len(queue) /\ queue[e].alert \in Queued
  BY <1>1, ReadFacts
<1>3. row \in Incident /\ row.id = queue[e].alert.id
  BY <1>2 DEF Row, Queued, Incident
<1> HIDE DEF row
<1>4. AgentTypeOK'
  <2>1. \A r, other \in rows' : r.id = other.id => r = other
    BY <1>1, <1>3 DEF AgentInv, AgentTypeOK, IdTaken
  <2>2. Row(queue[e].alert) \in rows' /\ Row(queue'[Offset' + 1].alert) = Row(queue[e].alert)
    BY <1>1 DEF row, Offset
  <2>3. Offset' = Offset /\ Offset < Len(queue')
    BY <1>1, <1>2 DEF Offset
  <2>4. rows' \in SUBSET Incident
    BY <1>1, <1>3 DEF AgentInv, AgentTypeOK
  <2> QED
    BY <1>1, <2>1, <2>2, <2>3, <2>4 DEF AgentInv, AgentTypeOK, Row
<1>5. RowsFromQueue'
  <2> SUFFICES ASSUME NEW r \in rows'
               PROVE  \E k \in DOMAIN queue : r = Row(queue[k].alert) /\ Inserted(k)'
    BY <1>1 DEF RowsFromQueue, Row
  <2>1. CASE r = row
    <3>1. r = Row(queue[e].alert) /\ Row(queue[e].alert) \in rows'
      BY <1>1, <2>1 DEF row
    <3>2. Inserted(e)'
      BY <1>1, <3>1 DEF Inserted, Row, Offset
    <3> QED
      BY <1>2, <3>1, <3>2
  <2>2. CASE r \in rows
    <3>1. PICK k \in DOMAIN queue : r = Row(queue[k].alert) /\ Inserted(k)
      BY <2>2 DEF AgentInv, RowsFromQueue
    <3>2. Row(queue[k].alert) \in rows'
      BY <1>1, <2>2, <3>1
    <3>3. Inserted(k)'
      BY <1>1, <3>1, <3>2 DEF Inserted, Row, Offset
    <3> QED
      BY <3>1, <3>3
  <2> QED
    BY <1>1, <2>1, <2>2
<1>6. FateKnown'
  <2>1. \A i \in DOMAIN fate : Excused(i) => Excused(i)'
    BY <1>1 DEF Excused, Row
  <2> QED
    BY <1>1, <2>1 DEF AgentInv, FateKnown
<1> QED
  BY <1>4, <1>5, <1>6 DEF AgentInv

\* ReadOther passes the pieces up to e, Tell passes one.
PassedAs(e) == IF IsRecord(e) THEN "duplicate" ELSE "malformed"

\* A line that is a duplicate or malformed moves the offset past its pieces.
LEMMA ReadOtherPasses ==
  ASSUME TypeOK, AgentInv, NEW e \in 1..Len(queue), ReadOther(e)
  PROVE  /\ fate' \in Seq({"told", "duplicate", "malformed"}) /\ Len(fate') = e /\ Offset' = e
         /\ Offset < e /\ DOMAIN fate' = 1..e
         /\ \A i \in 1..Offset : fate'[i] = fate[i]
         /\ \A i \in (Offset + 1)..e : fate'[i] = PassedAs(e)
<1> DEFINE verdict == IF IsRecord(e) THEN "duplicate" ELSE "malformed"
           passed == [k \in 1..(e - Offset) |-> verdict]
<1>1. ReadsTo(e) /\ fate' = fate \o passed
  BY DEF ReadOther
<1>2. /\ Offset \in Nat /\ Offset < e /\ e \in Nat /\ e \in DOMAIN queue /\ e <= Len(queue)
      /\ DOMAIN fate = 1..Offset /\ DOMAIN queue = 1..Len(queue) /\ Len(queue) \in Nat
      /\ \A k \in (Offset + 1)..(e - 1) : queue[k].part # "line"
  BY <1>1, ReadFacts
<1>3. /\ fate' \in Seq({"told", "duplicate", "malformed"}) /\ Len(fate') = e
      /\ DOMAIN fate' = 1..e
      /\ \A i \in 1..Offset : fate'[i] = fate[i]
      /\ \A i \in (Offset + 1)..e : fate'[i] = verdict
  <2> DEFINE Fates == {"told", "duplicate", "malformed"}
  <2>1. verdict \in Fates
    OBVIOUS
  <2>2. passed \in Seq(Fates) /\ Len(passed) = e - Offset
    <3> HIDE DEF verdict, Fates
    <3>1. e - Offset \in Nat
      BY <1>2
    <3>2. passed \in [1..(e - Offset) -> Fates]
      BY <2>1
    <3>3. passed \in Seq(Fates)
      BY <3>1, <3>2, SeqDef
    <3>4. DOMAIN passed = 1..(e - Offset)
      OBVIOUS
    <3> HIDE DEF passed
    <3> QED
      BY <3>1, <3>3, <3>4, LenProperties
  <2>3. fate \in Seq(Fates) /\ Len(fate) = Offset
    BY DEF AgentInv, AgentTypeOK, Offset
  <2>4. \A i \in 1..(e - Offset) : passed[i] = verdict
    OBVIOUS
  <2> HIDE DEF passed, Fates, verdict
  <2>5. /\ fate' \in Seq(Fates) /\ Len(fate') = Len(fate) + Len(passed)
        /\ \A i \in 1..(Len(fate) + Len(passed)) :
               fate'[i] = IF i <= Len(fate) THEN fate[i] ELSE passed[i - Len(fate)]
    BY <1>1, <2>2, <2>3, ConcatProperties
  <2>6. Len(fate') = e /\ DOMAIN fate' = 1..e
    BY <1>2, <2>2, <2>3, <2>5, LenProperties
  <2>7. \A i \in 1..Offset : i \in 1..e /\ i <= Offset
    BY <1>2
  <2>8. \A i \in (Offset + 1)..e : i \in 1..e /\ ~(i <= Offset) /\ i - Offset \in 1..(e - Offset)
    BY <1>2
  <2>9. Len(fate) + Len(passed) = e
    BY <1>2, <2>2, <2>3
  <2>10. \A i \in 1..Offset : fate'[i] = fate[i]
    BY <2>3, <2>5, <2>7, <2>9
  <2>11. \A i \in (Offset + 1)..e : fate'[i] = verdict
    BY <2>3, <2>4, <2>5, <2>8, <2>9
  <2> QED
    BY <2>5, <2>6, <2>10, <2>11 DEF Fates
<1> QED
  BY <1>2, <1>3 DEF Offset, PassedAs

\* The fate of a line that is passed over has its reason: an earlier record
\* with its id, or a cut append.
LEMMA ReadOtherKeeps ==
  ASSUME TypeOK, AgentInv, ~telling, NEW e \in 1..Len(queue), ReadOther(e), UNCHANGED queue
  PROVE  AgentInv'
<1> DEFINE verdict == PassedAs(e)
<1>1. /\ ReadsTo(e) /\ (~IsRecord(e) \/ IdTaken(queue[e].alert.id))
      /\ UNCHANGED <<queue, rows, telling, crashes>>
  BY DEF ReadOther
<1>2. /\ Offset \in Nat /\ Offset < e /\ e \in Nat /\ e \in DOMAIN queue /\ e <= Len(queue)
      /\ DOMAIN fate = 1..Offset /\ DOMAIN queue = 1..Len(queue) /\ Len(queue) \in Nat
      /\ \A k \in (Offset + 1)..(e - 1) : queue[k].part # "line"
  BY <1>1, ReadFacts
<1>3. /\ fate' \in Seq({"told", "duplicate", "malformed"}) /\ Len(fate') = e
      /\ DOMAIN fate' = 1..e
      /\ \A i \in 1..Offset : fate'[i] = fate[i]
      /\ \A i \in (Offset + 1)..e : fate'[i] = verdict
  BY ReadOtherPasses DEF PassedAs
<1> HIDE DEF verdict
<1>4. AgentTypeOK'
  <2>1. Offset' \in 0..Len(queue)
    BY <1>2, <1>3 DEF Offset
  <2> QED
    BY <1>1, <1>3, <2>1 DEF AgentInv, AgentTypeOK
<1>5. RowsFromQueue'
  <2> SUFFICES ASSUME NEW r \in rows
               PROVE  \E k \in DOMAIN queue :
                          /\ r = Row(queue[k].alert) /\ queue[k].part # "head"
                          /\ k <= e /\ (fate'[k] = "told" \/ crashes > 0)
    BY <1>1, <1>3 DEF RowsFromQueue, Inserted, Row, Offset
  <2>1. PICK k \in DOMAIN queue :
             /\ r = Row(queue[k].alert) /\ queue[k].part # "head"
             /\ \/ k <= Offset /\ (fate[k] = "told" \/ crashes > 0)
                \/ k = Offset + 1 /\ (telling \/ crashes > 0)
    BY DEF AgentInv, RowsFromQueue, Inserted
  <2>2. k <= e /\ (k <= Offset => fate'[k] = fate[k])
    BY <1>2, <1>3, <2>1
  <2> QED
    BY <2>1, <2>2
<1>6. FateKnown'
  <2> SUFFICES ASSUME NEW i \in 1..e, queue[i].part = "line"
               PROVE  fate'[i] = "told" \/ Excused(i)'
    BY <1>1, <1>3 DEF FateKnown
  <2>1. CASE i <= Offset
    <3>1. fate'[i] = fate[i] /\ i \in DOMAIN fate
      BY <1>2, <1>3, <2>1
    <3>2. Excused(i) => Excused(i)'
      BY <1>1, <3>1 DEF Excused, Row
    <3> QED
      BY <3>1, <3>2 DEF AgentInv, FateKnown
  <2>2. CASE ~(i <= Offset)
    <3>1. i = e
      BY <1>2, <2>2
    <3>2. fate'[e] = verdict
      BY <1>2, <1>3
    <3>3. CASE IsRecord(e)
      <4>1. e = Offset + 1 /\ fate'[e] = "duplicate"
        BY <3>2, <3>3 DEF IsRecord, verdict, PassedAs
      <4>2. PICK r \in rows : r.id = queue[e].alert.id
        BY <1>1, <3>3 DEF IdTaken
      <4>3. PICK k \in DOMAIN queue :
               /\ r = Row(queue[k].alert)
               /\ k <= Offset \/ (k = Offset + 1 /\ crashes > 0)
        BY DEF AgentInv, RowsFromQueue, Inserted
      <4>4. CASE k <= Offset
        <5>1. k \in 1..(e - 1) /\ queue[k].alert.id = queue[e].alert.id
          BY <1>2, <4>1, <4>2, <4>3, <4>4 DEF Row
        <5> QED
          BY <1>1, <3>1, <4>1, <5>1 DEF Excused
      <4>5. CASE k = Offset + 1 /\ crashes > 0
        <5>1. Row(queue[e].alert) \in rows
          BY <4>1, <4>2, <4>3, <4>5
        <5> QED
          BY <1>1, <3>1, <4>5, <5>1 DEF Excused, Row
      <4> QED
        BY <4>3, <4>4, <4>5
    <3>4. CASE ~IsRecord(e)
      <4>1. fate'[e] = "malformed"
        BY <3>2, <3>4 DEF verdict, PassedAs
      <4>2. e # Offset + 1
        BY <2>2, <3>1, <3>4 DEF IsRecord
      <4>3. e > 1 /\ e - 1 \in (Offset + 1)..(e - 1)
        BY <1>2, <4>2
      <4> QED
        BY <1>1, <1>2, <3>1, <4>1, <4>3 DEF Excused
    <3> QED
      BY <3>3, <3>4
  <2> QED
    BY <2>1, <2>2
<1> QED
  BY <1>4, <1>5, <1>6 DEF AgentInv

\* A dispatch moves the offset past the line that was told.
LEMMA TellPasses ==
  ASSUME TypeOK, AgentInv, Tell
  PROVE  /\ fate' \in Seq({"told", "duplicate", "malformed"}) /\ Offset' = Offset + 1
         /\ DOMAIN fate' = 1..(Offset + 1) /\ fate'[Offset + 1] = "told"
         /\ \A i \in 1..Offset : fate'[i] = fate[i]
<1> DEFINE Fates == {"told", "duplicate", "malformed"}
<1>1. fate' = Append(fate, "told") /\ fate \in Seq(Fates) /\ "told" \in Fates
  BY DEF Tell, AgentInv, AgentTypeOK
<1> HIDE DEF Fates
<1>2. /\ fate' \in Seq(Fates) /\ Len(fate') = Len(fate) + 1 /\ Len(fate) \in Nat
      /\ DOMAIN fate' = 1..(Len(fate) + 1) /\ fate'[Len(fate) + 1] = "told"
      /\ \A i \in 1..Len(fate) : fate'[i] = fate[i]
  BY <1>1, AppendProperties, LenProperties
<1> QED
  BY <1>2 DEF Offset, Fates

\* The line in hand is told, and that is its fate.
LEMMA TellKeeps ==
  ASSUME TypeOK, AgentInv, Tell, UNCHANGED queue
  PROVE  AgentInv'
<1>1. /\ telling /\ fate' = Append(fate, "told") /\ telling' = FALSE
      /\ UNCHANGED <<queue, rows, crashes>>
  BY DEF Tell
<1>2. /\ Len(queue) \in Nat /\ DOMAIN queue = 1..Len(queue)
      /\ Offset \in 0..Len(queue) /\ DOMAIN fate = 1..Offset /\ Offset < Len(queue)
  BY <1>1, QueueFacts, LenProperties DEF AgentInv, AgentTypeOK, Offset
<1>3. /\ fate' \in Seq({"told", "duplicate", "malformed"}) /\ Offset' = Offset + 1
      /\ DOMAIN fate' = 1..(Offset + 1) /\ fate'[Offset + 1] = "told"
      /\ \A i \in 1..Offset : fate'[i] = fate[i]
  BY TellPasses
<1>4. AgentTypeOK'
  <2>1. Offset' \in 0..Len(queue)
    BY <1>2, <1>3
  <2> QED
    BY <1>1, <1>3, <2>1 DEF AgentInv, AgentTypeOK
<1>5. RowsFromQueue'
  <2> SUFFICES ASSUME NEW r \in rows
               PROVE  \E k \in DOMAIN queue :
                          /\ r = Row(queue[k].alert) /\ queue[k].part # "head"
                          /\ k <= Offset + 1 /\ (fate'[k] = "told" \/ crashes > 0)
    BY <1>1, <1>3 DEF RowsFromQueue, Inserted, Row
  <2>1. PICK k \in DOMAIN queue :
             /\ r = Row(queue[k].alert) /\ queue[k].part # "head"
             /\ \/ k <= Offset /\ (fate[k] = "told" \/ crashes > 0)
                \/ k = Offset + 1
    BY DEF AgentInv, RowsFromQueue, Inserted
  <2>2. k <= Offset + 1 /\ (k <= Offset => fate'[k] = fate[k])
    BY <1>2, <1>3, <2>1
  <2> QED
    BY <1>3, <2>1, <2>2
<1>6. FateKnown'
  <2> SUFFICES ASSUME NEW i \in 1..(Offset + 1), queue[i].part = "line"
               PROVE  fate'[i] = "told" \/ Excused(i)'
    BY <1>1, <1>3 DEF FateKnown
  <2>1. CASE i = Offset + 1
    BY <1>3, <2>1
  <2>2. CASE i # Offset + 1
    <3>1. fate'[i] = fate[i] /\ i \in DOMAIN fate
      BY <1>2, <1>3, <2>2
    <3>2. Excused(i) => Excused(i)'
      BY <1>1, <3>1 DEF Excused, Row
    <3> QED
      BY <3>1, <3>2 DEF AgentInv, FateKnown
  <2> QED
    BY <2>1, <2>2
<1> QED
  BY <1>4, <1>5, <1>6 DEF AgentInv

\* A crash between the row and the dispatch leaves the row of a line that is
\* to be read again.
LEMMA AgentCrashKeeps ==
  ASSUME TypeOK, AgentInv, AgentCrash, UNCHANGED queue
  PROVE  AgentInv'
<1>1. /\ crashes' = crashes + 1 /\ crashes < MaxFailures /\ crashes \in 0..MaxFailures
      /\ telling' = FALSE /\ UNCHANGED <<queue, rows, fate>>
  BY DEF AgentCrash, AgentInv, AgentTypeOK
<1>2. crashes' > 0 /\ crashes' \in 0..MaxFailures
  BY <1>1, BoundAssumption
<1>3. AgentTypeOK'
  BY <1>1, <1>2 DEF AgentInv, AgentTypeOK, Offset
<1>4. RowsFromQueue'
  BY <1>1, <1>2 DEF AgentInv, RowsFromQueue, Inserted, Offset, Row
<1>5. FateKnown'
  <2>1. \A i \in DOMAIN fate : Excused(i) => Excused(i)'
    BY <1>1, <1>2 DEF Excused, Row
  <2> QED
    BY <1>1, <2>1 DEF AgentInv, FateKnown
<1> QED
  BY <1>3, <1>4, <1>5 DEF AgentInv

-----------------------------------------------------------------------------
(* The request in hand.  Wherever an alert of it is, it is covered: on its *)
(* way, or by a record that the agent told, or will read as a whole line.  *)

Held(alert) ==
    \E i \in DOMAIN queue :
        /\ queue[i].part # "head"
        /\ Covers(queue[i].alert, alert)
        /\ queue[i].part = "line" \/ Inserted(i)

\* Each alert of the request is on its way, or covered by the queue.
InHand ==
    \A i \in DOMAIN request :
        \/ \E j \in DOMAIN batch : batch[j] = request[i]
        \/ \E j \in DOMAIN pending : pending[j] = request[i]
        \/ \E j \in DOMAIN toAppend : Covers(toAppend[j], request[i])
        \/ Held(request[i])

\* Each alert that was answered with 200 is covered by the queue.
AnsweredHeld == \A alert \in answered : Held(alert)

\* What is covered by the queue stays covered: the queue only grows.
LEMMA HeldStays ==
  ASSUME Grown, NEW alert, Held(alert)
  PROVE  Held(alert)'
<1>1. PICK i \in DOMAIN queue :
         /\ queue[i].part # "head"
         /\ Covers(queue[i].alert, alert)
         /\ queue[i].part = "line" \/ Inserted(i)
  BY DEF Held
<1>2. i \in DOMAIN queue' /\ queue'[i] = queue[i] /\ (Inserted(i) => Inserted(i)')
  BY DEF Grown
<1> QED
  BY <1>1, <1>2 DEF Held, Inserted, Covers, SameSource, AsUrgent, PostedAt, Row

\* The lookup drops an alert only when a record covers it: the row it finds
\* was made from one.
LEMMA DroppedIsHeld ==
  ASSUME TypeOK, Phases, AgentInv, batch # <<>>,
         NEW last \in LastProcessed(Head(batch)), ~ShouldProcess(Head(batch), last)
  PROVE  Held(Head(batch))
<1> DEFINE alert == Head(batch)
<1>1. alert \in Posted /\ PostedAt(alert) <= now
  <2>1. alert \in Posted /\ alert = batch[1] /\ 1 \in DOMAIN batch
    BY HeadTailProperties, LenProperties, EmptySeq DEF TypeOK
  <2> QED
    BY <2>1 DEF Phases, OnTime
<1>2. last \in rows /\ last.type = alert.type /\ last.host = alert.host
  BY DEF LastProcessed
<1>3. PICK k \in DOMAIN queue : last = Row(queue[k].alert) /\ Inserted(k)
  BY <1>2 DEF AgentInv, RowsFromQueue
<1> DEFINE line == queue[k].alert
<1>4. /\ line.type = last.type /\ line.host = last.host /\ line.severity = last.severity
      /\ line.fired_at = last.fired_at
  BY <1>3 DEF Row
<1>5. line \in Queued
  BY QueueFacts
<1> DEFINE cool == Cooldown[alert.severity]
<1>6. /\ SeverityOrder[line.severity] \in Int /\ SeverityOrder[alert.severity] \in Int
      /\ line.fired_at \in Int /\ alert.id[2] \in Int /\ cool \in Int
      /\ now \in Int /\ alert.severity \in Severity
  <2>1. alert.severity \in Severity /\ alert.severity \in DOMAIN SeverityOrder
    BY <1>1, PostedFacts, SeverityAssumption
  <2>2. line.severity \in DOMAIN SeverityOrder
    BY <1>5 DEF Queued
  <2>3. now \in Int
    BY BoundAssumption DEF TypeOK, Time
  <2> HIDE DEF alert, line
  <2> QED
    BY <1>1, <1>5, <2>1, <2>2, <2>3, PostedFacts, CooldownAssumption
<1>7. /\ ~(SeverityOrder[alert.severity] < SeverityOrder[last.severity])
      /\ ~(now - last.fired_at > cool)
  BY DEF ShouldProcess
<1> HIDE DEF alert, line, cool
<1>8. SameSource(line, alert) /\ AsUrgent(line, alert)
  BY <1>2, <1>4, <1>6, <1>7 DEF SameSource, AsUrgent
<1>9. PostedAt(alert) - line.fired_at <= cool
  BY <1>1, <1>4, <1>6, <1>7 DEF PostedAt
<1>10. Covers(line, alert)
  BY <1>8, <1>9 DEF Covers, cool
<1> QED
  BY <1>2, <1>3, <1>10 DEF Held, Inserted, line, alert

\* One alert of the batch is kept, or dropped and held.
LEMMA DeduplicateInHand ==
  ASSUME TypeOK, InHand, Grown, batch # <<>>, NEW processed \in BOOLEAN, Deduplicate(processed),
         ~processed => Held(Head(batch))
  PROVE  InHand'
<1>1. /\ Head(batch) = batch[1] /\ Head(batch) \in Posted
      /\ Len(batch) \in Nat \ {0} /\ DOMAIN batch = 1..Len(batch)
      /\ DOMAIN Tail(batch) = 1..(Len(batch) - 1)
      /\ \A i \in 1..(Len(batch) - 1) : Tail(batch)[i] = batch[i + 1]
  BY HeadTailProperties, LenProperties, EmptySeq DEF TypeOK
<1>2. /\ batch' = Tail(batch) /\ UNCHANGED <<request, toAppend>>
      /\ pending' = IF processed THEN Append(pending, Head(batch)) ELSE pending
  BY DEF Deduplicate
<1>3. /\ \A j \in DOMAIN pending : j \in DOMAIN pending' /\ pending'[j] = pending[j]
      /\ processed => \E j \in DOMAIN pending' : pending'[j] = batch[1]
  <2>1. /\ Len(pending) \in Nat /\ DOMAIN pending = 1..Len(pending)
        /\ DOMAIN Append(pending, Head(batch)) = 1..(Len(pending) + 1)
        /\ Append(pending, Head(batch))[Len(pending) + 1] = Head(batch)
        /\ \A j \in 1..Len(pending) : Append(pending, Head(batch))[j] = pending[j]
    BY <1>1, AppendProperties, LenProperties DEF TypeOK
  <2>2. CASE processed
    <3>1. Len(pending) + 1 \in 1..(Len(pending) + 1) /\ 1..Len(pending) \subseteq 1..(Len(pending) + 1)
      BY <2>1
    <3> QED
      BY <1>1, <1>2, <2>1, <2>2, <3>1
  <2>3. CASE ~processed
    BY <1>2, <2>3
  <2> QED
    BY <2>2, <2>3
<1> SUFFICES ASSUME NEW i \in DOMAIN request, NEW a, a = request[i]
             PROVE  \/ \E j \in DOMAIN batch' : batch'[j] = a
                    \/ \E j \in DOMAIN pending' : pending'[j] = a
                    \/ \E j \in DOMAIN toAppend : Covers(toAppend[j], a)
                    \/ Held(a)'
  BY <1>2 DEF InHand, Held, Inserted, Covers, SameSource, AsUrgent, PostedAt
<1>4. CASE \E j \in DOMAIN batch : batch[j] = a
  <2>1. PICK j \in DOMAIN batch : batch[j] = a
    BY <1>4
  <2>2. CASE j = 1
    <3>1. CASE processed
      BY <1>3, <2>1, <2>2, <3>1
    <3>2. CASE ~processed
      <4>1. Held(a)
        BY <1>1, <2>1, <2>2, <3>2
      <4> QED
        BY <4>1, HeldStays
    <3> QED
      BY <3>1, <3>2
  <2>3. CASE j # 1
    <3>1. j - 1 \in DOMAIN batch' /\ batch'[j - 1] = a
      BY <1>1, <1>2, <2>1, <2>3
    <3> QED
      BY <3>1
  <2> QED
    BY <2>2, <2>3
<1>5. CASE \E j \in DOMAIN pending : pending[j] = a
  BY <1>3, <1>5
<1>6. CASE Held(a)
  BY <1>6, HeldStays
<1> QED
  BY <1>4, <1>5, <1>6 DEF InHand

\* What was pending is covered by what is to be appended.
LEMMA CheckStormsInHand ==
  ASSUME TypeOK, Phases, InHand, Grown, CheckStorms
  PROVE  InHand'
<1>1. /\ pc = "dedup" /\ batch = <<>> /\ toAppend' = CheckedPending.final /\ UNCHANGED request
      /\ toAppend = <<>>
  BY DEF CheckStorms, Phases
<1>2. DOMAIN batch = {} /\ DOMAIN toAppend = {}
  BY <1>1
<1>3. \A i \in DOMAIN pending : \E j \in DOMAIN toAppend' : Covers(toAppend'[j], pending[i])
  BY <1>1, CheckedCovers DEF Phases, OnTime
<1> SUFFICES ASSUME NEW i \in DOMAIN request, NEW a, a = request[i]
             PROVE  \/ \E j \in DOMAIN toAppend' : Covers(toAppend'[j], a)
                    \/ Held(a)'
  BY <1>1 DEF InHand, Held, Inserted, Covers, SameSource, AsUrgent, PostedAt
<1>4. CASE \E j \in DOMAIN pending : pending[j] = a
  BY <1>3, <1>4
<1>5. CASE Held(a)
  BY <1>5, HeldStays
<1> QED
  BY <1>2, <1>4, <1>5 DEF InHand

\* What was to be appended is in the queue.
LEMMA AppendInHand ==
  ASSUME TypeOK, Phases, InHand, Grown, AppendAlert
  PROVE  InHand'
<1> DEFINE entry == [alert |-> Head(toAppend), part |-> "line"]
<1>1. /\ toAppend # <<>> /\ toAppend' = Tail(toAppend) /\ queue' = Append(queue, entry)
      /\ UNCHANGED <<request, batch, pending>>
  BY DEF AppendAlert
<1>2. /\ Head(toAppend) = toAppend[1] /\ Head(toAppend) \in Queued
      /\ DOMAIN toAppend = 1..Len(toAppend) /\ Len(toAppend) \in Nat \ {0}
      /\ DOMAIN Tail(toAppend) = 1..(Len(toAppend) - 1)
      /\ \A j \in 1..(Len(toAppend) - 1) : Tail(toAppend)[j] = toAppend[j + 1]
  BY <1>1, HeadTailProperties, LenProperties, EmptySeq DEF TypeOK
<1>3. entry \in [alert : Queued, part : Parts]
  BY <1>2 DEF Parts
<1> HIDE DEF entry
<1>4. Len(queue) + 1 \in DOMAIN queue' /\ queue'[Len(queue) + 1] = entry
  <2>1. Len(queue) \in Nat /\ DOMAIN Append(queue, entry) = 1..(Len(queue) + 1)
        /\ Append(queue, entry)[Len(queue) + 1] = entry
    BY <1>3, QueueFacts, AppendProperties, LenProperties DEF TypeOK
  <2> QED
    BY <1>1, <2>1
<1> SUFFICES ASSUME NEW i \in DOMAIN request, NEW a, a = request[i]
             PROVE  \/ \E j \in DOMAIN batch : batch[j] = a
                    \/ \E j \in DOMAIN pending : pending[j] = a
                    \/ \E j \in DOMAIN toAppend' : Covers(toAppend'[j], a)
                    \/ Held(a)'
  BY <1>1 DEF InHand, Held, Inserted, Covers, SameSource, AsUrgent, PostedAt
<1>5. CASE \E j \in DOMAIN toAppend : Covers(toAppend[j], a)
  <2>1. PICK j \in DOMAIN toAppend : Covers(toAppend[j], a)
    BY <1>5
  <2>2. CASE j = 1
    <3>1. queue'[Len(queue) + 1].alert = toAppend[1] /\ queue'[Len(queue) + 1].part = "line"
      BY <1>2, <1>4 DEF entry
    <3>2. Covers(queue'[Len(queue) + 1].alert, a)
      BY <2>1, <2>2, <3>1
    <3> QED
      BY <1>4, <3>1, <3>2 DEF Held, Covers, SameSource, AsUrgent, PostedAt
  <2>3. CASE j # 1
    <3>1. j - 1 \in DOMAIN toAppend' /\ toAppend'[j - 1] = toAppend[j]
      BY <1>1, <1>2, <2>1, <2>3
    <3> QED
      BY <2>1, <3>1
  <2> QED
    BY <2>2, <2>3
<1>6. CASE Held(a)
  BY <1>6, HeldStays
<1> QED
  BY <1>5, <1>6 DEF InHand

\* No step of the receiver loses an alert of the request in hand.
LEMMA InHandKept ==
  ASSUME TypeOK, Phases, AgentInv, InHand, ReceiverNext, UNCHANGED agentVars
  PROVE  InHand'
<1>1. Grown
  BY ReceiverGrows
<1>2. ASSUME UNCHANGED <<request, batch, pending, toAppend>> PROVE InHand'
  <2> SUFFICES ASSUME NEW i \in DOMAIN request, NEW a, a = request[i]
               PROVE  \/ \E j \in DOMAIN batch : batch[j] = a
                      \/ \E j \in DOMAIN pending : pending[j] = a
                      \/ \E j \in DOMAIN toAppend : Covers(toAppend[j], a)
                      \/ Held(a)'
    BY <1>2 DEF InHand, Held, Inserted, Covers, SameSource, AsUrgent, PostedAt
  <2> QED
    BY <1>1, HeldStays DEF InHand
<1>3. ASSUME request' = <<>> PROVE InHand'
  BY <1>3, NothingOnTime DEF InHand
<1>4. CASE Tick
  BY <1>2, <1>4 DEF Tick, handlerVars
<1>5. ASSUME NEW s \in Source, NEW severity \in Severity, Fire(s, severity) PROVE InHand'
  BY <1>2, <1>5 DEF Fire, handlerVars
<1>6. ASSUME NEW s \in Source, Resolve(s) PROVE InHand'
  BY <1>2, <1>6 DEF Resolve, handlerVars
<1>7. ASSUME NEW group \in Groups, Post(group) PROVE InHand'
  BY <1>7 DEF Post, InHand
<1>8. CASE FetchContext
  BY <1>2, <1>8 DEF FetchContext
<1>9. CASE FailContext \/ FailAppend \/ Respond \/ Crash
  BY <1>3, <1>9 DEF FailContext, FailAppend, Raise, Respond, Crash
<1>10. CASE ProcessUnknown
  BY <1>1, <1>10, DeduplicateInHand DEF ProcessUnknown
<1>11. CASE CompareWithLast
  <2>1. PICK last \in LastProcessed(Head(batch)) :
             Deduplicate(ShouldProcess(Head(batch), last))
    BY <1>11 DEF CompareWithLast
  <2>2. ShouldProcess(Head(batch), last) \in BOOLEAN /\ batch # <<>>
    BY <1>11 DEF ShouldProcess, CompareWithLast
  <2>3. ~ShouldProcess(Head(batch), last) => Held(Head(batch))
    BY <2>2, DroppedIsHeld
  <2> QED
    BY <1>1, <2>1, <2>2, <2>3, DeduplicateInHand
<1>12. CASE CheckStorms
  BY <1>1, <1>12, CheckStormsInHand
<1>13. CASE AppendAlert
  BY <1>1, <1>13, AppendInHand
<1> QED
  BY <1>4, <1>5, <1>6, <1>7, <1>8, <1>9, <1>10, <1>11, <1>12, <1>13 DEF ReceiverNext, Handler

\* The response with status 200 is the only way out of the appends that is no
\* failure, and it goes out when the last of them is done.
LEMMA AnswerIsResponse ==
  ASSUME TypeOK, Phases, InHand, ReceiverNext, IsAnswer
  PROVE  \A i \in DOMAIN request : Held(request[i])
<1>1. failures \in Nat
  BY BoundAssumption DEF TypeOK
<1>2. pc = "append" /\ pc' = "idle" /\ failures' = failures
  BY DEF IsAnswer
<1>3. Respond
  BY <1>1, <1>2 DEF ReceiverNext, Handler, Tick, Fire, Resolve, Post, FetchContext, FailContext,
     Raise, ProcessUnknown, CompareWithLast, CheckStorms, AppendAlert, FailAppend, Crash,
     handlerVars
<1>4. batch = <<>> /\ pending = <<>> /\ toAppend = <<>>
  BY <1>2, <1>3 DEF Phases, Respond
<1> QED
  BY <1>4, NothingOnTime DEF InHand

\* The agent's steps, seen from the receiver.
LEMMA AgentGrows ==
  ASSUME TypeOK, AgentInv, AgentFrame
  PROVE  /\ Grown /\ UNCHANGED <<queue, answered, request, batch, pending, toAppend>>
         /\ \/ \E e \in 1..Len(queue) : ~telling /\ (ReadNew(e) \/ ReadOther(e))
            \/ Tell \/ AgentCrash
<1>1. /\ UNCHANGED <<queue, answered, request, batch, pending, toAppend>>
      /\ \/ \E e \in 1..Len(queue) : ~telling /\ (ReadNew(e) \/ ReadOther(e))
         \/ Tell \/ AgentCrash
  BY DEF AgentFrame, AgentStep, handlerVars
<1>2. rows \subseteq rows'
  BY <1>1 DEF ReadNew, ReadOther, Tell, AgentCrash
<1>3. ASSUME NEW k \in DOMAIN queue, Inserted(k) PROVE Inserted(k)'
  <2>1. /\ Row(queue[k].alert) \in rows' /\ queue'[k] = queue[k] /\ queue[k].part # "head"
        /\ Offset \in Nat /\ k \in Nat /\ k >= 1
    BY <1>1, <1>2, <1>3, QueueFacts DEF Inserted, AgentInv, AgentTypeOK
  <2>2. ASSUME NEW e \in 1..Len(queue), ReadNew(e) PROVE Inserted(k)'
    BY <1>1, <1>3, <2>1, <2>2 DEF ReadNew, Inserted, Offset, Row
  <2>3. ASSUME NEW e \in 1..Len(queue), ~telling, ReadOther(e) PROVE Inserted(k)'
    <3>1. Offset < e /\ Offset' = e /\ \A i \in 1..Offset : fate'[i] = fate[i]
      BY <2>3, ReadOtherPasses
    <3>2. telling' = telling /\ crashes' = crashes /\ e \in Nat
      BY <2>3 DEF ReadOther
    <3>3. k <= Offset' /\ (fate'[k] = "told" \/ crashes' > 0)
      <4>1. CASE k <= Offset /\ (fate[k] = "told" \/ crashes > 0)
        <5>1. k \in 1..Offset
          BY <2>1, <4>1
        <5>2. fate'[k] = fate[k] /\ k <= e
          BY <2>1, <3>1, <3>2, <5>1
        <5> QED
          BY <3>1, <3>2, <4>1, <5>2
      <4>2. CASE k = Offset + 1 /\ crashes > 0
        BY <2>1, <3>1, <3>2, <4>2
      <4> QED
        BY <1>3, <2>3, <4>1, <4>2 DEF Inserted
    <3> QED
      BY <2>1, <3>3 DEF Inserted, Row
  <2>4. CASE Tell
    <3>1. /\ Offset' = Offset + 1 /\ fate'[Offset + 1] = "told"
          /\ \A i \in 1..Offset : fate'[i] = fate[i]
      BY <2>4, TellPasses
    <3>2. crashes' = crashes
      BY <2>4 DEF Tell
    <3>3. k <= Offset' /\ (fate'[k] = "told" \/ crashes' > 0)
      <4>1. CASE k <= Offset /\ (fate[k] = "told" \/ crashes > 0)
        <5>1. k \in 1..Offset
          BY <2>1, <4>1
        <5>2. fate'[k] = fate[k] /\ k <= Offset + 1
          BY <2>1, <3>1, <5>1
        <5> QED
          BY <3>1, <3>2, <4>1, <5>2
      <4>2. CASE k = Offset + 1
        BY <2>1, <3>1, <4>2
      <4> QED
        BY <1>3, <4>1, <4>2 DEF Inserted
    <3> QED
      BY <2>1, <3>3 DEF Inserted, Row
  <2>5. CASE AgentCrash
    <3>1. crashes' > 0
      BY <2>5 DEF AgentCrash, AgentInv, AgentTypeOK
    <3> QED
      BY <1>1, <1>3, <2>1, <2>5, <3>1 DEF AgentCrash, Inserted, Offset, Row
  <2> QED
    BY <1>1, <2>2, <2>3, <2>4, <2>5
<1> QED
  BY <1>1, <1>2, <1>3, QueueFacts DEF Grown

-----------------------------------------------------------------------------
(* The inductive invariant of the pipeline, and the theorems.              *)

PipelineInv == TypeOK /\ Phases /\ AgentInv /\ InHand /\ AnsweredHeld

\* The initial state satisfies the invariant.
LEMMA PipelineStart == Init => PipelineInv
<1> SUFFICES ASSUME Init PROVE PipelineInv
  OBVIOUS
<1>1. InHand /\ AnsweredHeld
  BY NothingOnTime DEF Init, ReceiverInit, InHand, AnsweredHeld
<1> QED
  BY <1>1, ReceiverStart, AgentStart DEF PipelineInv

\* Every step of the pipeline keeps the invariant.
LEMMA PipelineKept == PipelineInv /\ [Next]_vars => PipelineInv'
<1> SUFFICES ASSUME PipelineInv, [Next]_vars PROVE PipelineInv'
  OBVIOUS
<1> USE DEF PipelineInv
<1>1. ASSUME ReceiverNext, UNCHANGED agentVars,
             answered' = IF IsAnswer THEN answered \cup ToSet(request) ELSE answered
      PROVE  PipelineInv'
  <2>1. TypeOK' /\ Phases'
    BY <1>1, ReceiverKeeps
  <2>2. Grown /\ UNCHANGED rows
    BY <1>1, ReceiverGrows
  <2>3. AgentInv'
    BY <1>1, <2>2, AgentUndisturbed DEF agentVars
  <2>4. InHand'
    BY <1>1, InHandKept
  <2>5. AnsweredHeld'
    <3>1. ASSUME NEW a \in answered' PROVE Held(a)'
      <4>1. CASE a \in answered
        BY <2>2, <4>1, HeldStays DEF AnsweredHeld
      <4>2. CASE a \notin answered
        <5>1. IsAnswer /\ a \in ToSet(request)
          BY <1>1, <3>1, <4>2
        <5>2. Held(a)
          BY <1>1, <5>1, AnswerIsResponse DEF ToSet
        <5> QED
          BY <2>2, <5>2, HeldStays
      <4> QED
        BY <4>1, <4>2
    <3> QED
      BY <3>1 DEF AnsweredHeld
  <2> QED
    BY <2>1, <2>3, <2>4, <2>5
<1>2. CASE AgentFrame
  <2>1. TypeOK' /\ Phases'
    BY <1>2, AgentKeeps
  <2>2. /\ Grown /\ UNCHANGED <<queue, answered, request, batch, pending, toAppend>>
        /\ \/ \E e \in 1..Len(queue) : ~telling /\ (ReadNew(e) \/ ReadOther(e))
           \/ Tell \/ AgentCrash
    BY <1>2, AgentGrows
  <2>3. AgentInv'
    BY <2>2, ReadNewKeeps, ReadOtherKeeps, TellKeeps, AgentCrashKeeps
  <2>4. InHand'
    <3> SUFFICES ASSUME NEW i \in DOMAIN request, NEW a, a = request[i]
                 PROVE  \/ \E j \in DOMAIN batch : batch[j] = a
                        \/ \E j \in DOMAIN pending : pending[j] = a
                        \/ \E j \in DOMAIN toAppend : Covers(toAppend[j], a)
                        \/ Held(a)'
      BY <2>2 DEF InHand, Held, Inserted, Covers, SameSource, AsUrgent, PostedAt
    <3> QED
      BY <2>2, HeldStays DEF InHand
  <2>5. AnsweredHeld'
    <3>1. ASSUME NEW a \in answered PROVE Held(a)'
      BY <2>2, HeldStays DEF AnsweredHeld
    <3> QED
      BY <2>2, <3>1 DEF AnsweredHeld
  <2> QED
    BY <2>1, <2>3, <2>4, <2>5
<1>3. CASE UNCHANGED vars
  <2>1. TypeOK' /\ Phases'
    BY <1>3, AgentKeeps
  <2>2. UNCHANGED <<queue, rows, fate, telling, crashes, request, batch, pending, toAppend, answered>>
    BY <1>3 DEF vars, receiverVars, handlerVars, agentVars
  <2>3. Grown
    BY <2>2, QueueFacts DEF Grown, Inserted, Row, Offset
  <2>4. AgentInv'
    BY <2>2, <2>3, AgentUndisturbed
  <2>5. InHand'
    <3> SUFFICES ASSUME NEW i \in DOMAIN request, NEW a, a = request[i]
                 PROVE  \/ \E j \in DOMAIN batch : batch[j] = a
                        \/ \E j \in DOMAIN pending : pending[j] = a
                        \/ \E j \in DOMAIN toAppend : Covers(toAppend[j], a)
                        \/ Held(a)'
      BY <2>2 DEF InHand, Held, Inserted, Covers, SameSource, AsUrgent, PostedAt
    <3> QED
      BY <2>3, HeldStays DEF InHand
  <2>6. AnsweredHeld'
    <3>1. ASSUME NEW a \in answered PROVE Held(a)'
      BY <2>3, HeldStays DEF AnsweredHeld
    <3> QED
      BY <2>2, <3>1 DEF AnsweredHeld
  <2> QED
    BY <2>1, <2>4, <2>5, <2>6
<1> QED
  BY <1>1, <1>2, <1>3 DEF Next, AgentFrame

\* Receiver, queue, table and agent keep their types, an incident's id is in
\* the table once, and a row is committed before it is told.
THEOREM TypeCorrect == Spec => []PipelineTypeOK
<1>1. PipelineInv => PipelineTypeOK
  BY LenProperties DEF PipelineInv, AgentInv, AgentTypeOK, PipelineTypeOK
<1> QED
  BY <1>1, PipelineStart, PipelineKept, PTL DEF Spec

\* When the receiver answers 200, every alert of the request is covered by a
\* record of the queue that is at least as urgent: its own line, the record of
\* the row with which the lookup compared it, or the bundle that replaced it.
THEOREM AnswersKept == Spec => AnsweredIsCovered
<1> DEFINE Kept == (pc = "append" /\ pc' = "idle" /\ failures' = failures) =>
                       \A alert \in ToSet(request) :
                           \E entry \in ToSet(queue) :
                               entry.part # "head" /\ Covers(entry.alert, alert)
<1>1. PipelineInv /\ [Next]_vars => [Kept]_receiverVars
  <2> SUFFICES ASSUME PipelineInv, [Next]_vars, IsAnswer, NEW alert \in ToSet(request)
               PROVE  \E entry \in ToSet(queue) :
                          entry.part # "head" /\ Covers(entry.alert, alert)
    BY DEF IsAnswer
  <2>1. ReceiverNext
    BY DEF Next, IsAnswer, vars, receiverVars, handlerVars
  <2>2. Held(alert)
    BY <2>1, AnswerIsResponse DEF PipelineInv, ToSet
  <2> QED
    BY <2>2 DEF Held, ToSet
<1> QED
  BY <1>1, PipelineStart, PipelineKept, PTL DEF Spec, AnsweredIsCovered

\* Once the agent has caught up, every alert that was answered with 200 is
\* covered by a record that was told, or was lost in one of three ways: glued
\* to an append that was cut, taken for the duplicate of an earlier record
\* with its id, or recorded by an agent that died before it told.
THEOREM NoOtherLoss == Spec => []NothingElseIsLost
<1>1. PipelineInv => NothingElseIsLost
  <2> SUFFICES ASSUME PipelineInv, Offset = Len(queue), ~telling, NEW alert \in answered
               PROVE  \E i \in DOMAIN fate :
                          /\ queue[i].part # "head"
                          /\ Covers(queue[i].alert, alert)
                          /\ fate[i] = "told" \/ Excused(i)
    BY DEF NothingElseIsLost
  <2>1. /\ DOMAIN fate = 1..Offset /\ Offset \in Nat /\ DOMAIN queue = 1..Offset
    BY QueueFacts, LenProperties DEF PipelineInv, AgentInv, AgentTypeOK, Offset
  <2>2. PICK i \in DOMAIN queue :
             /\ queue[i].part # "head"
             /\ Covers(queue[i].alert, alert)
             /\ queue[i].part = "line" \/ Inserted(i)
    BY DEF PipelineInv, AnsweredHeld, Held
  <2>3. CASE queue[i].part = "line"
    BY <2>1, <2>2, <2>3 DEF PipelineInv, AgentInv, FateKnown
  <2>4. CASE Inserted(i)
    <3>1. fate[i] = "told" \/ (crashes > 0 /\ Row(queue[i].alert) \in rows)
      BY <2>1, <2>2, <2>4 DEF Inserted
    <3> QED
      BY <2>1, <2>2, <3>1 DEF Excused
  <2> QED
    BY <2>2, <2>3, <2>4
<1> QED
  BY <1>1, PipelineStart, PipelineKept, PTL DEF Spec
=============================================================================
