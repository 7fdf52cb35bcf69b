------------------------- MODULE StormTrackerProofs -------------------------
(***************************************************************************)
(* What holds of StormTracker for any stream of alerts and any thresholds  *)
(* and windows: a storm of one host, and a storm of one type, is found     *)
(* when there is one and only then, and the detector's lists are bounded.  *)
(***************************************************************************)
EXTENDS StormTracker, StormWindowsProofs

-----------------------------------------------------------------------------
(* One check of one alert.                                                 *)

Time  == 0..MaxTime
Entry == [ts : Time, type : AlertType]
Seen  == [host : Host, ts : Time]

\* The detector after the cleanup that precedes the thresholds.
Cleaned(alert) == Cleanup(RecordAlert(tracker, alert, now), now)

Listed(alert, h) ==
    IF h = alert.host THEN Append(tracker.hostAlerts[h], [ts |-> now, type |-> alert.type])
                      ELSE tracker.hostAlerts[h]

SeenOf(alert, t) ==
    IF t = alert.type
    THEN Others(tracker.crossHost[t], alert.host) \cup {[host |-> alert.host, ts |-> now]}
    ELSE tracker.crossHost[t]

\* The detector after recording an alert and cleaning up.
LEMMA CleanedIs ==
  ASSUME TypeOK, NEW alert \in Alert
  PROVE  Cleaned(alert) =
             Tracker([h \in Host |-> Recent(Listed(alert, h), now - SingleWindow)],
                     [t \in AlertType |-> NotBefore(SeenOf(alert, t), now - CrossWindow)],
                     tracker.bundleCounter)
<1> DEFINE r == RecordAlert(tracker, alert, now)
<1>1. /\ r.hostAlerts = [h \in Host |-> Listed(alert, h)]
      /\ r.crossHost = [t \in AlertType |-> SeenOf(alert, t)]
      /\ r.bundleCounter = tracker.bundleCounter
  BY DEF TypeOK, RecordAlert, Tracker, Listed, SeenOf, Alert
<1> HIDE DEF r
<1> QED
  BY <1>1 DEF Cleaned, Cleanup, CleanupBefore, r

\* A host's list with the new alert in it is a list of entries.
LEMMA ListedType ==
  ASSUME TypeOK, NEW alert \in Alert, NEW h \in Host
  PROVE  Listed(alert, h) \in Seq(Entry) /\ \A e \in Entry : e.ts \in Int
<1>1. tracker.hostAlerts[h] \in Seq(Entry) /\ now \in Time
  BY DEF TypeOK, Entry, Time
<1>2. [ts |-> now, type |-> alert.type] \in Entry
  BY <1>1 DEF Alert, Entry
<1>3. \A e \in Entry : e.ts \in Int
  BY BoundAssumption DEF Entry, Time
<1> QED
  BY <1>1, <1>2, <1>3, AppendProperties DEF Listed

HostStorm(alert) ==
    Len(Recent(Listed(alert, alert.host), now - SingleWindow)) > SingleThreshold
TypeStorm(alert) ==
    Cardinality(NotBefore(SeenOf(alert, alert.type), now - CrossWindow)) >= CrossThreshold

Verdict(alert) == IF HostStorm(alert) THEN "single"
                  ELSE IF TypeStorm(alert) THEN "cross" ELSE "pass"

\* What one check does to the detector and to the log.
LEMMA CheckStep ==
  ASSUME TypeOK, NEW alert \in Alert, Check(alert)
  PROVE  /\ tracker' = Tracker(tracker'.hostAlerts, tracker'.crossHost, tracker'.bundleCounter)
         /\ tracker'.hostAlerts =
                [h \in Host |-> IF h = alert.host /\ Verdict(alert) = "single" THEN <<>>
                               ELSE Recent(Listed(alert, h), now - SingleWindow)]
         /\ tracker'.crossHost =
                [t \in AlertType |-> IF t = alert.type /\ Verdict(alert) = "cross" THEN {}
                                    ELSE NotBefore(SeenOf(alert, t), now - CrossWindow)]
         /\ tracker'.bundleCounter = tracker.bundleCounter
                + IF Verdict(alert) = "single" THEN 1
                  ELSE IF Verdict(alert) = "cross"
                  THEN Cardinality(NotBefore(SeenOf(alert, alert.type), now - CrossWindow))
                  ELSE 0
         /\ \E severity \in {"none", "high", "critical"} :
                log' = Append(log, [ts |-> now, alert |-> alert, verdict |-> Verdict(alert),
                                    severity |-> severity])
         /\ now' = now
<1> DEFINE c == Cleaned(alert)
           result == CheckAlert(tracker, alert, now)
<1>1. /\ c = Tracker(c.hostAlerts, c.crossHost, c.bundleCounter)
      /\ c.hostAlerts = [h \in Host |-> Recent(Listed(alert, h), now - SingleWindow)]
      /\ c.crossHost = [t \in AlertType |-> NotBefore(SeenOf(alert, t), now - CrossWindow)]
      /\ c.bundleCounter = tracker.bundleCounter
  BY CleanedIs DEF Tracker
<1>2. alert.host \in Host /\ alert.type \in AlertType /\ tracker.bundleCounter \in Nat
  BY DEF Alert, TypeOK
<1>3. result = IF HostStorm(alert) THEN SingleHostBundle(c, alert)
               ELSE IF TypeStorm(alert) THEN CrossHostBundle(c, alert) ELSE Pass(c)
  <2>1. /\ IsSingleHostStorm(c, alert) <=> HostStorm(alert)
        /\ IsCrossHostStorm(c, alert) <=> TypeStorm(alert)
    <3> HIDE DEF c
    <3> QED
      BY <1>1, <1>2 DEF IsSingleHostStorm, IsCrossHostStorm, HostStorm, TypeStorm
  <2> QED
    BY <2>1 DEF CheckAlert, Cleaned
<1>4. /\ tracker' = result.tracker
      /\ log' = Append(log, [ts |-> now, alert |-> alert, verdict |-> result.verdict,
                             severity |-> result.severity])
      /\ now' = now
  BY DEF Check
<1> HIDE DEF c, result
<1>5. CASE HostStorm(alert)
  <2>1. /\ tracker' = Tracker([c.hostAlerts EXCEPT ![alert.host] = <<>>], c.crossHost,
                              c.bundleCounter + 1)
        /\ result.verdict = "single" /\ result.severity \in {"high", "critical"}
        /\ Verdict(alert) = "single"
    BY <1>3, <1>4, <1>5 DEF SingleHostBundle, SingleHostSeverity, Verdict
  <2>2. /\ tracker'.hostAlerts = [c.hostAlerts EXCEPT ![alert.host] = <<>>]
        /\ tracker'.crossHost = c.crossHost /\ tracker'.bundleCounter = c.bundleCounter + 1
    BY <2>1 DEF Tracker
  <2> QED
    BY <1>1, <1>2, <1>4, <2>1, <2>2
<1>6. CASE ~HostStorm(alert) /\ TypeStorm(alert)
  <2>1. /\ tracker' = Tracker(c.hostAlerts, [c.crossHost EXCEPT ![alert.type] = {}],
                              c.bundleCounter + Cardinality(c.crossHost[alert.type]))
        /\ result.verdict = "cross" /\ result.severity = "critical"
        /\ Verdict(alert) = "cross"
    BY <1>3, <1>4, <1>6 DEF CrossHostBundle, Verdict
  <2>2. /\ tracker'.crossHost = [c.crossHost EXCEPT ![alert.type] = {}]
        /\ tracker'.hostAlerts = c.hostAlerts
        /\ tracker'.bundleCounter = c.bundleCounter + Cardinality(c.crossHost[alert.type])
    BY <2>1 DEF Tracker
  <2> QED
    BY <1>1, <1>2, <1>4, <2>1, <2>2
<1>7. CASE ~HostStorm(alert) /\ ~TypeStorm(alert)
  <2>1. /\ tracker' = c /\ result.verdict = "pass" /\ result.severity = "none"
        /\ Verdict(alert) = "pass"
    BY <1>3, <1>4, <1>7 DEF Pass, Verdict
  <2> QED
    BY <1>1, <1>2, <1>4, <2>1
<1> QED
  BY <1>5, <1>6, <1>7

-----------------------------------------------------------------------------
(* Type correctness.  That bundleCounter stays a number rests on the       *)
(* entries of a type being finitely many.                                  *)

EntriesFinite == \A t \in AlertType : IsFiniteSet(tracker.crossHost[t])

\* The detector starts empty.
LEMMA TypeStart ==
  Init => TypeOK /\ EntriesFinite /\ HostListBounded
<1> SUFFICES ASSUME Init PROVE TypeOK /\ EntriesFinite /\ HostListBounded
  OBVIOUS
<1>1. /\ now = 0 /\ log = <<>>
      /\ tracker = Tracker([h \in Host |-> <<>>], [t \in AlertType |-> {}], 0)
  BY DEF Init, NewTracker
<1>2. /\ tracker.hostAlerts = [h \in Host |-> <<>>]
      /\ tracker.crossHost = [t \in AlertType |-> {}]
  BY <1>1 DEF Tracker
<1>3. TypeOK
  <2>1. \A S : <<>> \in Seq(S)
    BY EmptySeq
  <2> QED
    BY <1>1, <1>2, <2>1, BoundAssumption DEF TypeOK, Tracker
<1>4. EntriesFinite
  BY <1>2, FS_EmptySet DEF EntriesFinite
<1>5. HostListBounded
  BY <1>2, ThresholdAssumption DEF HostListBounded
<1> QED
  BY <1>3, <1>4, <1>5

\* The hosts seen for a type are finitely many.
LEMMA SeenFinite ==
  ASSUME TypeOK, EntriesFinite, NEW alert \in Alert, NEW t \in AlertType, NEW cutoff
  PROVE  /\ NotBefore(SeenOf(alert, t), cutoff) \in SUBSET Seen
         /\ IsFiniteSet(NotBefore(SeenOf(alert, t), cutoff))
<1>1. /\ tracker.crossHost[t] \in SUBSET Seen /\ [host |-> alert.host, ts |-> now] \in Seen
  BY DEF TypeOK, Seen, Time, Alert
<1>2. IsFiniteSet(tracker.crossHost[t])
  BY DEF EntriesFinite
<1>3. IsFiniteSet(Others(tracker.crossHost[t], alert.host))
  BY <1>2, FS_Subset DEF Others
<1>4. IsFiniteSet(SeenOf(alert, t))
  BY <1>2, <1>3, FS_AddElement DEF SeenOf
<1>5. SeenOf(alert, t) \in SUBSET Seen
  BY <1>1 DEF SeenOf, Others
<1>6. NotBefore(SeenOf(alert, t), cutoff) \subseteq SeenOf(alert, t)
  BY DEF NotBefore
<1> QED
  BY <1>4, <1>5, <1>6, FS_Subset

\* Every step keeps the types.
LEMMA TypeKept ==
  TypeOK /\ EntriesFinite /\ [Next]_vars => TypeOK' /\ EntriesFinite'
<1> SUFFICES ASSUME TypeOK, EntriesFinite, [Next]_vars PROVE TypeOK' /\ EntriesFinite'
  OBVIOUS
<1>1. CASE Tick
  <2>1. now' \in 0..MaxTime /\ UNCHANGED <<tracker, log>>
    BY <1>1, BoundAssumption DEF Tick, TypeOK
  <2> QED
    BY <2>1 DEF TypeOK, EntriesFinite
<1>2. ASSUME NEW alert \in Alert, Check(alert) PROVE TypeOK' /\ EntriesFinite'
  <2> DEFINE seen == NotBefore(SeenOf(alert, alert.type), now - CrossWindow)
  <2>1. now' = now /\ now \in Time
    BY <1>2, CheckStep DEF TypeOK, Time
  <2>2. tracker'.hostAlerts \in [Host -> Seq(Entry)]
    <3>1. ASSUME NEW h \in Host
          PROVE  Recent(Listed(alert, h), now - SingleWindow) \in Seq(Entry)
      <4>1. now - SingleWindow \in Int
        BY <2>1, ThresholdAssumption DEF Time
      <4> QED
        BY <4>1, ListedType, RecentProperties
    <3>2. <<>> \in Seq(Entry)
      BY EmptySeq
    <3> QED
      BY <1>2, <3>1, <3>2, CheckStep
  <2>3. tracker'.crossHost \in [AlertType -> SUBSET Seen] /\ EntriesFinite'
    <3> DEFINE Kept(t) == NotBefore(SeenOf(alert, t), now - CrossWindow)
               After(t) == IF t = alert.type /\ Verdict(alert) = "cross" THEN {} ELSE Kept(t)
    <3>1. \A t \in AlertType : Kept(t) \in SUBSET Seen /\ IsFiniteSet(Kept(t))
      BY SeenFinite
    <3>2. tracker'.crossHost = [t \in AlertType |-> After(t)]
      BY <1>2, CheckStep
    <3> HIDE DEF Kept
    <3>3. \A t \in AlertType : After(t) \in SUBSET Seen /\ IsFiniteSet(After(t))
      BY <3>1, FS_EmptySet
    <3> HIDE DEF After
    <3> QED
      BY <3>2, <3>3 DEF EntriesFinite
  <2>4. tracker'.bundleCounter \in Nat
    <3>1. alert.type \in AlertType
      BY DEF Alert
    <3>2. Cardinality(seen) \in Nat
      BY <3>1, SeenFinite, FS_CardinalityType
    <3>3. tracker'.bundleCounter = tracker.bundleCounter
                + IF Verdict(alert) = "single" THEN 1
                  ELSE IF Verdict(alert) = "cross" THEN Cardinality(seen) ELSE 0
      BY <1>2, CheckStep
    <3>4. tracker.bundleCounter \in Nat
      BY DEF TypeOK
    <3> HIDE DEF seen
    <3> QED
      BY <3>2, <3>3, <3>4
  <2>5. log' \in Seq([ts : Time, alert : Alert, verdict : {"pass", "single", "cross"},
                      severity : {"none", "high", "critical"}])
    <3>1. PICK severity \in {"none", "high", "critical"} :
             log' = Append(log, [ts |-> now, alert |-> alert, verdict |-> Verdict(alert),
                                 severity |-> severity])
      BY <1>2, CheckStep
    <3>2. Verdict(alert) \in {"pass", "single", "cross"}
      BY DEF Verdict
    <3> QED
      BY <2>1, <3>1, <3>2, AppendProperties DEF TypeOK, Time
  <2>6. tracker' \in [hostAlerts : [Host -> Seq(Entry)], crossHost : [AlertType -> SUBSET Seen],
                      bundleCounter : Nat]
    <3>1. tracker' = Tracker(tracker'.hostAlerts, tracker'.crossHost, tracker'.bundleCounter)
      BY <1>2, CheckStep
    <3>2. \A lists, seenBy, count : /\ lists \in [Host -> Seq(Entry)] /\ count \in Nat
                                   /\ seenBy \in [AlertType -> SUBSET Seen]
              => Tracker(lists, seenBy, count) \in
                     [hostAlerts : [Host -> Seq(Entry)], crossHost : [AlertType -> SUBSET Seen],
                      bundleCounter : Nat]
      BY DEF Tracker
    <3> QED
      BY <2>2, <2>3, <2>4, <3>1, <3>2
  <2> QED
    BY <2>1, <2>3, <2>5, <2>6 DEF TypeOK, Entry, Seen, Time
<1>3. CASE UNCHANGED vars
  BY <1>3 DEF vars, TypeOK, EntriesFinite
<1> QED
  BY <1>1, <1>2, <1>3 DEF Next

\* Whatever the stream, the detector and the log keep their shape: the lists
\* hold entries of the right kind and the bundle counter is a number.
THEOREM TypeCorrect == Spec => []TypeOK
<1>1. Init => TypeOK /\ EntriesFinite
  BY TypeStart
<1> QED
  BY <1>1, TypeKept, PTL DEF Spec

-----------------------------------------------------------------------------
(* The bound on the detector's lists.                                      *)

\* A list can grow past the threshold only in a check, which then clears it.
LEMMA BoundKept ==
  TypeOK /\ HostListBounded /\ [Next]_vars => HostListBounded'
<1> SUFFICES ASSUME TypeOK, HostListBounded, [Next]_vars PROVE HostListBounded'
  OBVIOUS
<1>1. ASSUME NEW alert \in Alert, Check(alert) PROVE HostListBounded'
  <2> SUFFICES ASSUME NEW h \in Host
               PROVE  Len(tracker'.hostAlerts[h]) <= SingleThreshold
    BY DEF HostListBounded
  <2> DEFINE recent == Recent(Listed(alert, h), now - SingleWindow)
  <2>1. recent \in Seq(Entry) /\ Len(recent) <= Len(Listed(alert, h))
    <3>1. now - SingleWindow \in Int
      BY ThresholdAssumption DEF TypeOK
    <3> QED
      BY <3>1, ListedType, RecentProperties
  <2>2. Len(recent) \in Nat /\ Len(<<>>) = 0 /\ SingleThreshold \in Nat
    BY <2>1, LenProperties, EmptySeq, ThresholdAssumption
  <2>3. tracker'.hostAlerts[h] =
          IF h = alert.host /\ Verdict(alert) = "single" THEN <<>> ELSE recent
    BY <1>1, CheckStep
  <2> HIDE DEF recent
  <2>4. CASE h = alert.host /\ Verdict(alert) = "single"
    BY <2>2, <2>3, <2>4
  <2>5. CASE h = alert.host /\ Verdict(alert) # "single"
    BY <2>2, <2>3, <2>5 DEF Verdict, HostStorm, recent
  <2>6. CASE h # alert.host
    <3>1. Len(recent) <= Len(tracker.hostAlerts[h]) /\ Len(tracker.hostAlerts[h]) \in Nat
      BY <2>1, <2>6, LenProperties DEF Listed, TypeOK
    <3>2. Len(tracker.hostAlerts[h]) <= SingleThreshold
      BY DEF HostListBounded
    <3> QED
      BY <2>2, <2>3, <2>6, <3>1, <3>2
  <2> QED
    BY <2>4, <2>5, <2>6
<1>2. CASE Tick
  BY <1>2 DEF Tick, HostListBounded
<1>3. CASE UNCHANGED vars
  BY <1>3 DEF vars, HostListBounded
<1> QED
  BY <1>1, <1>2, <1>3 DEF Next

\* Between two checks no host's list is longer than the threshold: the check
\* that lets it grow past it makes a bundle and clears it.
THEOREM ListsBounded == Spec => []HostListBounded
<1>1. Init => TypeOK /\ EntriesFinite /\ HostListBounded
  BY TypeStart
<1> QED
  BY <1>1, TypeKept, BoundKept, PTL DEF Spec

-----------------------------------------------------------------------------
(* Storms.  What the detector remembers of the stream is, for every cutoff *)
(* that a later check can use, as much as the log says it should.          *)

\* The alerts of host h on a stream since its last bundle, not older than t.
OpenHost(stream, h, t) ==
    {j \in 1..Len(stream) :
        /\ stream[j].alert.host = h /\ stream[j].ts >= t
        /\ \A b \in j..Len(stream) : ~(stream[b].alert.host = h /\ stream[b].verdict = "single")}

\* The same of a type, whatever the alerts' host.
OpenType(stream, t, c) ==
    {j \in 1..Len(stream) :
        /\ stream[j].alert.type = t /\ stream[j].ts >= c
        /\ \A b \in j..Len(stream) : ~(stream[b].alert.type = t /\ stream[b].verdict = "cross")}

\* OfHost and OfType of entry k, on any stream.
HostOn(stream, k) ==
    {j \in 1..k : /\ stream[j].alert.host = stream[k].alert.host
                  /\ stream[j].ts >= stream[k].ts - SingleWindow
                  /\ \A b \in j..(k - 1) : ~(/\ stream[b].alert.host = stream[k].alert.host
                                             /\ stream[b].verdict = "single")}

TypeOn(stream, k) ==
    {j \in 1..k : /\ stream[j].alert.type = stream[k].alert.type
                  /\ stream[j].ts >= stream[k].ts - CrossWindow
                  /\ \A b \in j..(k - 1) : ~(/\ stream[b].alert.type = stream[k].alert.type
                                             /\ stream[b].verdict = "cross")}

\* The alerts a single-host verdict is judged by, as a function of the log.
LEMMA OfHostIs ==
  \A k : OfHost(k) = HostOn(log, k) /\ OfHost(k)' = HostOn(log', k)
BY DEF OfHost, Counted, HostOn

\* The same for a cross-host verdict.
LEMMA OfTypeIs ==
  \A k : OfType(k) = TypeOn(log, k) /\ OfType(k)' = TypeOn(log', k)
BY DEF OfType, Counted, TypeOn

\* A log with one more entry.
LEMMA LongerStream ==
  ASSUME NEW S, NEW stream \in Seq(S), NEW e \in S, NEW longer, longer = Append(stream, e)
  PROVE  /\ Len(stream) \in Nat /\ Len(longer) = Len(stream) + 1
         /\ DOMAIN stream = 1..Len(stream) /\ DOMAIN longer = 1..(Len(stream) + 1)
         /\ longer[Len(stream) + 1] = e
         /\ \A j \in 1..Len(stream) : longer[j] = stream[j]
BY AppendProperties, LenProperties

\* A longer stream says the same of its earlier alerts.
LEMMA EarlierKept ==
  ASSUME NEW S, NEW stream \in Seq(S), NEW e \in S, NEW longer, longer = Append(stream, e),
         NEW k \in DOMAIN stream
  PROVE  /\ HostOn(longer, k) = HostOn(stream, k) /\ TypeOn(longer, k) = TypeOn(stream, k)
         /\ longer[k] = stream[k]
         /\ \A j \in TypeOn(stream, k) : longer[j] = stream[j]
<1>1. \A j \in 1..k : longer[j] = stream[j] /\ j \in Int
  BY LongerStream
<1>2. k \in Nat \ {0}
  BY LongerStream
<1>3. \A j \in 1..k : \A b \in j..(k - 1) : b \in 1..k
  BY <1>2
<1>4. k \in 1..k
  BY <1>2
<1>5. longer[k] = stream[k]
  BY <1>1, <1>4
<1>6. HostOn(longer, k) = HostOn(stream, k)
  BY <1>1, <1>3, <1>5 DEF HostOn
<1>7. TypeOn(longer, k) = TypeOn(stream, k)
  BY <1>1, <1>3, <1>5 DEF TypeOn
<1> QED
  BY <1>1, <1>5, <1>6, <1>7 DEF TypeOn

\* The last alert of a stream counts itself and what is open before it.
LEMMA LastCounts ==
  ASSUME NEW S, NEW stream \in Seq(S), NEW e \in S, NEW longer, longer = Append(stream, e)
  PROVE  LET k == Len(stream) + 1 IN
         /\ e.ts >= e.ts - SingleWindow =>
                HostOn(longer, k) = OpenHost(stream, e.alert.host, e.ts - SingleWindow) \cup {k}
         /\ e.ts >= e.ts - CrossWindow =>
                TypeOn(longer, k) = OpenType(stream, e.alert.type, e.ts - CrossWindow) \cup {k}
<1> DEFINE k == Len(stream) + 1
<1>1. /\ Len(stream) \in Nat /\ longer[k] = e
      /\ \A j \in 1..Len(stream) : longer[j] = stream[j]
  BY LongerStream
<1>2. \A j \in 1..k : j = k \/ j \in 1..Len(stream)
  BY <1>1
<1>3. k - 1 = Len(stream) /\ k \in 1..k /\ k..(k - 1) = {} /\ 1..Len(stream) \subseteq 1..k
  BY <1>1
<1>4. \A j \in 1..Len(stream) : \A b \in j..Len(stream) : longer[b] = stream[b]
  BY <1>1
<1> HIDE DEF k
<1>5. ASSUME e.ts >= e.ts - SingleWindow
      PROVE  HostOn(longer, k) = OpenHost(stream, e.alert.host, e.ts - SingleWindow) \cup {k}
  BY <1>1, <1>2, <1>3, <1>4, <1>5 DEF HostOn, OpenHost
<1>6. ASSUME e.ts >= e.ts - CrossWindow
      PROVE  TypeOn(longer, k) = OpenType(stream, e.alert.type, e.ts - CrossWindow) \cup {k}
  BY <1>1, <1>2, <1>3, <1>4, <1>6 DEF TypeOn, OpenType
<1> QED
  BY <1>5, <1>6 DEF k

\* What one more alert adds to the open ones, and what a bundle takes away.
NewIf(stream, e, c) == IF e.ts >= c THEN {Len(stream) + 1} ELSE {}

\* The host's alerts since its last bundle, after one more entry.
LEMMA OpenHostAppend ==
  ASSUME NEW S, NEW stream \in Seq(S), NEW e \in S, NEW h, NEW c
  PROVE  OpenHost(Append(stream, e), h, c) =
             IF h # e.alert.host THEN OpenHost(stream, h, c)
             ELSE IF e.verdict = "single" THEN {} ELSE OpenHost(stream, h, c) \cup NewIf(stream, e, c)
<1> DEFINE k == Len(stream) + 1
           longer == Append(stream, e)
<1>1. /\ Len(stream) \in Nat /\ longer[k] = e /\ Len(longer) = k
      /\ \A j \in 1..Len(stream) : longer[j] = stream[j]
  BY LongerStream
<1>2. /\ 1..k = 1..Len(stream) \cup {k} /\ k \notin 1..Len(stream) /\ k..k = {k}
      /\ \A j \in 1..Len(stream) : j..k = (j..Len(stream)) \cup {k}
      /\ \A j \in 1..Len(stream) : j..Len(stream) \subseteq 1..Len(stream)
  BY <1>1
<1>3. NewIf(stream, e, c) = IF e.ts >= c THEN {k} ELSE {}
  BY DEF NewIf
<1> HIDE DEF k, longer
<1>4. CASE h # e.alert.host
  BY <1>1, <1>2, <1>4 DEF OpenHost
<1>5. CASE h = e.alert.host /\ e.verdict = "single"
  BY <1>1, <1>2, <1>5 DEF OpenHost
<1>6. CASE h = e.alert.host /\ e.verdict # "single"
  BY <1>1, <1>2, <1>3, <1>6 DEF OpenHost
<1> QED
  BY <1>4, <1>5, <1>6 DEF longer

\* The type's alerts since its last bundle, after one more entry.
LEMMA OpenTypeAppend ==
  ASSUME NEW S, NEW stream \in Seq(S), NEW e \in S, NEW t, NEW c
  PROVE  OpenType(Append(stream, e), t, c) =
             IF t # e.alert.type THEN OpenType(stream, t, c)
             ELSE IF e.verdict = "cross" THEN {} ELSE OpenType(stream, t, c) \cup NewIf(stream, e, c)
<1> DEFINE k == Len(stream) + 1
           longer == Append(stream, e)
<1>1. /\ Len(stream) \in Nat /\ longer[k] = e /\ Len(longer) = k
      /\ \A j \in 1..Len(stream) : longer[j] = stream[j]
  BY LongerStream
<1>2. /\ 1..k = 1..Len(stream) \cup {k} /\ k \notin 1..Len(stream) /\ k..k = {k}
      /\ \A j \in 1..Len(stream) : j..k = (j..Len(stream)) \cup {k}
      /\ \A j \in 1..Len(stream) : j..Len(stream) \subseteq 1..Len(stream)
  BY <1>1
<1>3. NewIf(stream, e, c) = IF e.ts >= c THEN {k} ELSE {}
  BY DEF NewIf
<1> HIDE DEF k, longer
<1>4. CASE t # e.alert.type
  BY <1>1, <1>2, <1>4 DEF OpenType
<1>5. CASE t = e.alert.type /\ e.verdict = "cross"
  BY <1>1, <1>2, <1>5 DEF OpenType
<1>6. CASE t = e.alert.type /\ e.verdict # "cross"
  BY <1>1, <1>2, <1>3, <1>6 DEF OpenType
<1> QED
  BY <1>4, <1>5, <1>6 DEF longer

\* Both are finite sets of positions of the log.
LEMMA OpenFinite ==
  ASSUME NEW S, NEW stream \in Seq(S), NEW h, NEW c
  PROVE  /\ IsFiniteSet(OpenHost(stream, h, c)) /\ OpenHost(stream, h, c) \subseteq 1..Len(stream)
         /\ IsFiniteSet(OpenType(stream, h, c)) /\ OpenType(stream, h, c) \subseteq 1..Len(stream)
<1>1. IsFiniteSet(1..Len(stream))
  BY LenProperties, FS_Interval
<1>2. /\ OpenHost(stream, h, c) \subseteq 1..Len(stream)
      /\ OpenType(stream, h, c) \subseteq 1..Len(stream)
  BY DEF OpenHost, OpenType
<1> QED
  BY <1>1, <1>2, FS_Subset

\* The inductive invariant.  For every cutoff a later check can use, a host's
\* list counts as many alerts as are open on the log, ...
HostsAsLogged ==
    \A h \in Host : \A t \in Int : t >= now - SingleWindow =>
        Cardinality(Since(tracker.hostAlerts[h], t)) = Cardinality(OpenHost(log, h, t))

HostsOf(entries) == {e.host : e \in entries}

\* ... a type's entries name the hosts whose alerts are open on the log, ...
TypesAsLogged ==
    \A t \in AlertType : \A c \in Int : c >= now - CrossWindow =>
        HostsOf(NotBefore(tracker.crossHost[t], c)) =
            {log[j].alert.host : j \in OpenType(log, t, c)}

\* ... and name each of them once.
OneEntryPerHost ==
    \A t \in AlertType : \A e \in tracker.crossHost[t] :
        /\ e.ts <= now
        /\ \A f \in tracker.crossHost[t] : e.host = f.host => e = f

\* The windows begin at or before the present.
LEMMA CutoffsAreNumbers ==
  ASSUME TypeOK
  PROVE  /\ now \in Time /\ now \in Int /\ now - SingleWindow \in Int /\ now - CrossWindow \in Int
         /\ now >= now - SingleWindow /\ now >= now - CrossWindow
BY ThresholdAssumption, BoundAssumption DEF TypeOK, Time

LogEntry == [ts : Time, alert : Alert, verdict : {"pass", "single", "cross"},
             severity : {"none", "high", "critical"}]

\* A check logs its alert, time and verdict.
LEMMA CheckLogs ==
  ASSUME TypeOK, NEW alert \in Alert, Check(alert)
  PROVE  \E e \in LogEntry : /\ log' = Append(log, e) /\ e.ts = now /\ e.alert = alert
                            /\ e.verdict = Verdict(alert)
<1>1. PICK severity \in {"none", "high", "critical"} :
         log' = Append(log, [ts |-> now, alert |-> alert, verdict |-> Verdict(alert),
                             severity |-> severity])
  BY CheckStep
<1> DEFINE e == [ts |-> now, alert |-> alert, verdict |-> Verdict(alert), severity |-> severity]
<1>2. e \in LogEntry
  BY CutoffsAreNumbers DEF LogEntry, Verdict
<1> QED
  BY <1>1, <1>2

\* The list against which the threshold is held has the log's count.
LEMMA HostStormIs ==
  ASSUME TypeOK, HostsAsLogged, NEW alert \in Alert, NEW h \in Host,
         NEW t \in Int, t >= now - SingleWindow
  PROVE  LET recent == Recent(Listed(alert, h), now - SingleWindow) IN
         /\ Cardinality(Since(recent, t)) =
                Cardinality(OpenHost(log, h, t))
                    + IF h = alert.host /\ now >= t THEN 1 ELSE 0
         /\ t = now - SingleWindow => Len(recent) = Cardinality(Since(recent, t))
<1> DEFINE cutoff == now - SingleWindow
           recent == Recent(Listed(alert, h), cutoff)
<1>1. Listed(alert, h) \in Seq(Entry) /\ (\A e \in Entry : e.ts \in Int) /\ cutoff \in Int
  BY ListedType, CutoffsAreNumbers
<1> HIDE DEF cutoff
<1>2. /\ recent \in Seq(Entry) /\ \A i \in DOMAIN recent : recent[i].ts >= cutoff
      /\ t >= cutoff => Cardinality(Since(recent, t)) = Cardinality(Since(Listed(alert, h), t))
  BY <1>1, RecentProperties
<1>3. Cardinality(Since(tracker.hostAlerts[h], t)) = Cardinality(OpenHost(log, h, t))
  BY DEF HostsAsLogged
<1>4. Cardinality(Since(Listed(alert, h), t)) =
          Cardinality(Since(tracker.hostAlerts[h], t))
              + IF h = alert.host /\ now >= t THEN 1 ELSE 0
  <2>1. tracker.hostAlerts[h] \in Seq(Entry) /\ [ts |-> now, type |-> alert.type] \in Entry
    BY DEF TypeOK, Entry, Time, Alert
  <2>2. Cardinality(Since(tracker.hostAlerts[h], t)) \in Nat
    BY <2>1, SinceFinite
  <2>3. CASE h = alert.host
    BY <2>1, <2>3, SinceAppend DEF Listed
  <2>4. CASE h # alert.host
    BY <2>2, <2>4 DEF Listed
  <2> QED
    BY <2>3, <2>4
<1>5. ASSUME t = cutoff PROVE Len(recent) = Cardinality(Since(recent, t))
  <2>1. DOMAIN recent = 1..Len(recent) /\ Len(recent) \in Nat
    BY <1>2, LenProperties
  <2> HIDE DEF recent
  <2>2. Since(recent, t) = 1..Len(recent)
    BY <1>2, <1>5, <2>1 DEF Since
  <2>3. \A n \in Nat : Cardinality(1..n) = n
    BY FS_Interval
  <2> QED
    BY <2>1, <2>2, <2>3
<1>6. t >= cutoff
  BY DEF cutoff
<1> HIDE DEF recent
<1> QED
  BY <1>2, <1>3, <1>4, <1>5, <1>6 DEF cutoff, recent

\* A host's list keeps as many entries of each window as the log has since
\* the host's last bundle.
LEMMA HostsAsLoggedKept ==
  TypeOK /\ HostsAsLogged /\ [Next]_vars => HostsAsLogged'
<1> SUFFICES ASSUME TypeOK, HostsAsLogged, [Next]_vars PROVE HostsAsLogged'
  OBVIOUS
<1>1. ASSUME NEW alert \in Alert, Check(alert) PROVE HostsAsLogged'
  <2>1. now' = now
    BY <1>1, CheckStep
  <2> SUFFICES ASSUME NEW h \in Host, NEW t \in Int, t >= now - SingleWindow
               PROVE  Cardinality(Since(tracker'.hostAlerts[h], t)) =
                          Cardinality(OpenHost(log', h, t))
    BY <2>1 DEF HostsAsLogged, Since, OpenHost
  <2>2. PICK e \in LogEntry : /\ log' = Append(log, e) /\ e.ts = now /\ e.alert = alert
                             /\ e.verdict = Verdict(alert)
    BY <1>1, CheckLogs
  <2>3. log \in Seq(LogEntry)
    BY DEF TypeOK, LogEntry, Time
  <2> DEFINE cleared == h = alert.host /\ Verdict(alert) = "single"
             recent == Recent(Listed(alert, h), now - SingleWindow)
             new == IF now >= t THEN {Len(log) + 1} ELSE {}
             open == OpenHost(log, h, t)
  <2>4. tracker'.hostAlerts[h] = IF cleared THEN <<>> ELSE recent
    BY <1>1, CheckStep
  <2>5. OpenHost(log', h, t) = IF h # alert.host THEN open
                               ELSE IF Verdict(alert) = "single" THEN {} ELSE open \cup new
    <3>1. NewIf(log, e, t) = new
      BY <2>2 DEF NewIf
    <3> HIDE DEF new, open, recent
    <3>2. OpenHost(log', h, t) =
              IF h # e.alert.host THEN OpenHost(log, h, t)
              ELSE IF e.verdict = "single" THEN {} ELSE OpenHost(log, h, t) \cup NewIf(log, e, t)
      <4>1. log' = Append(log, e)
        BY <2>2
      <4> QED
        BY <2>3, <4>1, OpenHostAppend
    <3> QED
      BY <2>2, <3>1, <3>2 DEF open
  <2>6. Cardinality(Since(recent, t)) =
            Cardinality(open) + IF h = alert.host /\ now >= t THEN 1 ELSE 0
    BY HostStormIs
  <2>7. /\ IsFiniteSet(open) /\ Cardinality(open) \in Nat
        /\ Len(log) + 1 \notin open
    <3>1. IsFiniteSet(open) /\ open \subseteq 1..Len(log) /\ Len(log) \in Nat
      BY <2>3, OpenFinite, LenProperties
    <3> HIDE DEF open
    <3> QED
      BY <3>1, FS_CardinalityType
  <2>8. Since(<<>>, t) = {}
    BY DEF Since
  <2> HIDE DEF recent, open
  <2>9. CASE cleared
    BY <2>4, <2>5, <2>8, <2>9
  <2>10. CASE ~cleared /\ h = alert.host /\ now >= t
    <3>1. OpenHost(log', h, t) = open \cup {Len(log) + 1}
      BY <2>5, <2>10
    <3>2. Cardinality(open \cup {Len(log) + 1}) = Cardinality(open) + 1
      BY <2>7, FS_AddElement
    <3> QED
      BY <2>4, <2>6, <2>10, <3>1, <3>2
  <2>11. CASE ~cleared /\ ~(h = alert.host /\ now >= t)
    <3>1. OpenHost(log', h, t) = open
      BY <2>5, <2>11
    <3> QED
      BY <2>4, <2>6, <2>7, <2>11, <3>1
  <2> QED
    BY <2>9, <2>10, <2>11
<1>2. CASE Tick
  <2>1. UNCHANGED <<tracker, log>> /\ \A t \in Int :
            t >= now' - SingleWindow => t >= now - SingleWindow
    BY <1>2, CutoffsAreNumbers, ThresholdAssumption DEF Tick
  <2> QED
    BY <2>1 DEF HostsAsLogged
<1>3. CASE UNCHANGED vars
  BY <1>3 DEF vars, HostsAsLogged
<1> QED
  BY <1>1, <1>2, <1>3 DEF Next

\* A check compares the length of that list with the threshold.
LEMMA SingleFoundKept ==
  TypeOK /\ HostsAsLogged /\ SingleHostStormsFound /\ [Next]_vars => SingleHostStormsFound'
<1> SUFFICES ASSUME TypeOK, HostsAsLogged, SingleHostStormsFound, [Next]_vars
             PROVE  SingleHostStormsFound'
  OBVIOUS
<1>1. ASSUME NEW alert \in Alert, Check(alert) PROVE SingleHostStormsFound'
  <2>1. PICK e \in LogEntry : /\ log' = Append(log, e) /\ e.ts = now /\ e.alert = alert
                             /\ e.verdict = Verdict(alert)
    BY <1>1, CheckLogs
  <2>2. log \in Seq(LogEntry)
    BY DEF TypeOK, LogEntry, Time
  <2> SUFFICES ASSUME NEW k \in DOMAIN log'
               PROVE  log'[k].verdict = "single" <=>
                          Cardinality(HostOn(log', k)) > SingleThreshold
    BY OfHostIs DEF SingleHostStormsFound
  <2>3. CASE k \in DOMAIN log
    <3>1. log'[k] = log[k] /\ HostOn(log', k) = HostOn(log, k)
      BY <2>1, <2>2, <2>3, EarlierKept
    <3> QED
      BY <2>3, <3>1, OfHostIs DEF SingleHostStormsFound
  <2>4. CASE k = Len(log) + 1
    <3> DEFINE t == now - SingleWindow
               h == alert.host
               open == OpenHost(log, h, t)
               recent == Recent(Listed(alert, h), t)
    <3>1. log'[k] = e
      BY <2>1, <2>2, <2>4, LongerStream
    <3>2. HostOn(log', k) = open \cup {k}
      BY <2>1, <2>2, <2>4, LastCounts, CutoffsAreNumbers
    <3>3. Len(recent) = Cardinality(open) + 1
      <4>1. t \in Int /\ t >= now - SingleWindow /\ now >= t /\ h \in Host
        BY CutoffsAreNumbers DEF Alert
      <4> HIDE DEF h
      <4> QED
        BY <4>1, HostStormIs DEF h
    <3>4. IsFiniteSet(open) /\ k \notin open
      <4>1. IsFiniteSet(open) /\ open \subseteq 1..Len(log) /\ Len(log) \in Nat
        BY <2>2, OpenFinite, LenProperties
      <4> HIDE DEF open
      <4> QED
        BY <2>4, <4>1
    <3>5. Cardinality(HostOn(log', k)) = Len(recent)
      <4> HIDE DEF open, recent
      <4> QED
        BY <3>2, <3>3, <3>4, FS_AddElement
    <3>6. Verdict(alert) = "single" <=> Len(recent) > SingleThreshold
      BY DEF Verdict, HostStorm
    <3> QED
      BY <2>1, <3>1, <3>5, <3>6
  <2> QED
    BY <2>1, <2>2, <2>3, <2>4, LongerStream
<1>2. CASE Tick
  BY <1>2, OfHostIs DEF Tick, SingleHostStormsFound
<1>3. CASE UNCHANGED vars
  BY <1>3, OfHostIs DEF vars, SingleHostStormsFound
<1> QED
  BY <1>1, <1>2, <1>3 DEF Next

\* With an empty log there is nothing to find.
LEMMA StormsStart ==
  Init => HostsAsLogged /\ SingleHostStormsFound /\ TypesAsLogged /\ OneEntryPerHost
          /\ CrossHostStormsFound
<1> SUFFICES ASSUME Init
             PROVE  HostsAsLogged /\ SingleHostStormsFound /\ TypesAsLogged /\ OneEntryPerHost
                    /\ CrossHostStormsFound
  OBVIOUS
<1>1. /\ log = <<>> /\ DOMAIN log = {} /\ Len(log) = 0
      /\ tracker.hostAlerts = [h \in Host |-> <<>>]
      /\ tracker.crossHost = [t \in AlertType |-> {}]
  BY EmptySeq, LenProperties DEF Init, NewTracker, Tracker
<1>2. SingleHostStormsFound /\ CrossHostStormsFound
  BY <1>1 DEF SingleHostStormsFound, CrossHostStormsFound
<1>3. HostsAsLogged
  <2>1. \A t : Since(<<>>, t) = {}
    BY DEF Since
  <2>2. \A h, t : OpenHost(log, h, t) = {}
    BY <1>1 DEF OpenHost
  <2> QED
    BY <1>1, <2>1, <2>2 DEF HostsAsLogged
<1>4. TypesAsLogged
  <2>1. \A t, c : OpenType(log, t, c) = {}
    BY <1>1 DEF OpenType
  <2> QED
    BY <1>1, <2>1 DEF TypesAsLogged, HostsOf, NotBefore
<1>5. OneEntryPerHost
  BY <1>1 DEF OneEntryPerHost
<1> QED
  BY <1>2, <1>3, <1>4, <1>5

\* Whatever the stream and the thresholds: a check makes a single-host bundle
\* when, and only when, more than the threshold of the host's alerts, counted
\* on the log, fall in the window since the host's last bundle.  The cleanup
\* and the clearing of the list never lose or keep one too many.
THEOREM SingleStorms == Spec => []SingleHostStormsFound
<1>1. Init => TypeOK /\ EntriesFinite
  BY TypeStart
<1>2. Init => HostsAsLogged /\ SingleHostStormsFound
  BY StormsStart
<1> QED
  BY <1>1, <1>2, TypeKept, HostsAsLoggedKept, SingleFoundKept, PTL DEF Spec

-----------------------------------------------------------------------------
(* Storms of one type.                                                     *)

\* With one entry per host, entries and hosts are equally many.
LEMMA HostsCounted ==
  ASSUME NEW entries, IsFiniteSet(entries),
         \A e, f \in entries : e.host = f.host => e = f
  PROVE  Cardinality(HostsOf(entries)) = Cardinality(entries)
<1> DEFINE host == [e \in entries |-> e.host]
<1>1. host \in Bijection(entries, HostsOf(entries))
  BY DEF Bijection, Injection, Surjection, IsInjective, HostsOf
<1>2. ExistsBijection(entries, HostsOf(entries))
  BY <1>1 DEF ExistsBijection
<1> QED
  BY <1>2, FS_Bijection

\* A host that raises a type again has its earlier entry replaced.
LEMMA SeenOnce ==
  ASSUME TypeOK, OneEntryPerHost, NEW alert \in Alert, NEW t \in AlertType
  PROVE  \A e \in SeenOf(alert, t) :
             /\ e.ts <= now /\ e.ts \in Int
             /\ \A f \in SeenOf(alert, t) : e.host = f.host => e = f
<1> DEFINE new == [host |-> alert.host, ts |-> now]
           old == tracker.crossHost[t]
<1>1. /\ now \in Int /\ new.ts = now /\ new.host = alert.host
      /\ \A e \in old : e.ts \in Int
  BY BoundAssumption DEF TypeOK
<1>2. \A e \in old : e.ts <= now /\ \A f \in old : e.host = f.host => e = f
  BY DEF OneEntryPerHost
<1>3. SeenOf(alert, t) = IF t = alert.type THEN {e \in old : e.host # alert.host} \cup {new}
                         ELSE old
  BY DEF SeenOf, Others
<1> HIDE DEF old, new
<1> QED
  BY <1>1, <1>2, <1>3

HostsLogged(t, c) == {log[j].alert.host : j \in OpenType(log, t, c)}

\* The hosts a check sees for a type: those open on the log, and its own.
LEMMA SeenHosts ==
  ASSUME TypeOK, TypesAsLogged, OneEntryPerHost, NEW alert \in Alert, NEW t \in AlertType,
         NEW c \in Int, c >= now - CrossWindow
  PROVE  HostsOf(NotBefore(SeenOf(alert, t), c)) =
             HostsLogged(t, c) \cup IF t = alert.type /\ now >= c THEN {alert.host} ELSE {}
<1> DEFINE new == [host |-> alert.host, ts |-> now]
           old == tracker.crossHost[t]
<1>1. HostsOf(NotBefore(old, c)) = HostsLogged(t, c)
  BY DEF TypesAsLogged, HostsLogged
<1>2. /\ now \in Int /\ new.ts = now /\ new.host = alert.host
      /\ \A e \in old : e.ts <= now /\ e.ts \in Int
  BY BoundAssumption DEF TypeOK, OneEntryPerHost
<1>3. SeenOf(alert, t) = IF t = alert.type THEN {e \in old : e.host # alert.host} \cup {new}
                         ELSE old
  BY DEF SeenOf, Others
<1> HIDE DEF old, new
<1>4. CASE t # alert.type
  BY <1>1, <1>3, <1>4
<1>5. CASE t = alert.type /\ now >= c
  <2>1. HostsOf(NotBefore(SeenOf(alert, t), c)) =
            HostsOf(NotBefore(old, c)) \cup {alert.host}
    BY <1>2, <1>3, <1>5 DEF HostsOf, NotBefore
  <2> QED
    BY <1>1, <1>5, <2>1
<1>6. CASE t = alert.type /\ ~(now >= c)
  <2>1. NotBefore(SeenOf(alert, t), c) = {} /\ NotBefore(old, c) = {}
    BY <1>2, <1>3, <1>6 DEF NotBefore
  <2> QED
    BY <1>1, <1>6, <2>1
<1> QED
  BY <1>4, <1>5, <1>6

\* So it is for every type, always.
LEMMA OneEntryKept ==
  TypeOK /\ OneEntryPerHost /\ [Next]_vars => OneEntryPerHost'
<1> SUFFICES ASSUME TypeOK, OneEntryPerHost, [Next]_vars PROVE OneEntryPerHost'
  OBVIOUS
<1>1. ASSUME NEW alert \in Alert, Check(alert) PROVE OneEntryPerHost'
  <2>1. /\ now' = now
        /\ \A t \in AlertType : tracker'.crossHost[t] \subseteq SeenOf(alert, t)
    <3>1. /\ now' = now
          /\ tracker'.crossHost =
                [t \in AlertType |-> IF t = alert.type /\ Verdict(alert) = "cross" THEN {}
                                    ELSE NotBefore(SeenOf(alert, t), now - CrossWindow)]
      BY <1>1, CheckStep
    <3>2. \A entries, c : NotBefore(entries, c) \subseteq entries
      BY DEF NotBefore
    <3> QED
      BY <3>1, <3>2
  <2> QED
    BY <2>1, SeenOnce DEF OneEntryPerHost
<1>2. CASE Tick
  <2>1. \A ts \in Int : ts <= now => ts <= now'
    BY <1>2, CutoffsAreNumbers DEF Tick
  <2>2. \A t \in AlertType : \A e \in tracker.crossHost[t] : e.ts \in Int
    BY BoundAssumption DEF TypeOK
  <2> QED
    BY <1>2, <2>1, <2>2 DEF Tick, OneEntryPerHost
<1>3. CASE UNCHANGED vars
  BY <1>3 DEF vars, OneEntryPerHost
<1> QED
  BY <1>1, <1>2, <1>3 DEF Next

\* The hosts seen for a type are those the log has since the type's last
\* bundle.
LEMMA TypesAsLoggedKept ==
  TypeOK /\ TypesAsLogged /\ OneEntryPerHost /\ [Next]_vars => TypesAsLogged'
<1> SUFFICES ASSUME TypeOK, TypesAsLogged, OneEntryPerHost, [Next]_vars PROVE TypesAsLogged'
  OBVIOUS
<1>1. ASSUME NEW alert \in Alert, Check(alert) PROVE TypesAsLogged'
  <2>1. now' = now
    BY <1>1, CheckStep
  <2> SUFFICES ASSUME NEW t \in AlertType, NEW c \in Int, c >= now - CrossWindow
               PROVE  HostsOf(NotBefore(tracker'.crossHost[t], c)) =
                          {log'[j].alert.host : j \in OpenType(log', t, c)}
    BY <2>1 DEF TypesAsLogged, HostsOf, NotBefore, OpenType
  <2>2. PICK e \in LogEntry : /\ log' = Append(log, e) /\ e.ts = now /\ e.alert = alert
                             /\ e.verdict = Verdict(alert)
    BY <1>1, CheckLogs
  <2>3. log \in Seq(LogEntry)
    BY DEF TypeOK, LogEntry, Time
  <2> DEFINE cleared == t = alert.type /\ Verdict(alert) = "cross"
             kept == NotBefore(SeenOf(alert, t), now - CrossWindow)
             open == OpenType(log, t, c)
  <2>4. tracker'.crossHost[t] = IF cleared THEN {} ELSE kept
    BY <1>1, CheckStep
  <2>5. OpenType(log', t, c) =
            IF t # alert.type THEN open
            ELSE IF Verdict(alert) = "cross" THEN {} ELSE open \cup NewIf(log, e, c)
    <3>1. OpenType(Append(log, e), t, c) =
              IF t # e.alert.type THEN OpenType(log, t, c)
              ELSE IF e.verdict = "cross" THEN {} ELSE OpenType(log, t, c) \cup NewIf(log, e, c)
      BY <2>3, OpenTypeAppend
    <3> QED
      BY <2>2, <3>1
  <2>6. /\ log'[Len(log) + 1] = e /\ \A j \in 1..Len(log) : log'[j] = log[j]
        /\ open \subseteq 1..Len(log)
    BY <2>2, <2>3, LongerStream, OpenFinite
  <2>7. CASE cleared
    BY <2>4, <2>5, <2>7 DEF HostsOf, NotBefore
  <2>8. CASE ~cleared
    <3>1. NotBefore(kept, c) = NotBefore(SeenOf(alert, t), c)
      <4>1. \A f \in SeenOf(alert, t) : f.ts \in Int
        BY SeenOnce
      <4> QED
        BY <4>1, CutoffsAreNumbers DEF NotBefore
    <3>2. HostsOf(NotBefore(tracker'.crossHost[t], c)) =
              HostsLogged(t, c) \cup IF t = alert.type /\ now >= c THEN {alert.host} ELSE {}
      BY <2>4, <2>8, <3>1, SeenHosts
    <3>3. {log'[j].alert.host : j \in open} = HostsLogged(t, c)
      BY <2>6 DEF HostsLogged
    <3>4. OpenType(log', t, c) =
              open \cup IF t = alert.type /\ now >= c THEN {Len(log) + 1} ELSE {}
      BY <2>2, <2>5, <2>8 DEF NewIf
    <3> DEFINE hostOf(j) == log'[j].alert.host
    <3> HIDE DEF open
    <3>5. {log'[j].alert.host : j \in OpenType(log', t, c)} =
              HostsLogged(t, c) \cup IF t = alert.type /\ now >= c THEN {alert.host} ELSE {}
      <4>1. hostOf(Len(log) + 1) = alert.host
        BY <2>2, <2>6
      <4> HIDE DEF hostOf
      <4>2. \A js, m : {hostOf(j) : j \in js \cup {m}} = {hostOf(j) : j \in js} \cup {hostOf(m)}
        OBVIOUS
      <4>3. {hostOf(j) : j \in open} = HostsLogged(t, c)
        BY <3>3 DEF hostOf
      <4>4. {hostOf(j) : j \in OpenType(log', t, c)} =
                HostsLogged(t, c) \cup IF t = alert.type /\ now >= c THEN {alert.host} ELSE {}
        BY <3>4, <4>1, <4>2, <4>3
      <4> QED
        BY <4>4 DEF hostOf
    <3> QED
      BY <3>2, <3>5
  <2> QED
    BY <2>7, <2>8
<1>2. CASE Tick
  <2>1. UNCHANGED <<tracker, log>> /\ \A c \in Int :
            c >= now' - CrossWindow => c >= now - CrossWindow
    BY <1>2, CutoffsAreNumbers, ThresholdAssumption DEF Tick
  <2> QED
    BY <2>1 DEF TypesAsLogged
<1>3. CASE UNCHANGED vars
  BY <1>3 DEF vars, TypesAsLogged
<1> QED
  BY <1>1, <1>2, <1>3 DEF Next

HostsAt(stream, k) == {stream[j].alert.host : j \in TypeOn(stream, k)}

\* The hosts a cross-host verdict is judged by, as a function of the log.
LEMMA HostsAtIs ==
  \A k : /\ {log[j].alert.host : j \in OfType(k)} = HostsAt(log, k)
        /\ {log'[j].alert.host : j \in OfType(k)'} = HostsAt(log', k)
BY OfTypeIs DEF HostsAt

\* A check compares the number of those hosts with the threshold.
LEMMA CrossFoundKept ==
  TypeOK /\ EntriesFinite /\ TypesAsLogged /\ OneEntryPerHost /\ CrossHostStormsFound
      /\ [Next]_vars => CrossHostStormsFound'
<1> SUFFICES ASSUME TypeOK, EntriesFinite, TypesAsLogged, OneEntryPerHost,
                    CrossHostStormsFound, [Next]_vars
             PROVE  CrossHostStormsFound'
  OBVIOUS
<1>1. ASSUME NEW alert \in Alert, Check(alert) PROVE CrossHostStormsFound'
  <2>1. PICK e \in LogEntry : /\ log' = Append(log, e) /\ e.ts = now /\ e.alert = alert
                             /\ e.verdict = Verdict(alert)
    BY <1>1, CheckLogs
  <2>2. log \in Seq(LogEntry)
    BY DEF TypeOK, LogEntry, Time
  <2> SUFFICES ASSUME NEW k \in DOMAIN log'
               PROVE  log'[k].verdict = "cross" <=>
                          /\ log'[k].verdict # "single"
                          /\ Cardinality(HostsAt(log', k)) >= CrossThreshold
    BY HostsAtIs DEF CrossHostStormsFound
  <2>3. CASE k \in DOMAIN log
    <3>1. log'[k] = log[k] /\ HostsAt(log', k) = HostsAt(log, k)
      <4>1. /\ log'[k] = log[k] /\ TypeOn(log', k) = TypeOn(log, k)
            /\ \A j \in TypeOn(log, k) : log'[j] = log[j]
        BY <2>1, <2>2, <2>3, EarlierKept
      <4> QED
        BY <4>1 DEF HostsAt
    <3>2. log[k].verdict = "cross" <=>
              /\ log[k].verdict # "single"
              /\ Cardinality(HostsAt(log, k)) >= CrossThreshold
      BY <2>3, HostsAtIs DEF CrossHostStormsFound
    <3> QED
      BY <3>1, <3>2
  <2>4. CASE k = Len(log) + 1
    <3> DEFINE t == alert.type
               c == now - CrossWindow
               open == OpenType(log, t, c)
               kept == NotBefore(SeenOf(alert, t), c)
    <3>1. log'[k] = e /\ \A j \in 1..Len(log) : log'[j] = log[j]
      BY <2>1, <2>2, <2>4, LongerStream
    <3>2. TypeOn(log', k) = open \cup {k}
      BY <2>1, <2>2, <2>4, LastCounts, CutoffsAreNumbers
    <3>3. t \in AlertType /\ c \in Int /\ c >= now - CrossWindow /\ now >= c
      BY CutoffsAreNumbers DEF Alert
    <3>4. open \subseteq 1..Len(log)
      BY <2>2, OpenFinite
    <3>5. HostsAt(log', k) = HostsLogged(t, c) \cup {alert.host}
      <4> HIDE DEF open
      <4> QED
        BY <2>1, <3>1, <3>2, <3>4 DEF HostsAt, HostsLogged, open
    <3>6. HostsOf(kept) = HostsAt(log', k)
      <4> HIDE DEF t
      <4>1. t = alert.type
        BY DEF t
      <4> HIDE DEF c
      <4>2. HostsOf(kept) = HostsLogged(t, c) \cup IF t = alert.type /\ now >= c
                                                  THEN {alert.host} ELSE {}
        BY <3>3, SeenHosts
      <4> QED
        BY <3>3, <3>5, <4>1, <4>2
    <3>7. Cardinality(HostsOf(kept)) = Cardinality(kept)
      <4>1. IsFiniteSet(kept)
        BY <3>3, SeenFinite
      <4>2. \A f, g \in kept : f.host = g.host => f = g
        BY <3>3, SeenOnce DEF NotBefore
      <4> QED
        BY <4>1, <4>2, HostsCounted
    <3>8. Verdict(alert) = "cross" <=>
              Verdict(alert) # "single" /\ Cardinality(kept) >= CrossThreshold
      BY DEF Verdict, TypeStorm
    <3> QED
      BY <2>1, <3>1, <3>6, <3>7, <3>8
  <2> QED
    BY <2>1, <2>2, <2>3, <2>4, LongerStream
<1>2. CASE Tick
  BY <1>2, HostsAtIs DEF Tick, CrossHostStormsFound
<1>3. CASE UNCHANGED vars
  BY <1>3, HostsAtIs DEF vars, CrossHostStormsFound
<1> QED
  BY <1>1, <1>2, <1>3 DEF Next

\* A check makes a cross-host bundle when, and only when, it makes no
\* single-host one and the hosts that raised its type, counted on the log, in
\* the window since the type's last bundle are at least the threshold.  Keeping
\* only the latest alert of each host loses none of them.
THEOREM CrossStorms == Spec => []CrossHostStormsFound
<1>1. Init => TypeOK /\ EntriesFinite
  BY TypeStart
<1>2. Init => TypesAsLogged /\ OneEntryPerHost /\ CrossHostStormsFound
  BY StormsStart
<1> QED
  BY <1>1, <1>2, TypeKept, OneEntryKept, TypesAsLoggedKept, CrossFoundKept, PTL DEF Spec
=============================================================================
