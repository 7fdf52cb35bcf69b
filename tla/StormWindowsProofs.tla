-------------------------- MODULE StormWindowsProofs --------------------------
(***************************************************************************)
(* What the storm detector's operators return: which entries Recent keeps, *)
(* and what CheckAlert may answer.  StormTrackerProofs and                 *)
(* AlertPipelineProofs rest on these lemmas.                               *)
(***************************************************************************)
EXTENDS StormWindows, FiniteSetTheorems, SequenceTheorems, WellFoundedInduction, TLAPS

-----------------------------------------------------------------------------
(* Recent.  The list it returns is built by a recursive function, which    *)
(* has to be shown to exist; a smallest counterexample stands in for the   *)
(* induction.                                                              *)

Keep(list, cutoff, g, n) ==
    IF n = 0 THEN <<>>
    ELSE IF list[n].ts >= cutoff THEN Append(g[n - 1], list[n])
    ELSE g[n - 1]

\* A set of natural numbers has a least element.
LEMMA SmallestOf ==
  ASSUME NEW T \in SUBSET Nat, T # {}
  PROVE  \E m \in T : \A n \in T : m <= n
<1>1. PICK m \in T : \A n \in T : <<n, m>> \notin OpToRel(<, Nat)
  BY NatLessThanWellFounded, WFMin
<1>2. \A n \in T : ~(n < m)
  BY <1>1 DEF OpToRel
<1> QED
  BY <1>2

\* The equation of Recent has a solution for every length: were there none,
\* there would be a least one without.
LEMMA KeepDefines ==
  ASSUME NEW list, NEW cutoff
  PROVE  \A m \in Nat : \E g : g = [n \in 0..m |-> Keep(list, cutoff, g, n)]
<1> DEFINE Defined(m) == \E g : g = [n \in 0..m |-> Keep(list, cutoff, g, n)]
           T == {m \in Nat : ~Defined(m)}
<1> SUFFICES ASSUME T # {} PROVE FALSE
  OBVIOUS
<1>1. PICK m \in T : \A n \in T : m <= n
  BY SmallestOf
<1>2. m # 0
  <2> DEFINE g == [n \in 0..0 |-> <<>>]
  <2>1. g = [n \in 0..0 |-> Keep(list, cutoff, g, n)]
    BY DEF Keep
  <2> QED
    BY <1>1, <2>1
<1>3. m - 1 \in Nat /\ Defined(m - 1)
  BY <1>1, <1>2
<1>4. PICK g : g = [n \in 0..(m - 1) |-> Keep(list, cutoff, g, n)]
  BY <1>3
<1> DEFINE h == [n \in 0..m |-> IF n = m THEN Keep(list, cutoff, g, m) ELSE g[n]]
<1>5. ASSUME NEW n \in 0..m PROVE h[n] = Keep(list, cutoff, h, n)
  <2>1. n # 0 => h[n - 1] = g[n - 1]
    BY <1>1, <1>3, <1>5
  <2>2. Keep(list, cutoff, h, n) = Keep(list, cutoff, g, n)
    BY <2>1 DEF Keep
  <2>3. n # m => n \in 0..(m - 1)
    BY <1>1, <1>3
  <2> QED
    BY <1>4, <2>2, <2>3
<1>6. h = [n \in 0..m |-> Keep(list, cutoff, h, n)]
  BY <1>5
<1> QED
  BY <1>1, <1>6

\* Recent is the last value of that solution.
LEMMA RecentDefined ==
  ASSUME NEW list, NEW cutoff, Len(list) \in Nat
  PROVE  \E g : /\ g = [n \in 0..Len(list) |-> Keep(list, cutoff, g, n)]
                /\ Recent(list, cutoff) = g[Len(list)]
<1> DEFINE g == CHOOSE f : f = [n \in 0..Len(list) |-> Keep(list, cutoff, f, n)]
<1>1. g = [n \in 0..Len(list) |-> Keep(list, cutoff, g, n)]
  BY KeepDefines
<1>2. Recent(list, cutoff) = g[Len(list)]
  BY DEF Recent, Keep
<1> QED
  BY <1>1, <1>2

\* The positions of the entries not older than t.
Since(list, t) == {i \in DOMAIN list : list[i].ts >= t}

\* The positions of a list's entries from an instant on.
LEMMA SinceFinite ==
  ASSUME NEW S, NEW list \in Seq(S), NEW t
  PROVE  IsFiniteSet(Since(list, t)) /\ Cardinality(Since(list, t)) \in Nat
<1>1. IsFiniteSet(1..Len(list)) /\ DOMAIN list = 1..Len(list)
  BY LenProperties, FS_Interval
<1> QED
  BY <1>1, FS_Subset, FS_CardinalityType DEF Since

\* One more entry counts if it is not earlier.
LEMMA SinceAppend ==
  ASSUME NEW S, NEW list \in Seq(S), NEW e \in S, NEW t
  PROVE  Cardinality(Since(Append(list, e), t)) =
             Cardinality(Since(list, t)) + IF e.ts >= t THEN 1 ELSE 0
<1> DEFINE k == Len(list) + 1
           longer == Append(list, e)
<1>1. /\ Len(list) \in Nat /\ DOMAIN list = 1..Len(list) /\ DOMAIN longer = 1..k
      /\ longer[k] = e /\ \A i \in 1..Len(list) : longer[i] = list[i]
  BY AppendProperties, LenProperties
<1>2. IsFiniteSet(Since(list, t)) /\ Cardinality(Since(list, t)) \in Nat
  BY SinceFinite
<1> HIDE DEF longer
<1>3. k \notin Since(list, t)
  BY <1>1 DEF Since
<1>4. CASE e.ts >= t
  <2>1. Since(longer, t) = Since(list, t) \cup {k}
    BY <1>1, <1>4 DEF Since
  <2> QED
    BY <1>2, <1>3, <1>4, <2>1, FS_AddElement DEF longer
<1>5. CASE ~(e.ts >= t)
  <2>1. Since(longer, t) = Since(list, t)
    BY <1>1, <1>5 DEF Since
  <2> QED
    BY <1>2, <1>5, <2>1 DEF longer
<1> QED
  BY <1>4, <1>5

\* The entries that are recent enough, and no others, are on the new list,
\* each as often as on the old one.
LEMMA RecentProperties ==
  ASSUME NEW S, \A e \in S : e.ts \in Int, NEW list \in Seq(S), NEW cutoff \in Int
  PROVE  /\ Recent(list, cutoff) \in Seq(S)
         /\ Len(Recent(list, cutoff)) <= Len(list)
         /\ \A i \in DOMAIN Recent(list, cutoff) : Recent(list, cutoff)[i].ts >= cutoff
         /\ \A t \in Int : t >= cutoff =>
                Cardinality(Since(Recent(list, cutoff), t)) = Cardinality(Since(list, t))
<1>1. Len(list) \in Nat /\ DOMAIN list = 1..Len(list) /\ \A i \in DOMAIN list : list[i] \in S
  BY LenProperties, ElementOfSeq
<1>2. PICK g : /\ g = [n \in 0..Len(list) |-> Keep(list, cutoff, g, n)]
               /\ Recent(list, cutoff) = g[Len(list)]
  BY <1>1, RecentDefined
<1> DEFINE UpTo(m, t) == {i \in 1..m : list[i].ts >= t}
           Counts(m) == \A t \in Int : t >= cutoff =>
                            Cardinality(Since(g[m], t)) = Cardinality(UpTo(m, t))
           Good(m) == /\ g[m] \in Seq(S) /\ Len(g[m]) <= m
                      /\ \A i \in DOMAIN g[m] : g[m][i].ts >= cutoff
                      /\ Counts(m)
           T == {m \in 0..Len(list) : ~Good(m)}
<1>3. T = {}
  <2> SUFFICES ASSUME T # {} PROVE FALSE
    OBVIOUS
  <2>1. PICK m \in T : \A n \in T : m <= n
    <3>1. T \in SUBSET Nat
      BY <1>1
    <3> HIDE DEF T
    <3> QED
      BY <3>1, SmallestOf
  <2>2. m # 0
    <3>1. 0 \in 0..Len(list) /\ g[0] = <<>>
      BY <1>1, <1>2 DEF Keep
    <3>2. g[0] \in Seq(S) /\ Len(g[0]) = 0 /\ DOMAIN g[0] = {}
      BY <3>1, EmptySeq, LenProperties
    <3>3. Counts(0)
      <4>1. \A t : Since(g[0], t) = {} /\ UpTo(0, t) = {}
        BY <3>2 DEF Since
      <4> QED
        BY <4>1
    <3> QED
      BY <2>1, <3>2, <3>3
  <2>3. m \in 1..Len(list) /\ Good(m - 1) /\ g[m] = Keep(list, cutoff, g, m)
    <3> HIDE DEF Good
    <3>1. m \in 0..Len(list) /\ m - 1 \in 0..Len(list)
      BY <1>1, <2>1, <2>2
    <3>2. m - 1 \notin T
      BY <1>1, <2>1, <3>1
    <3>3. g[m] = Keep(list, cutoff, g, m)
      BY <1>2, <3>1
    <3> QED
      BY <1>1, <2>2, <3>1, <3>2, <3>3
  <2> DEFINE before == g[m - 1]
             e == list[m]
  <2>4. /\ before \in Seq(S) /\ Len(before) <= m - 1 /\ Len(before) \in Nat /\ e \in S /\ e.ts \in Int
        /\ DOMAIN before = 1..Len(before)
        /\ \A i \in DOMAIN before : before[i].ts >= cutoff
        /\ g[m] = IF e.ts >= cutoff THEN Append(before, e) ELSE before
    BY <1>1, <2>2, <2>3, LenProperties DEF Keep
  <2>5. ASSUME NEW t \in Int, t >= cutoff
        PROVE  Cardinality(UpTo(m, t)) =
                   Cardinality(Since(before, t)) + IF e.ts >= t THEN 1 ELSE 0
    <3>1. Cardinality(Since(before, t)) = Cardinality(UpTo(m - 1, t))
      BY <2>3, <2>5
    <3>2. IsFiniteSet(UpTo(m - 1, t))
      <4>1. IsFiniteSet(1..(m - 1))
        BY <2>3, FS_Interval
      <4> QED
        BY <4>1, FS_Subset
    <3>3. Cardinality(UpTo(m - 1, t)) \in Nat /\ m \notin UpTo(m - 1, t)
      BY <3>2, FS_CardinalityType
    <3>4. UpTo(m, t) = IF e.ts >= t THEN UpTo(m - 1, t) \cup {m} ELSE UpTo(m - 1, t)
      BY <1>1, <2>3
    <3> HIDE DEF UpTo, before, e
    <3>5. Cardinality(UpTo(m - 1, t) \cup {m}) = Cardinality(UpTo(m - 1, t)) + 1
      BY <3>2, <3>3, FS_AddElement
    <3> QED
      BY <3>1, <3>3, <3>4, <3>5
  <2>6. CASE e.ts >= cutoff
    <3>1. /\ g[m] \in Seq(S) /\ Len(g[m]) <= m /\ DOMAIN g[m] = 1..(Len(before) + 1)
          /\ \A i \in 1..Len(before) : g[m][i] = before[i]
          /\ g[m][Len(before) + 1] = e
      BY <2>3, <2>4, <2>6, AppendProperties, LenProperties
    <3>2. Counts(m)
      <4> HIDE DEF UpTo, before, e
      <4> QED
        BY <2>4, <2>5, <2>6, SinceAppend
    <3>3. \A i \in DOMAIN g[m] : g[m][i].ts >= cutoff
      BY <2>4, <2>6, <3>1
    <3> HIDE DEF Counts
    <3> QED
      BY <2>1, <3>1, <3>2, <3>3
  <2>7. CASE ~(e.ts >= cutoff)
    <3>1. \A t \in Int : t >= cutoff => ~(e.ts >= t)
      BY <2>4, <2>7
    <3>2. Counts(m)
      <4> SUFFICES ASSUME NEW t \in Int, t >= cutoff
                   PROVE  Cardinality(Since(g[m], t)) = Cardinality(UpTo(m, t))
        OBVIOUS
      <4>1. Cardinality(Since(before, t)) \in Nat
        BY <2>4, SinceFinite
      <4> HIDE DEF UpTo, before, e
      <4> QED
        BY <2>4, <2>5, <2>7, <3>1, <4>1
    <3>3. g[m] = before
      BY <2>4, <2>7
    <3> HIDE DEF Counts
    <3> QED
      BY <2>1, <2>3, <2>4, <3>2, <3>3
  <2> QED
    BY <2>6, <2>7
<1>4. Good(Len(list))
  BY <1>1, <1>3
<1>5. \A t : UpTo(Len(list), t) = Since(list, t)
  BY <1>1 DEF Since
<1> QED
  BY <1>2, <1>4, <1>5

-----------------------------------------------------------------------------
(* CheckAlert.                                                             *)

\* The detector's lists hold entries of these two kinds.
Shaped(tracker, Listed, Seen) ==
    /\ tracker.hostAlerts \in [Host -> Seq(Listed)]
    /\ tracker.crossHost \in [AlertType -> SUBSET Seen]

\* An alert that comes at this time makes entries of these two kinds.
Fits(alert, time, Listed, Seen) ==
    /\ \A e \in Listed : e.ts \in Int
    /\ time \in Int /\ alert.host \in Host /\ alert.type \in AlertType
    /\ [ts |-> time, type |-> alert.type] \in Listed
    /\ [host |-> alert.host, ts |-> time] \in Seen

\* Whatever an alert finds, the detector keeps its shape, and a bundle names
\* the alert's own host, or hosts that the detector has seen.
LEMMA CheckAlertOutcome ==
  ASSUME NEW Listed, NEW Seen, NEW before, Shaped(before, Listed, Seen),
         NEW alert, NEW time, Fits(alert, time, Listed, Seen)
  PROVE  LET result == CheckAlert(before, alert, time) IN
         /\ Shaped(result.tracker, Listed, Seen)
         /\ result.verdict \in {"pass", "single", "cross"}
         /\ result.verdict = "single" =>
                result.severity = SingleHostSeverity(alert) /\ result.hosts = {alert.host}
         /\ result.verdict = "cross" =>
                /\ result.severity = "critical" /\ result.hosts # {}
                /\ \A h \in result.hosts : \E e \in Seen : e.host = h
<1> DEFINE r == RecordAlert(before, alert, time)
           c == Cleanup(r, time)
           result == CheckAlert(before, alert, time)
           cutoff == time - SingleWindow
<1> USE DEF Shaped, Fits
<1>1. r.hostAlerts \in [Host -> Seq(Listed)] /\ r.crossHost \in [AlertType -> SUBSET Seen]
  <2>1. /\ r.hostAlerts = [before.hostAlerts EXCEPT
              ![alert.host] = Append(@, [ts |-> time, type |-> alert.type])]
        /\ r.crossHost = [before.crossHost EXCEPT
              ![alert.type] = Others(@, alert.host) \cup {[host |-> alert.host, ts |-> time]}]
    BY DEF RecordAlert, Tracker
  <2>2. Append(before.hostAlerts[alert.host], [ts |-> time, type |-> alert.type]) \in Seq(Listed)
    BY AppendProperties
  <2>3. Others(before.crossHost[alert.type], alert.host) \cup {[host |-> alert.host, ts |-> time]}
            \in SUBSET Seen
    BY DEF Others
  <2> HIDE DEF r
  <2> QED
    BY <2>1, <2>2, <2>3
<1>2. /\ c.hostAlerts = [h \in Host |-> Recent(r.hostAlerts[h], cutoff)]
      /\ c.crossHost = [t \in AlertType |-> NotBefore(r.crossHost[t], time - CrossWindow)]
  BY DEF Cleanup, CleanupBefore, Tracker
<1> HIDE DEF r
<1>3. cutoff \in Int
  BY ThresholdAssumption
<1> HIDE DEF cutoff
<1>4. c.hostAlerts \in [Host -> Seq(Listed)] /\ c.crossHost \in [AlertType -> SUBSET Seen]
  <2>1. \A h \in Host : Recent(r.hostAlerts[h], cutoff) \in Seq(Listed)
    BY <1>1, <1>3, RecentProperties
  <2>2. \A t \in AlertType : NotBefore(r.crossHost[t], time - CrossWindow) \in SUBSET Seen
    BY <1>1 DEF NotBefore
  <2> HIDE DEF c
  <2> QED
    BY <1>2, <2>1, <2>2
<1>5. result = IF IsSingleHostStorm(c, alert) THEN SingleHostBundle(c, alert)
               ELSE IF IsCrossHostStorm(c, alert) THEN CrossHostBundle(c, alert)
               ELSE Pass(c)
  BY DEF CheckAlert, r
<1> HIDE DEF c, result
<1>6. CASE IsSingleHostStorm(c, alert)
  <2>1. /\ result.tracker.hostAlerts = [c.hostAlerts EXCEPT ![alert.host] = <<>>]
        /\ result.tracker.crossHost = c.crossHost
        /\ result.verdict = "single" /\ result.severity = SingleHostSeverity(alert)
        /\ result.hosts = {alert.host}
    BY <1>5, <1>6 DEF SingleHostBundle, Tracker
  <2>2. <<>> \in Seq(Listed)
    BY EmptySeq
  <2>3. result.tracker.hostAlerts \in [Host -> Seq(Listed)]
    BY <1>4, <2>1, <2>2
  <2> QED
    BY <1>4, <2>1, <2>3 DEF result
<1>7. CASE ~IsSingleHostStorm(c, alert) /\ IsCrossHostStorm(c, alert)
  <2>1. /\ result.tracker.hostAlerts = c.hostAlerts
        /\ result.tracker.crossHost = [c.crossHost EXCEPT ![alert.type] = {}]
        /\ result.verdict = "cross" /\ result.severity = "critical"
        /\ result.hosts = {e.host : e \in c.crossHost[alert.type]}
    BY <1>5, <1>7 DEF CrossHostBundle, Tracker
  <2>2. c.crossHost[alert.type] # {}
    <3>1. Cardinality(c.crossHost[alert.type]) >= CrossThreshold
      BY <1>7 DEF IsCrossHostStorm
    <3>2. Cardinality({}) = 0
      BY FS_EmptySet
    <3>3. ~(0 >= CrossThreshold)
      BY ThresholdAssumption
    <3> QED
      BY <3>1, <3>2, <3>3, Zenon
  <2>3. result.tracker.crossHost \in [AlertType -> SUBSET Seen]
    BY <1>4, <2>1
  <2>4. \A h \in result.hosts : \E e \in Seen : e.host = h
    BY <1>4, <2>1
  <2> QED
    BY <1>4, <2>1, <2>2, <2>3, <2>4 DEF result
<1>8. CASE ~IsSingleHostStorm(c, alert) /\ ~IsCrossHostStorm(c, alert)
  BY <1>4, <1>5, <1>8 DEF Pass, result
<1> QED
  BY <1>6, <1>7, <1>8
=============================================================================
