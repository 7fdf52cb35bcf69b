-------------------------- MODULE HostServicesProofs --------------------------
(* Proofs about HostServices: the loops of the snapshot and of the runbooks, *)
(* for any answers, any directory and any order of its files.                *)
EXTENDS HostServices, FiniteSetTheorems, SequenceTheorems, WellFoundedInduction, TLAPS

\* A set of natural numbers has a least element.
LEMMA SmallestOf ==
  ASSUME NEW T \in SUBSET Nat, T # {}
  PROVE  \E m \in T : \A n \in T : m <= n
<1>1. PICK m \in T : \A n \in T : <<n, m>> \notin OpToRel(<, Nat)
  BY NatLessThanWellFounded, WFMin
<1>2. \A n \in T : ~(n < m)
  BY <1>1 DEF OpToRel
<1> QED
  BY <1>2

\* The library's minimum is one.
LEMMA MinIsLeast ==
  ASSUME NEW T \in SUBSET Nat, T # {}
  PROVE  Min(T) \in T /\ \A k \in T : Min(T) <= k
BY SmallestOf DEF Min

-----------------------------------------------------------------------------
(* The snapshot. *)

\* The loop over the queries stops at the first result that is not None.
LEMMA AnsweredFirst ==
  ASSUME NEW results, Len(results) \in Nat
  PROVE  /\ Answered(results) \in 0..Len(results)
         /\ Answered(results) = 0 => \A k \in 1..Len(results) : results[k] = Null
         /\ Answered(results) # 0 => /\ results[Answered(results)] # Null
                                     /\ \A k \in 1..(Answered(results) - 1) : results[k] = Null
<1> DEFINE I == {i \in 1..Len(results) : results[i] # Null}
<1>1. Answered(results) = IF I # {} THEN Min(I) ELSE 0
  BY DEF Answered, SelectInSeq
<1>2. I \in SUBSET Nat
  OBVIOUS
<1>3. CASE I = {}
  BY <1>1, <1>3
<1>4. CASE I # {}
  <2> HIDE DEF I
  <2>1. Answered(results) \in I /\ \A k \in I : Answered(results) <= k
    BY <1>1, <1>2, <1>4, MinIsLeast
  <2>2. Answered(results) \in 1..Len(results) /\ results[Answered(results)] # Null
    BY <2>1 DEF I
  <2>3. \A k \in 1..(Answered(results) - 1) : k \in 1..Len(results) /\ k \notin I
    BY <2>1, <2>2
  <2> QED
    BY <2>2, <2>3 DEF I
<1> QED
  BY <1>3, <1>4

\* Distinct queries, none of which is called null.
Proper(queries) ==
    /\ Len(queries) \in Nat /\ DOMAIN queries = 1..Len(queries)
    /\ \A i \in DOMAIN queries : queries[i] # Null
    /\ \A i, j \in DOMAIN queries : queries[i] = queries[j] => i = j

\* Whatever each query is answered, the value is that of the first answer, and
\* it is called missing if none of the queries had one.
LEMMA FirstValueTruthful ==
  ASSUME NEW queries, Proper(queries), NEW answers,
         \A i \in DOMAIN queries : answers[queries[i]] \in PrometheusAnswers,
         ~FirstValue(queries, answers).raises
  PROVE  /\ Truthful(FirstValue(queries, answers).value, queries, answers)
         /\ FirstValue(queries, answers).missing <=> Unanswered(queries, answers)
<1> USE DEF Silent
<1> DEFINE results == [i \in DOMAIN queries |-> QueryPrometheus(answers[queries[i]])]
           first   == Answered(results)
           result  == IF first = 0 THEN Null ELSE results[first]
           value   == IF result = "number" THEN queries[first] ELSE Null
           silent(i) == answers[queries[i]] \in {"no series", "error"}
<1>1. DOMAIN queries = 1..Len(queries) /\ Len(queries) \in Nat
  BY DEF Proper
<1>2. Len(results) = Len(queries) /\ \A i \in DOMAIN queries :
          results[i] = QueryPrometheus(answers[queries[i]])
  <2>1. \A i \in DOMAIN queries : results[i] = QueryPrometheus(answers[queries[i]])
    OBVIOUS
  <2>2. DOMAIN results = 1..Len(queries)
    BY <1>1
  <2> HIDE DEF results
  <2>3. Len(results) = Len(queries)
    BY <1>1, <2>1, <2>2
  <2> QED
    BY <2>1, <2>3
<1>3. /\ FirstValue(queries, answers).value = value
      /\ FirstValue(queries, answers).missing <=> queries # <<>> /\ first = 0
      /\ result \notin {"nan", "raises"}
  BY DEF FirstValue
<1> HIDE DEF results
<1>4. /\ first \in 0..Len(queries)
      /\ first = 0 => \A k \in 1..Len(queries) : results[k] = Null
      /\ first # 0 => results[first] # Null /\ \A k \in 1..(first - 1) : results[k] = Null
  BY <1>1, <1>2, AnsweredFirst
<1>5. \A i \in DOMAIN queries :
          /\ results[i] = Null <=> silent(i)
          /\ results[i] = "number" <=> answers[queries[i]] = "number"
          /\ results[i] \in {Null, "number", "nan", "raises"}
  BY <1>2 DEF QueryPrometheus, PrometheusAnswers, Null
<1> HIDE DEF first
<1>6. CASE first = 0
  <2>1. value = Null /\ \A i \in DOMAIN queries : silent(i) /\ answers[queries[i]] # "number"
    BY <1>1, <1>4, <1>5, <1>6 DEF Null
  <2>2. Truthful(Null, queries, answers)
    BY <2>1 DEF Truthful, Proper
  <2> QED
    BY <1>3, <1>6, <2>1, <2>2 DEF Unanswered
<1>7. CASE first # 0
  <2>1. first \in DOMAIN queries /\ results[first] = "number" /\ value = queries[first]
    <3>1. first \in DOMAIN queries /\ results[first] # Null /\ result = results[first]
      BY <1>1, <1>4, <1>7
    <3>2. results[first] = "number"
      BY <1>3, <1>5, <3>1
    <3> QED
      BY <3>1, <3>2
  <2>2. value # Null
    BY <2>1 DEF Proper
  <2>3. \A k \in 1..(first - 1) : k \in DOMAIN queries /\ silent(k)
    <3>1. \A k \in 1..(first - 1) : k \in DOMAIN queries /\ results[k] = Null
      BY <1>1, <1>4, <1>7, <2>1
    <3> QED
      BY <1>5, <3>1
  <2>4. answers[queries[first]] = "number" /\ ~silent(first)
    BY <1>5, <2>1
  <2>5. ASSUME NEW i \in DOMAIN queries
        PROVE  queries[first] = queries[i] <=>
                   answers[queries[i]] = "number" /\ \A k \in 1..(i - 1) : silent(k)
    <3>1. CASE i = first
      BY <2>3, <2>4, <3>1
    <3>2. CASE i # first
      <4>1. queries[first] # queries[i]
        BY <2>1, <3>2 DEF Proper
      <4>2. i \in 1..(first - 1) \/ first \in 1..(i - 1)
        BY <1>1, <2>1, <3>2
      <4>3. silent(i) => answers[queries[i]] # "number"
        OBVIOUS
      <4> QED
        BY <2>3, <2>4, <4>1, <4>2, <4>3
    <3> QED
      BY <3>1, <3>2
  <2>6. Truthful(queries[first], queries, answers)
    BY <2>1, <2>2, <2>5 DEF Truthful
  <2> QED
    BY <1>3, <1>7, <2>1, <2>4, <2>6 DEF Unanswered
<1> QED
  BY <1>6, <1>7

\* Two different queries are a proper list of queries.
LEMMA PairIsProper ==
  ASSUME NEW a, NEW b, a # b, a # Null, b # Null
  PROVE  Proper(<<a, b>>)
<1>1. /\ Len(<<a, b>>) = 2 /\ DOMAIN <<a, b>> = 1..2
      /\ <<a, b>>[1] = a /\ <<a, b>>[2] = b
  OBVIOUS
<1>2. \A i \in 1..2 : i = 1 \/ i = 2
  OBVIOUS
<1> QED
  BY <1>1, <1>2 DEF Proper

\* The tables of queries are proper, and both know the same clients.
LEMMA QueriesAreProper ==
  ASSUME NEW client \in Clients
  PROVE  /\ Proper(PeerQueries(client)) /\ Proper(ValidatorQueries(client))
<1>1. CASE client = "lighthouse"
  <2>1. /\ PeerQueries(client) = <<"lighthouse_peers", "beacon_peers">>
        /\ ValidatorQueries(client) = <<"lighthouse_validator_count", "validator_count">>
    BY <1>1 DEF PeerQueries, ValidatorQueries
  <2>2. /\ Proper(<<"lighthouse_peers", "beacon_peers">>)
        /\ Proper(<<"lighthouse_validator_count", "validator_count">>)
    BY PairIsProper DEF Null
  <2> QED
    BY <2>1, <2>2
<1>2. CASE client = "prysm"
  <2>1. /\ PeerQueries(client) = <<"beacon_peers", "p2p_peers">>
        /\ ValidatorQueries(client) = <<"beacon_validators_total", "validator_count">>
    BY <1>2 DEF PeerQueries, ValidatorQueries
  <2>2. /\ Proper(<<"beacon_peers", "p2p_peers">>)
        /\ Proper(<<"beacon_validators_total", "validator_count">>)
    BY PairIsProper DEF Null
  <2> QED
    BY <2>1, <2>2
<1>3. CASE client = "geth"
  <2>1. PeerQueries(client) = <<>> /\ ValidatorQueries(client) = <<>>
    BY <1>3 DEF PeerQueries, ValidatorQueries
  <2>2. Proper(<<>>)
    BY EmptySeq DEF Proper
  <2> QED
    BY <2>1, <2>2
<1> QED
  BY <1>1, <1>2, <1>3 DEF Clients

\* What fetch_context_snapshot returns, if it does.
Fetched(container, client, docker, answers) ==
    LET s          == FetchContextSnapshot(container, client, docker, answers)
        peers      == PeerQueries(client)
        validators == ValidatorQueries(client)
        unreadable == docker \in {"chunked", "unreachable"}
    IN  ~s.raised =>
            /\ \A status \in {"running", "exited"} : s.status = status <=> docker = status
            /\ s.status = "unknown" <=> docker = "no such container"
            /\ s.status = "unavailable" <=> unreadable
            /\ Truthful(s.peers, peers, answers)
            /\ Truthful(s.validators, validators, answers)
            /\ s.fallback <=> \/ unreadable
                              \/ Unanswered(peers, answers)
                              \/ Unanswered(validators, answers)

\* A snapshot says what was answered, field by field, for every combination of
\* answers.
LEMMA SnapshotTruthful ==
  ASSUME NEW container \in BOOLEAN, NEW client \in Clients,
         NEW docker \in IF container THEN DockerAnswers ELSE {Null},
         NEW answers \in AnswersFor(client)
  PROVE  Fetched(container, client, docker, answers)
<1> DEFINE status == IF container THEN ContainerStatus(docker) ELSE Null
           peers == FirstValue(PeerQueries(client), answers)
           validators == FirstValue(ValidatorQueries(client), answers)
           s == FetchContextSnapshot(container, client, docker, answers)
           unreadable == docker \in {"chunked", "unreachable"}
<1>1. /\ s.raised <=> peers.raises \/ validators.raises
      /\ s.status = IF container /\ status = Null THEN "unavailable" ELSE status
      /\ s.peers = peers.value /\ s.validators = validators.value
      /\ s.fallback <=> (container /\ status = Null) \/ peers.missing \/ validators.missing
  BY DEF FetchContextSnapshot
<1>2. /\ \A given \in {"running", "exited"} : s.status = given <=> docker = given
      /\ s.status = "unknown" <=> docker = "no such container"
      /\ s.status = "unavailable" <=> unreadable
      /\ container /\ status = Null <=> unreadable
  <2>1. CASE container
    BY <1>1, <2>1 DEF ContainerStatus, DockerAnswers, Null
  <2>2. CASE ~container
    BY <1>1, <2>2 DEF Null
  <2> QED
    BY <2>1, <2>2
<1>3. /\ \A i \in DOMAIN PeerQueries(client) :
             answers[PeerQueries(client)[i]] \in PrometheusAnswers
      /\ \A i \in DOMAIN ValidatorQueries(client) :
             answers[ValidatorQueries(client)[i]] \in PrometheusAnswers
  BY DEF AnswersFor, ToSet
<1>4. CASE s.raised
  BY <1>4 DEF Fetched
<1>5. CASE ~s.raised
  <2>1. ~peers.raises /\ ~validators.raises
    BY <1>1, <1>5
  <2>2. /\ Truthful(peers.value, PeerQueries(client), answers)
        /\ peers.missing <=> Unanswered(PeerQueries(client), answers)
    BY <1>3, <2>1, FirstValueTruthful, QueriesAreProper
  <2>3. /\ Truthful(validators.value, ValidatorQueries(client), answers)
        /\ validators.missing <=> Unanswered(ValidatorQueries(client), answers)
    BY <1>3, <2>1, FirstValueTruthful, QueriesAreProper
  <2> HIDE DEF s, peers, validators, status
  <2>4. /\ Truthful(s.peers, PeerQueries(client), answers)
        /\ Truthful(s.validators, ValidatorQueries(client), answers)
        /\ s.fallback <=> \/ unreadable
                          \/ Unanswered(PeerQueries(client), answers)
                          \/ Unanswered(ValidatorQueries(client), answers)
    BY <1>1, <1>2, <2>2, <2>3
  <2> QED
    BY <1>2, <2>4 DEF Fetched, s
<1> QED
  BY <1>4, <1>5

-----------------------------------------------------------------------------
(* The runbooks. *)

Load(files, g, n) ==
    IF n = 0 THEN <<>>
    ELSE IF files[n] # Broken THEN Append(g[n - 1], files[n])
    ELSE g[n - 1]

\* The loop of load_runbooks is defined for any number of files.
LEMMA LoadDefines ==
  ASSUME NEW files
  PROVE  \A m \in Nat : \E g : g = [n \in 0..m |-> Load(files, g, n)]
<1> DEFINE Defined(m) == \E g : g = [n \in 0..m |-> Load(files, g, n)]
           T == {m \in Nat : ~Defined(m)}
<1> SUFFICES ASSUME T # {} PROVE FALSE
  OBVIOUS
<1>1. PICK m \in T : \A n \in T : m <= n
  BY SmallestOf
<1>2. m # 0
  <2> DEFINE g == [n \in 0..0 |-> <<>>]
  <2>1. g = [n \in 0..0 |-> Load(files, g, n)]
    BY DEF Load
  <2> QED
    BY <1>1, <2>1
<1>3. m - 1 \in Nat /\ Defined(m - 1)
  BY <1>1, <1>2
<1>4. PICK g : g = [n \in 0..(m - 1) |-> Load(files, g, n)]
  BY <1>3
<1> DEFINE h == [n \in 0..m |-> IF n = m THEN Load(files, g, m) ELSE g[n]]
<1>5. ASSUME NEW n \in 0..m PROVE h[n] = Load(files, h, n)
  <2>1. n # 0 => h[n - 1] = g[n - 1]
    BY <1>1, <1>3, <1>5
  <2>2. Load(files, h, n) = Load(files, g, n)
    BY <2>1 DEF Load
  <2>3. n # m => n \in 0..(m - 1)
    BY <1>1, <1>3
  <2> QED
    BY <1>4, <2>2, <2>3
<1>6. h = [n \in 0..m |-> Load(files, h, n)]
  BY <1>5
<1> QED
  BY <1>1, <1>6

\* LoadRunbooks is the last value of the solution of its equation.
LEMMA LoadDefined ==
  ASSUME NEW files, Len(files) \in Nat
  PROVE  \E g : /\ g = [n \in 0..Len(files) |-> Load(files, g, n)]
                /\ LoadRunbooks(files) = g[Len(files)]
<1> DEFINE g == CHOOSE f : f = [n \in 0..Len(files) |-> Load(files, f, n)]
<1>1. g = [n \in 0..Len(files) |-> Load(files, g, n)]
  BY LoadDefines
<1>2. LoadRunbooks(files) = g[Len(files)]
  BY DEF LoadRunbooks, Load
<1> QED
  BY <1>1, <1>2

\* What is loaded are the files that are not broken, whatever their order.
LEMMA LoadedFiles ==
  ASSUME NEW S, NEW files \in Seq(S)
  PROVE  /\ LoadRunbooks(files) \in Seq(S)
         /\ ToSet(LoadRunbooks(files)) = ToSet(files) \ {Broken}
<1>1. /\ Len(files) \in Nat /\ DOMAIN files = 1..Len(files)
      /\ \A i \in 1..Len(files) : files[i] \in S
  BY LenProperties, ElementOfSeq
<1>2. PICK g : /\ g = [n \in 0..Len(files) |-> Load(files, g, n)]
               /\ LoadRunbooks(files) = g[Len(files)]
  BY <1>1, LoadDefined
<1> DEFINE LoadedTo(m) == {files[i] : i \in 1..m} \ {Broken}
           Good(m) == g[m] \in Seq(S) /\ ToSet(g[m]) = LoadedTo(m)
           T == {m \in 0..Len(files) : ~Good(m)}
<1>3. T = {}
  <2> SUFFICES ASSUME T # {} PROVE FALSE
    OBVIOUS
  <2>1. PICK m \in T : \A n \in T : m <= n
    <3>1. T \in SUBSET Nat
      BY <1>1
    <3> HIDE DEF T
    <3> QED
      BY <3>1, SmallestOf
  <2>2. m \in 0..Len(files) /\ ~Good(m) /\ g[m] = Load(files, g, m)
    BY <1>2, <2>1
  <2>3. CASE m = 0
    <3>1. g[0] = <<>>
      BY <2>2, <2>3 DEF Load
    <3>2. <<>> \in Seq(S) /\ ToSet(<<>>) = {} /\ LoadedTo(0) = {}
      BY EmptySeq DEF ToSet
    <3> QED
      BY <2>2, <2>3, <3>1, <3>2
  <2>4. CASE m # 0
    <3>1. m - 1 \in 0..Len(files) /\ m - 1 \notin T /\ m \in 1..Len(files)
      <4>1. m \in Nat /\ m - 1 \in 0..Len(files) /\ m \in 1..Len(files)
        BY <1>1, <2>2, <2>4
      <4> HIDE DEF T
      <4> QED
        BY <2>1, <4>1
    <3>2. g[m - 1] \in Seq(S) /\ ToSet(g[m - 1]) = LoadedTo(m - 1)
      BY <3>1
    <3>3. LoadedTo(m) = LoadedTo(m - 1) \cup ({files[m]} \ {Broken})
      BY <1>1, <3>1
    <3> HIDE DEF LoadedTo
    <3>4. CASE files[m] # Broken
      <4>1. g[m] = Append(g[m - 1], files[m])
        BY <2>2, <2>4, <3>4 DEF Load
      <4>2. /\ Append(g[m - 1], files[m]) \in Seq(S)
            /\ ToSet(Append(g[m - 1], files[m])) = ToSet(g[m - 1]) \cup {files[m]}
        <5>1. /\ files[m] \in S /\ Len(g[m - 1]) \in Nat
              /\ DOMAIN g[m - 1] = 1..Len(g[m - 1])
          BY <1>1, <3>1, <3>2, LenProperties
        <5>2. /\ Append(g[m - 1], files[m]) \in Seq(S)
              /\ DOMAIN Append(g[m - 1], files[m]) = 1..(Len(g[m - 1]) + 1)
              /\ \A i \in 1..Len(g[m - 1]) : Append(g[m - 1], files[m])[i] = g[m - 1][i]
              /\ Append(g[m - 1], files[m])[Len(g[m - 1]) + 1] = files[m]
          BY <3>2, <5>1, AppendProperties, LenProperties
        <5> DEFINE longer == Append(g[m - 1], files[m])
                   n == Len(g[m - 1])
        <5>3. /\ ToSet(longer) = {longer[i] : i \in 1..(n + 1)}
              /\ ToSet(g[m - 1]) = {g[m - 1][i] : i \in 1..n}
          BY <5>1, <5>2 DEF ToSet
        <5>4. 1..(n + 1) = 1..n \cup {n + 1} /\ n \in Nat
          BY <5>1
        <5> HIDE DEF longer, n
        <5>5. {longer[i] : i \in 1..(n + 1)} = {longer[i] : i \in 1..n} \cup {longer[n + 1]}
          BY <5>4
        <5>6. {longer[i] : i \in 1..n} = {g[m - 1][i] : i \in 1..n} /\ longer[n + 1] = files[m]
          BY <5>2 DEF longer, n
        <5> QED
          BY <5>2, <5>3, <5>5, <5>6 DEF longer
      <4> QED
        BY <2>2, <3>2, <3>3, <3>4, <4>1, <4>2
    <3>5. CASE files[m] = Broken
      <4>1. g[m] = g[m - 1] /\ LoadedTo(m) = LoadedTo(m - 1)
        BY <2>2, <2>4, <3>3, <3>5 DEF Load
      <4> QED
        BY <2>2, <3>2, <4>1
    <3> QED
      BY <3>4, <3>5
  <2> QED
    BY <2>3, <2>4
<1>4. Good(Len(files))
  <2>1. Len(files) \in 0..Len(files)
    BY <1>1
  <2>2. ~Good(Len(files)) => Len(files) \in T
    BY <2>1
  <2> QED
    BY <1>3, <2>2
<1>5. LoadedTo(Len(files)) = ToSet(files) \ {Broken}
  BY <1>1 DEF ToSet
<1> QED
  BY <1>2, <1>4, <1>5

\* Severities have a level, and critical is the highest.
LEMMA LevelRange ==
  /\ \A severity : Level(severity) \in 1..4
  /\ Level("critical") = 4
<1>1. DOMAIN SeverityLevels = 1..4 /\ ToSet(SeverityLevels) = {SeverityLevels[i] : i \in 1..4}
  BY DEF SeverityLevels, ToSet
<1>2. ASSUME NEW severity PROVE Level(severity) \in 1..4
  <2>1. CASE severity \in ToSet(SeverityLevels)
    <3>1. \E i \in 1..4 : SeverityLevels[i] = severity
      BY <1>1, <2>1
    <3>2. Level(severity) = CHOOSE i \in 1..4 : SeverityLevels[i] = severity
      BY <1>1, <2>1 DEF Level
    <3> HIDE DEF Level
    <3> QED
      BY <3>1, <3>2
  <2>2. CASE severity \notin ToSet(SeverityLevels)
    BY <2>2 DEF Level
  <2> QED
    BY <2>1, <2>2
<1>3. Level("critical") = 4
  <2>1. \A i \in 1..4 : SeverityLevels[i] = "critical" <=> i = 4
    BY DEF SeverityLevels
  <2>2. "critical" \in ToSet(SeverityLevels)
    BY <1>1, <2>1
  <2>3. Level("critical") = CHOOSE i \in 1..4 : SeverityLevels[i] = "critical"
    BY <1>1, <2>2 DEF Level
  <2>4. (CHOOSE i \in 1..4 : SeverityLevels[i] = "critical") = 4
    BY <2>1
  <2> QED
    BY <2>3, <2>4
<1> QED
  BY <1>2, <1>3

IsFor(r, type, severity) == \E t \in ToSet(r.triggers) : TriggersOn(t, type, severity)

\* match_runbook returns a runbook for the alert if there is one on the list.
LEMMA MatchFinds ==
  ASSUME NEW S, NEW runbooks \in Seq(S), NEW type, NEW severity
  PROVE  LET found == MatchRunbook(runbooks, type, severity)
         IN  \/ /\ found = NoRunbook
                /\ \A r \in ToSet(runbooks) : ~IsFor(r, type, severity)
             \/ /\ found # NoRunbook /\ found \in ToSet(runbooks)
                /\ IsFor(found, type, severity)
<1> DEFINE I == {i \in 1..Len(runbooks) : IsFor(runbooks[i], type, severity)}
           first == IF I # {} THEN Min(I) ELSE 0
<1>1. MatchRunbook(runbooks, type, severity) =
          IF first = 0 THEN NoRunbook ELSE runbooks[first]
  BY DEF MatchRunbook, SelectInSeq, IsFor
<1>2. DOMAIN runbooks = 1..Len(runbooks) /\ Len(runbooks) \in Nat
  BY LenProperties
<1>3. CASE I = {}
  BY <1>1, <1>2, <1>3 DEF ToSet
<1>4. CASE I # {}
  <2>1. I \in SUBSET Nat
    OBVIOUS
  <2>2. Min(I) \in I
    <3> HIDE DEF I
    <3> QED
      BY <1>4, <2>1, MinIsLeast
  <2>3. first \in 1..Len(runbooks) /\ first # 0 /\ IsFor(runbooks[first], type, severity)
    BY <1>4, <2>2
  <2>4. ~IsFor(NoRunbook, type, severity)
    BY EmptySeq DEF IsFor, NoRunbook, ToSet
  <2> HIDE DEF first
  <2> QED
    BY <1>1, <1>2, <2>3, <2>4 DEF ToSet
<1> QED
  BY <1>3, <1>4

\* Every order of a set is a list of its elements.
LEMMA Orders ==
  ASSUME NEW S, IsFiniteSet(S), NEW files \in SetToSeqs(S)
  PROVE  files \in Seq(S) /\ ToSet(files) = S
<1> DEFINE D == 1..Cardinality(S)
<1>1. /\ files \in [D -> S] /\ Cardinality(S) \in Nat
      /\ \A i, j \in D : i # j => files[i] # files[j]
  BY FS_CardinalityType DEF SetToSeqs
<1>2. files \in Seq(S)
  BY <1>1, SeqDef
<1>3. IsFiniteSet(D) /\ Cardinality(D) = Cardinality(S)
  <2>1. \A n \in Nat : Cardinality(1..n) = n
    BY FS_Interval
  <2> QED
    BY <1>1, <2>1, FS_Interval
<1>4. files \in Injection(D, S)
  BY <1>1 DEF Injection, IsInjective
<1>5. files \in Surjection(D, S)
  <2> HIDE DEF D
  <2> QED
    BY <1>3, <1>4, FS_Injection
<1>6. ToSet(files) = S
  BY <1>1, <1>5 DEF Surjection, ToSet
<1> QED
  BY <1>2, <1>6

\* What the property says of one call.
Matched(files, type, severity, found) ==
    LET loaded == ToSet(files) \ {Broken}
        match(order, level) == MatchRunbook(LoadRunbooks(order), type, level)
    IN  /\ found = NoRunbook <=> ~\E r \in loaded : IsFor(r, type, severity)
        /\ found # NoRunbook =>
               /\ found \in loaded /\ IsFor(found, type, severity)
               /\ \A level \in Severities : Level(level) >= Level(severity) =>
                      match(files, level) # NoRunbook
        /\ (\A r, other \in loaded :
                IsFor(r, type, "critical") /\ IsFor(other, type, "critical") => r = other)
               => \A order \in SetToSeqs(ToSet(files)) : match(order, severity) = found

\* The first match is for the alert, found whenever there is one, and the
\* same for every order if no other is for its type.
LEMMA MatchSound ==
  ASSUME NEW files \in Directories, NEW type, NEW severity
  PROVE  Matched(files, type, severity, MatchRunbook(LoadRunbooks(files), type, severity))
<1> DEFINE loaded == ToSet(files) \ {Broken}
           match(order, level) == MatchRunbook(LoadRunbooks(order), type, level)
           found == match(files, severity)
<1>1. PICK S \in SUBSET RunbookFile : files \in SetToSeqs(S)
  BY DEF Directories
<1>2. IsFiniteSet(S) /\ files \in Seq(S) /\ ToSet(files) = S
  BY <1>1, RunbookFileAssumption, FS_Subset, Orders
<1>3. ASSUME NEW order \in SetToSeqs(ToSet(files)), NEW level
      PROVE  \/ /\ match(order, level) = NoRunbook
                /\ \A r \in loaded : ~IsFor(r, type, level)
             \/ /\ match(order, level) # NoRunbook /\ match(order, level) \in loaded
                /\ IsFor(match(order, level), type, level)
  <2>1. order \in Seq(S) /\ ToSet(order) = S
    BY <1>2, Orders
  <2>2. LoadRunbooks(order) \in Seq(S) /\ ToSet(LoadRunbooks(order)) = loaded
    BY <1>2, <2>1, LoadedFiles
  <2> HIDE DEF loaded
  <2> QED
    BY <2>2, MatchFinds
<1>4. files \in SetToSeqs(ToSet(files))
  BY <1>1, <1>2
<1>5. ASSUME NEW r, NEW level, NEW higher, Level(higher) >= Level(level), IsFor(r, type, level)
      PROVE  IsFor(r, type, higher)
  <2>1. PICK t \in ToSet(r.triggers) : t.type = type /\ Level(level) >= Level(t.min)
    BY <1>5 DEF IsFor, TriggersOn
  <2>2. Level(higher) >= Level(t.min)
    BY <1>5, <2>1, LevelRange
  <2> QED
    BY <2>1, <2>2 DEF IsFor, TriggersOn
<1> HIDE DEF match, loaded
<1>6. found = NoRunbook <=> ~\E r \in loaded : IsFor(r, type, severity)
  BY <1>3, <1>4
<1>7. ASSUME found # NoRunbook
      PROVE  /\ found \in loaded /\ IsFor(found, type, severity)
             /\ \A level \in Severities : Level(level) >= Level(severity) =>
                    match(files, level) # NoRunbook
  <2>1. found \in loaded /\ IsFor(found, type, severity)
    BY <1>3, <1>4, <1>7
  <2> QED
    BY <1>3, <1>4, <1>5, <2>1
<1>8. ASSUME \A r, other \in loaded :
                 IsFor(r, type, "critical") /\ IsFor(other, type, "critical") => r = other,
             NEW order \in SetToSeqs(ToSet(files))
      PROVE  match(order, severity) = found
  <2>1. Level("critical") >= Level(severity)
    BY LevelRange
  <2>2. \A r \in loaded : IsFor(r, type, severity) => IsFor(r, type, "critical")
    BY <1>5, <2>1
  <2> QED
    BY <1>3, <1>4, <1>8, <2>2
<1> QED
  BY <1>6, <1>7, <1>8 DEF Matched, match, loaded

-----------------------------------------------------------------------------
(* The percentiles.  In a sorted list the i-th entry is v at most exactly  *)
(* if at least i of the values are; everything else follows from that.     *)

\* At most n of n values are v at most.
LEMMA UpToRange ==
  ASSUME NEW list, NEW m \in Nat, NEW v
  PROVE  UpTo(list, m, v) \in Nat /\ UpTo(list, m, v) <= m
<1>1. IsFiniteSet(1..m) /\ Cardinality(1..m) = m
  <2>1. \A n \in Nat : Cardinality(1..n) = n
    BY FS_Interval
  <2> QED
    BY <2>1, FS_Interval
<1>2. {i \in 1..m : list[i] <= v} \in SUBSET (1..m)
  OBVIOUS
<1> QED
  BY <1>1, <1>2, FS_Subset, FS_CardinalityType DEF UpTo

\* One more value is counted or not.
LEMMA UpToNext ==
  ASSUME NEW list, NEW m \in Nat \ {0}, NEW v
  PROVE  UpTo(list, m, v) = UpTo(list, m - 1, v) + IF list[m] <= v THEN 1 ELSE 0
<1> DEFINE Old == {i \in 1..(m - 1) : list[i] <= v}
           New == {i \in 1..m : list[i] <= v}
<1>1. IsFiniteSet(Old) /\ Cardinality(Old) \in Nat /\ m \notin Old
  <2>1. IsFiniteSet(1..(m - 1)) /\ Old \in SUBSET (1..(m - 1))
    BY FS_Interval
  <2> QED
    BY <2>1, FS_Subset, FS_CardinalityType
<1>2. CASE list[m] <= v
  <2>1. New = Old \cup {m}
    BY <1>2
  <2> HIDE DEF Old, New
  <2>2. Cardinality(New) = Cardinality(Old) + 1
    BY <1>1, <2>1, FS_AddElement
  <2> QED
    BY <1>2, <2>2 DEF UpTo, Old, New
<1>3. CASE ~(list[m] <= v)
  <2>1. New = Old
    BY <1>3
  <2> HIDE DEF Old, New
  <2>2. Cardinality(New) = Cardinality(Old) + 0
    BY <1>1, <2>1
  <2> QED
    BY <1>3, <2>2 DEF UpTo, Old, New
<1> QED
  BY <1>2, <1>3

\* A greater bound counts no fewer values.
LEMMA UpToMonotone ==
  ASSUME NEW list \in Seq(Nat), NEW m \in 0..Len(list), NEW v \in Nat, NEW w \in Nat, v <= w
  PROVE  UpTo(list, m, v) <= UpTo(list, m, w)
<1> DEFINE S == {i \in 1..m : list[i] <= w}
           T == {i \in 1..m : list[i] <= v}
<1>1. m \in Nat /\ \A i \in 1..m : list[i] \in Nat
  BY LenProperties, ElementOfSeq
<1>2. T \in SUBSET S
  BY <1>1
<1>3. IsFiniteSet(S)
  <2>1. IsFiniteSet(1..m) /\ S \in SUBSET (1..m)
    BY <1>1, FS_Interval
  <2> QED
    BY <2>1, FS_Subset
<1> HIDE DEF S, T
<1>4. Cardinality(T) <= Cardinality(S)
  BY <1>2, <1>3, FS_Subset
<1> QED
  BY <1>4 DEF UpTo, S, T

\* The list s holds the first m values in order.
Ranked(s, values, m) ==
    /\ s \in Seq(Value) /\ Len(s) = m
    /\ \A v \in Value, i \in 1..m : s[i] <= v <=> i <= UpTo(values, m, v)

\* Inserting the next value keeps the list in order, with the same values in
\* it.
LEMMA InsertRanks ==
  ASSUME NEW values \in Seq(Value), NEW m \in 1..Len(values), NEW s,
         Ranked(s, values, m - 1)
  PROVE  Ranked(Insert(s, values[m]), values, m)
<1> DEFINE w == values[m]
           before == UpTo(s, Len(s), w)
           longer == Insert(s, w)
<1>1. /\ m \in Nat \ {0} /\ m - 1 \in Nat /\ m \in 0..Len(values) /\ m - 1 \in 0..Len(values)
      /\ w \in Value /\ Value \subseteq Nat /\ Len(s) = m - 1 /\ s \in Seq(Value)
      /\ \A i \in 1..(m - 1) : s[i] \in Value
  BY ValueAssumption, LenProperties, ElementOfSeq DEF Ranked
<1>2. values \in Seq(Nat)
  <2>1. /\ Len(values) \in Nat /\ values \in [1..Len(values) -> Value]
    BY LenProperties
  <2>2. values \in [1..Len(values) -> Nat]
    BY <1>1, <2>1
  <2> QED
    BY <2>1, <2>2, SeqDef
<1>3. before = UpTo(values, m - 1, w) /\ before \in Nat /\ before <= m - 1
  <2> DEFINE n == UpTo(values, m - 1, w)
  <2>1. n \in Nat /\ n <= m - 1
    BY <1>1, UpToRange
  <2> HIDE DEF n
  <2>2. \A i \in 1..(m - 1) : s[i] <= w <=> i <= n
    BY <1>1 DEF Ranked, n
  <2>3. {i \in 1..(m - 1) : s[i] <= w} = 1..n
    BY <1>1, <2>1, <2>2
  <2>4. \A k \in Nat : Cardinality(1..k) = k
    BY FS_Interval
  <2>5. UpTo(s, m - 1, w) = n
    BY <2>1, <2>3, <2>4 DEF UpTo
  <2> QED
    BY <1>1, <2>1, <2>5 DEF n
<1> HIDE DEF before, w
<1>4. /\ longer = [i \in 1..m |-> IF i <= before     THEN s[i]
                                 ELSE IF i = before + 1 THEN w
                                 ELSE s[i - 1]]
  BY <1>1 DEF Insert, before
<1>5. longer \in Seq(Value) /\ Len(longer) = m
  <2>1. ASSUME NEW i \in 1..m
        PROVE  (IF i <= before THEN s[i] ELSE IF i = before + 1 THEN w ELSE s[i - 1]) \in Value
    BY <1>1, <1>3
  <2>2. longer \in [1..m -> Value]
    BY <1>4, <2>1
  <2> HIDE DEF longer
  <2>3. longer \in Seq(Value)
    BY <1>1, <2>2, SeqDef
  <2>4. DOMAIN longer = 1..m /\ DOMAIN longer = 1..Len(longer) /\ Len(longer) \in Nat
    BY <2>2, <2>3, LenProperties
  <2> QED
    BY <1>1, <2>3, <2>4
<1>6. ASSUME NEW v \in Value, NEW i \in 1..m
      PROVE  longer[i] <= v <=> i <= UpTo(values, m, v)
  <2> DEFINE old == UpTo(values, m - 1, v)
             new == UpTo(values, m, v)
  <2>1. old \in Nat /\ new = old + (IF w <= v THEN 1 ELSE 0)
    BY <1>1, UpToRange, UpToNext DEF w
  <2>2. /\ v <= w => old <= before
        /\ w <= v => before <= old
    BY <1>1, <1>2, <1>3, UpToMonotone
  <2>3. \A k \in 1..(m - 1) : /\ s[k] <= v <=> k <= old
                              /\ s[k] <= w <=> k <= before
    BY <1>1, <1>3 DEF Ranked
  <2>4. v \in Nat /\ w \in Nat /\ \A k \in 1..(m - 1) : s[k] \in Nat
    BY <1>1
  <2> HIDE DEF old, new
  <2>5. CASE i <= before
    <3>1. longer[i] = s[i] /\ i \in 1..(m - 1)
      BY <1>1, <1>3, <1>4, <2>5
    <3>2. (s[i] <= v <=> i <= old) /\ s[i] <= w /\ s[i] \in Nat
      BY <2>3, <2>4, <2>5, <3>1
    <3>3. s[i] <= v <=> i <= new
      BY <2>1, <2>2, <2>4, <2>5, <3>1, <3>2, <1>3
    <3> QED
      BY <3>1, <3>3 DEF new
  <2>6. CASE i = before + 1
    <3>1. longer[i] = w
      BY <1>1, <1>3, <1>4, <2>6
    <3>2. w <= v <=> i <= new
      BY <1>3, <2>1, <2>2, <2>4, <2>6
    <3> QED
      BY <3>1, <3>2 DEF new
  <2>7. CASE i > before + 1
    <3>1. longer[i] = s[i - 1] /\ i - 1 \in 1..(m - 1)
      BY <1>1, <1>3, <1>4, <2>7
    <3>2. (s[i - 1] <= v <=> i - 1 <= old) /\ ~(s[i - 1] <= w) /\ s[i - 1] \in Nat
      BY <1>3, <2>3, <2>4, <2>7, <3>1
    <3>3. s[i - 1] <= v <=> i <= new
      BY <1>3, <2>1, <2>2, <2>4, <2>7, <3>1, <3>2
    <3> QED
      BY <3>1, <3>3 DEF new
  <2> QED
    BY <1>1, <1>3, <2>5, <2>6, <2>7
<1> QED
  BY <1>5, <1>6 DEF Ranked, w

Sort(values, g, n) == IF n = 0 THEN <<>> ELSE Insert(g[n - 1], values[n])

\* The insertions are defined for any number of values.
LEMMA SortDefines ==
  ASSUME NEW values
  PROVE  \A m \in Nat : \E g : g = [n \in 0..m |-> Sort(values, g, n)]
<1> DEFINE Defined(m) == \E g : g = [n \in 0..m |-> Sort(values, g, n)]
           T == {m \in Nat : ~Defined(m)}
<1> SUFFICES ASSUME T # {} PROVE FALSE
  OBVIOUS
<1>1. PICK m \in T : \A n \in T : m <= n
  BY SmallestOf
<1>2. m # 0
  <2> DEFINE g == [n \in 0..0 |-> <<>>]
  <2>1. g = [n \in 0..0 |-> Sort(values, g, n)]
    BY DEF Sort
  <2> QED
    BY <1>1, <2>1
<1>3. m - 1 \in Nat /\ Defined(m - 1)
  BY <1>1, <1>2
<1>4. PICK g : g = [n \in 0..(m - 1) |-> Sort(values, g, n)]
  BY <1>3
<1> DEFINE h == [n \in 0..m |-> IF n = m THEN Sort(values, g, m) ELSE g[n]]
<1>5. ASSUME NEW n \in 0..m PROVE h[n] = Sort(values, h, n)
  <2>1. n # 0 => h[n - 1] = g[n - 1]
    BY <1>1, <1>3, <1>5
  <2>2. Sort(values, h, n) = Sort(values, g, n)
    BY <2>1 DEF Sort
  <2>3. n # m => n \in 0..(m - 1)
    BY <1>1, <1>3
  <2> QED
    BY <1>4, <2>2, <2>3
<1>6. h = [n \in 0..m |-> Sort(values, h, n)]
  BY <1>5
<1> QED
  BY <1>1, <1>6

\* Sorted is the last value of the solution of its equation.
LEMMA SortedDefined ==
  ASSUME NEW values, Len(values) \in Nat
  PROVE  \E g : /\ g = [n \in 0..Len(values) |-> Sort(values, g, n)]
                /\ Sorted(values) = g[Len(values)]
<1> DEFINE g == CHOOSE f : f = [n \in 0..Len(values) |-> Sort(values, f, n)]
<1>1. g = [n \in 0..Len(values) |-> Sort(values, g, n)]
  BY SortDefines
<1>2. Sorted(values) = g[Len(values)]
  BY DEF Sorted, Sort
<1> QED
  BY <1>1, <1>2

\* sorted(values) holds the values in order.
LEMMA SortedRanks ==
  ASSUME NEW values \in Seq(Value)
  PROVE  Ranked(Sorted(values), values, Len(values))
<1>1. Len(values) \in Nat
  BY LenProperties
<1>2. PICK g : /\ g = [n \in 0..Len(values) |-> Sort(values, g, n)]
               /\ Sorted(values) = g[Len(values)]
  BY <1>1, SortedDefined
<1> DEFINE T == {m \in 0..Len(values) : ~Ranked(g[m], values, m)}
<1>3. T = {}
  <2> SUFFICES ASSUME T # {} PROVE FALSE
    OBVIOUS
  <2>1. PICK m \in T : \A n \in T : m <= n
    <3>1. T \in SUBSET Nat
      BY <1>1
    <3> HIDE DEF T
    <3> QED
      BY <3>1, SmallestOf
  <2>2. m \in 0..Len(values) /\ ~Ranked(g[m], values, m) /\ g[m] = Sort(values, g, m)
    BY <1>2, <2>1
  <2>3. CASE m = 0
    <3>1. g[0] = <<>>
      BY <2>2, <2>3 DEF Sort
    <3>2. Ranked(<<>>, values, 0)
      BY EmptySeq DEF Ranked
    <3> QED
      BY <2>2, <2>3, <3>1, <3>2
  <2>4. CASE m # 0
    <3>1. m \in Nat /\ m - 1 \in 0..Len(values) /\ m \in 1..Len(values)
      BY <1>1, <2>2, <2>4
    <3>2. m - 1 \notin T
      <4> HIDE DEF T
      <4> QED
        BY <2>1, <3>1
    <3>3. Ranked(g[m - 1], values, m - 1)
      BY <3>1, <3>2
    <3>4. Ranked(Insert(g[m - 1], values[m]), values, m)
      BY <3>1, <3>3, InsertRanks
    <3> QED
      BY <2>2, <2>4, <3>4 DEF Sort
  <2> QED
    BY <2>3, <2>4
<1>4. Len(values) \in 0..Len(values)
  BY <1>1
<1> QED
  BY <1>2, <1>3, <1>4

\* The p-th entry is the least value that at least p of the sample are at most.
LEMMA RankedIsLeast ==
  ASSUME NEW sample \in Seq(Value), NEW p \in 1..Len(sample)
  PROVE  LET n == Len(sample)
             v == Sorted(sample)[p]
         IN  /\ v \in Value /\ p <= UpTo(sample, n, v)
             /\ \A u \in Value : p <= UpTo(sample, n, u) <=> v <= u
<1>1. Len(sample) \in Nat /\ Value \subseteq Nat
  BY ValueAssumption, LenProperties
<1>2. Ranked(Sorted(sample), sample, Len(sample))
  BY SortedRanks
<1>3. Sorted(sample)[p] \in Value
  BY <1>1, <1>2, ElementOfSeq DEF Ranked
<1>4. \A u \in Value : p <= UpTo(sample, Len(sample), u) <=> Sorted(sample)[p] <= u
  BY <1>2 DEF Ranked
<1>5. Sorted(sample)[p] <= Sorted(sample)[p]
  <2>1. Sorted(sample)[p] \in Nat
    BY <1>1, <1>3
  <2>2. \A k \in Nat : k <= k
    OBVIOUS
  <2> QED
    BY <2>1, <2>2
<1> QED
  BY <1>3, <1>4, <1>5

\* The value a share of the sample does not exceed stands at its index in the
\* sorted list.
LEMMA LeastAboveIs ==
  ASSUME NEW sample \in Seq(Value), NEW p \in 1..Len(sample), NEW percent \in Nat,
         \A c \in Nat : 100 * c > percent * Len(sample) <=> p <= c
  PROVE  LeastAbove(sample, percent) = Sorted(sample)[p]
<1> DEFINE n == Len(sample)
           least == Sorted(sample)[p]
<1>1. /\ least \in Value /\ p <= UpTo(sample, n, least)
      /\ \A u \in Value : p <= UpTo(sample, n, u) <=> least <= u
  BY RankedIsLeast
<1>2. n \in Nat /\ Value \subseteq Nat
  BY ValueAssumption, LenProperties
<1>3. \A u \in Value : 100 * UpTo(sample, n, u) > percent * n <=> p <= UpTo(sample, n, u)
  BY <1>2, UpToRange
<1> HIDE DEF least
<1>4. LeastAbove(sample, percent) =
          CHOOSE v \in Value : /\ 100 * UpTo(sample, n, v) > percent * n
                               /\ \A u \in Value :
                                      100 * UpTo(sample, n, u) > percent * n => v <= u
  BY DEF LeastAbove, IsLeastWith
<1>5. \A v \in Value :
          (/\ 100 * UpTo(sample, n, v) > percent * n
           /\ \A u \in Value : 100 * UpTo(sample, n, u) > percent * n => v <= u)
              <=> v = least
  <2> HIDE DEF n
  <2>1. ASSUME NEW v \in Value, p <= UpTo(sample, n, v),
               \A u \in Value : p <= UpTo(sample, n, u) => v <= u
        PROVE  v = least
    <3>1. v <= least /\ least <= v
      BY <1>1, <2>1
    <3> QED
      BY <1>1, <1>2, <3>1
  <2> QED
    BY <1>1, <1>3, <2>1
<1> DEFINE Is(v) == /\ 100 * UpTo(sample, n, v) > percent * n
                    /\ \A u \in Value : 100 * UpTo(sample, n, u) > percent * n => v <= u
           chosen == CHOOSE v \in Value : Is(v)
<1>6. LeastAbove(sample, percent) = chosen
  BY <1>4
<1>7. \A v \in Value : Is(v) <=> v = least
  BY <1>5
<1> HIDE DEF Is
<1>8. chosen \in Value /\ Is(chosen)
  BY <1>1, <1>7
<1> QED
  BY <1>6, <1>7, <1>8 DEF least

\* So does the highest value of the lower half.
LEMMA HalfwayIs ==
  ASSUME NEW sample \in Seq(Value), NEW p \in 1..Len(sample),
         \A c \in Nat : 2 * c >= Len(sample) <=> p <= c
  PROVE  (CHOOSE v \in Value : IsLeastWith(v, sample, LAMBDA c : 2 * c >= Len(sample)))
             = Sorted(sample)[p]
<1> DEFINE n == Len(sample)
           least == Sorted(sample)[p]
<1>1. /\ least \in Value /\ p <= UpTo(sample, n, least)
      /\ \A u \in Value : p <= UpTo(sample, n, u) <=> least <= u
  BY RankedIsLeast
<1>2. n \in Nat /\ Value \subseteq Nat
  BY ValueAssumption, LenProperties
<1>3. \A u \in Value : 2 * UpTo(sample, n, u) >= n <=> p <= UpTo(sample, n, u)
  BY <1>2, UpToRange
<1> HIDE DEF least
<1>4. \A v \in Value :
          (/\ 2 * UpTo(sample, n, v) >= n
           /\ \A u \in Value : 2 * UpTo(sample, n, u) >= n => v <= u)
              <=> v = least
  <2> HIDE DEF n
  <2>1. ASSUME NEW v \in Value, p <= UpTo(sample, n, v),
               \A u \in Value : p <= UpTo(sample, n, u) => v <= u
        PROVE  v = least
    <3>1. v <= least /\ least <= v
      BY <1>1, <2>1
    <3> QED
      BY <1>1, <1>2, <3>1
  <2> QED
    BY <1>1, <1>3, <2>1
<1> DEFINE Is(v) == /\ 2 * UpTo(sample, n, v) >= n
                    /\ \A u \in Value : 2 * UpTo(sample, n, u) >= n => v <= u
           chosen == CHOOSE v \in Value : Is(v)
<1>5. (CHOOSE v \in Value : IsLeastWith(v, sample, LAMBDA c : 2 * c >= Len(sample))) = chosen
  BY DEF IsLeastWith
<1>6. \A v \in Value : Is(v) <=> v = least
  BY <1>4
<1> HIDE DEF Is
<1>7. chosen \in Value /\ Is(chosen)
  BY <1>1, <1>6
<1> QED
  BY <1>5, <1>6, <1>7 DEF least

Percentiles(sample) == [p50 |-> Middle(sample), p95 |-> LeastAbove(sample, 95)]

\* compute_percentiles computes the percentiles, of any list of values.
LEMMA PercentilesRight ==
  ASSUME NEW sample \in Seq(Value), sample # <<>>
  PROVE  /\ ComputePercentiles(sample) = Percentiles(sample)
         /\ ComputePercentiles(sample) \in [p50 : Nat, p95 : Value]
         /\ ComputePercentiles(sample) # NoRow
<1> DEFINE n == Len(sample)
           sorted == Sorted(sample)
           high == n \div 2 + 1
           low == (n + 1) \div 2
           p == (95 * n) \div 100 + 1
<1>1. n \in Nat \ {0}
  BY LenProperties, EmptySeq
<1>2. Len(sorted) = n
  BY SortedRanks DEF Ranked
<1> HIDE DEF sorted, n
<1>3. high \in 1..n /\ low \in 1..n /\ p \in 1..n
  BY <1>1
<1>4. \A c \in Nat : /\ 100 * c > 50 * n <=> high <= c
                     /\ 2 * c >= n <=> low <= c
                     /\ 100 * c > 95 * n <=> p <= c
  BY <1>1
<1> HIDE DEF high, low, p
<1>5. LeastAbove(sample, 95) = sorted[p] /\ LeastAbove(sample, 50) = sorted[high]
  BY <1>3, <1>4, LeastAboveIs DEF sorted, n
<1>6. (CHOOSE v \in Value : IsLeastWith(v, sample, LAMBDA c : 2 * c >= Len(sample)))
          = sorted[low]
  BY <1>3, <1>4, HalfwayIs DEF sorted, n
<1>7. Median(sorted) = sorted[low] + sorted[high]
  BY <1>2 DEF Median, low, high
<1>8. NinetyFifth(sorted) = sorted[p]
  <2>1. ~((95 * n) \div 100 >= n)
    BY <1>1
  <2> QED
    BY <1>2, <2>1 DEF NinetyFifth, p
<1>9. sorted[low] \in Nat /\ sorted[high] \in Nat /\ sorted[p] \in Value /\ sorted[p] # 0
  BY <1>3, RankedIsLeast, ValueAssumption DEF sorted, n
<1>10. ComputePercentiles(sample) = [p50 |-> sorted[low] + sorted[high], p95 |-> sorted[p]]
  BY <1>7, <1>8 DEF ComputePercentiles, sorted
<1>11. Percentiles(sample) = [p50 |-> sorted[low] + sorted[high], p95 |-> sorted[p]]
  BY <1>5, <1>6 DEF Percentiles, Middle
<1> QED
  BY <1>9, <1>10, <1>11 DEF NoRow

-----------------------------------------------------------------------------
(* The last call is what the operators return for its arguments. *)

Fetch(container, client, docker, answers) ==
    last = [op |-> "fetch", container |-> container, client |-> client,
            docker |-> docker, answers |-> answers,
            snapshot |-> FetchContextSnapshot(container, client, docker, answers)]

Match(files, type, severity) ==
    last = [op |-> "match", files |-> files, type |-> type, severity |-> severity,
            found |-> MatchRunbook(LoadRunbooks(files), type, severity)]

CallInv ==
    \/ last = NoCall
    \/ \E container \in BOOLEAN, client \in Clients :
           \E docker \in (IF container THEN DockerAnswers ELSE {Null}),
              answers \in AnswersFor(client) :
               Fetch(container, client, docker, answers)
    \/ \E files \in Directories, type \in AlertTypes, severity \in Severities :
           Match(files, type, severity)

\* The last call's result is right for its arguments.
LEMMA CallAlways == Spec => []CallInv
<1>1. Init => CallInv
  BY DEF Init, CallInv
<1>2. CallInv /\ [Next]_vars => CallInv'
  <2> SUFFICES ASSUME CallInv, [Next]_vars PROVE CallInv'
    OBVIOUS
  <2>1. CASE Calls
    BY <2>1 DEF Calls, CallInv, FetchContext, FindRunbook, Fetch, Match
  <2>2. CASE last' = NoCall
    BY <2>2 DEF CallInv, NoCall
  <2>3. CASE UNCHANGED vars
    BY <2>3 DEF CallInv, Fetch, Match, vars
  <2> QED
    BY <2>1, <2>2, <2>3 DEF Next
<1> QED
  BY <1>1, <1>2, PTL DEF Spec

\* A snapshot that is returned says what Docker and Prometheus answered, for
\* every combination of answers, and is flagged exactly when one that was asked
\* gave no answer; a container Docker does not know is reported, unflagged.
THEOREM SnapshotOwnsUp == Spec => []SnapshotIsTruthful
<1>1. CallInv => SnapshotIsTruthful
  <2> SUFFICES ASSUME CallInv, last.op = "fetch" PROVE SnapshotIsTruthful
    BY DEF SnapshotIsTruthful
  <2>0. PICK container \in BOOLEAN, client \in Clients :
             \E docker \in (IF container THEN DockerAnswers ELSE {Null}),
                answers \in AnswersFor(client) :
                 Fetch(container, client, docker, answers)
    BY DEF CallInv, NoCall, Match
  <2>1. PICK docker \in (IF container THEN DockerAnswers ELSE {Null}),
             answers \in AnswersFor(client) :
                 Fetch(container, client, docker, answers)
    BY <2>0
  <2>2. Fetched(container, client, docker, answers)
    BY SnapshotTruthful
  <2>3. /\ last.client = client /\ last.docker = docker /\ last.answers = answers
        /\ last.snapshot = FetchContextSnapshot(container, client, docker, answers)
    BY <2>1 DEF Fetch
  <2> QED
    BY <2>2, <2>3 DEF SnapshotIsTruthful, Fetched
<1> QED
  BY <1>1, CallAlways, PTL

\* An alert gets a runbook that is for it whenever one is loaded, whatever
\* else is in the directory, and one that is alone in being for its type
\* whatever the order of the files.
THEOREM MatchSoundAlways == Spec => []MatchIsSound
<1>1. CallInv => MatchIsSound
  <2> SUFFICES ASSUME CallInv, last.op = "match" PROVE MatchIsSound
    BY DEF MatchIsSound
  <2>1. PICK files \in Directories, type \in AlertTypes, severity \in Severities :
                 Match(files, type, severity)
    BY DEF CallInv, NoCall, Fetch
  <2>2. Matched(files, type, severity, MatchRunbook(LoadRunbooks(files), type, severity))
    BY MatchSound
  <2>3. /\ last.files = files /\ last.type = type /\ last.severity = severity
        /\ last.found = MatchRunbook(LoadRunbooks(files), type, severity)
    BY <2>1 DEF Match
  <2> QED
    BY <2>2, <2>3 DEF MatchIsSound, Matched, IsFor, TriggersOn
<1> QED
  BY <1>1, CallAlways, PTL

-----------------------------------------------------------------------------
(* The baselines: each row was computed from the latest sample with data of *)
(* its own host and metric.                                                 *)

Rows == [p50 : Nat, p95 : Value] \cup {NoRow}

BaselineTypeOK ==
    /\ table \in [Host -> [Metric -> Rows]]
    /\ data \in [Host -> [Metric -> Seq(Value)]]
    /\ job = NoJob \/ job \in [host : Host, left : Seq(Metric)]

RowsComputed ==
    \A h \in Host, m \in Metric :
        table[h][m] = IF data[h][m] = NoData THEN NoRow ELSE ComputePercentiles(data[h][m])

BaselineInv == BaselineTypeOK /\ RowsComputed

\* No row, no job, no data.
LEMMA BaselineStart == Init => BaselineInv
<1> SUFFICES ASSUME Init PROVE BaselineInv
  OBVIOUS
<1>1. NoData \in Seq(Value)
  BY EmptySeq DEF NoData
<1>2. BaselineTypeOK
  BY <1>1 DEF Init, BaselineInit, BaselineTypeOK, Rows
<1>3. RowsComputed
  BY DEF Init, BaselineInit, RowsComputed
<1> QED
  BY <1>2, <1>3 DEF BaselineInv

\* A metric with values gets their percentiles, one without keeps its row.
LEMMA UpdateKeeps ==
  ASSUME BaselineInv, NEW sample \in Sample, UpdateBaseline(sample)
  PROVE  BaselineInv'
<1> DEFINE h == job.host
           m == Head(job.left)
           row == ComputePercentiles(sample)
<1>1. h \in Host /\ m \in Metric /\ job \in [host : Host, left : Seq(Metric)] /\ job.left # <<>>
  <2>1. job \in [host : Host, left : Seq(Metric)] /\ job.left # <<>>
    BY DEF UpdateBaseline, BaselineInv, BaselineTypeOK, NoJob
  <2> QED
    BY <2>1, HeadTailProperties
<1>2. job' \in [host : Host, left : Seq(Metric)]
  <2>1. job' = [job EXCEPT !.left = Tail(job.left)]
    BY DEF UpdateBaseline
  <2>2. Tail(job.left) \in Seq(Metric)
    BY <1>1, HeadTailProperties
  <2> QED
    BY <1>1, <2>1, <2>2
<1>3. sample \in Seq(Value)
  BY SampleAssumption
<1> HIDE DEF h, m, row
<1>4. CASE sample = <<>>
  <2>1. row = NoRow
    BY <1>4 DEF row, ComputePercentiles
  <2>2. UNCHANGED <<table, data>>
    BY <1>4, <2>1 DEF UpdateBaseline, row
  <2> QED
    BY <1>2, <2>2 DEF BaselineInv, BaselineTypeOK, RowsComputed
<1>5. CASE sample # <<>>
  <2>1. row \in [p50 : Nat, p95 : Value] /\ row # NoRow
    BY <1>3, <1>5, PercentilesRight DEF row
  <2>2. /\ table' = [table EXCEPT ![h][m] = row]
        /\ data' = [data EXCEPT ![h][m] = sample]
    BY <1>5, <2>1 DEF UpdateBaseline, row, h, m
  <2>3. BaselineTypeOK'
    BY <1>1, <1>2, <1>3, <2>1, <2>2 DEF BaselineInv, BaselineTypeOK, Rows
  <2>4. ASSUME NEW g \in Host, NEW k \in Metric
        PROVE  table'[g][k] = IF data'[g][k] = NoData THEN NoRow
                              ELSE ComputePercentiles(data'[g][k])
    <3>1. CASE g = h /\ k = m
      <4>1. table'[g][k] = row /\ data'[g][k] = sample
        BY <1>1, <2>2, <3>1 DEF BaselineInv, BaselineTypeOK
      <4> QED
        BY <1>5, <4>1 DEF NoData, row
    <3>2. CASE ~(g = h /\ k = m)
      <4>1. table'[g][k] = table[g][k] /\ data'[g][k] = data[g][k]
        BY <1>1, <2>2, <2>4, <3>2 DEF BaselineInv, BaselineTypeOK
      <4> QED
        BY <2>4, <4>1 DEF BaselineInv, RowsComputed
    <3> QED
      BY <3>1, <3>2
  <2>5. RowsComputed'
    BY <2>4 DEF RowsComputed
  <2> QED
    BY <2>3, <2>5 DEF BaselineInv
<1> QED
  BY <1>4, <1>5

\* Every step keeps the table in agreement with the data.
LEMMA BaselineKept == BaselineInv /\ [Next]_vars => BaselineInv'
<1> SUFFICES ASSUME BaselineInv, [Next]_vars PROVE BaselineInv'
  OBVIOUS
<1>1. ASSUME UNCHANGED <<table, data>>, job' = job \/ job' = NoJob PROVE BaselineInv'
  BY <1>1 DEF BaselineInv, BaselineTypeOK, RowsComputed
<1>2. ASSUME NEW h \in Host, NEW metrics \in SetToSeqs(Metric), StartJob(h, metrics)
      PROVE  BaselineInv'
  <2>1. metrics \in Seq(Metric)
    BY MetricAssumption, Orders
  <2>2. job' \in [host : Host, left : Seq(Metric)] /\ UNCHANGED <<table, data>>
    BY <1>2, <2>1 DEF StartJob
  <2> QED
    BY <2>2 DEF BaselineInv, BaselineTypeOK, RowsComputed
<1>3. CASE EndJob
  BY <1>1, <1>3 DEF EndJob
<1>4. CASE UNCHANGED baselineVars
  BY <1>1, <1>4 DEF baselineVars
<1>5. CASE BaselineNext
  BY <1>2, <1>3, <1>5, UpdateKeeps DEF BaselineNext
<1> QED
  BY <1>4, <1>5 DEF Next, vars

\* The table agrees with the data in every behaviour.
LEMMA BaselineAlways == Spec => []BaselineInv
BY BaselineStart, BaselineKept, PTL DEF Spec

\* Whatever nights failed, or failed halfway, each row holds the percentiles
\* of the latest data there was for its own host and metric.
THEOREM BaselinesFollow == Spec => []BaselinesFollowData
<1>1. BaselineInv => BaselinesFollowData
  <2> SUFFICES ASSUME BaselineInv, NEW h \in Host, NEW m \in Metric
               PROVE  table[h][m] = IF data[h][m] = NoData THEN NoRow
                                    ELSE Percentiles(data[h][m])
    BY DEF BaselinesFollowData, Percentiles
  <2>1. data[h][m] \in Seq(Value)
    BY DEF BaselineInv, BaselineTypeOK
  <2>2. data[h][m] # NoData => ComputePercentiles(data[h][m]) = Percentiles(data[h][m])
    BY <2>1, PercentilesRight DEF NoData
  <2> QED
    BY <2>2 DEF BaselineInv, RowsComputed
<1> QED
  BY <1>1, BaselineAlways, PTL

\* A status that the snapshot may give.
LEMMA StatusKnown ==
  ASSUME NEW container \in BOOLEAN, NEW client, NEW answers,
         NEW docker \in IF container THEN DockerAnswers ELSE {Null}
  PROVE  FetchContextSnapshot(container, client, docker, answers).status
             \in {Null, "running", "exited", "unknown", "unavailable"}
<1> DEFINE status == IF container THEN ContainerStatus(docker) ELSE Null
<1>1. status \in {Null, "running", "exited", "unknown"}
  <2>1. CASE container
    BY <2>1 DEF ContainerStatus, DockerAnswers
  <2>2. CASE ~container
    BY <2>2
  <2> QED
    BY <2>1, <2>2
<1>2. FetchContextSnapshot(container, client, docker, answers).status
          = IF container /\ status = Null THEN "unavailable" ELSE status
  BY DEF FetchContextSnapshot
<1> HIDE DEF status
<1> QED
  BY <1>1, <1>2

\* The rows, the job and the answers of the calls keep their types.
THEOREM TypeCorrect == Spec => []TypeOK
<1>1. BaselineInv => /\ \A h \in Host, m \in Metric :
                            table[h][m] # NoRow => table[h][m] \in [p50 : Nat, p95 : Value]
                     /\ job # NoJob => job.host \in Host /\ ToSet(job.left) \subseteq Metric
  <2> SUFFICES ASSUME BaselineInv
               PROVE  /\ \A h \in Host, m \in Metric :
                             table[h][m] # NoRow => table[h][m] \in [p50 : Nat, p95 : Value]
                      /\ job # NoJob => job.host \in Host /\ ToSet(job.left) \subseteq Metric
    OBVIOUS
  <2>1. \A h \in Host, m \in Metric : table[h][m] \in Rows
    BY DEF BaselineInv, BaselineTypeOK
  <2>2. ASSUME job # NoJob PROVE job.host \in Host /\ ToSet(job.left) \subseteq Metric
    <3>1. job.host \in Host /\ job.left \in Seq(Metric)
      BY <2>2 DEF BaselineInv, BaselineTypeOK
    <3>2. /\ DOMAIN job.left = 1..Len(job.left)
          /\ \A i \in 1..Len(job.left) : job.left[i] \in Metric
      BY <3>1, ElementOfSeq, LenProperties
    <3> QED
      BY <3>1, <3>2 DEF ToSet
  <2> QED
    BY <2>1, <2>2 DEF Rows
<1>2. CallInv => /\ last.op = "fetch" =>
                        last.snapshot.status
                            \in {Null, "running", "exited", "unknown", "unavailable"}
                 /\ last.op = "match" => last.found \in RunbookFile \cup {NoRunbook}
  <2>1. ASSUME CallInv, last.op = "fetch"
        PROVE  last.snapshot.status \in {Null, "running", "exited", "unknown", "unavailable"}
    <3>1. PICK container \in BOOLEAN, client \in Clients :
               \E docker \in (IF container THEN DockerAnswers ELSE {Null}),
                  answers \in AnswersFor(client) :
                   Fetch(container, client, docker, answers)
      BY <2>1 DEF CallInv, NoCall, Match
    <3>2. PICK docker \in (IF container THEN DockerAnswers ELSE {Null}),
               answers \in AnswersFor(client) :
                   Fetch(container, client, docker, answers)
      BY <3>1
    <3>3. last.snapshot = FetchContextSnapshot(container, client, docker, answers)
      BY <3>2 DEF Fetch
    <3> QED
      BY <3>3, StatusKnown
  <2>2. ASSUME CallInv, last.op = "match"
        PROVE  last.found \in RunbookFile \cup {NoRunbook}
    <3>1. PICK files \in Directories, type \in AlertTypes, severity \in Severities :
                   Match(files, type, severity)
      BY <2>2 DEF CallInv, NoCall, Fetch
    <3>2. Matched(files, type, severity, last.found)
      BY <3>1, MatchSound DEF Match
    <3>3. PICK S \in SUBSET RunbookFile : files \in SetToSeqs(S)
      BY DEF Directories
    <3>4. ToSet(files) = S
      BY <3>3, RunbookFileAssumption, FS_Subset, Orders
    <3> QED
      BY <3>2, <3>3, <3>4 DEF Matched
  <2> QED
    BY <2>1, <2>2
<1> QED
  BY <1>1, <1>2, BaselineAlways, CallAlways, PTL DEF TypeOK
=============================================================================
