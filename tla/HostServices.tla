---------------------------- MODULE HostServices ----------------------------
(***************************************************************************)
(* What Hermes asks of a host's surroundings: the snapshot taken when an   *)
(* alert is received, the runbook for an alert, and the baselines learned  *)
(* at night.  The first two change no state; `last` holds the last call    *)
(* with its arguments, so that the properties can speak of it.             *)
(***************************************************************************)
EXTENDS ContextFetcher, Runbooks, HostBaselines

CONSTANTS
    RunbookFile,  \* runbooks that may be in the directory, some of them Broken
    AlertTypes,   \* types of alerts
    Severities    \* severities of alerts, some of them unknown

ASSUME RunbookFileAssumption == IsFiniteSet(RunbookFile)

NoCall == [op |-> "none"]

VARIABLE last     \* the last call of fetch_context_snapshot or match_runbook

vars == <<baselineVars, last>>

Init == BaselineInit /\ last = NoCall

\* An alert is received: the receiver calls fetch_context_snapshot.
FetchContext(container, client, docker, answers) ==
    last' = [op |-> "fetch", container |-> container, client |-> client,
             docker |-> docker, answers |-> answers,
             snapshot |-> FetchContextSnapshot(container, client, docker, answers)]

\* The directory is loaded, and a runbook looked for.
FindRunbook(files, type, severity) ==
    last' = [op |-> "match", files |-> files, type |-> type, severity |-> severity,
             found |-> MatchRunbook(LoadRunbooks(files), type, severity)]

Directories == UNION {SetToSeqs(files) : files \in SUBSET RunbookFile}

\* Only the queries of the client are ever answered.
AnswersFor(client) ==
    [ToSet(PeerQueries(client)) \cup ToSet(ValidatorQueries(client)) -> PrometheusAnswers]

\* Bound: the calls read nothing the job writes and write nothing at all, so
\* that they are tried before the first night only.
BeforeFirstNight == job = NoJob /\ \A h \in Host, m \in Metric : data[h][m] = NoData

Calls ==
    \/ \E container \in BOOLEAN, client \in Clients :
           \E docker \in (IF container THEN DockerAnswers ELSE {Null}),
              answers \in AnswersFor(client) :
               FetchContext(container, client, docker, answers)
    \/ \E files \in Directories, type \in AlertTypes, severity \in Severities :
           FindRunbook(files, type, severity)

Next ==
    \/ last = NoCall /\ BeforeFirstNight /\ Calls /\ UNCHANGED baselineVars
    \/ BaselineNext /\ last' = NoCall

Spec == Init /\ [][Next]_vars

-----------------------------------------------------------------------------
(* Properties.                                                             *)

TypeOK ==
    /\ \A h \in Host, m \in Metric :
           table[h][m] # NoRow => table[h][m] \in [p50 : Nat, p95 : Value]
    /\ job # NoJob => job.host \in Host /\ ToSet(job.left) \subseteq Metric
    /\ last.op = "fetch" =>
           last.snapshot.status \in {Null, "running", "exited", "unknown", "unavailable"}
    /\ last.op = "match" => last.found \in RunbookFile \cup {NoRunbook}

Silent(query, answers) == answers[query] \in {"no series", "error"}

Unanswered(queries, answers) ==
    queries # <<>> /\ \A i \in DOMAIN queries : Silent(queries[i], answers)

\* A number is that of the first query that had one, and null if none had.
Truthful(value, queries, answers) ==
    \A i \in DOMAIN queries :
        /\ value = queries[i] <=> /\ answers[queries[i]] = "number"
                                  /\ \A k \in 1..(i - 1) : Silent(queries[k], answers)
        /\ value = Null => Silent(queries[i], answers)

\* A snapshot says what was answered.  The status is the one Docker gave,
\* "unknown" exactly if Docker knows no such container, "unavailable" exactly
\* if Docker gave no answer that can be read; each number comes from the
\* client's preferred query if that had an answer, and from the second only if
\* the first had none.  The flag is set exactly when Docker, or both queries of
\* a number, were asked and gave no answer; "unknown" does not set it.
SnapshotIsTruthful ==
    (last.op = "fetch" /\ ~last.snapshot.raised) =>
        LET s          == last.snapshot
            peers      == PeerQueries(last.client)
            validators == ValidatorQueries(last.client)
            unreadable == last.docker \in {"chunked", "unreachable"}
        IN  /\ \A status \in {"running", "exited"} : s.status = status <=> last.docker = status
            /\ s.status = "unknown" <=> last.docker = "no such container"
            /\ s.status = "unavailable" <=> unreadable
            /\ Truthful(s.peers, peers, last.answers)
            /\ Truthful(s.validators, validators, last.answers)
            /\ s.fallback <=> \/ unreadable
                              \/ Unanswered(peers, last.answers)
                              \/ Unanswered(validators, last.answers)

\* The alert gets a runbook that is for it whenever one is loaded, broken
\* files beside it or not; an alert that becomes more urgent keeps a runbook;
\* and if no other is for its type, then the order of the files is no matter.
MatchIsSound ==
    last.op = "match" =>
        LET loaded     == ToSet(last.files) \ {Broken}
            isFor(r, severity) == \E t \in ToSet(r.triggers) :
                t.type = last.type /\ Level(t.min) <= Level(severity)
            match(files, severity) == MatchRunbook(LoadRunbooks(files), last.type, severity)
        IN  /\ last.found = NoRunbook <=> ~\E r \in loaded : isFor(r, last.severity)
            /\ last.found # NoRunbook =>
                   /\ last.found \in loaded /\ isFor(last.found, last.severity)
                   /\ \A severity \in Severities : Level(severity) >= Level(last.severity) =>
                          match(last.files, severity) # NoRunbook
            /\ (\A r, other \in loaded : isFor(r, "critical") /\ isFor(other, "critical") => r = other)
                   => \A files \in SetToSeqs(ToSet(last.files)) :
                          match(files, last.severity) = last.found
=============================================================================
