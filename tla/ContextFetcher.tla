--------------------------- MODULE ContextFetcher ---------------------------
(***************************************************************************)
(* fetch_context_snapshot: what is known of an alert's container and       *)
(* client at the time the alert is received.  Docker's socket is asked for *)
(* the container, Prometheus for two numbers, each by a preferred query    *)
(* and a second one.  Docker and Prometheus are external: the operators    *)
(* take their answers as arguments.                                        *)
(***************************************************************************)
EXTENDS Naturals, SequencesExt

Null == "null"

\* What Docker's socket may answer: a status; an error message (no such
\* container); a body in chunks, which is no JSON as it stands; nothing.
DockerAnswers == {"running", "exited", "no such container", "chunked", "unreachable"}

\* What Prometheus may answer: a number; NaN; no series; an error that the
\* query's handler names; a timeout or a dropped connection, which it does not.
PrometheusAnswers == {"number", "nan", "no series", "error", "late"}

Clients == {"lighthouse", "prysm", "geth"}

\* _query_prometheus: a value, None, or an exception.
QueryPrometheus(answer) ==
    CASE answer \in {"number", "nan"}      -> answer
      [] answer \in {"no series", "error"} -> Null
      [] answer = "late"                   -> "raises"

\* Faulty variant: what is not a status is handed on.
ContainerStatusUnchecked(answer) == IF answer \in {"chunked", "unreachable"} THEN Null ELSE answer

\* Faulty variant: a container nothing is heard of is taken to have stopped.
ContainerStatusGuessed(answer) ==
    CASE answer = "running"           -> "running"
      [] answer = "no such container" -> "unknown"
      [] OTHER                        -> "exited"

\* _get_docker_container_status: None unless a JSON body came back.
ContainerStatus(answer) ==
    CASE answer \in {"running", "exited"}       -> answer
      [] answer = "no such container"           -> "unknown"
      [] answer \in {"chunked", "unreachable"}  -> Null

\* prysm stands for prysm, teku, nimbus and lodestar; geth for the rest.
PeerQueries(client) ==
    CASE client = "lighthouse" -> <<"lighthouse_peers", "beacon_peers">>
      [] client = "prysm"      -> <<"beacon_peers", "p2p_peers">>
      [] OTHER                 -> <<>>

ValidatorQueries(client) ==
    CASE client = "lighthouse" -> <<"lighthouse_validator_count", "validator_count">>
      [] client = "prysm"      -> <<"beacon_validators_total", "validator_count">>
      [] OTHER                 -> <<>>

Queries == UNION {ToSet(PeerQueries(c)) \cup ToSet(ValidatorQueries(c)) : c \in Clients}

\* The query that ends the loop, 0 if none does.
Answered(results) == SelectInSeq(results, LAMBDA r : r # Null)

\* The loop over the queries: [value, missing, raises].  int(nan) raises.
FirstValue(queries, answers) ==
    LET results == [i \in DOMAIN queries |-> QueryPrometheus(answers[queries[i]])]
        first   == Answered(results)
        value   == IF first = 0 THEN Null ELSE results[first]
    IN  [value   |-> IF value = "number" THEN queries[first] ELSE Null,
         missing |-> queries # <<>> /\ first = 0,
         raises  |-> value \in {"nan", "raises"}]

\* fetch_context_snapshot.  A number is named after the query it comes from.
FetchContextSnapshot(container, client, docker, answers) ==
    LET status     == IF container THEN ContainerStatus(docker) ELSE Null
        peers      == FirstValue(PeerQueries(client), answers)
        validators == FirstValue(ValidatorQueries(client), answers)
    IN  [raised     |-> peers.raises \/ validators.raises,
         status     |-> IF container /\ status = Null THEN "unavailable" ELSE status,
         peers      |-> peers.value,
         validators |-> validators.value,
         fallback   |-> (container /\ status = Null) \/ peers.missing \/ validators.missing]
=============================================================================
