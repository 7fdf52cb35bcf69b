# Verification of agentic-node-ops

TLA+ models of the alert pipeline and the remediation side of
`agentic-node-ops`: a webhook receiver that turns Alertmanager's POSTs into a
queue of alerts, an agent (Hermes) that records, explains and forwards them,
its notification channels, the rules under which actions may be proposed to an
operator, the executor that runs them, and what is asked of a host meanwhile. The modules are translated from the code under `src/`; where
the documents say something else, the code is what is modelled and the
difference is noted (section 7).

Contents: 1 inventory, 2 hard behaviour, 3 modules and their code, 4 runs,
5 fairness and environment, 6 proofs, 7 divergences found, 8 not modelled,
9 plan.

## 1. Inventory

Paths: `R/` is `src/webhook-receiver/src/webhook_receiver/`, `A/` is
`src/src/agentic_node_ops/`.

| Component | State it keeps | Operations | Correct when |
|---|---|---|---|
| Webhook handler (`R/server.py`, `schema.py`, `types.py`) | nothing across requests but the detector and counters | `handle_webhook`: validate, normalise, three phases, respond | every alert of a request answered 200 is covered by a line of the queue |
| Deduplication (`R/dedup.py`) | none; reads the agent's SQLite file | `get_last_processed`, `should_process` | a repeat is dropped only if it is covered by what was processed |
| Storm detector (`R/storm_protection.py`) | per-host lists, per-type host maps, bundle counter; in memory | `check_alert` | storms are found exactly when the windows say so; memory stays bounded |
| Queue (`R/server.py` `QueueWriter`, `A/processor.py` offset) | `alerts.jsonl`, `alerts.jsonl.offset` | append, read by line, move the offset | the offset passes nothing that is not on record |
| Agent loop (`A/processor.py`, `context.py`) | offset file, file handle, SQLite row per alert | `process_alerts_async`, `run_processor_loop` | each alert recorded, told at most once, in order |
| Notification channels (`A/dispatcher.py`, `discord.py`, `ntfy.py`) | none | route by severity, build a message per channel, post both concurrently, gather the results | a result tells the truth about its own channel; every dispatch returns |
| Incident database (`A/database.py`) | `incidents`, `action_proposals`, and tables for corrections, runbook statistics, baselines | one transaction per method | unique ids; queries mean what their callers assume |
| Action approval (`A/approval.py`) | `action_proposals` | `should_propose_action`, `propose_action`, `resolve_proposal`, `check_timeout_escalation`, `group_pending_proposals` | no approval fatigue: refusals are final, cooldowns hold, two timeouts escalate once |
| Command executor (`A/executor.py`) | the running process group | `execute_command`, `run_diagnostics`, `execute_action` | every call ends, and ends what it started |
| Runbooks (`A/runbooks.py`) | none | load a directory, first match by alert type and severity | an alert gets a runbook that is for it, if there is one |
| Baselines (`A/baselines.py`) | `host_fingerprints` | a nightly job: query, percentiles, upsert | each row holds the percentiles of the latest data |
| Context fetcher (`R/context_fetcher.py`) | none | Docker's socket, two Prometheus queries per number | a snapshot says what was answered, and is flagged when an answer is missing |

How they interact. Alertmanager POSTs a group of alerts. The handler fetches the
context of each (Docker, Prometheus), then compares each with the agent's `incidents` table (read-only, other process), feeds the
survivors to the storm detector, and appends what is left to `alerts.jsonl`.
The agent polls that file from its durable offset, builds a context from
`incidents`, INSERTs a row, dispatches, and only then moves the offset. The
loop closes through the table: what the agent records is what the receiver's
deduplication sees. Approval and executor share the agent's database and host;
they, the runbooks and the baselines are called by nothing in the repository
yet, and their callers are external.

## 2. What is hard here

- A crash between the INSERT, the two sends and the offset write; a lost offset
  file; an exception in the middle of a batch, with the file handle ahead of
  the offset.
- The queue is read while it is written: half-visible lines, and lines glued to
  the remains of an append that never ended.
- The receiver decides on rows the agent has not written yet; Alertmanager
  repeats what was slow or failed, such as a POST whose context fetch raised.
- An HTTP request the client has given up on may still be carried out; one
  channel's exception must not become the other's.
- Identifiers with a resolution of one second, and without the host.
- Two sliding windows of different length, cleared by different bundles.
- Timeouts that race late answers; counts over rows that are rewritten.
- Process groups that fork, ignore SIGTERM and hold pipes while they are
  signalled.

`PROJECT.json` lists each of these at its line, with the properties about it.

## 3. Modules

| Module | Models | Notes |
|---|---|---|
| `AlertDelivery` | what queue and agent promise together | abstract specification: log, acknowledge, record, notify |
| `AlertProcessor` | the queue and `process_alerts_async` | implements `AlertDelivery` (`Delivers`) |
| `AlertProcessorProofs` | theorems about `AlertProcessor` | section 6 |
| `StormWindows` | the detector, as an operator on a record | used by `StormTracker` and `WebhookReceiver` |
| `StormWindowsProofs` | lemmas about those operators | used by `StormTrackerProofs` and `AlertPipelineProofs` |
| `StormTracker` | the detector fed with any stream, which it remembers | the stream is the reference definition |
| `StormTrackerProofs` | theorems about `StormTracker` | section 6 |
| `WebhookReceiver` | the handler, its detector and deduplication, Alertmanager | EXTENDS `StormWindows`; no behaviour of its own |
| `AlertPipeline` | the receiver and the agent on one queue and one table | EXTENDS `WebhookReceiver` |
| `AlertPipelineProofs` | theorems about `AlertPipeline` | section 6 |
| `Dispatch` | what a dispatch promises its caller | abstract specification |
| `Notifications` | `NotificationDispatcher`, both channels, the servers | implements `Dispatch` (`Dispatches`) |
| `NotificationsProofs` | theorems about `Notifications` | section 6 |
| `ContextFetcher` | `fetch_context_snapshot` | operators |
| `Runbooks` | `load_runbooks`, `match_runbook` | operators |
| `HostBaselines` | the nightly job and its table | state machine; percentiles by sorting, and by counting |
| `HostServices` | the three above, called in any way | EXTENDS them |
| `HostServicesProofs` | theorems about `HostServices` | section 6 |
| `ActionApproval` | proposals, answers, escalation, grouping | callers external |
| `ActionApprovalProofs` | theorems about `ActionApproval` | section 6 |
| `CommandExecutor` | `execute_command` in its loops, and the operating system's processes | |
| `CommandExecutorProofs` | theorems about `CommandExecutor` | section 6 |
| `MC...` | small instances: values for the CONSTANTS | |

Definitions named "Faulty variant" in a comment are plausible mistakes. They
are used by nothing; putting one in the place of the definition below it must
break the property that `PROJECT.json` names beside it.

**AlertProcessor.** The file is a sequence of pieces: a whole line, or the two
parts of an append that was cut (`head`/`tail`, or `body`/`newline`). Every byte
position the code stores is the end of a piece, so offsets count pieces.
`ReadsTo` is `readline`, `IsRecord` is "`json.loads` succeeds". `pc` is the
position in `process_alerts_async`: `OpenQueue` (read offset, open, seek),
`ReadBlank`/`ReadMalformed`/`ReadAlert`, `BuildContext`, `InsertIncident` or
`DuplicateIncident` (IntegrityError), one `Send` per channel of
`asyncio.gather` in any order, `WriteOffset`; `FailedCall` is every other
exception, which leaves the batch with the offset unmoved. `Crash` forgets what
is in memory; `LoseOffset` is the offset file missing or empty at start. A send
that fails is the same step as one that succeeds: the code catches the error,
logs it and goes on.

**WebhookReceiver.** One POST at a time: the handler does not yield between
reading the body and responding. `FetchContext` is the context of all alerts, in
one step; `FailContext` an exception that escapes it. `ProcessUnknown` is rule 1
of `should_process` and the lookup that fails open; `CompareWithLast` rules 2 to
5; `CheckStorms` phase 2, all pending alerts in one step (it touches nothing
another process sees); `AppendAlert` one line of phase 3; `FailAppend` an
exception of the append, which may leave the beginning of a line or all of it
but the newline; `Crash` an exit with docker's restart. `Raise` is what every
exception does: status 500, and the detector keeps what it counted. An id is
the pair of type and tick, as `_generate_event_id` makes it.

**AlertPipeline.** Adds the agent at a coarser grain than `AlertProcessor`:
`ReadNew` is a line up to its committed row, `Tell` the dispatch and the offset,
`ReadOther` a duplicate or malformed line, `AgentCrash` an exit between the two.
`fate` remembers what became of each piece of the queue, `answered` the alerts of
requests answered 200; both are history. `NothingElseIsLost` joins the ends:
once the agent has caught up, each of those alerts is covered by a line the
operator was told of, or by one that was glued to a cut append, whose id was
taken, or whose row was committed by an agent that then died (`Excused`). "Told"
is handed to the dispatch; what the channels make of it is `Notifications`.

**Notifications.** A send is `ready`, `waiting` for an answer, or `done` with an
error or none. `Post`, `Receive`, `Timeout`, `FailConnect` and `FailHeaders` are
the ways through `send`; requests live in `network` until a server answers or
they are lost, also after the client has given up. An embed is the lengths of
its parts: `Embed` follows `_build_embed`, `Truncate` cuts. `DiscordAccepts` has the
limits `discord.py` has as constants and those of Discord's that it does not
know (`Excessive`): 2048 characters for the footer, which is never cut, 25 fields,
which are never counted, and a name for each field. The title of ntfy is the set of kinds of characters in it.

**HostServices.** `last` holds the last call of the context fetcher or of the
runbooks with its arguments and result; the job of `HostBaselines` proceeds
metric by metric. A sample is the list of values a query returned, in any order.
`ComputePercentiles` sorts it and takes the code's indices, as integers
(`int(n * 0.95)` is `95 * n \div 100`: the product is never rounded past a whole
number for any length that a query returns); `Middle` and `LeastAbove` are the
definition it is compared with, by counting in the unsorted sample. The median
is kept doubled.

**ActionApproval.** `proposals` is the table in order of insertion. The functions
are synchronous and take no lock, and nothing in the repository calls them: the
model has one sequential caller, so that `Propose` is one step although
`propose_action` reads and inserts on two connections, and no other function is
called while a `notify_callback` runs (`call`). Two concurrent callers could both
find no earlier proposal; they are outside the model. `orderly`, chosen once per
behaviour, tells two kinds of callers apart: one that waits for the single
answer (or timeout) of a proposal and calls `check_timeout_escalation` after each
timeout before it proposes again, and one that calls any function at any time
and writes any valid outcome over any other, "suppressed" included
(`AnyOutcome`). `CheckTimeouts` is the committed suppression; the callback, if one
was given (`notify`), follows as a step of its own and returns (`Announce`) or raises
(`AnnounceFails`).

**CommandExecutor.** Each command has a leader and may have children; any may
ignore SIGTERM (children inherit that) and hold the output pipe. `doomed` are
processes a signal has been sent to and that have not ended yet. The executor's
steps are the system calls of `execute_command`: `Start`, `Communicate`,
`TimedOut`, `Terminate`, `GraceEnded`/`GraceExpired`, `Kill`, `Reap`.

**StormTracker.** Keeps the whole stream of alerts with times and verdicts;
the two `...StormsFound` properties recount each window from that stream, which
the detector, trimming and clearing its lists as it goes, must agree with.

## 4. Runs

Passing:

| Run | Shows | Bounds |
|---|---|---|
| `processor_safety` | `AgentInvariant` (inductive), `NotifiedAtMostOnce`, `RecordedBeforeNotified`, `OffsetBehindRecords`, `NoOvertaking`, `ContextExcludesSelf`, `OffsetNeverMovesBack`, and that `AlertDelivery` is implemented | three alerts, two of which share id and source; cut appends; one crash, one failed call, one lost offset; batches of 2 |
| `processor_liveness` | every intact line is recorded in the end | two alerts, two crashes, two failed calls, one lost offset, cut appends; batches of 2, so that a batch may end before the file (a cut append makes two lines) |
| `storm_windows` | the detector agrees with its definition over the history; lists stay short | two hosts, two types, the real thresholds 3 and 2, windows of 1 and 2 ticks, six alerts over four ticks, so that storms end, recur and overlap; hosts and types are symmetric |
| `pipeline` | every alert of an answered request is covered by a line at least as urgent, and by what the operator is told but for the known losses | two hosts, one type, two severities, requests of up to two alerts, two POSTs, two firings, one failure of the receiver and one crash of the agent, two ticks, cooldowns of 0 and 1, threshold 1 so that two alerts make a storm |
| `approval_rules` | cooldowns and groups for any sequential caller; for an orderly one refusals, the limit of two timeouts, the single escalation, and that escalation gives up only what went unanswered twice | two actions of one incident, two severities, three proposals, four ticks, days of two ticks (the text comparison crosses a day), one crash; actions are symmetric |
| `executor` | leaders are reaped, success is complete, all commands run, a timeout leaves only what ignores SIGTERM, terminable processes end | three commands (one locked), one child each |
| `notifications` | results tell the truth, channels are independent, what is cut fits, every dispatch returns; `Dispatch` is implemented | two dispatches of seven payloads: one long title, exactly at Discord's total, every text that is cut at or above its limit, 25 and 26 fields, a footer of 2048 and of 2049, a field without a name; servers that answer 200, 204 or 500, late or never |
| `host_services` | snapshots say what was answered and are flagged when an answer is missing, matches sound, baselines follow the data | every combination of answers for three clients; every subset and order of four runbook files, one of them broken, one with an unknown level; two hosts, two metrics, samples of 0 to 3, 20 and 21 values, in and out of order |

Violations, each a statement of the repository that the code does not keep
(section 7): `processor_crash_loss`, `receiver_id_clash`, `receiver_refire`,
`ntfy_headers`.

Why the bounds are enough. The agent's loop holds one alert at a time, and what
it leaves behind is an offset and a set of rows: an alert, its predecessor and
a duplicate exhibit every combination, and each fault needs to happen once
between any two steps. Losing the offset twice, or crashing twice, repeats the
same states; the theorems remove the bounds altogether for safety. A second
POST is needed for retries, a second firing for escalation; a third alert of a
request only repeats phase 1. Three proposals are two timeouts and the third
that must not come. Three commands suffice for one to linger while another runs
and a third is refused. A dispatch forgets the one before it but for requests
still under way, so that two show every overlap. p95 changes between 19 and 21
values, where its index leaves the maximum.

`CHECK_DEADLOCK FALSE` is set where the system may stop: the clock is bounded,
the last command has run. `AlertProcessor` runs are checked for deadlock: the
polling loop never stops.

## 5. Fairness and environment

- `processor_liveness`: `WF(AgentStep)`, because the event loop runs the agent's
  only task and every send has a timeout; `WF(Restart)`, because
  `docker-compose.yml` restarts the container. Nothing is assumed of the
  receiver: an append that is begun need not end. Faults and crashes are
  finitely many; without that a database that never answers again stops the
  agent, as it should.
- `executor`: `WF(Executor)`, its thread; `WF(Die)`, a process that has been sent
  a signal it does not ignore ends. No command is assumed to end by itself.
  `killpg` is permitted (the containers run as root).
- `notifications`: `WF(Client)`, the event loop; each request has its timeout.
  httpx's timeout is one per read, not per request: a server that trickles its
  answer for ever is assumed not to exist. Nothing else is assumed of servers.
- Timestamps: the container's clock is UTC and does not run backwards; no two
  proposals of one pair have the same microsecond.
- SQLite statements are atomic and durable once committed, rename is atomic.

## 6. Proofs

TLAPS checks, for all values of the constants, every safety invariant and every
action property that a passing run checks, and both refinements. The theorems
assume what the named ASSUMEs of the modules state, nothing else: bounds are
natural numbers (the batch limit at least 2, thresholds at least 1, real
cooldowns positive), severities are among the four there are, hosts are numbered
where a bundle picks the least, a directory and a list of metrics are finite.
Alerts, hosts, types, incidents, commands, children, payloads, texts and samples
are any, and so are the numbers of crashes, faults, retries and ticks.

Hardly any of the invariants is inductive as it stands. What had to be added is
below, by module; each strengthening names the reason why the property holds.

**AlertProcessorProofs.** That a channel is told at most once depends on what the
agent is in the middle of. `AgentInvariant` is the conjunction of

- `NotificationInv`: ids in the table are unique; who was told of is in it; and
  while a dispatch is under way, the alert's row is there and the sends to come
  have not been made. The last part is what makes a crash harmless: the row,
  once committed, turns every later attempt into an IntegrityError.
- `CursorInv`: all intact lines up to the offset are on record; the same holds
  up to the file handle, but for the alert in hand. This needs
  `ReadPassesNoIntactLine`: what `readline` returns is one intact line, or
  contains none. That lemma is where cut and glued appends are dealt with.
- `HistoryInv`: the context was read before the row was inserted, from rows with
  other ids.

From these follow `AtMostOnce`, `RecordedFirst`, `OffsetIsSafe`,
`OffsetMonotone`, `ContextIsEarlier`. `ToldInOrder` (`NoOvertaking`) needs
`OrderInv` besides: an alert is in the queue once, the two parts of a cut append
side by side, and a row was inserted when every intact line before it was on
record. `Refinement` shows that `AlertProcessor` implements `AlertDelivery`, one
lemma per kind of step.

**AlertPipelineProofs.** `PipelineInv` follows an alert from the POST to the
operator.

- `InHand`: each alert of the request in hand is still in the batch, or
  pending, or covered by something to append, or covered by the queue (`Held`).
  `DroppedIsHeld` is the case of deduplication: the row an alert was compared
  with is that of a record of the queue which covers it, as rows come from the
  queue (`RowsFromQueue`) and the five rules compare severities and ages.
  `CheckedCovers` is that of the detector, over the whole loop of phase 2.
- `AnsweredHeld`: what was answered 200 stays covered, as the queue and the
  table only grow.
- `FateKnown`: each whole line the agent has passed was told or is excused;
  `Inserted` says of a row's record that it was told, is being told, or that
  the agent has crashed.

`AnswersKept` is the step of `Respond` under `InHand`; `NoOtherLoss` is
`AnsweredHeld` with `FateKnown` when the queue is read to its end.

**StormTrackerProofs.** `HostsAsLogged`: for every instant that a later window can
begin at, a host's list has as many entries since then as the log has since the
host's last bundle. Counting for all such instants, not for the current window
only, is what makes it inductive: it says that the cleanup drops nothing a
later check counts. From it follows `SingleStorms`. For
`CrossStorms` the same is said of sets of hosts (`TypesAsLogged`), with
`OneEntryPerHost` and finiteness, since the code counts dictionary keys.
`StormWindowsProofs` has the facts about one check, also cited by the pipeline.

**ActionApprovalProofs.** `LastIsLatest` ties the query's order by time to the order
of insertion; it rests on `CooldownRespected` itself, which is inductive with
`Clocked` (no proposal is from the future). For orderly callers `SettledBefore`
says that all but the last proposal of a pair were answered, and none refused;
`SecondUnchecked` that a second timeout is the last row and still to be
checked, from which `UnansweredGivenUp` follows: the row a suppression overwrites
is that timeout; `AnnouncedIsGivenUp` that what was announced has a suppressed
row.
`StepKinds` reduces the steps to four effects on the table.
`GroupComplete` needs no invariant but that division into days is monotonic.

**NotificationsProofs.** `ResultsInv` ties each send that is over, and each result
returned, to the fate of its request (`Settled`): judged by the answer that
came, never posted, or given up. Requests are posted and answered once. From
it follow `SuccessDelivered` and `FailureOwn`; `RefusedForUnchecked` adds that
`Truncate` keeps what it cuts within its limit (`PartsFit`), whatever the text's
length, so that Discord refuses an embed for nothing but its footer, its number of
fields, a field without a name, or its total. `Implementation` maps the sends to those of `Dispatch`.

**HostServicesProofs.** The operators carry these theorems. `FirstValueTruthful` goes
through the loop over the queries; `LoadedFiles` and `MatchFinds` through those
of the runbooks. `PercentilesRight`: the values at the code's two
indices are the percentiles, for samples of every length; it rests
on `Ranked`, which says of each prefix of the sample how many of its values are
v at most, before and after sorting. `BaselineInv` (`RowsComputed`) carries it
to the table over nights that end halfway.

**CommandExecutorProofs.** `ExecutorInv` adds to `LeaderReaped` that commands not
reached have no processes, and, for a command reported successful, that its
pipe is closed and its leader ended with status zero. Processes without the
pipe cannot pass it on, so this is stable: `SuccessMeansComplete`.
`SurvivorInv` says of the group in hand, from the first signal on, what
`SurvivorsIgnoreTerm` says of the groups that timed out: each process is doomed
or ignores SIGTERM. Only a process that is not doomed can spawn, it therefore
ignores SIGTERM, and its child does too: `TimeoutEndsTheGroup`.

Loops in proofs. The loops of the code (the cleanup of a list, phase 2 over the
pending alerts, loading a directory, sorting) are recursive functions in the
model, and nothing is proved about them by an induction schema, which would take
an operator as its parameter. Instead each proof takes the least index at which
the claim fails, if any, and contradicts it with the one before
(`SmallestOf`): once to show that the recursive equation has a solution
(`KeepDefines`, `CheckingDefines`, `LoadDefines`, `SortDefines`), and once for
what the loop does. Two modules of proofs state `SmallestOf`, or that a function on
1..n is a sequence, each for itself, so that neither depends on the other.

Only model-checked: liveness (`EveryAlertRecorded`, `AllCommandsRun`,
`TerminableEnd`, `DispatchReturns`), which rests on fairness and ENABLED,
outside the prover's logic as used here; and the four runs of section 7 that
expect a violation, whose counterexamples are finite.

## 7. Divergences

Shown by a run:

1. `processor_crash_loss`. A crash between the INSERT and the sends: on restart
   the line is a duplicate and is skipped, so nobody is told. The specification
   promises that it is reprocessed rather than dropped.
2. `receiver_id_clash`. Ids hold the type and the second: the same alert of two
   hosts, or the bundle of a storm made in that second, is dropped as a
   duplicate by the agent.
3. `receiver_refire`. Nothing sets `resolved_at`, so rule 2 of `should_process`
   never applies: what was resolved and fires again within the cooldown is
   dropped.
4. `ntfy_headers`. Every title of ntfy contains an em dash, and httpx encodes
   headers as ASCII: the exception is captured as a failed send, and no message
   ever reaches ntfy, whatever the severity. (By httpx's source; the repository's
   tests replace its client.)

Seen while modelling, with no run of their own:

- Appends are buffered writes, not single ones as `server.py:27` says: a line read
  while half visible is skipped as malformed, and its rest as well; an append
  that fails leaves a beginning to which the next line is glued. The models
  contain both, and the properties about intact lines say what is kept.
- Only the last proposal decides `should_propose_action`. If an action is
  proposed again while the earlier proposal is pending, skipping the earlier one
  does not stop a third; `RefusedIsFinal` therefore needs the orderly caller.
- SIGKILL is sent only if the leader outlives SIGTERM: a child that ignores
  SIGTERM lives on, though `executor.py:41-42` speaks of the entire group.
  `SurvivorsIgnoreTerm` is what does hold.
- An exception that is no URLError (a timeout while reading, a dropped
  connection) or `int(nan)` leaves `fetch_context_snapshot`, and the whole POST is
  answered 500; webhook-receiver-spec.md speaks of "unavailable". A number nobody
  knows is left null, and a container Docker does not know is "unknown" without
  the fallback flag; Docker's chunked bodies are not decoded and read as
  unavailable.
- An append of which all but the newline was written is answered 500 and recorded
  all the same; the retry is then taken for a repeat.
- Discord's total of 6000 characters is defined and never enforced: parts that
  fit one by one may be refused together. Its limits of 2048 characters for the
  footer (built from incident, host and runbook id, and not cut) and of 25 fields
  are not known to `discord.py` at all (`RefusedForTheUnchecked`).
- `docs/hermes-implementation-plan.md:156` says that `build_hermes_context` is called
  after the DB insertion. `processor.py:122-127` calls it before ("query history
  *before* insert"), and `test_processor.py:263` expects an empty history; after
  the insertion an alert would count itself among the recent incidents, which is
  what `ContextExcludesSelf` excludes. The plan's wording is out of date.
- The gauge `hermes_alive` is set and never expires.
- `group_pending_proposals` compares `isoformat()` text ("T") with SQLite's
  `datetime()` (blank): a five-minute group holds every pending proposal of the
  day. The model compares as the code does; `GroupIsComplete` shows nothing is
  missed.
- `check_timeout_escalation` counts all timeouts, its docstring says consecutive
  ones; an action that succeeded may be proposed again after its cooldown.
- A suppression may be silent: `notify_callback` is optional and None by default
  (`approval.py:75`), it may raise, and a crash between the commit and the call
  leaves the escalation untold; each time the row is "suppressed" already and
  nothing calls again. `resolve_proposal` takes "suppressed" as well, without any
  callback. No property therefore claims that the operator is told, only that
  he is told at most once (`EscalatedOnce`).
- Outcomes are written over each other: a timeout over an operator's skip, if the
  two race, and `mark_action_suppressed` over whatever the last row has. Once a
  process died between a second timeout and its check, the next proposal, be it
  pending or approved, is what a later check overwrites. `OnlyUnansweredGivenUp`
  therefore needs the orderly caller and no crash.
- A single-host bundle takes the severity of its last alert; the plan says
  "critical if any is critical".
- Alertmanager's repeats of an outage older than the cooldown are processed
  each time, as new incidents: the age is counted from the outage's start.
- A status of 204 is accepted by `discord.py` and its empty body parsed, which
  reports a delivered message as failed. `is_slashing_risk` is never set.
- `INCIDENTS_DB_PATH` is not set for the receiver in `docker-compose.yml`: as
  deployed, deduplication lets everything through. The models set it, so that
  deduplication is exercised.
- Resolved alerts are queued and recorded as incidents of their own.
- The documents describe a rotation of the queue; no code does it.

## 8. Not modelled

- Texts, but for the lengths of an embed and the characters of a header; YAML, but
  for a file that does not load; the queries' spelling and the host label that
  `update_host_baselines` adds to some; NaN samples, whose sorted order is
  arbitrary and which SQLite stores as NULL.
- Corrections, runbook statistics and `update_incident`: single statements without
  a caller. `update_message` of `discord.py` is a stub.
- `_parse_timeout`; the length of timeouts: any command may time out at any time.
- A blank line as such: none of the writers produces one; the remaining newline
  of a cut append is modelled and read as one.
- Rejected payloads: they change a counter only.

## 9. Plan

Built, in order: agent and queue with their abstract specification and
proofs; detector; receiver; approval; executor and its proofs; the composed
pipeline; notification channels and their abstract specification; host services;
then the proofs of order, approval, channels, detector, pipeline and host
services.

What could follow:

1. A refinement from the agent's side of `AlertPipeline` to `AlertDelivery`, which
   would join the coarse agent of the pipeline to the detailed one by proof and
   not by reading alone; `Tell` would have to become two steps, as it notifies and
   acknowledges at once.
2. A fine-grained model of the receiver's appends in the pipeline, where a line
   is read while half visible; today that is in `AlertProcessor` only.
3. `_parse_timeout` and `update_incident`, once something calls them.
