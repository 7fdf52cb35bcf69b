--------------------------- MODULE AlertProcessor ---------------------------
(***************************************************************************)
(* The queue between the webhook receiver and the Hermes agent, and the    *)
(* agent's main loop, process_alerts_async: read a line of alerts.jsonl,   *)
(* look up its history, INSERT it into SQLite, dispatch it to the          *)
(* notification channels, and only then move the durable offset.           *)
(*                                                                         *)
(* The file is a sequence of pieces.  An append that reaches the disk in   *)
(* one go is a "line".  An append that is cut leaves a first piece (a      *)
(* "head", or the whole record without its newline, a "body") and, when    *)
(* the writer gets to finish, a second one ("tail" or "newline").  Offsets *)
(* count pieces: every byte position the code ever stores is the end of    *)
(* a piece.                                                                *)
(***************************************************************************)
EXTENDS Naturals, Sequences

CONSTANTS
    Alert,         \* the alerts that may be queued; an alert has an id, a
                   \* severity and a source (its alert_type and host)
    Limit,         \* lines read by one call of process_alerts_async (100)
    TornWrites,    \* may an append be cut (crash, full disk, page boundary)?
    MaxCrashes,    \* bound on crashes of the agent
    MaxFaults,     \* bound on failed SQLite calls and failed offset writes
    MaxOffsetLoss  \* bound on losses of the offset file

Severities == {"low", "medium", "high", "critical"}
Channels   == {"discord", "ntfy"}
NoAlert    == [id |-> "none", severity |-> "low", source |-> "none"]

ASSUME AlertAssumption == \A a \in Alert : a.severity \in Severities
ASSUME LimitAssumption == Limit \in Nat /\ Limit >= 2
ASSUME TornAssumption  == TornWrites \in BOOLEAN
ASSUME BoundAssumption == /\ MaxCrashes \in Nat
                          /\ MaxFaults \in Nat
                          /\ MaxOffsetLoss \in Nat

VARIABLES
    queue,     \* alerts.jsonl, a sequence of pieces
    writing,   \* the second piece of an append that is under way, or <<>>
    offset,    \* alerts.jsonl.offset
    incidents, \* the rows of SQLite's incidents table
    pc,        \* where the agent is
    cursor,    \* position of the agent's file handle
    cur,       \* the alert in hand
    history,   \* the incidents its context was built from
    budget,    \* iterations left of this call's for loop
    toSend,    \* channels whose send has not completed yet
    attempts,  \* attempts[a][ch]: sends of alert a on channel ch
    crashes, faults, offsetLosses  \* the bounded counters

agentVars == <<cursor, cur, history, budget, toSend>>
faultVars == <<crashes, faults, offsetLosses>>
vars == <<queue, writing, offset, incidents, pc, agentVars, attempts, faultVars>>

Parts == {"line", "head", "tail", "body", "newline"}
Piece == [alert : Alert, part : Parts]
PCs   == {"down", "idle", "read", "context", "insert", "dispatch", "commit", "skip"}

EndsLine(piece) == piece.part \in {"line", "tail", "newline"}

Init ==
    /\ queue = <<>>
    /\ writing = <<>>
    /\ offset = 0
    /\ incidents = {}
    /\ pc = "idle"
    /\ cursor = 0
    /\ cur = NoAlert
    /\ history = {}
    /\ budget = 0
    /\ toSend = {}
    /\ attempts = [a \in Alert |-> [ch \in Channels |-> 0]]
    /\ crashes = 0 /\ faults = 0 /\ offsetLosses = 0

-----------------------------------------------------------------------------
(* The other side of the queue: QueueWriter.append, called by one handler  *)
(* at a time.                                                              *)

NotQueued(a) == \A i \in DOMAIN queue : queue[i].alert # a

\* The whole line reaches the file at once.
AppendLine(a) ==
    /\ writing = <<>>
    /\ NotQueued(a)
    /\ queue' = Append(queue, [alert |-> a, part |-> "line"])
    /\ UNCHANGED <<writing, offset, incidents, pc, agentVars, attempts, faultVars>>

\* Only the beginning of the line is visible so far.
AppendCut(a, first, second) ==
    /\ TornWrites
    /\ writing = <<>>
    /\ NotQueued(a)
    /\ queue' = Append(queue, [alert |-> a, part |-> first])
    /\ writing' = <<[alert |-> a, part |-> second]>>
    /\ UNCHANGED <<offset, incidents, pc, agentVars, attempts, faultVars>>

\* The rest of the line becomes visible.
AppendRest ==
    /\ writing # <<>>
    /\ queue' = Append(queue, Head(writing))
    /\ writing' = <<>>
    /\ UNCHANGED <<offset, incidents, pc, agentVars, attempts, faultVars>>

\* The receiver dies, or its disk is full: the rest never arrives.
AbandonAppend ==
    /\ writing # <<>>
    /\ writing' = <<>>
    /\ UNCHANGED <<queue, offset, incidents, pc, agentVars, attempts, faultVars>>

Receiver ==
    \/ \E a \in Alert : \/ AppendLine(a)
                        \/ AppendCut(a, "head", "tail")
                        \/ AppendCut(a, "body", "newline")
    \/ AppendRest
    \/ AbandonAppend

-----------------------------------------------------------------------------
(* Reading a line.                                                         *)

\* f.readline() at position p returns the pieces p+1..e: up to the first
\* newline, or up to the end of the file.
ReadsTo(p, e) ==
    /\ p < e /\ e <= Len(queue)
    /\ \A k \in (p + 1)..(e - 1) : ~EndsLine(queue[k])
    /\ EndsLine(queue[e]) \/ e = Len(queue)

\* json.loads accepts the pieces p+1..e: they are one whole record.
IsRecord(p, e) ==
    \/ e = p + 1 /\ queue[e].part \in {"line", "body"}
    \/ e = p + 2 /\ queue[p + 1].part = "head" /\ queue[e].part = "tail"
    \/ e = p + 2 /\ queue[p + 1].part = "body" /\ queue[e].part = "newline"

IsBlank(p, e) == e = p + 1 /\ queue[e].part = "newline"

-----------------------------------------------------------------------------
(* The agent.                                                              *)

\* Faulty variant: the file is read from its beginning, f.seek is missing.
OpenQueueWithoutSeek ==
    /\ pc = "idle"
    /\ pc' = "read"
    /\ cursor' = 0
    /\ budget' = Limit
    /\ UNCHANGED <<queue, writing, offset, incidents, cur, history, toSend, attempts, faultVars>>

\* Entry of process_alerts_async: read_offset, open, seek.
OpenQueue ==
    /\ pc = "idle"
    /\ pc' = "read"
    /\ cursor' = offset
    /\ budget' = Limit
    /\ UNCHANGED <<queue, writing, offset, incidents, cur, history, toSend, attempts, faultVars>>

\* End of the file, or `limit` lines done: return to the polling loop.
EndBatch ==
    /\ pc = "read"
    /\ budget = 0 \/ cursor = Len(queue)
    /\ pc' = "idle"
    /\ UNCHANGED <<queue, writing, offset, incidents, agentVars, attempts, faultVars>>

\* Faulty variant: `limit` is not looked at.
ReadLineWithoutLimit(e) ==
    /\ pc = "read"
    /\ ReadsTo(cursor, e)
    /\ cursor' = e
    /\ budget' = budget - 1
    /\ UNCHANGED <<queue, writing, offset, incidents, history, toSend, attempts, faultVars>>

\* Faulty variant: the offset is updated when a line is read.
ReadLineMovesOffset(e) ==
    /\ pc = "read"
    /\ budget > 0
    /\ ReadsTo(cursor, e)
    /\ cursor' = e
    /\ offset' = e
    /\ budget' = budget - 1
    /\ UNCHANGED <<queue, writing, incidents, history, toSend, attempts, faultVars>>

ReadLine(e) ==
    /\ pc = "read"
    /\ budget > 0
    /\ ReadsTo(cursor, e)
    /\ cursor' = e
    /\ budget' = budget - 1
    /\ UNCHANGED <<queue, writing, offset, incidents, history, toSend, attempts, faultVars>>

\* A blank line is passed over; the offset stays where it is.
ReadBlank(e) == ReadLine(e) /\ IsBlank(cursor, e) /\ UNCHANGED <<pc, cur>>

\* JSONDecodeError: the offset will be moved past the line.
ReadMalformed(e) ==
    /\ ReadLine(e)
    /\ ~IsBlank(cursor, e) /\ ~IsRecord(cursor, e)
    /\ pc' = "skip"
    /\ UNCHANGED cur

ReadAlert(e) ==
    /\ ReadLine(e)
    /\ IsRecord(cursor, e)
    /\ cur' = queue[e].alert
    /\ pc' = "context"

\* Faulty variant: `continue` where the code says `break`.
FailAndContinue ==
    /\ faults < MaxFaults
    /\ faults' = faults + 1
    /\ pc' = "read"
    /\ UNCHANGED <<queue, writing, offset, incidents, agentVars, attempts, crashes, offsetLosses>>

\* Any exception but IntegrityError leaves the for loop, offset unmoved.
\* An OSError of write_offset in a handler leaves process_alerts_async and
\* is caught by the polling loop, which comes to the same.
Fail ==
    /\ faults < MaxFaults
    /\ faults' = faults + 1
    /\ pc' = "idle"
    /\ UNCHANGED <<queue, writing, offset, incidents, agentVars, attempts, crashes, offsetLosses>>

SameSource(a) == {r \in incidents : r.source = a.source}
Recorded(a)   == \E r \in incidents : r.id = a.id

\* build_hermes_context: reads only, before the insert.
BuildContext ==
    /\ pc = "context"
    /\ history' = SameSource(cur)
    /\ pc' = "insert"
    /\ UNCHANGED <<queue, writing, offset, incidents, cursor, cur, budget, toSend, attempts, faultVars>>

\* CHANNEL_ROUTING.  _build_payload never sets is_slashing_risk.
Routing(severity) == IF severity = "critical" THEN {"discord", "ntfy"} ELSE {"discord"}

\* Faulty variant: INSERT OR IGNORE, no IntegrityError.
InsertOrIgnore ==
    /\ pc = "insert"
    /\ incidents' = IF Recorded(cur) THEN incidents ELSE incidents \cup {cur}
    /\ toSend' = Routing(cur.severity)
    /\ pc' = "dispatch"
    /\ UNCHANGED <<queue, writing, offset, cursor, cur, history, budget, attempts, faultVars>>

\* Faulty variant: conn.commit() is missing.
InsertWithoutCommit ==
    /\ pc = "insert"
    /\ ~Recorded(cur)
    /\ toSend' = Routing(cur.severity)
    /\ pc' = "dispatch"
    /\ UNCHANGED <<queue, writing, offset, incidents, cursor, cur, history, budget, attempts, faultVars>>

\* Faulty variant: the context is built after the insert.
InsertBeforeContext ==
    /\ pc = "insert"
    /\ ~Recorded(cur)
    /\ incidents' = incidents \cup {cur}
    /\ history' = SameSource(cur) \cup {cur}
    /\ toSend' = Routing(cur.severity)
    /\ pc' = "dispatch"
    /\ UNCHANGED <<queue, writing, offset, cursor, cur, budget, attempts, faultVars>>

\* db.insert_incident commits; dispatch creates one send per channel.
InsertIncident ==
    /\ pc = "insert"
    /\ ~Recorded(cur)
    /\ incidents' = incidents \cup {cur}
    /\ toSend' = Routing(cur.severity)
    /\ pc' = "dispatch"
    /\ UNCHANGED <<queue, writing, offset, cursor, cur, history, budget, attempts, faultVars>>

\* Faulty variant: IntegrityError is treated as any other exception.
DuplicateIsRetried ==
    /\ pc = "insert"
    /\ Recorded(cur)
    /\ pc' = "idle"
    /\ UNCHANGED <<queue, writing, offset, incidents, agentVars, attempts, faultVars>>

\* sqlite3.IntegrityError: the id is taken.
DuplicateIncident ==
    /\ pc = "insert"
    /\ Recorded(cur)
    /\ pc' = "skip"
    /\ UNCHANGED <<queue, writing, offset, incidents, agentVars, attempts, faultVars>>

\* One send of asyncio.gather completes.  A channel that fails is captured
\* in its NotificationResult and logged: the control flow is the same.
Send(ch) ==
    /\ pc = "dispatch"
    /\ ch \in toSend
    /\ toSend' = toSend \ {ch}
    /\ attempts' = [attempts EXCEPT ![cur][ch] = @ + 1]
    /\ pc' = IF toSend' = {} THEN "commit" ELSE "dispatch"
    /\ UNCHANGED <<queue, writing, offset, incidents, cursor, cur, history, budget, faultVars>>

\* write_offset(f.tell()), by rename: before it the old offset, after it the new.
WriteOffset ==
    /\ pc \in {"commit", "skip"}
    /\ offset' = cursor
    /\ pc' = "read"
    /\ UNCHANGED <<queue, writing, incidents, agentVars, attempts, faultVars>>

FailedCall == pc \in {"context", "insert", "commit", "skip"} /\ Fail

AgentStep ==
    \/ OpenQueue
    \/ EndBatch
    \/ \E e \in 1..Len(queue) : ReadBlank(e) \/ ReadMalformed(e) \/ ReadAlert(e)
    \/ BuildContext
    \/ InsertIncident
    \/ DuplicateIncident
    \/ \E ch \in Channels : Send(ch)
    \/ WriteOffset

-----------------------------------------------------------------------------
(* Crashes of the agent and of its volume.                                 *)

\* Everything the agent holds in memory is gone.
Crash ==
    /\ pc # "down"
    /\ crashes < MaxCrashes
    /\ crashes' = crashes + 1
    /\ pc' = "down"
    /\ cursor' = 0 /\ cur' = NoAlert /\ history' = {} /\ budget' = 0 /\ toSend' = {}
    /\ UNCHANGED <<queue, writing, offset, incidents, attempts, faults, offsetLosses>>

Restart ==
    /\ pc = "down"
    /\ pc' = "idle"
    /\ UNCHANGED <<queue, writing, offset, incidents, agentVars, attempts, faultVars>>

\* The offset file disappears or is empty: read_offset answers 0.
LoseOffset ==
    /\ pc = "down"
    /\ offsetLosses < MaxOffsetLoss
    /\ offsetLosses' = offsetLosses + 1
    /\ offset' = 0
    /\ UNCHANGED <<queue, writing, incidents, pc, agentVars, attempts, crashes, faults>>

Next == Receiver \/ AgentStep \/ FailedCall \/ Crash \/ Restart \/ LoseOffset

Spec == Init /\ [][Next]_vars

\* The event loop keeps running the agent, and docker restarts it; nothing
\* is assumed of the receiver or of the faults, which are finitely many.
FairSpec == Spec /\ WF_vars(AgentStep) /\ WF_vars(Restart)

-----------------------------------------------------------------------------
(* The queue as AlertDelivery sees it: a log of alerts, each marked whole or *)
(* damaged when it was appended.                                           *)

\* A piece that is a line of its own: whole, and not glued to a cut append.
Intact(i) ==
    /\ queue[i].part = "line"
    /\ i > 1 => EndsLine(queue[i - 1])

LogOfQueue == [i \in DOMAIN queue |-> [alert |-> queue[i].alert, whole |-> Intact(i)]]

Delivery == INSTANCE AlertDelivery
                WITH log <- LogOfQueue, acked <- offset, records <- incidents

\* The agent and its queue implement the delivery of alerts.
Delivers == Delivery!Spec

-----------------------------------------------------------------------------
(* Properties.                                                             *)

TypeOK ==
    /\ queue \in Seq(Piece)
    /\ writing = <<>> \/ \E a \in Alert, p \in {"tail", "newline"} :
                            writing = <<[alert |-> a, part |-> p]>>
    /\ offset \in 0..Len(queue)
    /\ incidents \in SUBSET Alert
    /\ pc \in PCs
    /\ cursor \in 0..Len(queue)
    /\ cur \in Alert \cup {NoAlert}
    /\ pc \in {"context", "insert", "dispatch", "commit"} => cur \in Alert
    /\ history \in SUBSET Alert
    /\ budget \in 0..Limit
    /\ toSend \in SUBSET Channels
    /\ attempts \in [Alert -> [Channels -> Nat]]
    /\ crashes \in Nat /\ faults \in Nat /\ offsetLosses \in Nat

\* No operator is told twice: over crashes, retries and a lost offset file,
\* at most one send per channel is ever made for an incident id.
NotifiedAtMostOnce ==
    \A ch \in Channels, a, b \in Alert :
        /\ attempts[a][ch] <= 1
        /\ (a.id = b.id /\ attempts[a][ch] > 0 /\ attempts[b][ch] > 0) => a = b

\* Nothing is told that is not on record: the incident whose notification
\* went out can be found in the database.
RecordedBeforeNotified ==
    \A a \in Alert, ch \in Channels : attempts[a][ch] > 0 => a \in incidents

\* The durable offset never passes an intact line whose id is not on record.
OffsetBehindRecords ==
    \A i \in 1..offset : Intact(i) => Recorded(queue[i].alert)

\* Alerts are told in the order they were queued: when one has been told,
\* every intact line before it is on record.
NoOvertaking ==
    \A i, j \in DOMAIN queue :
        (i < j /\ Intact(i) /\ \E ch \in Channels : attempts[queue[j].alert][ch] > 0)
            => Recorded(queue[i].alert)

\* The context an alert is dispatched with never counts the alert itself
\* among its recent incidents.  The code and its test build the context before
\* the INSERT; docs/hermes-implementation-plan.md:156 says after it.
ContextExcludesSelf ==
    pc = "dispatch" => \A r \in history : r.id # cur.id

\* The offset moves back only when its file is lost.
OffsetNeverMovesBack ==
    [][offset' >= offset \/ offsetLosses' > offsetLosses]_vars

\* Every intact line is recorded in the end, however many (finitely many)
\* crashes, failed calls and lost offsets come between.
EveryAlertRecorded ==
    \A a \in Alert :
        (\E i \in DOMAIN queue : Intact(i) /\ queue[i].alert = a) ~> Recorded(a)

\* No incident is told to one channel of its route only, or to none, and
\* then passed over: what the offset has passed has been told in full.
PassedIsNotified ==
    \A i \in 1..offset :
        Intact(i) => \A ch \in Routing(queue[i].alert.severity) :
                        attempts[queue[i].alert][ch] > 0

-----------------------------------------------------------------------------
(* The inductive strengthening of the invariants above.                    *)

\* Every intact line among the first p pieces is on record.
Done(p) == \A i \in 1..p : Intact(i) => Recorded(queue[i].alert)

\* Ids are unique in the table, and the sends still to make of the alert in
\* hand have not been made: its row is the one this call inserted.
NotificationInv ==
    /\ \A r, s \in incidents : r.id = s.id => r = s
    /\ RecordedBeforeNotified
    /\ \A a \in Alert, ch \in Channels : attempts[a][ch] <= 1
    /\ pc = "dispatch" => /\ cur \in incidents
                          /\ \A ch \in toSend : attempts[cur][ch] = 0

\* The file handle is ahead of the offset, and what lies between is done,
\* but for the alert in hand.
CursorInv ==
    /\ Done(offset)
    /\ pc \notin {"down", "idle"} => offset <= cursor
    /\ pc \in {"read", "skip", "dispatch", "commit"} => Done(cursor)
    /\ pc \in {"context", "insert"} =>
           /\ \E i \in 1..Len(queue) : queue[i].alert = cur
           /\ \A i \in 1..cursor : Intact(i) => Recorded(queue[i].alert) \/ queue[i].alert = cur

\* The context was read from rows that were there before the insert.
HistoryInv ==
    /\ pc = "insert" => history \subseteq incidents
    /\ ContextExcludesSelf

\* Preserved by every step: the facts from which the theorems follow.
AgentInvariant == TypeOK /\ NotificationInv /\ CursorInv /\ HistoryInv
=============================================================================
