--------------------------- MODULE AlertPipeline ---------------------------
(***************************************************************************)
(* The whole way of an alert: the webhook receiver and the Hermes agent on *)
(* one queue and one incidents table.  The agent reads the queue line by   *)
(* line, INSERTs a row and then tells the operator; the receiver compares  *)
(* with the rows and appends to the queue, and either may fail between     *)
(* any two steps.                                                          *)
(*                                                                         *)
(* The agent is AlertProcessor at a coarser grain: reading a line up to    *)
(* the committed row is one step, the sends and the offset are another.    *)
(* `fate` remembers what became of each piece of the queue; its length is  *)
(* the agent's offset.                                                     *)
(***************************************************************************)
EXTENDS WebhookReceiver

VARIABLES
    fate,      \* what the agent did with the pieces it has passed
    telling,   \* is the row of the next piece committed, and not told yet?
    crashes,   \* crashes of the agent
    answered   \* history: the alerts of the requests answered with 200

agentVars == <<fate, telling, crashes>>
vars == <<receiverVars, agentVars, answered>>

Init ==
    /\ ReceiverInit
    /\ fate = <<>>
    /\ telling = FALSE
    /\ crashes = 0
    /\ answered = {}

-----------------------------------------------------------------------------
(* The agent.  insert_incident leaves resolved_at NULL, and nothing in the *)
(* code ever calls update_incident to set it.                              *)

Row(alert) ==
    [id |-> alert.id, type |-> alert.type, host |-> alert.host,
     severity |-> alert.severity, fired_at |-> alert.fired_at, resolved |-> FALSE]

IdTaken(id) == \E r \in rows : r.id = id

Offset == Len(fate)

\* f.readline() returns the next pieces up to the first newline, or all.
ReadsTo(e) ==
    /\ Offset < e /\ e <= Len(queue)
    /\ \A k \in (Offset + 1)..(e - 1) : queue[k].part # "line"
    /\ queue[e].part = "line" \/ e = Len(queue)

\* json.loads accepts the line: it is one record, with or without a newline.
IsRecord(e) == e = Offset + 1 /\ queue[e].part # "head"

\* An alert with a new id: its row is committed, the sends begin.
ReadNew(e) ==
    /\ ReadsTo(e) /\ IsRecord(e)
    /\ ~IdTaken(queue[e].alert.id)
    /\ rows' = rows \cup {Row(queue[e].alert)}
    /\ telling' = TRUE
    /\ UNCHANGED <<fate, crashes>>

\* sqlite3.IntegrityError, and JSONDecodeError: the offset passes the line.
ReadOther(e) ==
    /\ ReadsTo(e)
    /\ ~IsRecord(e) \/ IdTaken(queue[e].alert.id)
    /\ fate' = fate \o [k \in 1..(e - Offset) |->
                            IF IsRecord(e) THEN "duplicate" ELSE "malformed"]
    /\ UNCHANGED <<rows, telling, crashes>>

\* dispatch has returned, the offset is written.
Tell ==
    /\ telling
    /\ fate' = Append(fate, "told")
    /\ telling' = FALSE
    /\ UNCHANGED <<rows, crashes>>

\* Faulty variant: after a restart the agent reads on from the end of the file.
AgentCrashSkipsToEnd ==
    /\ telling
    /\ crashes < MaxFailures
    /\ crashes' = crashes + 1
    /\ telling' = FALSE
    /\ fate' = fate \o [k \in 1..(Len(queue) - Offset) |-> "skipped"]
    /\ UNCHANGED rows

\* The agent dies before the offset is written.
AgentCrash ==
    /\ telling
    /\ crashes < MaxFailures
    /\ crashes' = crashes + 1
    /\ telling' = FALSE
    /\ UNCHANGED <<rows, fate>>

AgentStep ==
    \/ ~telling /\ \E e \in 1..Len(queue) : ReadNew(e) \/ ReadOther(e)
    \/ Tell
    \/ AgentCrash

-----------------------------------------------------------------------------

\* The handler's response with status 200.
IsAnswer == pc = "append" /\ pc' = "idle" /\ failures' = failures

Next ==
    \/ /\ ReceiverNext
       /\ answered' = IF IsAnswer THEN answered \cup ToSet(request) ELSE answered
       /\ UNCHANGED agentVars
    \/ /\ AgentStep
       /\ UNCHANGED <<now, envVars, handlerVars, queue, posts, failures, answered>>

Spec == Init /\ [][Next]_vars

-----------------------------------------------------------------------------
(* Properties.                                                             *)

Incident == [id : (AlertType \cup {"mixed"}) \X Time,
             type : AlertType \cup {"storm_single_host", "storm_cross_host"}, host : Host,
             severity : DOMAIN SeverityOrder, fired_at : Time \cup {NoTime}, resolved : {FALSE}]

PipelineTypeOK ==
    /\ TypeOK
    /\ rows \in SUBSET Incident
    /\ fate \in Seq({"told", "duplicate", "malformed"})
    /\ telling \in BOOLEAN
    /\ Offset \in 0..Len(queue)
    /\ telling => Offset < Len(queue) /\ Row(queue[Offset + 1].alert) \in rows
    /\ crashes \in 0..MaxFailures
    /\ \A r, other \in rows : r.id = other.id => r = other

\* The ways in which the agent may pass a record without telling it: it was
\* glued to an append that was cut, its id was taken by an earlier one, or
\* the agent died with its row committed.
Excused(i) ==
    \/ fate[i] = "malformed" /\ i > 1 /\ queue[i - 1].part # "line"
    \/ fate[i] = "duplicate" /\ \E k \in 1..(i - 1) : queue[k].alert.id = queue[i].alert.id
    \/ crashes > 0 /\ Row(queue[i].alert) \in rows

\* Once the agent has caught up, every alert that Alertmanager was told is in
\* good hands is covered by a record the operator was told of, or by one lost
\* in a way that is known: nothing else loses an alert between the two.
NothingElseIsLost ==
    (Offset = Len(queue) /\ ~telling) =>
        \A alert \in answered : \E i \in DOMAIN fate :
            /\ queue[i].part # "head"
            /\ Covers(queue[i].alert, alert)
            /\ fate[i] = "told" \/ Excused(i)

\* Every line the agent has consumed is on record: none was taken for the
\* duplicate of another.
ConsumedIsRecorded ==
    \A i \in DOMAIN fate : fate[i] # "malformed" => Row(queue[i].alert) \in rows
=============================================================================
