----------------------- MODULE AlertProcessorProofs -----------------------
(* Proofs about AlertProcessor, for any set of alerts and any bounds. *)
EXTENDS AlertProcessor, SequenceTheorems, TLAPS

USE DEF Parts, Piece, PCs, Severities, Channels

\* CHANNEL_ROUTING names no channel but the two there are.
LEMMA RoutingType == \A s \in Severities : Routing(s) \subseteq Channels
BY DEF Routing

\* The placeholder for no alert in hand has a severity of the table.
LEMMA NoAlertSeverity == NoAlert.severity \in Severities
BY DEF NoAlert

\* What the queue holds are pieces, each of an alert.
LEMMA PieceOfQueue ==
    ASSUME queue \in Seq(Piece), NEW i \in 1..Len(queue)
    PROVE  queue[i] \in Piece /\ queue[i].alert \in Alert /\ queue[i].part \in Parts
<1>1. \A S : \A s \in Seq(S) : \A k \in 1..Len(s) : s[k] \in S
  OBVIOUS
<1> HIDE DEF Piece
<1>2. queue[i] \in Piece
  BY <1>1
<1> QED
  BY <1>2 DEF Piece

-----------------------------------------------------------------------------
(* Type correctness. *)

\* The program starts with its variables well typed.
LEMMA TypeInit == Init => TypeOK
BY LimitAssumption DEF Init, TypeOK

\* Every step keeps every variable's type.
LEMMA TypeNext == TypeOK /\ [Next]_vars => TypeOK'
<1> SUFFICES ASSUME TypeOK, [Next]_vars PROVE TypeOK'
  OBVIOUS
<1> USE DEF TypeOK, agentVars, faultVars
<1>1. ASSUME NEW a \in Alert, AppendLine(a) PROVE TypeOK'
  BY <1>1 DEF AppendLine
<1>2. ASSUME NEW a \in Alert, NEW first \in Parts, NEW second \in {"tail", "newline"},
             AppendCut(a, first, second)
      PROVE  TypeOK'
  BY <1>2 DEF AppendCut
<1>3. ASSUME AppendRest PROVE TypeOK'
  BY <1>3 DEF AppendRest
<1>4. ASSUME AbandonAppend PROVE TypeOK'
  BY <1>4 DEF AbandonAppend
<1>5. ASSUME OpenQueue PROVE TypeOK'
  BY <1>5, LimitAssumption DEF OpenQueue
<1>6. ASSUME EndBatch PROVE TypeOK'
  BY <1>6 DEF EndBatch
<1>7. ASSUME NEW e \in 1..Len(queue), ReadBlank(e) \/ ReadMalformed(e)
      PROVE  TypeOK'
  <2>1. ReadLine(e) /\ cur' = cur /\ (pc' = "read" \/ pc' = "skip")
    BY <1>7 DEF ReadBlank, ReadMalformed, ReadLine
  <2>2. QED
    BY <2>1, LimitAssumption DEF ReadLine
<1>8. ASSUME NEW e \in 1..Len(queue), ReadAlert(e) PROVE TypeOK'
  <2>1. queue[e].alert \in Alert
    BY PieceOfQueue
  <2>2. cur' \in Alert
    BY <1>8, <2>1 DEF ReadAlert
  <2>3. QED
    BY <1>8, <2>2, LimitAssumption DEF ReadAlert, ReadLine
<1>9. ASSUME BuildContext PROVE TypeOK'
  BY <1>9 DEF BuildContext, SameSource
<1>10. ASSUME InsertIncident PROVE TypeOK'
  BY <1>10, RoutingType, AlertAssumption DEF InsertIncident
<1>11. ASSUME DuplicateIncident PROVE TypeOK'
  BY <1>11 DEF DuplicateIncident
<1>12. ASSUME NEW ch \in Channels, Send(ch) PROVE TypeOK'
  BY <1>12 DEF Send
<1>13. ASSUME WriteOffset PROVE TypeOK'
  BY <1>13 DEF WriteOffset
<1>14. ASSUME FailedCall PROVE TypeOK'
  BY <1>14 DEF FailedCall, Fail
<1>15. ASSUME Crash PROVE TypeOK'
  BY <1>15, LimitAssumption DEF Crash
<1>16. ASSUME Restart PROVE TypeOK'
  BY <1>16 DEF Restart
<1>17. ASSUME LoseOffset PROVE TypeOK'
  BY <1>17 DEF LoseOffset
<1>18. ASSUME UNCHANGED vars PROVE TypeOK'
  BY <1>18 DEF vars
<1>19. QED
  BY <1>1, <1>2, <1>3, <1>4, <1>5, <1>6, <1>7, <1>8, <1>9, <1>10, <1>11, <1>12,
     <1>13, <1>14, <1>15, <1>16, <1>17, <1>18
  DEF Next, Receiver, AgentStep

\* Every variable keeps its type, and the agent past a successful read has
\* an alert in hand.
THEOREM TypeCorrect == Spec => []TypeOK
<1>1. QED
  BY TypeInit, TypeNext, PTL DEF Spec

-----------------------------------------------------------------------------
(* Notifications. *)

\* At the start nothing is recorded and nothing has been sent.
LEMMA NotificationInit == Init => NotificationInv
BY DEF Init, NotificationInv, RecordedBeforeNotified

\* No step sends twice, or sends what is not on record: only the insert of a
\* new id leads to the dispatch.
LEMMA NotificationNext ==
    TypeOK /\ NotificationInv /\ [Next]_vars => NotificationInv'
<1> SUFFICES ASSUME TypeOK, NotificationInv, [Next]_vars PROVE NotificationInv'
  OBVIOUS
<1> USE DEF NotificationInv, RecordedBeforeNotified
\* Steps that leave the table and the sends alone and start no dispatch.
<1>1. ASSUME UNCHANGED <<incidents, attempts>>, pc' # "dispatch" PROVE NotificationInv'
  BY <1>1
<1>2. ASSUME UNCHANGED <<incidents, attempts, pc, cur, toSend>> PROVE NotificationInv'
  BY <1>2
<1>3. ASSUME InsertIncident PROVE NotificationInv'
  <2>1. cur \in Alert /\ \A r \in incidents : r.id # cur.id
    BY <1>3 DEF InsertIncident, Recorded, TypeOK
  <2>2. cur \notin incidents
    BY <2>1
  <2>3. \A ch \in Channels : attempts[cur][ch] = 0
    BY <2>1, <2>2 DEF TypeOK
  <2>4. toSend' \subseteq Channels
    BY <1>3, TypeNext DEF TypeOK
  <2>5. QED
    BY <1>3, <2>1, <2>3, <2>4 DEF InsertIncident
<1>4. ASSUME NEW ch \in Channels, Send(ch) PROVE NotificationInv'
  <2>1. cur \in Alert /\ cur \in incidents /\ attempts[cur][ch] = 0
    BY <1>4 DEF Send, TypeOK
  <2>2. \A a \in Alert, c \in Channels :
          attempts'[a][c] = IF a = cur /\ c = ch THEN 1 ELSE attempts[a][c]
    BY <1>4, <2>1 DEF Send, TypeOK
  <2>3. toSend' = toSend \ {ch} /\ toSend \subseteq Channels
    BY <1>4 DEF Send, TypeOK
  <2>4. UNCHANGED <<incidents, cur>>
    BY <1>4 DEF Send
  <2>5. QED
    BY <1>4, <2>1, <2>2, <2>3, <2>4 DEF Send
<1>5. CASE Receiver
  BY <1>2, <1>5 DEF Receiver, AppendLine, AppendCut, AppendRest, AbandonAppend, agentVars
<1>6. ASSUME OpenQueue \/ EndBatch \/ BuildContext \/ DuplicateIncident \/ WriteOffset
      PROVE  NotificationInv'
  BY <1>1, <1>6 DEF OpenQueue, EndBatch, BuildContext, DuplicateIncident, WriteOffset
<1>7. ASSUME NEW e \in 1..Len(queue), ReadBlank(e) \/ ReadMalformed(e) \/ ReadAlert(e)
      PROVE  NotificationInv'
  BY <1>1, <1>7 DEF ReadBlank, ReadMalformed, ReadAlert, ReadLine
<1>8. ASSUME FailedCall \/ Crash \/ Restart PROVE NotificationInv'
  BY <1>1, <1>8 DEF FailedCall, Fail, Crash, Restart
<1>9. CASE LoseOffset
  BY <1>2, <1>9 DEF LoseOffset, agentVars
<1>10. CASE UNCHANGED vars
  BY <1>2, <1>10 DEF vars, agentVars
<1>11. QED
  BY <1>3, <1>4, <1>5, <1>6, <1>7, <1>8, <1>9, <1>10 DEF Next, AgentStep

\* NotificationInv holds of every behaviour.
LEMMA NotificationAlways == Spec => []NotificationInv
<1>1. QED
  BY NotificationInit, NotificationNext, TypeCorrect, PTL DEF Spec

\* At most one send per channel is made for an incident id, over any number
\* of crashes, failures and losses of the offset file.
THEOREM AtMostOnce == Spec => []NotifiedAtMostOnce
<1>1. NotificationInv => NotifiedAtMostOnce
  BY DEF NotificationInv, NotifiedAtMostOnce, RecordedBeforeNotified
<1>2. QED
  BY <1>1, NotificationAlways, PTL

\* What was told is on record.
THEOREM RecordedFirst == Spec => []RecordedBeforeNotified
<1>1. NotificationInv => RecordedBeforeNotified
  BY DEF NotificationInv
<1>2. QED
  BY <1>1, NotificationAlways, PTL

-----------------------------------------------------------------------------
(* The offset. *)

\* Appending a piece changes no piece before it.
LEMMA AppendKeeps ==
    ASSUME TypeOK, NEW piece \in Piece, queue' = Append(queue, piece)
    PROVE  /\ Len(queue') = Len(queue) + 1
           /\ \A i \in 1..Len(queue) : queue'[i] = queue[i] /\ (Intact(i)' <=> Intact(i))
           /\ queue'[Len(queue) + 1] = piece
<1>1. /\ Len(queue') = Len(queue) + 1
      /\ \A i \in 1..Len(queue) : queue'[i] = queue[i]
      /\ queue'[Len(queue) + 1] = piece
  BY DEF TypeOK
<1>2. \A i \in 1..Len(queue) : i > 1 => i - 1 \in 1..Len(queue)
  BY DEF TypeOK
<1>3. QED
  BY <1>1, <1>2 DEF Intact, EndsLine

\* A read that ends at e passes no intact line, except one it returns alone.
LEMMA ReadPassesNoIntactLine ==
    ASSUME TypeOK, NEW e \in 1..Len(queue), ReadsTo(cursor, e),
           NEW i \in (cursor + 1)..e, Intact(i)
    PROVE  i = e /\ e = cursor + 1 /\ IsRecord(cursor, e)
<1>0. cursor \in Nat /\ Len(queue) \in Nat /\ i \in Nat /\ e \in Nat
  BY DEF TypeOK
<1>1. EndsLine(queue[i])
  BY DEF Intact, EndsLine
<1>2. i = e
  BY <1>0, <1>1 DEF ReadsTo
<1>3. e = cursor + 1
  <2>1. SUFFICES ASSUME e # cursor + 1 PROVE FALSE
    OBVIOUS
  <2>2. i > 1 /\ i - 1 \in (cursor + 1)..(e - 1)
    BY <1>0, <1>2, <2>1
  <2>3. QED
    BY <2>2 DEF ReadsTo, Intact
<1>4. QED
  BY <1>2, <1>3 DEF IsRecord, Intact

\* At the start the offset has passed nothing.
LEMMA CursorInit == Init => CursorInv
BY DEF Init, CursorInv, Done

\* Recording more incidents undoes nothing.
LEMMA RecordedGrows ==
    ASSUME incidents \subseteq incidents', NEW a, Recorded(a)
    PROVE  Recorded(a)'
BY DEF Recorded

\* No step moves the offset, or the file handle of an agent between two lines,
\* past an intact line that is not on record.
LEMMA CursorNext == TypeOK /\ CursorInv /\ [Next]_vars => CursorInv'
<1> SUFFICES ASSUME TypeOK, CursorInv, [Next]_vars PROVE CursorInv'
  OBVIOUS
<1> USE DEF CursorInv, Done
<1>0. /\ Len(queue) \in Nat /\ cursor \in 0..Len(queue) /\ offset \in 0..Len(queue)
      /\ pc \in PCs
  BY DEF TypeOK
\* The queue grows.
<1>1. ASSUME NEW piece \in Piece, queue' = Append(queue, piece),
             UNCHANGED <<offset, incidents, pc, cursor, cur>>
      PROVE  CursorInv'
  <2>1. /\ Len(queue') = Len(queue) + 1
        /\ \A i \in 1..Len(queue) : queue'[i] = queue[i] /\ (Intact(i)' <=> Intact(i))
    BY <1>1, AppendKeeps
  <2>2. \A a : Recorded(a)' <=> Recorded(a)
    BY <1>1 DEF Recorded
  <2>3. QED
    BY <1>0, <1>1, <2>1, <2>2
\* Nothing but the control state changes.
<1>2. ASSUME UNCHANGED <<queue, offset, incidents, cursor, cur>>, pc' = pc \/ pc' = "idle"
      PROVE  CursorInv'
  BY <1>0, <1>2 DEF Intact, Recorded
<1>3. CASE Receiver
  <2>1. ASSUME NEW a \in Alert, AppendLine(a) PROVE CursorInv'
    <3>1. [alert |-> a, part |-> "line"] \in Piece
      OBVIOUS
    <3>2. QED
      BY <1>1, <2>1, <3>1 DEF AppendLine, agentVars
  <2>2. ASSUME NEW a \in Alert, NEW first \in Parts, NEW second, AppendCut(a, first, second)
        PROVE CursorInv'
    <3>1. [alert |-> a, part |-> first] \in Piece
      OBVIOUS
    <3>2. QED
      BY <1>1, <2>2, <3>1 DEF AppendCut, agentVars
  <2>3. ASSUME AppendRest PROVE CursorInv'
    <3>1. Head(writing) \in Piece
      BY <2>3 DEF AppendRest, TypeOK
    <3>2. QED
      BY <1>1, <2>3, <3>1 DEF AppendRest, agentVars
  <2>4. ASSUME AbandonAppend PROVE CursorInv'
    BY <1>2, <2>4 DEF AbandonAppend, agentVars
  <2>5. QED
    BY <1>3, <2>1, <2>2, <2>3, <2>4 DEF Receiver
<1>4. ASSUME OpenQueue PROVE CursorInv'
  BY <1>0, <1>4 DEF OpenQueue, Intact, Recorded
<1>5. CASE EndBatch
  BY <1>2, <1>5 DEF EndBatch, agentVars
<1>6. ASSUME NEW e \in 1..Len(queue), ReadBlank(e) \/ ReadMalformed(e)
      PROVE  CursorInv'
  <2>1. /\ ReadLine(e) /\ ~IsRecord(cursor, e)
        /\ cur' = cur /\ (pc' = "read" \/ pc' = "skip")
    BY <1>6 DEF ReadBlank, ReadMalformed, ReadLine, IsBlank, IsRecord
  <2>2. pc = "read" /\ ReadsTo(cursor, e) /\ cursor' = e /\ UNCHANGED <<queue, offset, incidents>>
    BY <2>1 DEF ReadLine
  <2>3. cursor < e
    BY <2>2 DEF ReadsTo
  <2>4. \A i \in 1..e : Intact(i) => i \in 1..cursor
    BY <1>0, <2>1, <2>2, ReadPassesNoIntactLine
  <2>5. QED
    BY <1>0, <2>1, <2>2, <2>3, <2>4 DEF Intact, Recorded
<1>7. ASSUME NEW e \in 1..Len(queue), ReadAlert(e) PROVE CursorInv'
  <2>1. /\ pc = "read" /\ pc' = "context" /\ ReadsTo(cursor, e) /\ cursor' = e
        /\ cur' = queue[e].alert /\ UNCHANGED <<queue, offset, incidents>>
    BY <1>7 DEF ReadAlert, ReadLine
  <2>2. cursor < e
    BY <2>1 DEF ReadsTo
  <2>3. \A i \in 1..e : Intact(i) => i \in 1..cursor \/ i = e
    BY <1>0, <2>1, ReadPassesNoIntactLine
  <2>4. QED
    BY <1>0, <2>1, <2>2, <2>3 DEF Intact, Recorded
<1>8. CASE BuildContext
  BY <1>0, <1>8 DEF BuildContext, Intact, Recorded
<1>9. CASE InsertIncident
  <2>1. /\ pc = "insert" /\ pc' = "dispatch" /\ incidents' = incidents \cup {cur}
        /\ UNCHANGED <<queue, offset, cursor, cur>>
    BY <1>9 DEF InsertIncident
  <2>2. \A a : Recorded(a) \/ a = cur => Recorded(a)'
    BY <2>1 DEF Recorded
  <2>3. \A i : Intact(i)' <=> Intact(i)
    BY <2>1 DEF Intact
  <2>4. QED
    BY <1>0, <2>1, <2>2, <2>3
<1>10. CASE DuplicateIncident
  BY <1>0, <1>10 DEF DuplicateIncident, Intact, Recorded, agentVars
<1>11. ASSUME NEW ch \in Channels, Send(ch) PROVE CursorInv'
  BY <1>0, <1>11 DEF Send, Intact, Recorded
<1>12. CASE WriteOffset
  BY <1>0, <1>12 DEF WriteOffset, Intact, Recorded, agentVars
<1>13. CASE FailedCall
  BY <1>2, <1>13 DEF FailedCall, Fail, agentVars
<1>14. CASE Crash
  BY <1>0, <1>14 DEF Crash, Intact, Recorded
<1>15. CASE Restart
  BY <1>2, <1>15 DEF Restart, agentVars
<1>16. CASE LoseOffset
  BY <1>0, <1>16 DEF LoseOffset, Intact, Recorded, agentVars
<1>17. CASE UNCHANGED vars
  BY <1>2, <1>17 DEF vars, agentVars
<1>18. QED
  BY <1>3, <1>4, <1>5, <1>6, <1>7, <1>8, <1>9, <1>10, <1>11, <1>12, <1>13, <1>14,
     <1>15, <1>16, <1>17
  DEF Next, AgentStep

\* CursorInv holds of every behaviour.
LEMMA CursorAlways == Spec => []CursorInv
<1>1. QED
  BY CursorInit, CursorNext, TypeCorrect, PTL DEF Spec

\* The durable offset never passes an intact line that is not on record.
THEOREM OffsetIsSafe == Spec => []OffsetBehindRecords
<1>1. CursorInv => OffsetBehindRecords
  BY DEF CursorInv, Done, OffsetBehindRecords
<1>2. QED
  BY <1>1, CursorAlways, PTL

\* A step moves the offset forward, or loses it.
LEMMA OffsetStep ==
    TypeOK /\ CursorInv /\ [Next]_vars
        => [offset' >= offset \/ offsetLosses' > offsetLosses]_vars
<1> SUFFICES ASSUME TypeOK, CursorInv, Next
             PROVE  offset' >= offset \/ offsetLosses' > offsetLosses
  OBVIOUS
<1>0. /\ Len(queue) \in Nat /\ cursor \in 0..Len(queue) /\ offset \in 0..Len(queue)
      /\ offsetLosses \in Nat
  BY DEF TypeOK
<1>1. CASE WriteOffset
  BY <1>0, <1>1 DEF WriteOffset, CursorInv
<1>2. CASE LoseOffset
  BY <1>0, <1>2 DEF LoseOffset
<1>3. ASSUME Receiver PROVE offset' = offset
  BY <1>3 DEF Receiver, AppendLine, AppendCut, AppendRest, AbandonAppend
<1>4. ASSUME OpenQueue \/ EndBatch \/ BuildContext \/ InsertIncident \/ DuplicateIncident
             \/ \E ch \in Channels : Send(ch)
      PROVE  offset' = offset
  BY <1>4 DEF OpenQueue, EndBatch, BuildContext, InsertIncident, DuplicateIncident, Send
<1>5. ASSUME NEW e \in 1..Len(queue), ReadBlank(e) \/ ReadMalformed(e) \/ ReadAlert(e)
      PROVE  offset' = offset
  BY <1>5 DEF ReadBlank, ReadMalformed, ReadAlert, ReadLine
<1>6. ASSUME FailedCall \/ Crash \/ Restart PROVE offset' = offset
  BY <1>6 DEF FailedCall, Fail, Crash, Restart
<1>7. offset' = offset => offset' >= offset
  BY <1>0
<1>8. CASE AgentStep
  BY <1>1, <1>4, <1>5, <1>7, <1>8 DEF AgentStep
<1>9. QED
  BY <1>2, <1>3, <1>6, <1>7, <1>8 DEF Next

\* The offset moves back only when its file is lost.
THEOREM OffsetMonotone == Spec => OffsetNeverMovesBack
<1>1. QED
  BY OffsetStep, TypeCorrect, CursorAlways, PTL DEF Spec, OffsetNeverMovesBack

-----------------------------------------------------------------------------
(* The context of an alert. *)

\* At the start there is no context.
LEMMA HistoryInit == Init => HistoryInv
BY DEF Init, HistoryInv, ContextExcludesSelf

\* The context is read before the row of its alert is inserted.
LEMMA HistoryNext == HistoryInv /\ [Next]_vars => HistoryInv'
<1> SUFFICES ASSUME HistoryInv, [Next]_vars PROVE HistoryInv'
  OBVIOUS
<1> USE DEF HistoryInv, ContextExcludesSelf
<1>1. ASSUME pc' \notin {"insert", "dispatch"} PROVE HistoryInv'
  BY <1>1
<1>2. ASSUME UNCHANGED <<incidents, pc, cur, history>> PROVE HistoryInv'
  BY <1>2
<1>3. CASE Receiver
  BY <1>2, <1>3 DEF Receiver, AppendLine, AppendCut, AppendRest, AbandonAppend, agentVars
<1>4. CASE BuildContext
  BY <1>4 DEF BuildContext, SameSource
<1>5. CASE InsertIncident
  BY <1>5 DEF InsertIncident, Recorded
<1>6. ASSUME NEW ch \in Channels, Send(ch) PROVE HistoryInv'
  BY <1>6 DEF Send
<1>7. ASSUME OpenQueue \/ EndBatch \/ DuplicateIncident \/ WriteOffset PROVE HistoryInv'
  BY <1>1, <1>7 DEF OpenQueue, EndBatch, DuplicateIncident, WriteOffset
<1>8. ASSUME NEW e \in 1..Len(queue), ReadBlank(e) \/ ReadMalformed(e) \/ ReadAlert(e)
      PROVE  HistoryInv'
  BY <1>1, <1>8 DEF ReadBlank, ReadMalformed, ReadAlert, ReadLine
<1>9. ASSUME FailedCall \/ Crash \/ Restart PROVE HistoryInv'
  BY <1>1, <1>9 DEF FailedCall, Fail, Crash, Restart
<1>10. CASE LoseOffset
  BY <1>2, <1>10 DEF LoseOffset, agentVars
<1>11. CASE UNCHANGED vars
  BY <1>2, <1>11 DEF vars, agentVars
<1>12. QED
  BY <1>3, <1>4, <1>5, <1>6, <1>7, <1>8, <1>9, <1>10, <1>11 DEF Next, AgentStep

\* An alert is never dispatched with itself among its recent incidents.
THEOREM ContextIsEarlier == Spec => []ContextExcludesSelf
<1>1. HistoryInv => ContextExcludesSelf
  BY DEF HistoryInv
<1>2. QED
  BY <1>1, HistoryInit, HistoryNext, PTL DEF Spec

-----------------------------------------------------------------------------
(* The order of the queue. *)

\* An alert is queued once: in one piece, or as a cut append and its rest.
QueuedOnce ==
    /\ \A i, j \in 1..Len(queue) :
           i < j /\ queue[i].alert = queue[j].alert =>
               j = i + 1 /\ queue[i].part \in {"head", "body"}
    /\ writing # <<>> =>
           /\ Len(queue) >= 1
           /\ queue[Len(queue)].part \in {"head", "body"}
           /\ queue[Len(queue)].alert = Head(writing).alert
           /\ \A i \in 1..(Len(queue) - 1) : queue[i].alert # Head(writing).alert

\* A row is of an alert that was queued, and when it was inserted, every
\* intact line before it was on record; the alert in hand is the last read.
InOrder ==
    /\ \A a \in incidents : \E k \in 1..Len(queue) : queue[k].alert = a
    /\ \A i, j \in 1..Len(queue) :
           i < j /\ Intact(i) /\ queue[j].alert \in incidents => Recorded(queue[i].alert)
    /\ pc \in {"context", "insert"} => cursor >= 1 /\ queue[cursor].alert = cur

OrderInv == QueuedOnce /\ InOrder

\* At the start there is no queue.
LEMMA OrderInit == Init => OrderInv
BY DEF Init, OrderInv, QueuedOnce, InOrder

\* A new alert comes after all others, and has no row.
LEMMA NewPieceKeepsOrder ==
    ASSUME TypeOK, OrderInv, writing = <<>>, NEW piece \in Piece,
           queue' = Append(queue, piece), NotQueued(piece.alert),
           \/ writing' = <<>>
           \/ /\ writing' # <<>> /\ Head(writing').alert = piece.alert
              /\ piece.part \in {"head", "body"},
           UNCHANGED <<incidents, pc, cursor, cur>>
    PROVE  OrderInv'
<1>1. /\ Len(queue') = Len(queue) + 1 /\ Len(queue) \in Nat
      /\ \A i \in 1..Len(queue) : queue'[i] = queue[i] /\ (Intact(i)' <=> Intact(i))
      /\ queue'[Len(queue) + 1] = piece
  BY AppendKeeps DEF TypeOK
<1> HIDE DEF Piece
<1>2. \A i \in 1..Len(queue) : queue[i].alert # piece.alert
  BY DEF NotQueued, TypeOK
<1>3. QueuedOnce'
  <2>1. ASSUME NEW i \in 1..Len(queue'), NEW j \in 1..Len(queue'), i < j,
               queue'[i].alert = queue'[j].alert
        PROVE  j = i + 1 /\ queue'[i].part \in {"head", "body"}
    <3>1. i \in 1..Len(queue) /\ (j \in 1..Len(queue) \/ j = Len(queue) + 1)
      BY <1>1, <2>1
    <3>2. j \in 1..Len(queue)
      BY <1>1, <1>2, <2>1, <3>1
    <3>3. QED
      BY <1>1, <2>1, <3>1, <3>2 DEF OrderInv, QueuedOnce
  <2>2. writing' # <<>> => /\ Len(queue') >= 1
                           /\ queue'[Len(queue')].part \in {"head", "body"}
                           /\ queue'[Len(queue')].alert = Head(writing').alert
                           /\ \A i \in 1..(Len(queue') - 1) :
                                  queue'[i].alert # Head(writing').alert
    BY <1>1, <1>2
  <2>3. QED
    BY <2>1, <2>2 DEF QueuedOnce
<1>4. InOrder'
  <2>1. \A a \in incidents : \E k \in 1..Len(queue') : queue'[k].alert = a
    BY <1>1 DEF OrderInv, InOrder
  <2>2. ASSUME NEW i \in 1..Len(queue'), NEW j \in 1..Len(queue'), i < j, Intact(i)',
               queue'[j].alert \in incidents
        PROVE  Recorded(queue'[i].alert)
    <3>1. i \in 1..Len(queue) /\ (j \in 1..Len(queue) \/ j = Len(queue) + 1)
      BY <1>1, <2>2
    <3>2. j \in 1..Len(queue)
      BY <1>1, <1>2, <2>2, <3>1 DEF OrderInv, InOrder
    <3>3. QED
      BY <1>1, <2>2, <3>1, <3>2 DEF OrderInv, InOrder
  <2>3. pc \in {"context", "insert"} => cursor >= 1 /\ queue'[cursor].alert = cur
    BY <1>1 DEF OrderInv, InOrder, TypeOK
  <2>4. QED
    BY <2>1, <2>2, <2>3 DEF InOrder, Recorded
<1>5. QED
  BY <1>3, <1>4 DEF OrderInv

\* The rest of a cut append comes right after it.
LEMMA RestKeepsOrder ==
    ASSUME TypeOK, OrderInv, AppendRest
    PROVE  OrderInv'
<1> DEFINE piece == Head(writing)
<1>1. piece \in Piece /\ queue' = Append(queue, piece) /\ writing # <<>> /\ writing' = <<>>
      /\ UNCHANGED <<incidents, pc, cursor, cur>>
  BY DEF AppendRest, TypeOK, agentVars
<1>2. /\ Len(queue') = Len(queue) + 1 /\ Len(queue) \in Nat
      /\ \A i \in 1..Len(queue) : queue'[i] = queue[i] /\ (Intact(i)' <=> Intact(i))
      /\ queue'[Len(queue) + 1] = piece
  BY <1>1, AppendKeeps DEF TypeOK
<1>3. /\ Len(queue) >= 1 /\ queue[Len(queue)].part \in {"head", "body"}
      /\ queue[Len(queue)].alert = piece.alert
      /\ \A i \in 1..(Len(queue) - 1) : queue[i].alert # piece.alert
  BY <1>1 DEF OrderInv, QueuedOnce
<1> HIDE DEF piece, Piece
<1>4. \A i \in 1..Len(queue) : i = Len(queue) \/ i \in 1..(Len(queue) - 1)
  BY <1>2
<1>5. QueuedOnce'
  <2>1. ASSUME NEW i \in 1..Len(queue'), NEW j \in 1..Len(queue'), i < j,
               queue'[i].alert = queue'[j].alert
        PROVE  j = i + 1 /\ queue'[i].part \in {"head", "body"}
    <3>1. i \in 1..Len(queue) /\ (j \in 1..Len(queue) \/ j = Len(queue) + 1)
      BY <1>2, <2>1
    <3>2. CASE j \in 1..Len(queue)
      BY <1>2, <2>1, <3>1, <3>2 DEF OrderInv, QueuedOnce
    <3>3. CASE j = Len(queue) + 1
      <4>1. i = Len(queue)
        BY <1>2, <1>3, <1>4, <2>1, <3>1, <3>3
      <4>2. QED
        BY <1>2, <1>3, <3>1, <3>3, <4>1
    <3>4. QED
      BY <3>1, <3>2, <3>3
  <2>2. QED
    BY <1>1, <2>1 DEF QueuedOnce
<1>6. InOrder'
  <2>1. \A a \in incidents : \E k \in 1..Len(queue') : queue'[k].alert = a
    BY <1>2 DEF OrderInv, InOrder
  <2>2. ASSUME NEW i \in 1..Len(queue'), NEW j \in 1..Len(queue'), i < j, Intact(i)',
               queue'[j].alert \in incidents
        PROVE  Recorded(queue'[i].alert)
    <3>1. i \in 1..Len(queue) /\ (j \in 1..Len(queue) \/ j = Len(queue) + 1)
      BY <1>2, <2>2
    <3>2. Intact(i) /\ queue'[i] = queue[i]
      BY <1>2, <2>2, <3>1
    <3>3. CASE j \in 1..Len(queue)
      BY <1>2, <2>2, <3>1, <3>2, <3>3 DEF OrderInv, InOrder
    <3>4. CASE j = Len(queue) + 1
      <4>1. i # Len(queue)
        BY <1>3, <3>2 DEF Intact
      <4>2. Len(queue) \in 1..Len(queue) /\ i < Len(queue)
        BY <1>2, <1>3, <3>1, <4>1
      <4>3. queue[Len(queue)].alert \in incidents
        BY <1>2, <1>3, <2>2, <3>4
      <4>4. QED
        BY <3>1, <3>2, <4>2, <4>3 DEF OrderInv, InOrder
    <3>5. QED
      BY <3>1, <3>3, <3>4
  <2>3. pc \in {"context", "insert"} => cursor >= 1 /\ queue'[cursor].alert = cur
    BY <1>2 DEF OrderInv, InOrder, TypeOK
  <2>4. QED
    BY <1>1, <2>1, <2>2, <2>3 DEF InOrder, Recorded
<1>7. QED
  BY <1>5, <1>6 DEF OrderInv

\* The insert: whatever is intact before the alert in hand is on record, or
\* is that alert itself.
LEMMA InsertKeepsOrder ==
    ASSUME TypeOK, CursorInv, OrderInv, InsertIncident
    PROVE  OrderInv'
<1>1. /\ pc = "insert" /\ pc' = "dispatch" /\ incidents' = incidents \cup {cur}
      /\ UNCHANGED <<queue, writing, cursor, cur>>
  BY DEF InsertIncident
<1>2. /\ cursor \in 1..Len(queue) /\ Len(queue) \in Nat /\ queue[cursor].alert = cur
      /\ \A i \in 1..cursor : Intact(i) => Recorded(queue[i].alert) \/ queue[i].alert = cur
  BY <1>1 DEF OrderInv, InOrder, CursorInv, TypeOK
<1>3. QueuedOnce'
  BY <1>1 DEF OrderInv, QueuedOnce
<1>4. \A a : Recorded(a) \/ a = cur => Recorded(a)'
  BY <1>1 DEF Recorded
<1>5. \A i : Intact(i)' <=> Intact(i)
  BY <1>1 DEF Intact
<1>6. ASSUME NEW i \in 1..Len(queue), NEW j \in 1..Len(queue), i < j, Intact(i),
             queue[j].alert \in incidents \cup {cur}, NEW a, a = queue[i].alert
      PROVE  Recorded(a)'
  <2>1. CASE queue[j].alert \in incidents
    BY <1>4, <1>6, <2>1 DEF OrderInv, InOrder
  <2>2. CASE queue[j].alert = cur
    <3>1. j <= cursor + 1
      BY <1>2, <2>2 DEF OrderInv, QueuedOnce
    <3>2. i \in 1..cursor
      BY <1>2, <1>6, <3>1
    <3>3. QED
      BY <1>2, <1>4, <1>6, <3>2
  <2>3. QED
    BY <1>6, <2>1, <2>2
<1>7. \A a \in incidents' : \E k \in 1..Len(queue) : queue[k].alert = a
  BY <1>1, <1>2 DEF OrderInv, InOrder
<1>8. InOrder'
  BY <1>1, <1>5, <1>6, <1>7 DEF InOrder, Recorded
<1>9. QED
  BY <1>3, <1>8 DEF OrderInv

\* The queue keeps its order and the table follows it.
LEMMA OrderNext == TypeOK /\ CursorInv /\ OrderInv /\ [Next]_vars => OrderInv'
<1> SUFFICES ASSUME TypeOK, CursorInv, OrderInv, [Next]_vars PROVE OrderInv'
  OBVIOUS
\* The queue and the table stay, and no alert is taken in hand.
<1>1. ASSUME UNCHANGED <<queue, writing, incidents>>,
             \/ UNCHANGED <<pc, cursor, cur>>
             \/ pc' \notin {"context", "insert"}
             \/ pc' = "insert" /\ pc = "context" /\ UNCHANGED <<cursor, cur>>
      PROVE  OrderInv'
  BY <1>1 DEF OrderInv, QueuedOnce, InOrder, Intact, Recorded
<1>2. CASE Receiver
  <2>1. ASSUME NEW a \in Alert, AppendLine(a) PROVE OrderInv'
    <3>1. [alert |-> a, part |-> "line"] \in Piece /\ [alert |-> a, part |-> "line"].alert = a
      OBVIOUS
    <3>2. QED
      BY <2>1, <3>1, NewPieceKeepsOrder DEF AppendLine, agentVars
  <2>2. ASSUME NEW a \in Alert, NEW first \in {"head", "body"}, NEW second,
               AppendCut(a, first, second)
        PROVE  OrderInv'
    <3> DEFINE piece == [alert |-> a, part |-> first]
    <3>1. piece \in Piece /\ piece.alert = a /\ piece.part \in {"head", "body"}
      OBVIOUS
    <3>2. writing' # <<>> /\ Head(writing').alert = a
      BY <2>2 DEF AppendCut
    <3>3. /\ writing = <<>> /\ queue' = Append(queue, piece) /\ NotQueued(a)
          /\ UNCHANGED <<incidents, pc, cursor, cur>>
      BY <2>2 DEF AppendCut, agentVars
    <3> HIDE DEF piece
    <3>4. QED
      BY <3>1, <3>2, <3>3, NewPieceKeepsOrder
  <2>3. CASE AbandonAppend
    BY <2>3 DEF AbandonAppend, OrderInv, QueuedOnce, InOrder, Intact, Recorded, agentVars
  <2>4. QED
    BY <1>2, <2>1, <2>2, <2>3, RestKeepsOrder DEF Receiver
<1>3. CASE InsertIncident
  BY <1>3, InsertKeepsOrder
<1>4. ASSUME NEW e \in 1..Len(queue), ReadAlert(e) PROVE OrderInv'
  <2>1. /\ cursor' = e /\ cur' = queue[e].alert /\ UNCHANGED <<queue, writing, incidents>>
    BY <1>4 DEF ReadAlert, ReadLine
  <2>2. e >= 1
    OBVIOUS
  <2>3. QED
    BY <2>1, <2>2 DEF OrderInv, QueuedOnce, InOrder, Intact, Recorded
<1>5. ASSUME NEW e \in 1..Len(queue), ReadBlank(e) \/ ReadMalformed(e) PROVE OrderInv'
  BY <1>1, <1>5 DEF ReadBlank, ReadMalformed, ReadLine
<1>6. ASSUME OpenQueue \/ EndBatch \/ DuplicateIncident \/ WriteOffset PROVE OrderInv'
  BY <1>1, <1>6 DEF OpenQueue, EndBatch, DuplicateIncident, WriteOffset
<1>7. CASE BuildContext
  BY <1>1, <1>7 DEF BuildContext
<1>8. ASSUME NEW ch \in Channels, Send(ch) PROVE OrderInv'
  BY <1>1, <1>8 DEF Send
<1>9. ASSUME FailedCall \/ Crash \/ Restart PROVE OrderInv'
  BY <1>1, <1>9 DEF FailedCall, Fail, Crash, Restart
<1>10. CASE LoseOffset
  BY <1>1, <1>10 DEF LoseOffset, agentVars
<1>11. CASE UNCHANGED vars
  BY <1>1, <1>11 DEF vars, agentVars
<1>12. QED
  BY <1>2, <1>3, <1>4, <1>5, <1>6, <1>7, <1>8, <1>9, <1>10, <1>11 DEF Next, AgentStep

\* When an alert has been told, every intact line queued before it is on
\* record, however often the agent failed or lost its offset in between.
THEOREM ToldInOrder == Spec => []NoOvertaking
<1>1. TypeOK /\ NotificationInv /\ OrderInv => NoOvertaking
  <2> SUFFICES ASSUME TypeOK, NotificationInv, OrderInv,
                      NEW i \in 1..Len(queue), NEW j \in 1..Len(queue), i < j, Intact(i),
                      NEW ch \in Channels, attempts[queue[j].alert][ch] > 0
               PROVE  Recorded(queue[i].alert)
    <3>1. TypeOK => DOMAIN queue = 1..Len(queue)
      BY DEF TypeOK
    <3>2. QED
      BY <3>1 DEF NoOvertaking
  <2>1. queue[j].alert \in Alert
    BY PieceOfQueue DEF TypeOK
  <2>2. queue[j].alert \in incidents
    BY <2>1 DEF NotificationInv, RecordedBeforeNotified
  <2>3. QED
    BY <2>2 DEF OrderInv, InOrder
<1>2. Spec => []OrderInv
  BY OrderInit, OrderNext, TypeCorrect, CursorAlways, PTL DEF Spec
<1>3. QED
  BY <1>1, <1>2, TypeCorrect, NotificationAlways, PTL

-----------------------------------------------------------------------------
(* The refinement of AlertDelivery. *)

\* The first state is a first state of AlertDelivery.
LEMMA DeliveryInit == Init => Delivery!Init
BY DEF Init, Delivery!Init, LogOfQueue

\* A new piece is accepted, whole or damaged.
LEMMA AcceptStep ==
    ASSUME TypeOK, NEW piece \in Piece, queue' = Append(queue, piece),
           UNCHANGED <<offset, incidents, attempts>>
    PROVE  Delivery!Next
<1>1. /\ Len(queue') = Len(queue) + 1
      /\ \A i \in 1..Len(queue) : queue'[i] = queue[i] /\ (Intact(i)' <=> Intact(i))
      /\ queue'[Len(queue) + 1] = piece
  BY AppendKeeps
<1> PICK n \in Nat : n = Len(queue) + 1
  BY DEF TypeOK
<1> DEFINE whole == Intact(n)'
           entry == [alert |-> piece.alert, whole |-> whole]
<1>2. whole \in BOOLEAN
  BY DEF Intact
<1> DEFINE Entry == [alert : Alert, whole : BOOLEAN]
<1>3. LogOfQueue' = Append(LogOfQueue, entry)
  <2>1. DOMAIN queue = 1..Len(queue) /\ DOMAIN queue' = 1..n /\ Len(queue) \in Nat
    BY <1>1 DEF TypeOK
  <2>2. LogOfQueue = [i \in 1..Len(queue) |-> [alert |-> queue[i].alert, whole |-> Intact(i)]]
    BY <2>1 DEF LogOfQueue
  <2>3. LogOfQueue' = [i \in 1..n |-> [alert |-> queue'[i].alert, whole |-> Intact(i)']]
    BY <2>1 DEF LogOfQueue
  <2>4. LogOfQueue \in Seq(Entry) /\ Len(LogOfQueue) = Len(queue)
    <3>1. \A i \in 1..Len(queue) : [alert |-> queue[i].alert, whole |-> Intact(i)] \in Entry
      BY PieceOfQueue DEF TypeOK, Intact
    <3>2. QED
      BY <2>1, <2>2, <3>1
  <2>5. entry \in Entry
    BY <1>2
  <2>6. /\ Append(LogOfQueue, entry) \in Seq(Entry)
        /\ Len(Append(LogOfQueue, entry)) = n
        /\ \A i \in 1..Len(queue) : Append(LogOfQueue, entry)[i] = LogOfQueue[i]
        /\ Append(LogOfQueue, entry)[n] = entry
    BY <2>1, <2>4, <2>5, AppendProperties
  <2>7. DOMAIN Append(LogOfQueue, entry) = 1..n
    BY <2>6
  <2>8. \A i \in 1..n : Append(LogOfQueue, entry)[i] = LogOfQueue'[i]
    <3>1. ASSUME NEW i \in 1..Len(queue) PROVE LogOfQueue'[i] = LogOfQueue[i]
      <4>1. i \in 1..n /\ queue'[i] = queue[i] /\ (Intact(i)' <=> Intact(i))
        BY <1>1, <2>1
      <4>2. /\ LogOfQueue[i]  = [alert |-> queue[i].alert, whole |-> Intact(i)]
            /\ LogOfQueue'[i] = [alert |-> queue'[i].alert, whole |-> Intact(i)']
        BY <2>2, <2>3, <4>1, Zenon
      <4>3. QED
        BY <4>1, <4>2, <1>2 DEF Intact
    <3>2. LogOfQueue'[n] = entry
      <4>1. n \in 1..n
        BY <2>1
      <4>2. LogOfQueue'[n] = [alert |-> queue'[n].alert, whole |-> Intact(n)']
        BY <2>3, <4>1, Zenon
      <4>3. QED
        BY <1>1, <4>2
    <3>3. \A i \in 1..n : i \in 1..Len(queue) \/ i = n
      BY <2>1
    <3>4. QED
      BY <2>6, <3>1, <3>2, <3>3, Zenon
  <2>9. QED
    BY <2>3, <2>6, <2>7, <2>8
<1>4. Delivery!Accept(piece.alert, whole)
  BY <1>3 DEF Delivery!Accept
<1>5. QED
  BY <1>2, <1>4 DEF Delivery!Next

\* An alert of the queue is an entry of the log, and whole exactly if intact.
LEMMA LogEntries ==
    ASSUME TypeOK
    PROVE  /\ DOMAIN LogOfQueue = 1..Len(queue)
           /\ Len(LogOfQueue) = Len(queue)
           /\ \A i \in 1..Len(queue) :
                  LogOfQueue[i].alert = queue[i].alert /\ LogOfQueue[i].whole = Intact(i)
<1> DEFINE Entry == [alert : Alert, whole : BOOLEAN]
<1>1. DOMAIN queue = 1..Len(queue) /\ Len(queue) \in Nat
  BY DEF TypeOK
<1>2. LogOfQueue = [i \in 1..Len(queue) |-> [alert |-> queue[i].alert, whole |-> Intact(i)]]
  BY <1>1 DEF LogOfQueue
<1>3. \A i \in 1..Len(queue) : [alert |-> queue[i].alert, whole |-> Intact(i)] \in Entry
  BY PieceOfQueue DEF TypeOK, Intact
<1>4. Len(LogOfQueue) = Len(queue)
  BY <1>1, <1>2, <1>3
<1>5. \A i \in 1..Len(queue) :
        LogOfQueue[i] = [alert |-> queue[i].alert, whole |-> Intact(i)]
  BY <1>2, Zenon
<1>6. QED
  BY <1>2, <1>4, <1>5

\* Every step is a step of AlertDelivery, or leaves its variables alone.
LEMMA DeliveryStep ==
    TypeOK /\ NotificationInv /\ CursorInv /\ [Next]_vars
        => [Delivery!Next]_(Delivery!vars)
<1> SUFFICES ASSUME TypeOK, NotificationInv, CursorInv, [Next]_vars
             PROVE  Delivery!Next \/ UNCHANGED Delivery!vars
  OBVIOUS
<1>1. ASSUME UNCHANGED <<queue, offset, incidents, attempts>> PROVE UNCHANGED Delivery!vars
  BY <1>1 DEF Delivery!vars, LogOfQueue, Intact
<1>2. CASE Receiver
  <2>1. ASSUME NEW a \in Alert, AppendLine(a) PROVE Delivery!Next
    <3>1. [alert |-> a, part |-> "line"] \in Piece
      OBVIOUS
    <3>2. QED
      BY <2>1, <3>1, AcceptStep DEF AppendLine
  <2>2. ASSUME NEW a \in Alert, NEW first \in Parts, NEW second, AppendCut(a, first, second)
        PROVE  Delivery!Next
    <3>1. [alert |-> a, part |-> first] \in Piece
      OBVIOUS
    <3>2. QED
      BY <2>2, <3>1, AcceptStep DEF AppendCut
  <2>3. ASSUME AppendRest PROVE Delivery!Next
    <3>1. Head(writing) \in Piece
      BY <2>3 DEF AppendRest, TypeOK
    <3>2. QED
      BY <2>3, <3>1, AcceptStep DEF AppendRest
  <2>4. ASSUME AbandonAppend PROVE UNCHANGED Delivery!vars
    BY <1>1, <2>4 DEF AbandonAppend
  <2>5. QED
    BY <1>2, <2>1, <2>2, <2>3, <2>4 DEF Receiver
<1>3. CASE InsertIncident
  <2>1. cur \in Alert /\ ~Recorded(cur) /\ incidents' = incidents \cup {cur}
        /\ UNCHANGED <<queue, offset, attempts>>
    BY <1>3 DEF InsertIncident, TypeOK
  <2>2. \E i \in DOMAIN LogOfQueue : LogOfQueue[i].alert = cur
    BY <1>3, LogEntries DEF InsertIncident, CursorInv
  <2>3. UNCHANGED LogOfQueue
    BY <2>1 DEF LogOfQueue, Intact
  <2>4. Delivery!Record(cur)
    BY <2>1, <2>2, <2>3 DEF Delivery!Record, Delivery!OnRecord, Recorded
  <2>5. QED
    BY <2>1, <2>4 DEF Delivery!Next
<1>4. ASSUME NEW ch \in Channels, Send(ch) PROVE Delivery!Next
  <2>1. cur \in Alert /\ cur \in incidents /\ attempts[cur][ch] = 0
    BY <1>4 DEF Send, TypeOK, NotificationInv
  <2>2. attempts' = [attempts EXCEPT ![cur][ch] = 1]
    BY <1>4, <2>1 DEF Send, TypeOK
  <2>3. UNCHANGED <<LogOfQueue, offset, incidents>>
    BY <1>4 DEF Send, LogOfQueue, Intact
  <2>4. Delivery!Notify(cur, ch)
    BY <2>1, <2>2, <2>3 DEF Delivery!Notify
  <2>5. QED
    BY <2>1, <2>4 DEF Delivery!Next
<1>5. CASE WriteOffset
  <2>1. /\ offset' = cursor /\ Done(cursor) /\ offset <= cursor
        /\ offset \in 0..Len(queue) /\ cursor \in 0..Len(queue) /\ Len(queue) \in Nat
        /\ UNCHANGED <<queue, incidents, attempts>>
    BY <1>5 DEF WriteOffset, CursorInv, TypeOK
  <2>2. CASE offset = cursor
    BY <1>1, <2>1, <2>2
  <2>3. CASE offset # cursor
    <3>1. offset < cursor /\ cursor \in 1..Len(LogOfQueue)
      BY <2>1, <2>3, LogEntries
    <3>2. \A i \in 1..cursor : LogOfQueue[i].whole => Delivery!OnRecord(LogOfQueue[i].alert)
      BY <2>1, LogEntries DEF Done, Recorded, Delivery!OnRecord
    <3>3. UNCHANGED LogOfQueue
      BY <2>1 DEF LogOfQueue, Intact
    <3>4. Delivery!Acknowledge(cursor)
      BY <2>1, <3>1, <3>2, <3>3 DEF Delivery!Acknowledge
    <3>5. QED
      BY <3>1, <3>4 DEF Delivery!Next
  <2>4. QED
    BY <2>2, <2>3
<1>6. CASE LoseOffset
  <2>1. Delivery!Rewind
    BY <1>6 DEF LoseOffset, Delivery!Rewind, LogOfQueue, Intact
  <2>2. QED
    BY <2>1 DEF Delivery!Next
<1>7. ASSUME OpenQueue \/ EndBatch \/ BuildContext \/ DuplicateIncident
      PROVE  UNCHANGED Delivery!vars
  BY <1>1, <1>7 DEF OpenQueue, EndBatch, BuildContext, DuplicateIncident
<1>8. ASSUME NEW e \in 1..Len(queue), ReadBlank(e) \/ ReadMalformed(e) \/ ReadAlert(e)
      PROVE  UNCHANGED Delivery!vars
  BY <1>1, <1>8 DEF ReadBlank, ReadMalformed, ReadAlert, ReadLine
<1>9. ASSUME FailedCall \/ Crash \/ Restart PROVE UNCHANGED Delivery!vars
  BY <1>1, <1>9 DEF FailedCall, Fail, Crash, Restart
<1>10. ASSUME UNCHANGED vars PROVE UNCHANGED Delivery!vars
  BY <1>1, <1>10 DEF vars
<1>11. QED
  BY <1>2, <1>3, <1>4, <1>5, <1>6, <1>7, <1>8, <1>9, <1>10 DEF Next, AgentStep

\* The agent and its queue implement AlertDelivery.
THEOREM Refinement == Spec => Delivers
<1>1. QED
  BY DeliveryInit, DeliveryStep, TypeCorrect, NotificationAlways, CursorAlways, PTL
  DEF Spec, Delivers, Delivery!Spec

\* The invariant the proofs rest on.
THEOREM AgentInvariantHolds == Spec => []AgentInvariant
<1>1. TypeOK /\ NotificationInv /\ CursorInv /\ HistoryInv => AgentInvariant
  BY DEF AgentInvariant
<1>2. QED
  BY <1>1, TypeCorrect, NotificationAlways, CursorAlways, HistoryInit, HistoryNext, PTL DEF Spec
=============================================================================
