------------------------ MODULE ActionApprovalProofs ------------------------
(***************************************************************************)
(* What holds of ActionApproval for any number of incidents, actions and   *)
(* proposals, and any cooldown: two proposals are apart by it, what was    *)
(* refused is final, nothing times out a third time, only what timed out   *)
(* twice is given up, and the operator hears of it at most once.           *)
(***************************************************************************)
EXTENDS ActionApproval, FiniteSetTheorems, SequenceTheorems, WellFoundedInduction, TLAPS

Row == [incident : Incident, action : Action, severity : Severity,
        proposed_at : 0..MaxTime, outcome : Outcome \cup {Pending}]

\* A function on 1..n is a sequence of length n.
LEMMA FunctionIsSeq ==
  ASSUME NEW S, NEW n \in Nat, NEW f \in [1..n -> S]
  PROVE  f \in Seq(S) /\ Len(f) = n
<1>1. f \in Seq(S)
  BY SeqDef
<1>2. DOMAIN f = 1..Len(f) /\ Len(f) \in Nat
  BY <1>1, LenProperties
<1>3. DOMAIN f = 1..n
  OBVIOUS
<1> QED
  BY <1>1, <1>2, <1>3

\* What TypeOK says of the table, row by row.
LEMMA ProposalsType ==
  ASSUME TypeOK
  PROVE  /\ proposals \in Seq(Row) /\ Len(proposals) \in Nat
         /\ DOMAIN proposals = 1..Len(proposals)
         /\ \A i \in DOMAIN proposals :
                /\ proposals[i] \in Row
                /\ PairOf(proposals[i]) \in Pair
                /\ proposals[i].proposed_at \in Nat
                /\ Cooldown[proposals[i].severity] \in Nat \ {0}
         /\ now \in Nat /\ crashes \in Nat
<1>1. proposals \in Seq(Row) /\ now \in Nat /\ crashes \in Nat
  BY ApprovalAssumption DEF TypeOK, Row
<1>2. Len(proposals) \in Nat /\ DOMAIN proposals = 1..Len(proposals)
  BY <1>1, LenProperties
<1>3. \A i \in DOMAIN proposals : proposals[i] \in Row
  BY <1>1, <1>2, ElementOfSeq
<1> QED
  BY <1>1, <1>2, <1>3, ApprovalAssumption DEF Row, PairOf, Pair

\* The table and the clock keep their types and their bounds.
THEOREM TypeCorrect == Spec => []TypeOK
<1> USE ApprovalAssumption DEF TypeOK, Pair, Outcome, Answer, Pending, NoCall
<1>1. Init => TypeOK
  BY DEF Init
<1>2. TypeOK /\ [Next]_vars => TypeOK'
  <2> SUFFICES ASSUME TypeOK, [Next]_vars PROVE TypeOK'
    OBVIOUS
  <2>1. ASSUME NEW i \in DOMAIN proposals, NEW o \in Outcome, Resolve(i, o) PROVE TypeOK'
    <3>1. proposals \in Seq(Row) /\ i \in 1..Len(proposals) /\ proposals[i] \in Row
      BY ProposalsType
    <3>2. PairOf(proposals[i]) \in Pair
      BY <3>1 DEF PairOf, Row
    <3>3. [proposals[i] EXCEPT !.outcome = o] \in Row
      BY <3>1 DEF Row
    <3>4. proposals' = [proposals EXCEPT ![i] = [proposals[i] EXCEPT !.outcome = o]]
      BY <2>1 DEF Resolve
    <3>5. proposals' \in Seq(Row) /\ Len(proposals') = Len(proposals)
      BY <3>1, <3>3, <3>4, ExceptSeq
    <3> QED
      BY <2>1, <3>2, <3>5 DEF Resolve, Row
  <2>2. CASE Tick
    BY <2>2 DEF Tick
  <2>3. ASSUME NEW pair \in Pair, NEW severity \in Severity, Propose(pair, severity)
        PROVE  TypeOK'
    <3>1. [incident |-> pair[1], action |-> pair[2], severity |-> severity,
           proposed_at |-> now, outcome |-> Pending] \in Row
      BY DEF Row
    <3>2. proposals' \in Seq(Row) /\ Len(proposals') = Len(proposals) + 1
      BY <2>3, <3>1, AppendProperties DEF Propose, Row
    <3> QED
      BY <2>3, <3>2 DEF Propose, Row
  <2>4. ASSUME NEW i \in DOMAIN proposals, OperatorAnswers(i) \/ ActionEnds(i) \/ AnyOutcome(i)
        PROVE  TypeOK'
    BY <2>1, <2>4 DEF OperatorAnswers, ActionEnds, AnyOutcome
  <2>5. ASSUME NEW pair \in Pair, NEW notify \in BOOLEAN, CheckTimeouts(pair, notify) PROVE TypeOK'
    <3> DEFINE n == Len(proposals)
    <3>3. proposals \in Seq(Row) /\ n \in Nat /\ DOMAIN proposals = 1..n
      BY ProposalsType
    <3>4. ASSUME NEW i \in 1..n
          PROVE  proposals[i] \in Row /\ [proposals[i] EXCEPT !.outcome = "suppressed"] \in Row
      BY <3>3, ProposalsType DEF Row
    <3>5. Suppressed(pair) \in [1..n -> Row]
      BY <3>3, <3>4 DEF Suppressed
    <3>1. Suppressed(pair) \in Seq(Row) /\ Len(Suppressed(pair)) = Len(proposals)
      BY <3>3, <3>5, FunctionIsSeq
    <3>2. proposals' \in Seq(Row) /\ Len(proposals') = Len(proposals) /\ call' \in {pair, NoCall, call}
      BY <2>5, <3>1 DEF CheckTimeouts, Row
    <3> QED
      BY <2>5, <3>2 DEF CheckTimeouts, Row
  <2>6. CASE Announce \/ AnnounceFails
    BY <2>6 DEF Announce, AnnounceFails
  <2>7. CASE Crash
    BY <2>7 DEF Crash
  <2>8. CASE UNCHANGED vars
    BY <2>8 DEF vars
  <2> QED
    BY <2>2, <2>3, <2>4, <2>5, <2>6, <2>7, <2>8 DEF Next
<1> QED
  BY <1>1, <1>2, PTL DEF Spec

-----------------------------------------------------------------------------
(* What a step does to the rows: it appends one, or it writes outcomes.    *)

\* No two rows change places, and a row keeps all but its outcome.
SameRows ==
    /\ Len(proposals') = Len(proposals) /\ DOMAIN proposals' = DOMAIN proposals
    /\ \A i \in DOMAIN proposals :
           /\ PairOf(proposals'[i]) = PairOf(proposals[i])
           /\ proposals'[i].proposed_at = proposals[i].proposed_at
           /\ proposals'[i].severity = proposals[i].severity

\* resolve_proposal sets the outcome of one row.
LEMMA ResolveWrites ==
  ASSUME TypeOK, NEW i \in DOMAIN proposals, NEW o \in Outcome, Resolve(i, o)
  PROVE  /\ SameRows
         /\ proposals'[i].outcome = o
         /\ \A j \in DOMAIN proposals : j # i => proposals'[j] = proposals[j]
<1> DEFINE row == [proposals[i] EXCEPT !.outcome = o]
<1>1. proposals' = [proposals EXCEPT ![i] = row]
  BY DEF Resolve
<1>2. row \in Row /\ PairOf(row) = PairOf(proposals[i]) /\ row.outcome = o
      /\ row.proposed_at = proposals[i].proposed_at /\ row.severity = proposals[i].severity
  BY ProposalsType DEF Row, PairOf, Outcome
<1>3. Len(proposals') = Len(proposals) /\ DOMAIN proposals' = DOMAIN proposals
      /\ \A j \in DOMAIN proposals : proposals'[j] = IF j = i THEN row ELSE proposals[j]
  BY <1>1, <1>2, ProposalsType, ExceptSeq
<1> HIDE DEF row
<1> QED
  BY <1>2, <1>3 DEF SameRows

\* A suppression sets the outcome of the pair's last row.
LEMMA SuppressWrites ==
  ASSUME TypeOK, NEW pair \in Pair, proposals' = Suppressed(pair)
  PROVE  /\ SameRows
         /\ \A j \in DOMAIN proposals :
                IF IsLast(j, pair) THEN proposals'[j].outcome = "suppressed"
                                   ELSE proposals'[j] = proposals[j]
<1>1. \A j \in DOMAIN proposals :
          proposals'[j] = IF IsLast(j, pair) THEN [proposals[j] EXCEPT !.outcome = "suppressed"]
                                             ELSE proposals[j]
  BY DEF Suppressed
<1>2. \A j \in DOMAIN proposals : [proposals[j] EXCEPT !.outcome = "suppressed"] \in Row
  BY ProposalsType DEF Row, Outcome
<1>3. proposals' \in [1..Len(proposals) -> Row]
  BY <1>2, ProposalsType DEF Suppressed
<1>4. Len(proposals') = Len(proposals) /\ DOMAIN proposals' = DOMAIN proposals
  BY <1>3, ProposalsType, FunctionIsSeq
<1>5. \A j \in DOMAIN proposals :
          IF IsLast(j, pair) THEN proposals'[j].outcome = "suppressed"
                             ELSE proposals'[j] = proposals[j]
  BY <1>1, ProposalsType DEF Row
<1> QED
  BY <1>1, <1>4, <1>5, ProposalsType DEF SameRows, PairOf, Row

\* propose_action adds a pending row behind the others.
LEMMA ProposeAppends ==
  ASSUME TypeOK, NEW pair \in Pair, NEW severity \in Severity, Propose(pair, severity)
  PROVE  /\ Len(proposals') = Len(proposals) + 1
         /\ DOMAIN proposals' = 1..(Len(proposals) + 1)
         /\ \A i \in DOMAIN proposals : proposals'[i] = proposals[i]
         /\ LET row == proposals'[Len(proposals')]
            IN  /\ PairOf(row) = pair /\ row.outcome = Pending /\ row.proposed_at = now
                /\ row.severity = severity
<1> DEFINE new == [incident |-> pair[1], action |-> pair[2], severity |-> severity,
                   proposed_at |-> now, outcome |-> Pending]
<1>1. new \in Row /\ PairOf(new) = pair
  BY DEF Row, TypeOK, PairOf, Pair
<1>2. /\ Len(proposals') = Len(proposals) + 1
      /\ DOMAIN proposals' = 1..(Len(proposals) + 1)
      /\ proposals'[Len(proposals) + 1] = new
      /\ \A i \in 1..Len(proposals) : proposals'[i] = proposals[i]
  BY <1>1, ProposalsType, AppendProperties, LenProperties DEF Propose
<1> QED
  BY <1>1, <1>2, ProposalsType
-----------------------------------------------------------------------------
(* The parts of the inductive invariant.                                   *)

\* The last row of a pair by its place in the table.
Latest(i, pair) == i \in Ids(pair) /\ \A j \in Ids(pair) : j <= i

\* No proposal is stamped in the future.
Clocked == \A i \in DOMAIN proposals : proposals[i].proposed_at <= now

\* Who waits for an answer has one for every row but the last of a pair, and
\* it was no refusal: after a refusal there is no other row.
SettledBefore ==
    orderly => \A i, j \in DOMAIN proposals :
        (i < j /\ PairOf(proposals[i]) = PairOf(proposals[j])) =>
            proposals[i].outcome \in {"timeout", "success", "failed"}

\* A second timeout is the last row, and is still to be checked.
SecondUnchecked ==
    Undisturbed => \A pair \in Pair : \A i, j \in Ids(pair) :
        (i < j /\ proposals[i].outcome = "timeout" /\ proposals[j].outcome = "timeout") =>
            Latest(j, pair) /\ pair \in unchecked

\* What the operator is told is given up has been given up.
AnnouncedIsGivenUp ==
    Undisturbed => \A pair \in Pair : pair \in announced \cup {call} =>
        \E i \in Ids(pair) : proposals[i].outcome = "suppressed"

-----------------------------------------------------------------------------
(* The last row of a pair: the one with the greatest proposed_at is the    *)
(* one that was inserted last, and there is one.                           *)

\* get_last_proposal orders by time: as proposals of a pair are apart, it
\* finds the row inserted last.
LEMMA LastIsLatest ==
  ASSUME TypeOK, CooldownRespected, NEW pair, NEW i
  PROVE  IsLast(i, pair) <=> Latest(i, pair)
<1>1. \A j, k \in Ids(pair) : j < k => proposals[j].proposed_at < proposals[k].proposed_at
  BY ProposalsType DEF CooldownRespected, Ids
<1>2. Ids(pair) \subseteq Nat
  BY ProposalsType DEF Ids
<1>3. \A j \in Ids(pair) : proposals[j].proposed_at \in Nat
  BY ProposalsType DEF Ids
<1>4. ASSUME IsLast(i, pair), NEW j \in Ids(pair) PROVE j <= i
  BY <1>1, <1>2, <1>3, <1>4 DEF IsLast
<1>5. ASSUME Latest(i, pair), NEW j \in Ids(pair)
      PROVE  proposals[j].proposed_at <= proposals[i].proposed_at
  <2>1. j = i \/ j < i
    BY <1>2, <1>5 DEF Latest
  <2> QED
    BY <1>1, <1>3, <1>5, <2>1 DEF Latest
<1> QED
  BY <1>4, <1>5 DEF IsLast, Latest

\* A pair with a proposal has a latest one.
LEMMA LatestExists ==
  ASSUME TypeOK, NEW pair, Ids(pair) # {}
  PROVE  \E i : Latest(i, pair)
<1> DEFINE T == {m \in Nat : Len(proposals) - m \in Ids(pair)}
<1>1. \A i \in Ids(pair) : i \in 1..Len(proposals)
  BY ProposalsType DEF Ids
<1>2. \A i \in Ids(pair) : Len(proposals) - i \in T
  BY <1>1, ProposalsType
<1>3. T \subseteq Nat /\ T # {}
  BY <1>2
<1>4. PICK m \in T : \A y \in T : <<y, m>> \notin OpToRel(<, Nat)
  BY <1>3, NatLessThanWellFounded, WFMin
<1>5. \A y \in T : ~(y < m)
  BY <1>4 DEF OpToRel
<1>6. ASSUME NEW j \in Ids(pair) PROVE j <= Len(proposals) - m
  <2>1. j \in Nat /\ Len(proposals) - j \in Nat /\ ~(Len(proposals) - j < m)
    BY <1>1, <1>2, <1>5, ProposalsType
  <2> QED
    BY <2>1, ProposalsType
<1>7. Latest(Len(proposals) - m, pair)
  BY <1>6 DEF Latest
<1> QED
  BY <1>7

-----------------------------------------------------------------------------
(* The steps of Next, by what they do to the table.                        *)

\* An outcome is written; if the caller is orderly, over no final one, and it
\* is none that only escalation writes.
Answering(i, o) ==
    /\ Resolve(i, o)
    /\ orderly => proposals[i].outcome \in {Pending, "approved"} /\ o # "suppressed"

\* The table stays as it is.
Quiet == Tick \/ Announce \/ AnnounceFails \/ Crash \/ UNCHANGED vars

\* What a step does to the table: nothing, or one of three things.
LEMMA StepKinds ==
  ASSUME TypeOK, [Next]_vars
  PROVE  \/ Quiet
         \/ \E pair \in Pair, severity \in Severity : Propose(pair, severity)
         \/ \E i \in DOMAIN proposals, o \in Outcome : Answering(i, o)
         \/ \E pair \in Pair, notify \in BOOLEAN : Ids(pair) # {} /\ CheckTimeouts(pair, notify)
<1>1. ASSUME NEW i \in DOMAIN proposals, OperatorAnswers(i) \/ ActionEnds(i) \/ AnyOutcome(i)
      PROVE  \E o \in Outcome : Answering(i, o)
  BY <1>1 DEF OperatorAnswers, ActionEnds, AnyOutcome, Answering, Answer, Outcome
<1> QED
  BY <1>1 DEF Next, Quiet

-----------------------------------------------------------------------------
(* The cooldown.                                                           *)

\* A new row is as late as the clock, and propose_action has compared it with
\* the last row of its pair; those before are earlier still.
LEMMA CooldownStep ==
  ASSUME TypeOK, Clocked, CooldownRespected, [Next]_vars
  PROVE  Clocked' /\ CooldownRespected'
<1>1. ASSUME SameRows, now' \in Nat, now' >= now PROVE Clocked' /\ CooldownRespected'
  <2>1. \A i \in DOMAIN proposals : proposals[i].proposed_at \in Nat
    BY ProposalsType
  <2>2. Clocked'
    BY <1>1, <2>1, ProposalsType DEF SameRows, Clocked
  <2>3. CooldownRespected'
    BY <1>1, <2>1 DEF SameRows, CooldownRespected
  <2> QED
    BY <2>2, <2>3
<1>2. CASE Quiet
  <2>1. UNCHANGED proposals /\ (now' = now \/ now' = now + 1)
    BY <1>2 DEF Quiet, Tick, Announce, AnnounceFails, Crash, vars
  <2> QED
    BY <1>1, <2>1, ProposalsType DEF SameRows
<1>3. ASSUME NEW i \in DOMAIN proposals, NEW o \in Outcome, Answering(i, o)
      PROVE  Clocked' /\ CooldownRespected'
  <2>1. SameRows /\ now' = now
    BY <1>3, ResolveWrites DEF Answering, Resolve
  <2> QED
    BY <1>1, <2>1, ProposalsType
<1>4. ASSUME NEW pair \in Pair, NEW notify \in BOOLEAN, CheckTimeouts(pair, notify)
      PROVE  Clocked' /\ CooldownRespected'
  <2>1. SameRows /\ now' = now
    BY <1>4, SuppressWrites DEF CheckTimeouts, SameRows
  <2> QED
    BY <1>1, <2>1, ProposalsType
<1>5. ASSUME NEW pair \in Pair, NEW severity \in Severity, Propose(pair, severity)
      PROVE  Clocked' /\ CooldownRespected'
  <2> DEFINE n == Len(proposals) + 1
  <2>1. /\ DOMAIN proposals' = 1..n /\ \A i \in DOMAIN proposals : proposals'[i] = proposals[i]
        /\ proposals'[n].proposed_at = now /\ PairOf(proposals'[n]) = pair
        /\ now' = now
    BY <1>5, ProposeAppends DEF Propose
  \* The last row of the pair is apart by its cooldown, and every other row
  \* of the pair is apart from the last row by its own.
  <2>2. ASSUME NEW i \in Ids(pair)
        PROVE  now - proposals[i].proposed_at >= Cooldown[proposals[i].severity]
    <3>1. PICK l : Latest(l, pair)
      BY <2>2, LatestExists
    <3>2. l \in DOMAIN proposals /\ PairOf(proposals[l]) = pair
      BY <3>1 DEF Latest, Ids
    <3>3. now - proposals[l].proposed_at >= Cooldown[proposals[l].severity]
      BY <1>5, <3>1, <3>2, LastIsLatest DEF Propose, ShouldPropose, Ids
    <3>4. CASE i = l
      BY <3>3, <3>4
    <3>5. CASE i # l
      <4>1. i < l /\ i \in DOMAIN proposals
        BY <3>1, <3>2, <3>5, ProposalsType DEF Latest, Ids
      <4>2. proposals[l].proposed_at - proposals[i].proposed_at >= Cooldown[proposals[i].severity]
        BY <3>2, <4>1 DEF CooldownRespected, Ids
      <4> QED
        BY <3>2, <4>1, <4>2, ProposalsType DEF Clocked
    <3> QED
      BY <3>4, <3>5
  <2>3. DOMAIN proposals = 1..(n - 1) /\ n \in Nat
    BY ProposalsType
  <2>4. Clocked'
    BY <2>1, <2>3, ProposalsType DEF Clocked
  <2>5. ASSUME NEW i \in 1..n, NEW j \in 1..n, i < j,
               PairOf(proposals'[i]) = PairOf(proposals'[j])
        PROVE  proposals'[j].proposed_at - proposals'[i].proposed_at
                   >= Cooldown[proposals'[i].severity]
    <3>1. i \in DOMAIN proposals /\ proposals'[i] = proposals[i]
      BY <2>1, <2>3, <2>5
    <3>2. CASE j = n
      BY <2>1, <2>2, <2>5, <3>1, <3>2 DEF Ids
    <3>3. CASE j # n
      <4>1. j \in DOMAIN proposals /\ proposals'[j] = proposals[j]
        BY <2>1, <2>3, <3>3
      <4> QED
        BY <2>5, <3>1, <4>1 DEF CooldownRespected
    <3> QED
      BY <3>2, <3>3
  <2> QED
    BY <2>1, <2>4, <2>5 DEF CooldownRespected
<1> QED
  BY <1>2, <1>3, <1>4, <1>5, StepKinds

\* Any two proposals of an action in an incident are apart by the cooldown
\* of the earlier one: propose_action looks at the last one only.
LEMMA CooldownAlways == Spec => [](Clocked /\ CooldownRespected)
<1>1. Init => Clocked /\ CooldownRespected
  BY DEF Init, Clocked, CooldownRespected
<1> QED
  BY <1>1, CooldownStep, TypeCorrect, PTL DEF Spec

\* Two proposals of an action are apart by the earlier one's cooldown, orderly
\* caller or not.
THEOREM CooldownKept == Spec => []CooldownRespected
BY CooldownAlways, PTL

-----------------------------------------------------------------------------
(* A refusal is final.                                                     *)

\* Callers wait for the answer before they propose again, so a pair's earlier
\* proposals stay as they were answered.
LEMMA SettledStep ==
  ASSUME TypeOK, CooldownRespected, SettledBefore, [Next]_vars
  PROVE  SettledBefore'
<1>1. orderly' = orderly
  BY DEF Next, vars, Tick, Propose, OperatorAnswers, ActionEnds, AnyOutcome, Resolve,
         CheckTimeouts, Announce, AnnounceFails, Crash
<1> SUFFICES ASSUME orderly, NEW i \in DOMAIN proposals', NEW j \in DOMAIN proposals', i < j,
                    PairOf(proposals'[i]) = PairOf(proposals'[j])
             PROVE  proposals'[i].outcome \in {"timeout", "success", "failed"}
  BY <1>1 DEF SettledBefore
<1>2. CASE Quiet
  BY <1>2 DEF Quiet, Tick, Announce, AnnounceFails, Crash, vars, SettledBefore
<1>3. ASSUME NEW k \in DOMAIN proposals, NEW o \in Outcome, Answering(k, o)
      PROVE  proposals'[i].outcome \in {"timeout", "success", "failed"}
  <2>1. SameRows /\ \A l \in DOMAIN proposals : l # k => proposals'[l] = proposals[l]
    BY <1>3, ResolveWrites DEF Answering
  <2>2. proposals[i].outcome \in {"timeout", "success", "failed"}
    BY <2>1 DEF SameRows, SettledBefore
  <2>3. i # k
    BY <1>3, <2>2 DEF Answering, Pending
  <2> QED
    BY <2>1, <2>2, <2>3 DEF SameRows
<1>4. ASSUME NEW pair \in Pair, NEW notify \in BOOLEAN, CheckTimeouts(pair, notify)
      PROVE  proposals'[i].outcome \in {"timeout", "success", "failed"}
  <2>1. CASE proposals' = Suppressed(pair)
    <3>1. SameRows /\ \A l \in DOMAIN proposals : ~IsLast(l, pair) => proposals'[l] = proposals[l]
      BY <2>1, SuppressWrites
    <3>2. i \in DOMAIN proposals /\ j \in DOMAIN proposals
          /\ PairOf(proposals[i]) = PairOf(proposals[j])
      BY <3>1 DEF SameRows
    <3>3. proposals[i].outcome \in {"timeout", "success", "failed"}
      BY <3>2 DEF SettledBefore
    <3>4. ~Latest(i, pair)
      BY <3>2, ProposalsType DEF Latest, Ids
    <3> QED
      BY <3>1, <3>2, <3>3, <3>4, LastIsLatest
  <2>2. CASE UNCHANGED proposals
    BY <2>2 DEF SettledBefore
  <2> QED
    BY <1>4, <2>1, <2>2 DEF CheckTimeouts
<1>5. ASSUME NEW pair \in Pair, NEW severity \in Severity, Propose(pair, severity)
      PROVE  proposals'[i].outcome \in {"timeout", "success", "failed"}
  <2> DEFINE n == Len(proposals) + 1
  <2>1. /\ DOMAIN proposals' = 1..n /\ \A l \in DOMAIN proposals : proposals'[l] = proposals[l]
        /\ PairOf(proposals'[n]) = pair
        /\ DOMAIN proposals = 1..(n - 1) /\ n \in Nat
    BY <1>5, ProposeAppends, ProposalsType
  <2>2. i \in DOMAIN proposals /\ proposals'[i] = proposals[i]
    BY <2>1
  <2>3. CASE j # n
    BY <2>1, <2>2, <2>3 DEF SettledBefore
  <2>4. CASE j = n
    <3>1. i \in Ids(pair)
      BY <2>1, <2>2, <2>4 DEF Ids
    \* An earlier row is settled; the last one is no refusal, and the caller
    \* has waited for the outcome of both.
    <3>2. CASE \E l \in Ids(pair) : i < l
      BY <2>2, <3>1, <3>2 DEF SettledBefore, Ids
    <3>3. CASE ~\E l \in Ids(pair) : i < l
      <4>1. Latest(i, pair)
        BY <2>1, <3>1, <3>3 DEF Latest, Ids
      <4>2. proposals[i].outcome \notin {"skipped", "suppressed", "approved", Pending}
        BY <1>5, <3>1, <4>1, LastIsLatest DEF Propose, ShouldPropose, Ready
      <4>3. proposals[i].outcome \in Outcome \cup {Pending}
        BY <2>2, ProposalsType DEF Row
      <4> QED
        BY <2>2, <4>2, <4>3 DEF Outcome, Answer
    <3> QED
      BY <3>2, <3>3
  <2> QED
    BY <2>3, <2>4
<1> QED
  BY <1>2, <1>3, <1>4, <1>5, StepKinds

\* With an orderly caller, every proposal of a pair but its last has been
\* answered, and by no refusal.
LEMMA SettledAlways == Spec => []SettledBefore
<1>1. Init => SettledBefore
  BY DEF Init, SettledBefore
<1> QED
  BY <1>1, SettledStep, CooldownKept, TypeCorrect, PTL DEF Spec

\* Only propose_action adds a row to the table.
LEMMA ProposesIsPropose ==
  ASSUME TypeOK, [Next]_vars, NEW pair, Proposes(pair)
  PROVE  pair \in Pair /\ \E severity \in Severity : Propose(pair, severity)
<1>1. ~SameRows
  BY ProposalsType DEF SameRows, Proposes
<1>2. ~Quiet
  BY <1>1 DEF Quiet, Tick, Announce, AnnounceFails, Crash, vars, SameRows
<1>3. ~\E i \in DOMAIN proposals, o \in Outcome : Answering(i, o)
  BY <1>1, ResolveWrites DEF Answering
<1>4. ~\E p \in Pair, notify \in BOOLEAN : CheckTimeouts(p, notify)
  BY <1>1, SuppressWrites DEF CheckTimeouts, SameRows
<1>5. PICK p \in Pair, severity \in Severity : Propose(p, severity)
  BY <1>2, <1>3, <1>4, StepKinds
<1>6. p = pair
  BY <1>5, ProposeAppends DEF Proposes
<1> QED
  BY <1>5, <1>6

\* An action that was skipped, or suppressed, is not proposed again in the
\* same incident by an orderly caller, whatever crashes in between.
THEOREM RefusalFinal == Spec => RefusedIsFinal
<1>1. TypeOK /\ CooldownRespected /\ SettledBefore /\ [Next]_vars =>
          [\A pair \in Pair : (orderly /\ Proposes(pair)) =>
               \A i \in Ids(pair) : proposals[i].outcome \notin {"skipped", "suppressed"}]_vars
  <2> SUFFICES ASSUME TypeOK, CooldownRespected, SettledBefore, [Next]_vars,
                      NEW pair \in Pair, orderly, Proposes(pair), NEW i \in Ids(pair)
               PROVE  proposals[i].outcome \notin {"skipped", "suppressed"}
    OBVIOUS
  <2>1. ShouldPropose(pair)
    BY ProposesIsPropose DEF Propose
  <2>2. CASE \E j \in Ids(pair) : i < j
    BY <2>2 DEF SettledBefore, Ids
  <2>3. CASE ~\E j \in Ids(pair) : i < j
    <3>1. Latest(i, pair)
      BY <2>3, ProposalsType DEF Latest, Ids
    <3> QED
      BY <2>1, <3>1, LastIsLatest DEF ShouldPropose
  <2> QED
    BY <2>2, <2>3
<1> QED
  BY <1>1, SettledAlways, CooldownKept, TypeCorrect, PTL DEF Spec, RefusedIsFinal

-----------------------------------------------------------------------------
(* Groups.                                                                 *)

\* A later instant is on the same or a later day.
LEMMA DayMonotonic ==
  ASSUME NEW s \in Int, NEW t \in Int, s <= t
  PROVE  Day(s) <= Day(t)
<1> DEFINE d == DayLength
<1>1. d \in Nat \ {0}
  BY ApprovalAssumption
<1> HIDE DEF d
<1>2. /\ s \div d \in Int /\ t \div d \in Int
      /\ d * (s \div d) <= s /\ t < d * (t \div d) + d
  BY <1>1
<1> QED
  BY <1>1, <1>2 DEF Day, d

\* Comparing days instead of instants loses no proposal of the window.
THEOREM GroupComplete == Spec => []GroupIsComplete
<1>1. TypeOK => GroupIsComplete
  <2> SUFFICES ASSUME TypeOK, NEW i \in DOMAIN proposals, proposals[i].outcome = Pending,
                      now - proposals[i].proposed_at <= Window
               PROVE  i \in PendingOf(HostOf[proposals[i].incident])
    BY DEF GroupIsComplete
  <2>1. proposals[i].proposed_at \in Int /\ now - Window \in Int
        /\ now - Window <= proposals[i].proposed_at
    BY ProposalsType, ApprovalAssumption
  <2>2. Day(now - Window) \in Int /\ Day(proposals[i].proposed_at) \in Int
    BY <2>1, ApprovalAssumption DEF Day
  <2>3. Day(proposals[i].proposed_at) >= Day(now - Window)
    BY <2>1, <2>2, DayMonotonic
  <2> QED
    BY <2>3 DEF PendingOf, StampedSince
<1> QED
  BY <1>1, TypeCorrect, PTL

-----------------------------------------------------------------------------
(* Timeouts.                                                               *)

\* A finite set has two elements if it has two different ones.
LEMMA TwoOrMore ==
  ASSUME NEW S, IsFiniteSet(S)
  PROVE  Cardinality(S) >= 2 <=> \E x, y \in S : x # y
<1>1. Cardinality(S) \in Nat
  BY FS_CardinalityType
<1>2. Cardinality(S) = 0 <=> S = {}
  BY FS_EmptySet
<1>3. Cardinality(S) = 1 <=> \E x : S = {x}
  BY FS_Singleton
<1> QED
  BY <1>1, <1>2, <1>3

TimedOut(pair) == {i \in Ids(pair) : proposals[i].outcome = "timeout"}

\* count_timeouts reaches two when two rows of the pair have timed out.
LEMMA TimeoutsCount ==
  ASSUME TypeOK, NEW pair
  PROVE  /\ IsFiniteSet(TimedOut(pair)) /\ Timeouts(pair) = Cardinality(TimedOut(pair))
         /\ Timeouts(pair) \in Nat
         /\ Timeouts(pair) >= 2 <=> \E i, j \in TimedOut(pair) : i < j
<1>1. TimedOut(pair) \subseteq 1..Len(proposals)
  BY ProposalsType DEF TimedOut, Ids
<1>2. IsFiniteSet(TimedOut(pair))
  <2>1. IsFiniteSet(1..Len(proposals))
    BY ProposalsType, FS_Interval
  <2> QED
    BY <1>1, <2>1, FS_Subset
<1>3. Timeouts(pair) = Cardinality(TimedOut(pair))
  BY DEF Timeouts, TimedOut
<1>4. (\E i, j \in TimedOut(pair) : i # j) <=> \E i, j \in TimedOut(pair) : i < j
  BY <1>1, ProposalsType
<1> QED
  BY <1>2, <1>3, <1>4, TwoOrMore, FS_CardinalityType

\* What is undisturbed after a step was so before it, and the step was no
\* crash.
LEMMA UndisturbedStep ==
  ASSUME TypeOK, [Next]_vars, Undisturbed'
  PROVE  Undisturbed /\ ~Crash
<1>1. orderly' = orderly
  BY DEF Next, vars, Tick, Propose, OperatorAnswers, ActionEnds, AnyOutcome, Resolve,
         CheckTimeouts, Announce, AnnounceFails, Crash
<1>2. ~Crash
  <2>1. crashes \in Nat /\ crashes' = 0
    BY ProposalsType DEF Undisturbed
  <2> QED
    BY <2>1 DEF Crash
<1>3. crashes' = crashes
  BY <1>2 DEF Next, vars, Tick, Propose, OperatorAnswers, ActionEnds, AnyOutcome, Resolve,
              CheckTimeouts, Announce, AnnounceFails
<1> QED
  BY <1>1, <1>2, <1>3 DEF Undisturbed

\* A second timeout hits the row that is last, and the caller proposes no
\* other before it has checked; the check finds two timeouts and takes one.
LEMMA SecondStep ==
  ASSUME TypeOK, CooldownRespected, SettledBefore, SecondUnchecked, [Next]_vars
  PROVE  SecondUnchecked'
<1> SUFFICES ASSUME Undisturbed', NEW pair \in Pair,
                    NEW i \in TimedOut(pair)', NEW j \in TimedOut(pair)', i < j
             PROVE  Latest(j, pair)' /\ pair \in unchecked'
  BY DEF SecondUnchecked, TimedOut
<1>1. Undisturbed /\ orderly /\ ~Crash
  <2>1. Undisturbed /\ ~Crash
    BY UndisturbedStep
  <2> QED
    BY <2>1 DEF Undisturbed
<1>2. \A k, l \in TimedOut(pair) : k < l => Latest(l, pair) /\ pair \in unchecked
  BY <1>1 DEF SecondUnchecked, TimedOut
<1>3. SameRows => Ids(pair)' = Ids(pair)
  BY DEF SameRows, Ids
<1>4. CASE Quiet
  <2>1. UNCHANGED <<proposals, unchecked>>
    BY <1>1, <1>4 DEF Quiet, Tick, Announce, AnnounceFails, vars
  <2>2. i \in TimedOut(pair) /\ j \in TimedOut(pair)
    BY <2>1 DEF TimedOut, Ids
  <2> QED
    BY <1>2, <2>1, <2>2 DEF Latest, Ids
<1>5. ASSUME NEW k \in DOMAIN proposals, NEW o \in Outcome, Answering(k, o)
      PROVE  Latest(j, pair)' /\ pair \in unchecked'
  <2>1. /\ SameRows /\ proposals'[k].outcome = o
        /\ \A l \in DOMAIN proposals : l # k => proposals'[l] = proposals[l]
    BY <1>5, ResolveWrites DEF Answering
  <2>2. i \in Ids(pair) /\ j \in Ids(pair) /\ Ids(pair) \subseteq DOMAIN proposals
    BY <1>3, <2>1 DEF TimedOut, Ids
  <2>3. i # k
    BY <1>1, <1>5, <2>2 DEF SettledBefore, Answering, Ids, Pending
  <2>4. i \in TimedOut(pair)
    BY <2>1, <2>2, <2>3 DEF TimedOut, Ids
  <2>5. CASE j # k
    <3>1. j \in TimedOut(pair)
      BY <2>1, <2>2, <2>5 DEF TimedOut, Ids
    <3> QED
      BY <1>2, <1>3, <1>5, <2>1, <2>4, <3>1 DEF Latest, Answering, Resolve
  <2>6. CASE j = k
    <3>1. \A l \in Ids(pair) : ~(k < l)
      BY <1>1, <1>5, <2>2, <2>6 DEF SettledBefore, Answering, Ids, Pending
    <3>2. Latest(j, pair)
      BY <2>2, <2>6, <3>1, ProposalsType DEF Latest
    <3>3. o = "timeout" /\ PairOf(proposals[k]) = pair
      BY <2>1, <2>2, <2>6 DEF TimedOut, Ids
    <3> QED
      BY <1>3, <1>5, <2>1, <3>2, <3>3 DEF Latest, Answering, Resolve
  <2> QED
    BY <2>5, <2>6
<1>6. ASSUME NEW p \in Pair, NEW notify \in BOOLEAN, CheckTimeouts(p, notify)
      PROVE  Latest(j, pair)' /\ pair \in unchecked'
  <2>1. /\ SameRows /\ unchecked' = unchecked \ {p}
        /\ \A l \in Ids(pair) : proposals'[l] = proposals[l] \/ proposals'[l].outcome = "suppressed"
    BY <1>6, SuppressWrites DEF CheckTimeouts, SameRows, Ids
  <2>2. i \in TimedOut(pair) /\ j \in TimedOut(pair)
    BY <1>3, <2>1 DEF TimedOut
  <2>3. Latest(j, pair) /\ pair \in unchecked
    BY <1>2, <2>2
  <2>4. p # pair
    <3> SUFFICES ASSUME p = pair PROVE FALSE
      OBVIOUS
    <3>1. Timeouts(pair) >= 2
      BY <2>2, TimeoutsCount
    <3>2. proposals' = Suppressed(pair)
      BY <1>6, <3>1 DEF CheckTimeouts
    <3>3. proposals'[j].outcome = "suppressed"
      BY <2>3, <3>2, LastIsLatest, SuppressWrites DEF Latest, Ids
    <3> QED
      BY <3>3 DEF TimedOut
  <2> QED
    BY <1>3, <2>1, <2>3, <2>4 DEF Latest
<1>7. ASSUME NEW p \in Pair, NEW severity \in Severity, Propose(p, severity)
      PROVE  Latest(j, pair)' /\ pair \in unchecked'
  <2> DEFINE n == Len(proposals) + 1
  <2>1. /\ DOMAIN proposals' = 1..n /\ \A l \in DOMAIN proposals : proposals'[l] = proposals[l]
        /\ PairOf(proposals'[n]) = p /\ proposals'[n].outcome = Pending
        /\ DOMAIN proposals = 1..(n - 1) /\ n \in Nat
    BY <1>7, ProposeAppends, ProposalsType
  <2>2. i \in TimedOut(pair) /\ j \in TimedOut(pair)
    BY <2>1 DEF TimedOut, Ids, Pending
  <2>3. Latest(j, pair) /\ pair \in unchecked
    BY <1>2, <2>2
  <2>4. p # pair
    BY <1>1, <1>7, <2>3 DEF Propose, Ready
  <2>5. Ids(pair)' = Ids(pair)
    BY <2>1, <2>4 DEF Ids
  <2> QED
    BY <1>7, <2>3, <2>5 DEF Latest, Propose
<1> QED
  BY <1>4, <1>5, <1>6, <1>7, StepKinds

\* With an orderly caller, a second timeout is the pair's last row and still
\* to be checked.
LEMMA SecondAlways == Spec => []SecondUnchecked
<1>1. Init => SecondUnchecked
  BY DEF Init, SecondUnchecked, Ids
<1> QED
  BY <1>1, SecondStep, SettledAlways, CooldownKept, TypeCorrect, PTL DEF Spec

\* An action goes unanswered at most twice in an incident.
THEOREM TwoTimeoutsAtMost == Spec => []NoThirdTimeout
<1>1. TypeOK /\ CooldownRespected /\ SecondUnchecked => NoThirdTimeout
  <2> SUFFICES ASSUME TypeOK, CooldownRespected, SecondUnchecked, Undisturbed, NEW pair \in Pair
               PROVE  /\ Timeouts(pair) <= 2
                      /\ Timeouts(pair) = 2 => \A i \in Ids(pair) : IsLast(i, pair) =>
                                                   proposals[i].outcome = "timeout"
    BY DEF NoThirdTimeout
  <2>1. CASE ~(Timeouts(pair) >= 2)
    BY <2>1, TimeoutsCount
  <2>2. CASE Timeouts(pair) >= 2
    <3>1. PICK i \in TimedOut(pair), j \in TimedOut(pair) : i < j
      BY <2>2, TimeoutsCount
    <3>2. \A k, l \in TimedOut(pair) : k < l => Latest(l, pair)
      BY DEF SecondUnchecked, TimedOut
    <3>3. TimedOut(pair) \subseteq Ids(pair) /\ Ids(pair) \subseteq Nat
      BY ProposalsType DEF TimedOut, Ids
    <3>4. \A k \in TimedOut(pair) : k = i \/ k = j
      BY <3>1, <3>2, <3>3 DEF Latest
    <3>5. TimedOut(pair) \subseteq {i} \cup {j} /\ IsFiniteSet({i} \cup {j})
          /\ Cardinality({i} \cup {j}) <= 2
      <4>1. IsFiniteSet({i}) /\ Cardinality({i}) = 1
        BY FS_Singleton
      <4> QED
        BY <3>4, <4>1, FS_AddElement
    <3>6. Timeouts(pair) <= 2
      <4>1. Cardinality(TimedOut(pair)) <= Cardinality({i} \cup {j})
        BY <3>5, FS_Subset
      <4>2. Cardinality({i} \cup {j}) \in Nat
        BY <3>5, FS_CardinalityType
      <4> QED
        BY <3>5, <4>1, <4>2, TimeoutsCount
    <3>7. ASSUME NEW k \in Ids(pair), IsLast(k, pair) PROVE proposals[k].outcome = "timeout"
      <4>1. k = j
        BY <3>1, <3>2, <3>3, <3>7, LastIsLatest DEF Latest
      <4> QED
        BY <3>1, <4>1 DEF TimedOut
    <3> QED
      BY <3>6, <3>7
  <2> QED
    BY <2>1, <2>2
<1> QED
  BY <1>1, SecondAlways, CooldownKept, TypeCorrect, PTL

\* Only escalation writes "suppressed"; it has counted two timeouts then, there
\* are no more, and the row it writes, the last, is one of them.
THEOREM UnansweredGivenUp == Spec => OnlyUnansweredGivenUp
<1>1. TypeOK /\ NoThirdTimeout /\ [Next]_vars =>
          [Undisturbed => \A i \in DOMAIN proposals : Suppresses(i) =>
               /\ proposals[i].outcome = "timeout"
               /\ Timeouts(PairOf(proposals[i])) = 2]_vars
  <2> SUFFICES ASSUME TypeOK, NoThirdTimeout, [Next]_vars, Undisturbed,
                      NEW i \in DOMAIN proposals, Suppresses(i)
               PROVE  proposals[i].outcome = "timeout" /\ Timeouts(PairOf(proposals[i])) = 2
    OBVIOUS
  <2>1. proposals'[i] # proposals[i]
    BY DEF Suppresses
  <2>2. ~Quiet
    BY <2>1 DEF Quiet, Tick, Announce, AnnounceFails, Crash, vars
  <2>3. ASSUME NEW k \in DOMAIN proposals, NEW o \in Outcome, Answering(k, o) PROVE FALSE
    <3>1. proposals'[k].outcome = o /\ (i # k => proposals'[i] = proposals[i])
      BY <2>3, ResolveWrites DEF Answering
    <3>2. o # "suppressed"
      BY <2>3 DEF Answering, Undisturbed
    <3> QED
      BY <2>1, <3>1, <3>2 DEF Suppresses
  <2>4. ~\E p \in Pair, severity \in Severity : Propose(p, severity)
    BY <2>1, ProposeAppends
  <2>5. PICK p \in Pair, notify \in BOOLEAN : CheckTimeouts(p, notify)
    BY <2>2, <2>3, <2>4, StepKinds
  <2>6. Timeouts(p) >= 2 /\ proposals' = Suppressed(p)
    BY <2>1, <2>5 DEF CheckTimeouts
  <2>7. IsLast(i, p)
    BY <2>1, <2>6, SuppressWrites
  <2>8. i \in Ids(p) /\ PairOf(proposals[i]) = p
    BY <2>7 DEF IsLast, Ids
  <2>9. Timeouts(p) \in Nat
    BY TimeoutsCount
  <2>10. Timeouts(p) = 2
    BY <2>6, <2>9 DEF NoThirdTimeout
  <2> QED
    BY <2>7, <2>8, <2>10 DEF NoThirdTimeout
<1> QED
  BY <1>1, TwoTimeoutsAtMost, TypeCorrect, PTL DEF Spec, OnlyUnansweredGivenUp

-----------------------------------------------------------------------------
(* Announcements.                                                          *)

GivenUp(pair) == \E i \in Ids(pair) : proposals[i].outcome = "suppressed"

\* A suppressed row is never written over: no answer is outstanding for it.
LEMMA GivenUpStays ==
  ASSUME TypeOK, [Next]_vars, orderly, NEW pair \in Pair, GivenUp(pair)
  PROVE  GivenUp(pair)'
<1>1. PICK i \in Ids(pair) : proposals[i].outcome = "suppressed"
  BY DEF GivenUp
<1> SUFFICES i \in Ids(pair)' /\ proposals'[i].outcome = "suppressed"
  BY DEF GivenUp
<1>2. i \in DOMAIN proposals /\ PairOf(proposals[i]) = pair
  BY <1>1 DEF Ids
<1>3. CASE Quiet
  BY <1>1, <1>3 DEF Quiet, Tick, Announce, AnnounceFails, Crash, vars, Ids
<1>4. ASSUME NEW k \in DOMAIN proposals, NEW o \in Outcome, Answering(k, o)
      PROVE  i \in Ids(pair)' /\ proposals'[i].outcome = "suppressed"
  <2>1. i # k
    BY <1>1, <1>4 DEF Answering, Pending
  <2> QED
    BY <1>1, <1>2, <1>4, <2>1, ResolveWrites DEF Answering, SameRows, Ids
<1>5. ASSUME NEW p \in Pair, NEW notify \in BOOLEAN, CheckTimeouts(p, notify)
      PROVE  i \in Ids(pair)' /\ proposals'[i].outcome = "suppressed"
  BY <1>1, <1>2, <1>5, SuppressWrites DEF CheckTimeouts, SameRows, Ids
<1>6. ASSUME NEW p \in Pair, NEW severity \in Severity, Propose(p, severity)
      PROVE  i \in Ids(pair)' /\ proposals'[i].outcome = "suppressed"
  BY <1>1, <1>2, <1>6, ProposeAppends, ProposalsType DEF Ids
<1> QED
  BY <1>3, <1>4, <1>5, <1>6, StepKinds

\* The check that announces has suppressed the pair's last row before, and an
\* orderly caller does not overwrite it.
LEMMA AnnouncedStep ==
  ASSUME TypeOK, CooldownRespected, AnnouncedIsGivenUp, [Next]_vars
  PROVE  AnnouncedIsGivenUp'
<1> SUFFICES ASSUME Undisturbed', NEW pair \in Pair, pair \in announced' \cup {call'}
             PROVE  GivenUp(pair)'
  BY DEF AnnouncedIsGivenUp, GivenUp
<1>1. Undisturbed /\ orderly /\ ~Crash /\ pair # NoCall
  <2>1. Undisturbed /\ ~Crash
    BY UndisturbedStep
  <2>2. pair # NoCall
    BY DEF Pair, NoCall
  <2> QED
    BY <2>1, <2>2 DEF Undisturbed
<1>2. CASE pair \in announced \cup {call}
  BY <1>1, <1>2, GivenUpStays DEF AnnouncedIsGivenUp, GivenUp
<1>3. CASE pair \notin announced \cup {call}
  <2>1. CheckTimeouts(pair, TRUE) /\ call' = pair /\ Timeouts(pair) >= 2
    BY <1>1, <1>3 DEF Next, vars, Tick, Propose, OperatorAnswers, ActionEnds, AnyOutcome,
                      Resolve, CheckTimeouts, Announce, AnnounceFails
  <2>2. proposals' = Suppressed(pair)
    BY <2>1 DEF CheckTimeouts
  <2>3. Ids(pair) # {}
    BY <2>1, TimeoutsCount DEF TimedOut
  <2>4. PICK i : Latest(i, pair)
    BY <2>3, LatestExists
  <2>5. proposals'[i].outcome = "suppressed" /\ i \in Ids(pair)'
    BY <2>2, <2>4, LastIsLatest, SuppressWrites DEF Latest, SameRows, Ids
  <2> QED
    BY <2>5 DEF GivenUp
<1> QED
  BY <1>2, <1>3

\* With an orderly caller, what is announced has a suppressed row.
LEMMA AnnouncedAlways == Spec => []AnnouncedIsGivenUp
<1>1. Init => AnnouncedIsGivenUp
  BY DEF Init, AnnouncedIsGivenUp, Pair, NoCall
<1> QED
  BY <1>1, AnnouncedStep, CooldownKept, TypeCorrect, PTL DEF Spec

\* A call for an action announced before would need two timeouts of it, the
\* second of them its last row; but that is the row that was suppressed.
LEMMA EscalatedStep ==
  ASSUME TypeOK, CooldownRespected, SettledBefore, SecondUnchecked, AnnouncedIsGivenUp,
         EscalatedOnce, [Next]_vars
  PROVE  EscalatedOnce'
<1> SUFFICES ASSUME Undisturbed', call' # NoCall PROVE call' \notin announced'
  BY DEF EscalatedOnce
<1>1. Undisturbed /\ orderly /\ ~Crash
  <2>1. Undisturbed /\ ~Crash
    BY UndisturbedStep
  <2> QED
    BY <2>1 DEF Undisturbed
<1>2. CASE UNCHANGED <<call, announced>>
  BY <1>1, <1>2 DEF EscalatedOnce
<1>3. CASE ~UNCHANGED <<call, announced>>
  <2>1. PICK pair \in Pair : CheckTimeouts(pair, TRUE) /\ call' = pair /\ Timeouts(pair) >= 2
    BY <1>1, <1>3 DEF Next, vars, Tick, Propose, OperatorAnswers, ActionEnds, AnyOutcome,
                      Resolve, CheckTimeouts, Announce, AnnounceFails
  <2>2. SUFFICES ASSUME pair \in announced PROVE FALSE
    BY <2>1 DEF CheckTimeouts
  <2>3. PICK s \in Ids(pair) : proposals[s].outcome = "suppressed"
    BY <1>1, <2>2 DEF AnnouncedIsGivenUp
  <2>4. PICK i \in TimedOut(pair), j \in TimedOut(pair) : i < j
    BY <2>1, TimeoutsCount
  <2>5. Latest(j, pair)
    BY <1>1, <2>4 DEF SecondUnchecked, TimedOut
  <2>6. s < j
    BY <2>3, <2>4, <2>5, ProposalsType DEF Latest, TimedOut, Ids
  <2> QED
    BY <1>1, <2>3, <2>5, <2>6 DEF SettledBefore, Latest, Ids
<1> QED
  BY <1>2, <1>3

\* The operator is told at most once that an action is given up.
THEOREM EscalationOnce == Spec => []EscalatedOnce
<1>1. Init => EscalatedOnce
  BY DEF Init, EscalatedOnce
<1> QED
  BY <1>1, EscalatedStep, AnnouncedAlways, SecondAlways, SettledAlways, CooldownKept,
     TypeCorrect, PTL DEF Spec
=============================================================================
