--------------------------- MODULE ActionApproval ---------------------------
(***************************************************************************)
(* Proposals of remedial actions and the rules against approval fatigue.   *)
(* The table action_proposals is shared by propose_action,                 *)
(* resolve_proposal, check_timeout_escalation and                          *)
(* group_pending_proposals.                                                *)
(*                                                                         *)
(* The callers, the agent's approval loop and the operator, are external:  *)
(* nothing in the repository calls these functions yet.  They are modelled *)
(* as one sequential caller, as the functions are synchronous and take no  *)
(* lock: none is called while another is under way.  The variable orderly, *)
(* chosen once, says what that caller is like.                             *)
(***************************************************************************)
EXTENDS Integers, Sequences, FiniteSets

CONSTANTS
    Action, Incident,  \* identities
    Severity,          \* severities the caller passes
    Cooldown,          \* REPROPOSAL_COOLDOWN, in ticks: a function of the severity
    Host, HostOf,      \* hosts, and the host of each incident
    Window,            \* group_pending_proposals' window, in ticks
    DayLength,         \* ticks in a day
    MaxTime, MaxProposals, MaxCrashes  \* bounds of the model

ASSUME ApprovalAssumption ==
    /\ Cooldown \in [Severity -> Nat \ {0}]
    /\ HostOf \in [Incident -> Host]
    /\ Window \in Nat /\ DayLength \in Nat \ {0}
    /\ MaxTime \in Nat /\ MaxProposals \in Nat /\ MaxCrashes \in Nat

Pair    == Incident \X Action
Answer  == {"approved", "skipped", "timeout"}
Outcome == Answer \cup {"success", "failed", "suppressed"}
Pending == "pending"   \* outcome IS NULL
NoCall  == <<>>

VARIABLES
    orderly,    \* does the caller wait for the one answer of a proposal, or its
                \* timeout, and check for escalation, before it proposes again?
    now,        \* the clock
    proposals,  \* action_proposals, in the order of insertion
    unchecked,  \* pairs timed out since the caller last checked them
    call,       \* the pair that check_timeout_escalation, still under way, is
                \* about to pass to notify_callback, or NoCall
    announced,  \* pairs passed to notify_callback
    crashes

vars == <<orderly, now, proposals, unchecked, call, announced, crashes>>

Init ==
    /\ orderly \in BOOLEAN
    /\ now = 0
    /\ proposals = <<>>
    /\ unchecked = {}
    /\ call = NoCall
    /\ announced = {}
    /\ crashes = 0

PairOf(p) == <<p.incident, p.action>>
Ids(pair) == {i \in DOMAIN proposals : PairOf(proposals[i]) = pair}

\* get_last_proposal: the greatest proposed_at.  No two rows of a pair tie.
IsLast(i, pair) ==
    /\ i \in Ids(pair)
    /\ \A j \in Ids(pair) : proposals[j].proposed_at <= proposals[i].proposed_at

\* count_timeouts
Timeouts(pair) == Cardinality({i \in Ids(pair) : proposals[i].outcome = "timeout"})

Tick ==
    /\ now < MaxTime
    /\ now' = now + 1
    /\ UNCHANGED <<orderly, proposals, unchecked, call, announced, crashes>>

-----------------------------------------------------------------------------
(* Proposing.                                                              *)

\* Faulty variant: only a skip is final.
ShouldProposeSuppressed(pair) ==
    \A i \in Ids(pair) : IsLast(i, pair) =>
        /\ proposals[i].outcome # "skipped"
        /\ now - proposals[i].proposed_at >= Cooldown[proposals[i].severity]

\* Faulty variant: an action that failed may be tried again at once.
ShouldProposeFailedAtOnce(pair) ==
    \A i \in Ids(pair) : IsLast(i, pair) =>
        /\ proposals[i].outcome \notin {"skipped", "suppressed"}
        /\ \/ proposals[i].outcome = "failed"
           \/ now - proposals[i].proposed_at >= Cooldown[proposals[i].severity]

\* should_propose_action: the last proposal of the pair decides.
ShouldPropose(pair) ==
    \A i \in Ids(pair) : IsLast(i, pair) =>
        /\ proposals[i].outcome \notin {"skipped", "suppressed"}
        /\ now - proposals[i].proposed_at >= Cooldown[proposals[i].severity]

\* An orderly caller has dealt with the proposals of the pair.
Ready(pair) ==
    orderly =>
        /\ \A i \in Ids(pair) : proposals[i].outcome \notin {Pending, "approved"}
        /\ pair \notin unchecked

\* propose_action.  The last proposal is read on one connection and the new one
\* inserted on another: no other call of the one caller comes in between, and
\* a crash in between leaves what it found.
Propose(pair, severity) ==
    /\ call = NoCall
    /\ Len(proposals) < MaxProposals
    /\ Ready(pair)
    /\ ShouldPropose(pair)
    /\ proposals' = Append(proposals,
           [incident |-> pair[1], action |-> pair[2], severity |-> severity,
            proposed_at |-> now, outcome |-> Pending])
    /\ UNCHANGED <<orderly, now, unchecked, call, announced, crashes>>

-----------------------------------------------------------------------------
(* Outcomes.                                                               *)

\* resolve_proposal: the outcome is written over whatever is there.
Resolve(i, outcome) ==
    /\ call = NoCall
    /\ proposals' = [proposals EXCEPT ![i].outcome = outcome]
    /\ unchecked' = IF outcome = "timeout" THEN unchecked \cup {PairOf(proposals[i])}
                                           ELSE unchecked
    /\ UNCHANGED <<orderly, now, call, announced, crashes>>

\* The operator answers, or the approval times out.
OperatorAnswers(i) ==
    /\ proposals[i].outcome = Pending
    /\ \E outcome \in Answer : Resolve(i, outcome)

\* An approved action has been executed.
ActionEnds(i) ==
    /\ proposals[i].outcome = "approved"
    /\ \E outcome \in {"success", "failed"} : Resolve(i, outcome)

\* Any other caller writes any valid outcome over any other: an answer that
\* lost the race against the timeout, a suppression by hand.
AnyOutcome(i) ==
    /\ ~orderly
    /\ \E outcome \in Outcome \ {proposals[i].outcome} : Resolve(i, outcome)

-----------------------------------------------------------------------------
(* Escalation: two transactions, then the callback.                        *)

\* Faulty variant: without the subquery, every proposal of the pair.
SuppressedAll(pair) ==
    [i \in DOMAIN proposals |->
        IF i \in Ids(pair) THEN [proposals[i] EXCEPT !.outcome = "suppressed"]
                           ELSE proposals[i]]

\* mark_action_suppressed: the last proposal of the pair, whatever its outcome.
Suppressed(pair) ==
    [i \in DOMAIN proposals |->
        IF IsLast(i, pair) THEN [proposals[i] EXCEPT !.outcome = "suppressed"]
                           ELSE proposals[i]]

\* Faulty variant: escalation from the third timeout on.
EscalateLater(pair, notify) ==
    /\ call = NoCall
    /\ unchecked' = unchecked \ {pair}
    /\ IF Timeouts(pair) > 2
       THEN proposals' = Suppressed(pair) /\ call' = IF notify THEN pair ELSE NoCall
       ELSE UNCHANGED <<proposals, call>>
    /\ UNCHANGED <<orderly, now, announced, crashes>>

\* Faulty variant: the operator is notified, but nothing is suppressed.
EscalateOnly(pair, notify) ==
    /\ call = NoCall
    /\ unchecked' = unchecked \ {pair}
    /\ call' = IF notify /\ Timeouts(pair) >= 2 THEN pair ELSE NoCall
    /\ UNCHANGED <<orderly, now, proposals, announced, crashes>>

\* check_timeout_escalation; notify: was it given a notify_callback?
CheckTimeouts(pair, notify) ==
    /\ call = NoCall
    /\ unchecked' = unchecked \ {pair}
    /\ IF Timeouts(pair) >= 2
       THEN proposals' = Suppressed(pair) /\ call' = IF notify THEN pair ELSE NoCall
       ELSE UNCHANGED <<proposals, call>>
    /\ UNCHANGED <<orderly, now, announced, crashes>>

\* Faulty variant: the call is over before its message is put together.
AnnounceReset ==
    /\ call # NoCall
    /\ call' = NoCall
    /\ announced' = announced \cup {call'}
    /\ UNCHANGED <<orderly, now, proposals, unchecked, crashes>>

\* notify_callback returns.
Announce ==
    /\ call # NoCall
    /\ announced' = announced \cup {call}
    /\ call' = NoCall
    /\ UNCHANGED <<orderly, now, proposals, unchecked, crashes>>

\* notify_callback raises: the exception reaches the caller, and nobody is told.
AnnounceFails ==
    /\ call # NoCall
    /\ call' = NoCall
    /\ UNCHANGED <<orderly, now, proposals, unchecked, announced, crashes>>

\* The process dies; what it knew of the calls it had to make is lost with it.
Crash ==
    /\ crashes < MaxCrashes
    /\ crashes' = crashes + 1
    /\ call' = NoCall
    /\ unchecked' = {}
    /\ UNCHANGED <<orderly, now, proposals, announced>>

-----------------------------------------------------------------------------
(* Grouping.                                                               *)

Day(time) == time \div DayLength

\* Faulty variant: a proposal of the day of the window's start is left out.
StampedSinceDayAfter(time, cutoff) == Day(time) > Day(cutoff)

\* proposed_at is compared as text with datetime('now', '-N seconds'): the
\* dates are compared, and on the same date the "T" of isoformat() is greater
\* than the blank of SQLite's datetime().
StampedSince(time, cutoff) == Day(time) >= Day(cutoff)

\* get_pending_proposals
PendingOf(host) ==
    {i \in DOMAIN proposals :
        /\ HostOf[proposals[i].incident] = host
        /\ proposals[i].outcome = Pending
        /\ StampedSince(proposals[i].proposed_at, now - Window)}

-----------------------------------------------------------------------------

Next ==
    \/ Tick
    \/ \E pair \in Pair, severity \in Severity : Propose(pair, severity)
    \/ \E i \in DOMAIN proposals : OperatorAnswers(i) \/ ActionEnds(i) \/ AnyOutcome(i)
    \/ \E pair \in Pair, notify \in BOOLEAN : Ids(pair) # {} /\ CheckTimeouts(pair, notify)
    \/ Announce
    \/ AnnounceFails
    \/ Crash

Spec == Init /\ [][Next]_vars

-----------------------------------------------------------------------------
(* Properties.                                                             *)

TypeOK ==
    /\ orderly \in BOOLEAN
    /\ now \in 0..MaxTime
    /\ proposals \in Seq([incident : Incident, action : Action, severity : Severity,
                          proposed_at : 0..MaxTime, outcome : Outcome \cup {Pending}])
    /\ Len(proposals) <= MaxProposals
    /\ unchecked \subseteq Pair
    /\ call \in Pair \cup {NoCall}
    /\ announced \subseteq Pair
    /\ crashes \in 0..MaxCrashes

Proposes(pair) ==
    /\ Len(proposals') > Len(proposals)
    /\ PairOf(proposals'[Len(proposals')]) = pair

\* The caller is orderly, and never forgot a timeout it had yet to check.
Undisturbed == orderly /\ crashes = 0

\* Fatigue: two proposals of one action in one incident are apart by the
\* cooldown of the severity of the earlier one, whatever became of it, and
\* whatever else the caller does.
CooldownRespected ==
    \A i, j \in DOMAIN proposals :
        (i < j /\ PairOf(proposals[i]) = PairOf(proposals[j])) =>
            proposals[j].proposed_at - proposals[i].proposed_at
                >= Cooldown[proposals[i].severity]

\* An action that was skipped, or suppressed, is never proposed again in the
\* same incident by an orderly caller, crashes included.
RefusedIsFinal ==
    [][\A pair \in Pair : (orderly /\ Proposes(pair)) =>
           \A i \in Ids(pair) : proposals[i].outcome \notin {"skipped", "suppressed"}]_vars

\* An action goes unanswered at most twice in an incident: who waits for an
\* answer, and checks each timeout, proposes it no third time.
NoThirdTimeout ==
    Undisturbed => \A pair \in Pair :
        /\ Timeouts(pair) <= 2
        /\ Timeouts(pair) = 2 => \A i \in Ids(pair) : IsLast(i, pair) =>
                                     proposals[i].outcome = "timeout"

\* The operator is told at most once that an action is given up: no call
\* escalates a pair that was announced before.  (Not that the operator is told
\* at all: without a callback, or when it raises, or after a crash, nobody is.)
EscalatedOnce ==
    (Undisturbed /\ call # NoCall) => call \notin announced

\* The group of a host holds every proposal pending that was made in the window.
GroupIsComplete ==
    \A i \in DOMAIN proposals :
        (proposals[i].outcome = Pending /\ now - proposals[i].proposed_at <= Window) =>
            i \in PendingOf(HostOf[proposals[i].incident])

Suppresses(i) ==
    proposals'[i].outcome = "suppressed" /\ proposals[i].outcome # "suppressed"

\* Escalation gives up what went unanswered twice, the last time it was
\* proposed included, and overwrites nothing else: no approval, no result of
\* an action, no proposal still pending, although it counts the timeouts of
\* the whole incident and writes whatever row is the last.
OnlyUnansweredGivenUp ==
    [][Undisturbed => \A i \in DOMAIN proposals : Suppresses(i) =>
           /\ proposals[i].outcome = "timeout"
           /\ Timeouts(PairOf(proposals[i])) = 2]_vars
=============================================================================
