------------------------------ MODULE Runbooks ------------------------------
(***************************************************************************)
(* Loading a directory of runbooks and finding the one for an alert.  A    *)
(* runbook is an id and its triggers, each an alert type and the least     *)
(* severity it is for.  The directory is external: its files come in the   *)
(* order glob returns them, which is any, and some do not parse.           *)
(***************************************************************************)
EXTENDS Naturals, SequencesExt

NoRunbook == [id |-> "none", triggers |-> <<>>]
Broken    == [id |-> "broken", triggers |-> <<>>]

SeverityLevels == <<"low", "medium", "high", "critical">>

\* SEVERITY_LEVELS.index, and the lowest level for what is not in the list.
Level(severity) ==
    IF severity \in ToSet(SeverityLevels)
    THEN CHOOSE i \in DOMAIN SeverityLevels : SeverityLevels[i] = severity
    ELSE 1

\* load_runbooks: a file that fails to load is skipped.
LoadRunbooks(files) ==
    LET loaded[n \in 0..Len(files)] ==
            IF n = 0 THEN <<>>
            ELSE IF files[n] # Broken THEN Append(loaded[n - 1], files[n])
            ELSE loaded[n - 1]
    IN  loaded[Len(files)]

TriggersOn(trigger, type, severity) ==
    trigger.type = type /\ Level(severity) >= Level(trigger.min)

\* Faulty variant: the first trigger of the type decides, whatever its severity.
MatchFirstOfType(runbooks, type, severity) ==
    LET i == SelectInSeq(runbooks, LAMBDA r : \E t \in ToSet(r.triggers) : t.type = type)
    IN  IF i > 0 /\ \E t \in ToSet(runbooks[i].triggers) : TriggersOn(t, type, severity)
        THEN runbooks[i] ELSE NoRunbook

\* match_runbook: the first runbook with a trigger for the alert.
MatchRunbook(runbooks, type, severity) ==
    LET i == SelectInSeq(runbooks, LAMBDA r :
                 \E t \in ToSet(r.triggers) : TriggersOn(t, type, severity))
    IN  IF i = 0 THEN NoRunbook ELSE runbooks[i]
=============================================================================
