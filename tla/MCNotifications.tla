--------------------------- MODULE MCNotifications ---------------------------
(* Small instances of Notifications for TLC. *)
EXTENDS Notifications

ShortTexts ==
    [title |-> 30, summary |-> 40, diagnostics |-> <<[name |-> 10, value |-> 5]>>,
     action |-> 0, approval |-> FALSE, forensic |-> 0, footer |-> 60]

\* One text to cut, and little else.
LongTitle == [ShortTexts EXCEPT !.title = 300]

\* Every text at its limit, or one above it where it is cut.
LongTexts ==
    [title |-> 255, summary |-> 4096,
     diagnostics |-> <<[name |-> 257, value |-> 1023], [name |-> 256, value |-> 1022]>>,
     action |-> 966, approval |-> TRUE, forensic |-> 1023, footer |-> 60]

\* As long as Discord accepts: 6000 characters in all.
FullTexts ==
    [title |-> 300, summary |-> 4097, diagnostics |-> <<[name |-> 300, value |-> 1100]>>,
     action |-> 200, approval |-> TRUE, forensic |-> 0, footer |-> 94]

\* As many fields, and as long a footer, as Discord accepts.
WideTexts ==
    [ShortTexts EXCEPT !.diagnostics = [i \in 1..25 |-> [name |-> 10, value |-> 5]],
                       !.footer = 2048]

LongFooter    == [WideTexts EXCEPT !.footer = 2049]
ManyFields    == [WideTexts EXCEPT !.action = 20]
NamelessField == [ShortTexts EXCEPT !.diagnostics[1].name = 0]

Of(texts, severity, slashing) ==
    [severity |-> severity, slashing |-> slashing,
     title |-> texts.title, summary |-> texts.summary, diagnostics |-> texts.diagnostics,
     action |-> texts.action, approval |-> texts.approval, forensic |-> texts.forensic,
     footer |-> texts.footer]

Payloads == {Of(WideTexts, "low", FALSE), Of(LongTitle, "high", TRUE),
             Of(LongFooter, "medium", FALSE), Of(ManyFields, "medium", FALSE),
             Of(NamelessField, "medium", FALSE),
             Of(FullTexts, "critical", FALSE), Of(LongTexts, "critical", TRUE)}

CriticalPayloads == {Of(ShortTexts, "critical", FALSE)}
=============================================================================
