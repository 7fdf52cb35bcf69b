---------------------------- MODULE Notifications ----------------------------
(***************************************************************************)
(* NotificationDispatcher and its two channels, down to the HTTP requests. *)
(* dispatch routes a payload, starts one send per channel and gathers the  *)
(* results; each send builds its message, posts it and judges the answer,  *)
(* and captures every exception in its result.                             *)
(*                                                                         *)
(* Discord and ntfy are external: a server may answer a request at any     *)
(* time, long after the client has given up, or never.  Texts are modelled *)
(* by what the code and the servers tell apart: the lengths of an embed's  *)
(* parts, and the characters of a header.                                  *)
(***************************************************************************)
EXTENDS Integers, SequencesExt

CONSTANTS
    Payload,       \* payloads: severity, slashing, and the lengths of the
                   \* texts: title, summary, diagnostics, action, footer ...
    ServerStatus,  \* statuses the servers answer with: some of 200, 204, 500
    Unreachable,   \* may a server be unreachable, or slow?
    MaxCalls       \* bound on the dispatches

Severities == {"low", "medium", "high", "critical"}
Channels   == {"discord", "ntfy"}
Request    == [call : 1..MaxCalls, channel : Channels]
NoAnswer   == 0

ASSUME PayloadAssumption == \A p \in Payload : p.severity \in Severities /\ p.slashing \in BOOLEAN
ASSUME BoundAssumption   == MaxCalls \in Nat
ASSUME StatusAssumption  == ServerStatus \subseteq {200, 204, 500}

VARIABLES
    calls,     \* payloads dispatched so far
    sends,     \* sends[ch]: "off", "ready", "waiting" or "done"
    errors,    \* errors[ch]: how the send ended, "none" if it succeeded
    returned,  \* the result lists of the calls that have returned
    network,   \* requests on their way to, or with, a server
    answers    \* answers[r]: the status a server has answered r with

vars == <<calls, sends, errors, returned, network, answers>>

Init ==
    /\ calls = <<>>
    /\ sends = [ch \in Channels |-> "off"]
    /\ errors = [ch \in Channels |-> "none"]
    /\ returned = <<>>
    /\ network = {}
    /\ answers = [r \in Request |-> NoAnswer]

Call      == Len(calls)
Current   == calls[Call]
This(ch)  == [call |-> Call, channel |-> ch]
Idle      == Len(returned) = Call

-----------------------------------------------------------------------------
(* The message for Discord: lengths, and what Discord accepts of them.     *)

TitleMax       == 256
DescriptionMax == 4096
FieldNameMax   == 256
FieldValueMax  == 1024
EmbedTotalMax  == 6000

\* Limits of Discord's that discord.py does not know.
FooterMax      == 2048
FieldsMax      == 25

\* Faulty variant: the text is cut at the limit, then the dots are added.
TruncateThenDots(length, limit) == IF length <= limit THEN length ELSE limit + 3

\* _truncate: what does not fit ends with three dots.
Truncate(length, limit) == IF length <= limit THEN length ELSE limit

Field(name, value) == [name |-> name, value |-> value]

\* _build_embed: an emoji before the title, backticks around a diagnostic,
\* then the action with its approval text, then the evidence of a slashing.
\* The fields are not counted, and the footer is not cut.
Embed(p) ==
    LET cut(f)    == Field(Truncate(f.name, FieldNameMax), Truncate(f.value, FieldValueMax))
        action    == Field(15, p.action + IF p.approval THEN 59 ELSE 0)
        evidence  == Field(18, p.forensic + 2)
        fields    == [i \in DOMAIN p.diagnostics |->
                         Field(p.diagnostics[i].name, p.diagnostics[i].value + 2)]
                     \o (IF p.action > 0 THEN <<action>> ELSE <<>>)
                     \o (IF p.slashing /\ p.forensic > 0 THEN <<evidence>> ELSE <<>>)
    IN  [title       |-> Truncate(p.title + 2, TitleMax),
         description |-> Truncate(p.summary, DescriptionMax),
         fields      |-> [i \in DOMAIN fields |-> cut(fields[i])],
         footer      |-> p.footer]

EmbedTotal(e) ==
    e.title + e.description + e.footer
    + FoldLeft(LAMBDA total, f : total + f.name + f.value, 0, e.fields)

\* What Discord refuses although each text that is cut fits: a footer or a
\* number of fields above the limit, a field without a name, too long a total.
Excessive(e) ==
    \/ ~(e.footer <= FooterMax)
    \/ ~(Len(e.fields) <= FieldsMax)
    \/ \E i \in DOMAIN e.fields : e.fields[i].name = 0
    \/ ~(EmbedTotal(e) <= EmbedTotalMax)

\* Discord's limits: those discord.py has as constants, and the others.
DiscordAccepts(e) ==
    /\ e.title <= TitleMax /\ e.description <= DescriptionMax
    /\ \A i \in DOMAIN e.fields :
           e.fields[i].name <= FieldNameMax /\ e.fields[i].value <= FieldValueMax
    /\ ~Excessive(e)

-----------------------------------------------------------------------------
(* The headers for ntfy.                                                   *)

\* _build_title: the alert type, or a siren, a dash, and the host.
TitleCharacters(p) == {IF p.slashing THEN "siren" ELSE "letters", "em dash", "letters"}

\* httpx encodes the value of a header as ASCII.
HeadersEncode(p) == TitleCharacters(p) \subseteq {"letters"}

-----------------------------------------------------------------------------
(* dispatch.                                                               *)

\* CHANNEL_ROUTING
Routing(severity) == IF severity = "critical" THEN <<"discord", "ntfy">> ELSE <<"discord">>

RouteOf(p) ==
    LET channels == Routing(p.severity)
    IN  IF p.slashing /\ "ntfy" \notin ToSet(channels) THEN Append(channels, "ntfy") ELSE channels

Dispatch(p) ==
    /\ Idle
    /\ Call < MaxCalls
    /\ calls' = Append(calls, p)
    /\ sends' = [ch \in Channels |-> IF ch \in ToSet(RouteOf(p)) THEN "ready" ELSE "off"]
    /\ errors' = [ch \in Channels |-> "none"]
    /\ UNCHANGED <<returned, network, answers>>

\* Faulty variant: the first result ends the wait.
ReturnFirst ==
    /\ ~Idle
    /\ \E ch \in Channels : sends[ch] = "done"
    /\ LET route == RouteOf(Current)
       IN  returned' = Append(returned, [i \in DOMAIN route |->
               [channel |-> route[i], error |-> errors[route[i]]]])
    /\ UNCHANGED <<calls, sends, errors, network, answers>>

\* asyncio.gather has all results; they are in the order of the tasks.
Return ==
    /\ ~Idle
    /\ \A ch \in Channels : sends[ch] \in {"off", "done"}
    /\ LET route == RouteOf(Current)
       IN  returned' = Append(returned, [i \in DOMAIN route |->
               [channel |-> route[i], error |-> errors[route[i]]]])
    /\ UNCHANGED <<calls, sends, errors, network, answers>>

-----------------------------------------------------------------------------
(* One send.                                                               *)

Finish(ch, error) ==
    /\ sends' = [sends EXCEPT ![ch] = "done"]
    /\ errors' = [errors EXCEPT ![ch] = error]
    /\ UNCHANGED <<calls, returned, network, answers>>

\* Faulty variant: an exception of ntfy's ends Discord's send as well.
FailHeadersOfBoth(ch) ==
    /\ sends[ch] = "ready" /\ ch = "ntfy" /\ ~HeadersEncode(Current)
    /\ sends' = [c \in Channels |-> IF sends[c] = "off" THEN "off" ELSE "done"]
    /\ errors' = [c \in Channels |-> IF sends[c] = "off" THEN "none" ELSE "headers"]
    /\ UNCHANGED <<calls, returned, network, answers>>

\* UnicodeEncodeError, before anything is sent.
FailHeaders(ch) ==
    /\ sends[ch] = "ready" /\ ch = "ntfy" /\ ~HeadersEncode(Current)
    /\ Finish(ch, "headers")

CanPost(ch) == sends[ch] = "ready" /\ (ch = "ntfy" => HeadersEncode(Current))

Post(ch) ==
    /\ CanPost(ch)
    /\ network' = network \cup {This(ch)}
    /\ sends' = [sends EXCEPT ![ch] = "waiting"]
    /\ UNCHANGED <<calls, errors, returned, answers>>

FailConnect(ch) == CanPost(ch) /\ Unreachable /\ Finish(ch, "connect")

\* Faulty variant: the timeout starts when the answer does.
TimeoutOfBody(ch) ==
    sends[ch] = "waiting" /\ answers[This(ch)] # NoAnswer /\ Unreachable /\ Finish(ch, "timeout")

\* ReadTimeout, or the connection is lost: the request may still arrive.
Timeout(ch) == sends[ch] = "waiting" /\ Unreachable /\ Finish(ch, "timeout")

\* Faulty variant: every answer is a success.
JudgeNothing(ch, status) == "none"

\* The status, and for Discord the body, which a 204 does not have.
Judge(ch, status) ==
    IF ch = "discord"
    THEN IF status \notin {200, 204} THEN "status"
         ELSE IF status = 204 THEN "body" ELSE "none"
    ELSE IF status # 200 THEN "status" ELSE "none"

Receive(ch) ==
    /\ sends[ch] = "waiting"
    /\ answers[This(ch)] # NoAnswer
    /\ Finish(ch, Judge(ch, answers[This(ch)]))

-----------------------------------------------------------------------------
(* The servers and the way to them.                                        *)

\* A status of 200 or 204 means that the message is out.
Answer(r, status) ==
    /\ r \in network
    /\ IF r.channel = "discord" /\ ~DiscordAccepts(Embed(calls[r.call]))
       THEN status = 400 ELSE status \in ServerStatus
    /\ network' = network \ {r}
    /\ answers' = [answers EXCEPT ![r] = status]
    /\ UNCHANGED <<calls, sends, errors, returned>>

LoseRequest(r) ==
    /\ r \in network /\ Unreachable
    /\ network' = network \ {r}
    /\ UNCHANGED <<calls, sends, errors, returned, answers>>

Client ==
    \/ Return
    \/ \E ch \in Channels :
           FailHeaders(ch) \/ Post(ch) \/ FailConnect(ch) \/ Timeout(ch) \/ Receive(ch)

Servers == \E r \in network :
    \/ \E status \in {200, 204, 400, 500} : Answer(r, status)
    \/ LoseRequest(r)

Next == (\E p \in Payload : Dispatch(p)) \/ Client \/ Servers

Spec == Init /\ [][Next]_vars

\* The event loop runs the sends, and each has its timeout; nothing is
\* assumed of the servers.
FairSpec == Spec /\ WF_vars(Client)

-----------------------------------------------------------------------------
(* Dispatch, as its caller sees it.                                        *)

Abstract == INSTANCE Dispatch WITH
    Route     <- [p \in Payload |-> RouteOf(p)],
    sending   <- {ch \in Channels : sends[ch] \in {"ready", "waiting"}},
    succeeded <- {ch \in Channels : sends[ch] = "done" /\ errors[ch] = "none"},
    returned  <- [n \in DOMAIN returned |-> [i \in DOMAIN returned[n] |->
                     [channel |-> returned[n][i].channel,
                      success |-> returned[n][i].error = "none"]]]

\* One result per routed channel, in order, when all of them have completed,
\* and no exception: the two channels implement Dispatch.
Dispatches == Abstract!Spec

-----------------------------------------------------------------------------
(* Properties.                                                             *)

Errors == {"none", "headers", "connect", "timeout", "status", "body"}
Result == [channel : Channels, error : Errors]

TypeOK ==
    /\ calls \in Seq(Payload) /\ Call <= MaxCalls
    /\ sends \in [Channels -> {"off", "ready", "waiting", "done"}]
    /\ errors \in [Channels -> Errors]
    /\ returned \in Seq(Seq(Result))
    /\ network \subseteq Request
    /\ answers \in [Request -> {NoAnswer, 200, 204, 400, 500}]
    /\ Len(returned) \in {Call, Call - 1}
    /\ Idle => \A ch \in Channels : sends[ch] \in {"off", "done"}

Results == UNION {{[request |-> [call |-> n, channel |-> returned[n][i].channel],
                    error   |-> returned[n][i].error] : i \in DOMAIN returned[n]} :
                        n \in DOMAIN returned}

IsOut(r) == answers[r] \in {200, 204}

\* A result that claims success is true: the server had the message out
\* before the call returned, and has not changed its mind.
SuccessIsDelivered == \A res \in Results : res.error = "none" => IsOut(res.request)

\* A channel fails for reasons of its own: whatever becomes of the other, a
\* message Discord answered with its id in time is reported as sent.  One
\* that is out and reported as failed was answered too late or with a 204.
FailureIsItsOwn == \A res \in Results :
    res.error # "none" =>
        \/ ~IsOut(res.request)
        \/ res.error = "timeout"
        \/ res.error = "body" /\ answers[res.request] = 204
        \/ res.error = "status" /\ res.request.channel = "ntfy" /\ answers[res.request] = 204

\* Titles, descriptions and fields of any length are cut so that they fit, with
\* the emoji, backticks and approval text that are added: what Discord refuses
\* is an embed with too long a footer, too many fields, a field without a name
\* or too long a total, none of which the code checks.
RefusedForTheUnchecked == \A r \in Request :
    answers[r] = 400 => Excessive(Embed(calls[r.call]))

\* Every dispatch returns, with servers that answer late or never.
DispatchReturns == ~Idle ~> Idle

\* With both servers up, whoever dispatches a critical incident reaches both
\* channels.
CriticalReachesNtfy ==
    \A n \in DOMAIN returned : calls[n].severity = "critical" =>
        \A ch \in Channels : IsOut([call |-> n, channel |-> ch])
=============================================================================
