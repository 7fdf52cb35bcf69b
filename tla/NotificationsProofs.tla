------------------------- MODULE NotificationsProofs -------------------------
(***************************************************************************)
(* What holds of Notifications for any payloads, any number of dispatches  *)
(* and servers as slow or silent as they like: each result says what the   *)
(* server of its own channel did, Discord refuses nothing for a text that  *)
(* is cut, and the two channels implement Dispatch.                        *)
(***************************************************************************)
EXTENDS Notifications, SequenceTheorems, TLAPS

-----------------------------------------------------------------------------
(* Routes.                                                                 *)

\* A function on 1..n is a sequence of length n.
LEMMA FunctionIsSeq ==
  ASSUME NEW S, NEW n \in Nat, NEW f \in [1..n -> S]
  PROVE  f \in Seq(S) /\ Len(f) = n
<1>1. f \in Seq(S)
  BY SeqDef
<1>2. DOMAIN f = 1..Len(f) /\ Len(f) \in Nat
  BY <1>1, LenProperties
<1> QED
  BY <1>1, <1>2

\* There are two routes, and no channel is twice on one.
LEMMA Routes ==
  ASSUME NEW p \in Payload
  PROVE  /\ RouteOf(p) \in {<<"discord">>, <<"discord", "ntfy">>}
         /\ RouteOf(p) \in Seq(Channels)
<1>1. <<"discord">> \in Seq(Channels) /\ <<"discord", "ntfy">> \in Seq(Channels)
  BY DEF Channels
<1>2. Append(<<"discord">>, "ntfy") = <<"discord", "ntfy">>
  <2> DEFINE one == <<"discord">>
             two == <<"discord", "ntfy">>
  <2>1. Len(one) = 1 /\ one[1] = "discord" /\ Len(two) = 2 /\ two[1] = "discord" /\ two[2] = "ntfy"
    OBVIOUS
  <2>2. /\ Append(one, "ntfy") \in Seq(Channels) /\ Len(Append(one, "ntfy")) = 2
        /\ Append(one, "ntfy")[1] = one[1] /\ Append(one, "ntfy")[2] = "ntfy"
    BY <1>1, <2>1, AppendProperties DEF Channels
  <2>3. \A i \in 1..2 : Append(one, "ntfy")[i] = two[i]
    BY <2>1, <2>2
  <2> QED
    BY <1>1, <2>1, <2>2, <2>3, SeqEqual
<1>3. "ntfy" \in ToSet(<<"discord", "ntfy">>)
  <2>1. 2 \in DOMAIN <<"discord", "ntfy">> /\ <<"discord", "ntfy">>[2] = "ntfy"
    OBVIOUS
  <2> QED
    BY <2>1 DEF ToSet
<1>4. RouteOf(p) \in {<<"discord">>, <<"discord", "ntfy">>}
  BY <1>2, <1>3 DEF RouteOf, Routing
<1> QED
  BY <1>4, <1>1

-----------------------------------------------------------------------------
(* Types.                                                                  *)

\* While a call is under way it has a payload and a request per channel.
LEMMA CurrentType ==
  ASSUME TypeOK
  PROVE  /\ Call \in Nat /\ Len(returned) \in Nat
         /\ ~Idle => Call \in 1..MaxCalls /\ Current \in Payload
                     /\ \A ch \in Channels : This(ch) \in Request
         /\ \A ch \in Channels : sends[ch] \in {"ready", "waiting"} => ~Idle
<1>1. Call \in Nat /\ Len(returned) \in Nat
  BY LenProperties DEF TypeOK, Call
<1>2. ASSUME ~Idle PROVE Call \in 1..MaxCalls
  BY <1>1, <1>2, BoundAssumption DEF TypeOK, Idle
<1>3. ASSUME ~Idle PROVE Current \in Payload
  BY <1>2, <1>3, ElementOfSeq DEF TypeOK, Current, Call
<1> QED
  BY <1>1, <1>2, <1>3 DEF TypeOK, This, Request

\* The dispatcher, its sends and its servers keep their types.
THEOREM TypeCorrect == Spec => []TypeOK
<1>1. Init => TypeOK
  BY BoundAssumption DEF Init, TypeOK, Call, Idle, Errors
<1>2. TypeOK /\ [Next]_vars => TypeOK'
  <2> SUFFICES ASSUME TypeOK, [Next]_vars PROVE TypeOK'
    OBVIOUS
  <2>1. ASSUME NEW p \in Payload, Dispatch(p) PROVE TypeOK'
    <3>1. calls' \in Seq(Payload) /\ Len(calls') = Len(calls) + 1
      BY <2>1, AppendProperties DEF Dispatch, TypeOK
    <3> QED
      BY <2>1, <3>1, CurrentType, BoundAssumption DEF Dispatch, TypeOK, Call, Idle, Errors
  <2>2. ASSUME NEW ch \in Channels, NEW e \in Errors, ~Idle, Finish(ch, e) PROVE TypeOK'
    BY <2>2 DEF Finish, TypeOK, Call, Idle
  <2>3. CASE Return
    <3> DEFINE route == RouteOf(Current)
               results == [i \in DOMAIN route |-> [channel |-> route[i], error |-> errors[route[i]]]]
    <3>1. route \in Seq(Channels)
      BY <2>3, CurrentType, Routes DEF Return
    <3>2. results \in [1..Len(route) -> Result] /\ Len(route) \in Nat
      BY <3>1, LenProperties DEF TypeOK, Result
    <3>3. results \in Seq(Result)
      BY <3>2, FunctionIsSeq
    <3>4. returned' \in Seq(Seq(Result)) /\ Len(returned') = Len(returned) + 1
      BY <2>3, <3>3, AppendProperties DEF Return, TypeOK
    <3> QED
      BY <2>3, <3>4, CurrentType DEF Return, TypeOK, Call, Idle
  <2>4. ASSUME NEW ch \in Channels, Post(ch) PROVE TypeOK'
    <3>1. ~Idle /\ This(ch) \in Request
      BY <2>4, CurrentType DEF Post, CanPost
    <3> QED
      BY <2>4, <3>1 DEF Post, TypeOK, Call, Idle
  <2>5. ASSUME NEW ch \in Channels, FailHeaders(ch) \/ FailConnect(ch) \/ Timeout(ch) \/ Receive(ch)
        PROVE  TypeOK'
    <3>1. ~Idle
      BY <2>5, CurrentType DEF FailHeaders, FailConnect, CanPost, Timeout, Receive
    <3>2. \A status : Judge(ch, status) \in Errors
      BY DEF Judge, Errors
    <3>3. \E e \in Errors : Finish(ch, e)
      BY <2>5, <3>2 DEF FailHeaders, FailConnect, Timeout, Receive, Errors
    <3> QED
      BY <2>2, <3>1, <3>3
  <2>6. CASE Servers
    <3>1. UNCHANGED <<calls, sends, errors, returned>>
      BY <2>6 DEF Servers, Answer, LoseRequest
    <3>2. network' \subseteq Request
      BY <2>6 DEF Servers, Answer, LoseRequest, TypeOK
    <3>3. answers' \in [Request -> {NoAnswer, 200, 204, 400, 500}]
      <4>1. CASE answers' = answers
        BY <4>1 DEF TypeOK
      <4>2. CASE answers' # answers
        <5>1. PICK r \in network, status \in {200, 204, 400, 500} :
                  answers' = [answers EXCEPT ![r] = status]
          BY <2>6, <4>2 DEF Servers, Answer, LoseRequest
        <5> QED
          BY <5>1 DEF TypeOK
      <4> QED
        BY <4>1, <4>2
    <3> QED
      BY <3>1, <3>2, <3>3 DEF TypeOK, Call, Idle
  <2>7. CASE UNCHANGED vars
    BY <2>7 DEF vars, TypeOK, Call, Idle
  <2> QED
    BY <2>1, <2>3, <2>4, <2>5, <2>6, <2>7 DEF Next, Client
<1> QED
  BY <1>1, <1>2, PTL DEF Spec

-----------------------------------------------------------------------------
(* The inductive invariant.  A result is about a request that is over: it  *)
(* was never made, or it was answered and judged by that answer.  A result *)
(* that says "timeout" knows nothing of its request.                       *)

Untouched(r) == answers[r] = NoAnswer /\ r \notin network

Settled(r, error) ==
    \/ error = "timeout"
    \/ error \in {"headers", "connect"} /\ Untouched(r)
    \/ /\ answers[r] # NoAnswer /\ r \notin network
       /\ error = Judge(r.channel, answers[r])

\* A request is answered once, and exists only once its send has posted it.
PostedOnce ==
    /\ \A r \in network : answers[r] = NoAnswer
    /\ \A r \in Request : r.call > Call => Untouched(r)
    /\ \A ch \in Channels : sends[ch] = "ready" => Untouched(This(ch))

SendsSettled == \A ch \in Channels : sends[ch] = "done" => Call >= 1 /\ Settled(This(ch), errors[ch])

ReturnedSettled ==
    \A n \in DOMAIN returned : \A i \in DOMAIN returned[n] :
        Settled([call |-> n, channel |-> returned[n][i].channel], returned[n][i].error)

\* The sends of a call are those of its route.
OnRoute == ~Idle => \A ch \in Channels : sends[ch] = "off" <=> ch \notin ToSet(RouteOf(Current))

ResultsInv == PostedOnce /\ SendsSettled /\ ReturnedSettled /\ OnRoute

\* A request that has ended for the client, and is answered or lost, keeps
\* its outcome.
LEMMA SettledStays ==
  ASSUME NEW r, NEW e, Settled(r, e),
         r \notin network => r \notin network' /\ answers'[r] = answers[r]
  PROVE  Settled(r, e)'
BY DEF Settled, Untouched

\* A result that was returned belongs to a request of an earlier call.
LEMMA ReturnedRequest ==
  ASSUME TypeOK, NEW n \in DOMAIN returned, NEW i \in DOMAIN returned[n]
  PROVE  /\ returned[n][i] \in Result /\ n \in 1..Call /\ (~Idle => n < Call)
         /\ [call |-> n, channel |-> returned[n][i].channel] \in Request
<1>1. DOMAIN returned = 1..Len(returned) /\ returned[n] \in Seq(Result)
  BY LenProperties, ElementOfSeq DEF TypeOK
<1>2. returned[n][i] \in Result
  BY <1>1, LenProperties, ElementOfSeq
<1>3. n \in 1..Call /\ (~Idle => n < Call)
  BY <1>1, CurrentType DEF TypeOK, Idle
<1> QED
  BY <1>2, <1>3, CurrentType, BoundAssumption DEF TypeOK, Result, Request

\* What is left of the invariant when a send of the current call ends.
LEMMA FinishStep ==
  ASSUME TypeOK, ResultsInv, NEW ch \in Channels, NEW e \in Errors,
         ~Idle, sends[ch] # "off", Settled(This(ch), e), Finish(ch, e)
  PROVE  ResultsInv'
<1> USE DEF ResultsInv
<1>1. /\ UNCHANGED <<calls, returned, network, answers>> /\ Call \in 1..MaxCalls
      /\ sends' = [sends EXCEPT ![ch] = "done"] /\ errors' = [errors EXCEPT ![ch] = e]
  BY CurrentType DEF Finish
<1>2. PostedOnce'
  BY <1>1 DEF PostedOnce, Untouched, This, Call, TypeOK
<1>3. SendsSettled'
  BY <1>1 DEF SendsSettled, Settled, Untouched, This, Call, TypeOK
<1>4. ReturnedSettled'
  BY <1>1 DEF ReturnedSettled, Settled, Untouched
<1>5. OnRoute'
  BY <1>1 DEF OnRoute, Idle, Call, Current, TypeOK
<1> QED
  BY <1>2, <1>3, <1>4, <1>5

\* A new dispatch starts with sends of its own.
LEMMA DispatchStep ==
  ASSUME TypeOK, ResultsInv, NEW p \in Payload, Dispatch(p)
  PROVE  ResultsInv'
<1> USE DEF ResultsInv
<1>1. Call \in Nat /\ Call' = Call + 1 /\ Call' \in 1..MaxCalls /\ calls'[Call'] = p
  BY CurrentType, AppendProperties, BoundAssumption DEF Dispatch, TypeOK, Call
<1>2. UNCHANGED <<returned, network, answers>>
  BY DEF Dispatch
<1>3. \A r \in Request : r.call > Call' => Untouched(r)'
  BY <1>1, <1>2 DEF PostedOnce, Untouched, Request
<1>4. ASSUME NEW ch \in Channels PROVE Untouched(This(ch))'
  BY <1>1, <1>2 DEF PostedOnce, Untouched, Request, This, Call
<1>5. PostedOnce'
  BY <1>2, <1>3, <1>4 DEF PostedOnce
<1>6. SendsSettled'
  BY DEF SendsSettled, Dispatch
<1>7. ReturnedSettled'
  BY <1>2 DEF ReturnedSettled, Settled, Untouched
<1>8. OnRoute'
  BY <1>1 DEF OnRoute, Dispatch, Current
<1> QED
  BY <1>5, <1>6, <1>7, <1>8

\* gather hands over each send's outcome under its own channel.
LEMMA ReturnStep ==
  ASSUME TypeOK, ResultsInv, Return
  PROVE  ResultsInv'
<1> USE DEF ResultsInv
<1> DEFINE route == RouteOf(Current)
           results == [i \in DOMAIN route |-> [channel |-> route[i], error |-> errors[route[i]]]]
<1>1. /\ ~Idle /\ UNCHANGED <<calls, sends, errors, network, answers>>
      /\ returned' = Append(returned, results)
  BY DEF Return
<1>2. Call \in 1..MaxCalls /\ route \in Seq(Channels) /\ Len(returned) = Call - 1
  BY <1>1, CurrentType, Routes DEF TypeOK, Idle
<1>3. results \in Seq(Result) /\ DOMAIN results = DOMAIN route
  <2>1. results \in [1..Len(route) -> Result] /\ Len(route) \in Nat
    BY <1>2, LenProperties DEF TypeOK, Result
  <2> QED
    BY <2>1, FunctionIsSeq
<1> HIDE DEF results
<1>4. /\ Len(returned') = Call /\ DOMAIN returned' = 1..Call /\ returned'[Call] = results
      /\ \A n \in 1..(Call - 1) : returned'[n] = returned[n]
  BY <1>1, <1>2, <1>3, AppendProperties, LenProperties DEF TypeOK
<1>5. PostedOnce' /\ SendsSettled'
  BY <1>1 DEF PostedOnce, SendsSettled, Settled, Untouched, This, Call
<1>6. OnRoute'
  BY <1>1, <1>4 DEF OnRoute, Idle, Call
<1>7. ASSUME NEW n \in DOMAIN returned', NEW i \in DOMAIN returned'[n]
      PROVE  Settled([call |-> n, channel |-> returned'[n][i].channel], returned'[n][i].error)
  <2>1. CASE n = Call
    <3>1. i \in DOMAIN route /\ route[i] \in Channels
      BY <1>2, <1>3, <1>4, <1>7, <2>1, LenProperties, ElementOfSeq
    <3>2. returned'[n][i] = [channel |-> route[i], error |-> errors[route[i]]]
      BY <1>4, <2>1, <3>1 DEF results
    <3>3. route[i] \in ToSet(route)
      BY <3>1 DEF ToSet
    <3>4. sends[route[i]] = "done"
      BY <1>1, <3>1, <3>3 DEF Return, OnRoute
    <3> QED
      BY <2>1, <3>1, <3>2, <3>4 DEF SendsSettled, This
  <2>2. CASE n # Call
    <3>1. n \in DOMAIN returned /\ returned'[n] = returned[n]
      BY <1>2, <1>4, <2>2, LenProperties DEF TypeOK
    <3> QED
      BY <1>7, <3>1 DEF ReturnedSettled
  <2> QED
    BY <2>1, <2>2
<1>8. ReturnedSettled'
  BY <1>1, <1>7 DEF ReturnedSettled, Settled, Untouched
<1> QED
  BY <1>5, <1>6, <1>8

\* A request is posted once.
LEMMA PostStep ==
  ASSUME TypeOK, ResultsInv, NEW ch \in Channels, Post(ch)
  PROVE  ResultsInv'
<1> USE DEF ResultsInv
<1>1. /\ ~Idle /\ UNCHANGED <<calls, errors, returned, answers>> /\ sends[ch] = "ready"
      /\ network' = network \cup {This(ch)} /\ sends' = [sends EXCEPT ![ch] = "waiting"]
  BY CurrentType DEF Post, CanPost
<1>2. Call \in 1..MaxCalls /\ This(ch) \in Request /\ Untouched(This(ch))
  BY <1>1, CurrentType DEF PostedOnce
<1>3. ASSUME NEW r, NEW e, Settled(r, e), r # This(ch) PROVE Settled(r, e)'
  BY <1>1, <1>3, SettledStays
<1>4. \A c \in Channels : This(c)' = This(c)
  BY <1>1 DEF This, Call
<1>5. PostedOnce'
  <2>1. \A r \in network' : answers'[r] = NoAnswer
    BY <1>1, <1>2 DEF PostedOnce, Untouched
  <2>2. \A r \in Request : r.call > Call' => Untouched(r)'
    BY <1>1, <1>2 DEF PostedOnce, Untouched, This, Call
  <2>3. ASSUME NEW c \in Channels, sends'[c] = "ready" PROVE Untouched(This(c))'
    <3>1. c # ch /\ sends[c] = "ready" /\ This(c) # This(ch)
      BY <1>1, <2>3 DEF TypeOK, This
    <3> QED
      BY <1>1, <1>4, <3>1 DEF PostedOnce, Untouched
  <2> QED
    BY <2>1, <2>2, <2>3 DEF PostedOnce
<1>6. SendsSettled'
  <2> SUFFICES ASSUME NEW c \in Channels, sends'[c] = "done"
               PROVE  Call' >= 1 /\ Settled(This(c), errors[c])'
    BY <1>1 DEF SendsSettled
  <2>1. c # ch /\ sends[c] = "done" /\ This(c) # This(ch)
    BY <1>1 DEF TypeOK, This
  <2>2. Settled(This(c), errors[c])
    BY <2>1 DEF SendsSettled
  <2>3. This(c)' = This(c) /\ errors'[c] = errors[c] /\ Call' = Call
    BY <1>1, <1>4 DEF Call
  <2> QED
    BY <1>1, <1>2, <2>1, <2>2, <2>3 DEF Settled, Untouched
<1>7. ReturnedSettled'
  <2> SUFFICES ASSUME NEW n \in DOMAIN returned, NEW i \in DOMAIN returned[n]
               PROVE  Settled([call |-> n, channel |-> returned[n][i].channel], returned[n][i].error)'
    BY <1>1 DEF ReturnedSettled
  <2>1. [call |-> n, channel |-> returned[n][i].channel] # This(ch)
    BY <1>1, <1>2, ReturnedRequest DEF This
  <2> QED
    BY <1>1, <2>1 DEF ReturnedSettled, Settled, Untouched
<1>8. OnRoute'
  BY <1>1 DEF OnRoute, Idle, Call, Current, TypeOK
<1> QED
  BY <1>5, <1>6, <1>7, <1>8

\* An answer comes once, and does not change what has ended.
LEMMA ServersStep ==
  ASSUME TypeOK, ResultsInv, Servers
  PROVE  ResultsInv'
<1> USE DEF ResultsInv
<1>1. PICK r \in network :
          /\ network' = network \ {r} /\ UNCHANGED <<calls, sends, errors, returned>>
          /\ \A q \in Request : q # r => answers'[q] = answers[q]
  BY DEF Servers, Answer, LoseRequest, TypeOK
<1>2. ASSUME NEW q \in Request, NEW e, Settled(q, e) PROVE Settled(q, e)'
  BY <1>1, <1>2, SettledStays
<1>3. \A c \in Channels : This(c)' = This(c)
  BY <1>1 DEF This, Call
<1>4. PostedOnce'
  <2>1. \A q \in network' : answers'[q] = NoAnswer
    BY <1>1 DEF PostedOnce, TypeOK
  <2>2. ASSUME NEW q \in Request, Untouched(q) PROVE Untouched(q)'
    BY <1>1, <2>2 DEF Untouched
  <2>3. \A c \in Channels : sends[c] = "ready" => This(c) \in Request
    BY CurrentType
  <2> QED
    BY <1>1, <1>3, <2>1, <2>2, <2>3 DEF PostedOnce, Call
<1>5. SendsSettled'
  <2> SUFFICES ASSUME NEW c \in Channels, sends'[c] = "done"
               PROVE  Call' >= 1 /\ Settled(This(c), errors[c])'
    BY DEF SendsSettled
  <2>1. Call >= 1 /\ Settled(This(c), errors[c])
    BY <1>1 DEF SendsSettled
  <2>2. This(c) \in Request
    BY <2>1, CurrentType, BoundAssumption DEF TypeOK, This, Request
  <2>3. This(c)' = This(c) /\ errors'[c] = errors[c] /\ Call' = Call
    BY <1>1, <1>3 DEF Call
  <2>4. This(c) \notin network => This(c) \notin network' /\ answers'[This(c)] = answers[This(c)]
    BY <1>1, <2>2
  <2> QED
    BY <2>1, <2>3, <2>4 DEF Settled, Untouched
<1>6. ReturnedSettled'
  <2> SUFFICES ASSUME NEW n \in DOMAIN returned, NEW i \in DOMAIN returned[n]
               PROVE  Settled([call |-> n, channel |-> returned[n][i].channel], returned[n][i].error)'
    BY <1>1 DEF ReturnedSettled
  <2> DEFINE q == [call |-> n, channel |-> returned[n][i].channel]
  <2>1. q \in Request /\ Settled(q, returned[n][i].error)
    BY ReturnedRequest DEF ReturnedSettled
  <2>2. q \notin network => q \notin network' /\ answers'[q] = answers[q]
    BY <1>1, <2>1
  <2> QED
    BY <1>1, <2>1, <2>2 DEF Settled, Untouched
<1>7. OnRoute'
  BY <1>1 DEF OnRoute, Idle, Call, Current
<1> QED
  BY <1>4, <1>5, <1>6, <1>7

\* Each way a send can end says of its request what is so.
LEMMA SendEnds ==
  ASSUME TypeOK, ResultsInv, NEW ch \in Channels,
         FailHeaders(ch) \/ FailConnect(ch) \/ Timeout(ch) \/ Receive(ch)
  PROVE  /\ ~Idle /\ sends[ch] \in {"ready", "waiting"}
         /\ \E e \in Errors : Settled(This(ch), e) /\ Finish(ch, e)
<1>1. ~Idle /\ sends[ch] \in {"ready", "waiting"} /\ This(ch) \in Request
  BY CurrentType DEF FailHeaders, FailConnect, CanPost, Timeout, Receive
<1>2. CASE FailHeaders(ch)
  BY <1>1, <1>2 DEF FailHeaders, Errors, Settled, ResultsInv, PostedOnce
<1>3. CASE FailConnect(ch)
  BY <1>1, <1>3 DEF FailConnect, CanPost, Errors, Settled, ResultsInv, PostedOnce
<1>4. CASE Timeout(ch)
  BY <1>1, <1>4 DEF Timeout, Errors, Settled
<1>5. CASE Receive(ch)
  <2>1. answers[This(ch)] # NoAnswer /\ This(ch) \notin network /\ This(ch).channel = ch
    BY <1>5 DEF Receive, ResultsInv, PostedOnce, This
  <2>2. Judge(ch, answers[This(ch)]) \in Errors
    BY DEF Judge, Errors
  <2> QED
    BY <1>1, <1>5, <2>1, <2>2 DEF Receive, Settled
<1> QED
  BY <1>1, <1>2, <1>3, <1>4, <1>5

\* Each finished send, and each returned result, agrees with the fate of its
\* request.
LEMMA ResultsAlways == Spec => []ResultsInv
<1>1. Init => ResultsInv
  BY DEF Init, ResultsInv, PostedOnce, SendsSettled, ReturnedSettled, OnRoute, Untouched, Idle, Call
<1>2. TypeOK /\ ResultsInv /\ [Next]_vars => ResultsInv'
  <2> SUFFICES ASSUME TypeOK, ResultsInv, [Next]_vars PROVE ResultsInv'
    OBVIOUS
  <2>1. ASSUME NEW ch \in Channels,
               FailHeaders(ch) \/ FailConnect(ch) \/ Timeout(ch) \/ Receive(ch)
        PROVE  ResultsInv'
    BY <2>1, SendEnds, FinishStep
  <2>2. CASE UNCHANGED vars
    BY <2>2 DEF vars, ResultsInv, PostedOnce, SendsSettled, ReturnedSettled, OnRoute,
                Settled, Untouched, Idle, Call, Current, This
  <2> QED
    BY <2>1, <2>2, DispatchStep, ReturnStep, PostStep, ServersStep DEF Next, Client
<1> QED
  BY <1>1, <1>2, TypeCorrect, PTL DEF Spec

\* A result that claims success is true: the message is out.
THEOREM SuccessDelivered == Spec => []SuccessIsDelivered
<1>1. TypeOK /\ ResultsInv => SuccessIsDelivered
  <2> SUFFICES ASSUME TypeOK, ResultsInv, NEW n \in DOMAIN returned, NEW i \in DOMAIN returned[n],
                      returned[n][i].error = "none"
               PROVE  IsOut([call |-> n, channel |-> returned[n][i].channel])
    BY DEF SuccessIsDelivered, Results
  <2>1. Settled([call |-> n, channel |-> returned[n][i].channel], "none")
    BY DEF ResultsInv, ReturnedSettled
  <2> QED
    BY <2>1 DEF Settled, Judge, IsOut
<1> QED
  BY <1>1, ResultsAlways, TypeCorrect, PTL

\* A channel fails for reasons of its own, never for those of the other.
THEOREM FailureOwn == Spec => []FailureIsItsOwn
<1>1. TypeOK /\ ResultsInv => FailureIsItsOwn
  <2> SUFFICES ASSUME TypeOK, ResultsInv, NEW n \in DOMAIN returned, NEW i \in DOMAIN returned[n],
                      NEW r, r = [call |-> n, channel |-> returned[n][i].channel],
                      NEW error, error = returned[n][i].error, error # "none"
               PROVE  \/ ~IsOut(r)
                      \/ error = "timeout"
                      \/ error = "body" /\ answers[r] = 204
                      \/ error = "status" /\ r.channel = "ntfy" /\ answers[r] = 204
    BY DEF FailureIsItsOwn, Results
  <2>1. Settled(r, error) /\ r.channel \in Channels
    BY ReturnedRequest DEF ResultsInv, ReturnedSettled, Result
  <2> QED
    BY <2>1 DEF Settled, Untouched, NoAnswer, Judge, IsOut, Channels
<1> QED
  BY <1>1, ResultsAlways, TypeCorrect, PTL

-----------------------------------------------------------------------------
(* What Discord refuses.                                                   *)

\* The cuts of _build_embed keep each text they cut within Discord's limit,
\* whatever its length.
LEMMA PartsFit ==
  ASSUME NEW p
  PROVE  LET e == Embed(p)
         IN  /\ e.title <= TitleMax /\ e.description <= DescriptionMax
             /\ \A i \in DOMAIN e.fields :
                    e.fields[i].name <= FieldNameMax /\ e.fields[i].value <= FieldValueMax
<1>1. \A limit \in {TitleMax, DescriptionMax, FieldNameMax, FieldValueMax} :
          limit <= limit
  BY DEF TitleMax, DescriptionMax, FieldNameMax, FieldValueMax
<1>2. \A length, limit : limit <= limit => Truncate(length, limit) <= limit
  BY DEF Truncate
<1> QED
  BY <1>1, <1>2 DEF Embed, Field

\* A server that refuses an embed whose cut parts fit refuses something else.
LEMMA RefusedStep ==
  ASSUME TypeOK, ResultsInv, RefusedForTheUnchecked, [Next]_vars
  PROVE  RefusedForTheUnchecked'
<1> SUFFICES ASSUME NEW r \in Request, answers'[r] = 400
             PROVE  Excessive(Embed(calls'[r.call]))
  BY DEF RefusedForTheUnchecked
<1>1. CASE answers[r] = 400
  <2>1. r.call \in 1..Call
    BY <1>1, CurrentType DEF ResultsInv, PostedOnce, Untouched, NoAnswer, Request
  <2>2. calls'[r.call] = calls[r.call]
    <3>1. CASE calls' = calls
      BY <3>1
    <3>2. CASE calls' # calls
      <4>1. PICK p \in Payload : Dispatch(p)
        BY <3>2 DEF Next, vars, Client, Servers, Return, Finish, FailHeaders, Post, FailConnect,
                    Timeout, Receive, Answer, LoseRequest
      <4> QED
        BY <2>1, <4>1, AppendProperties DEF Dispatch, TypeOK, Call
    <3> QED
      BY <3>1, <3>2
  <2> QED
    BY <1>1, <2>2 DEF RefusedForTheUnchecked
<1>2. CASE answers[r] # 400
  <2>1. Answer(r, 400)
    BY <1>2 DEF Next, vars, Dispatch, Client, Servers, Return, Finish, FailHeaders, Post,
                FailConnect, Timeout, Receive, Answer, LoseRequest, TypeOK
  <2>2. ~DiscordAccepts(Embed(calls[r.call])) /\ calls' = calls
    BY <2>1, StatusAssumption DEF Answer
  <2> QED
    BY <2>2, PartsFit DEF DiscordAccepts
<1> QED
  BY <1>1, <1>2

\* Title, description and fields fit, for texts of any length: what Discord
\* refuses breaks one of the limits that the code does not check.
THEOREM RefusedForUnchecked == Spec => []RefusedForTheUnchecked
<1>1. Init => RefusedForTheUnchecked
  BY DEF Init, RefusedForTheUnchecked, NoAnswer
<1> QED
  BY <1>1, RefusedStep, ResultsAlways, TypeCorrect, PTL DEF Spec

-----------------------------------------------------------------------------
(* The two channels implement Dispatch: posting a request and answering it *)
(* are steps its caller does not see.                                      *)

Sending   == {ch \in Channels : sends[ch] \in {"ready", "waiting"}}
Succeeded == {ch \in Channels : sends[ch] = "done" /\ errors[ch] = "none"}
Seen(list) == [i \in DOMAIN list |-> [channel |-> list[i].channel,
                                      success |-> list[i].error = "none"]]
SeenReturned == [n \in DOMAIN returned |-> Seen(returned[n])]
SeenResult   == [channel : Channels, success : BOOLEAN]

\* What a caller of the specification sees of a result list.
LEMMA SeenType ==
  ASSUME NEW list \in Seq(Result)
  PROVE  Seen(list) \in Seq(SeenResult) /\ DOMAIN Seen(list) = DOMAIN list
<1>1. DOMAIN list = 1..Len(list) /\ Len(list) \in Nat
  BY LenProperties
<1>2. \A i \in 1..Len(list) : list[i] \in Result
  BY ElementOfSeq
<1>3. Seen(list) \in [1..Len(list) -> SeenResult]
  BY <1>1, <1>2 DEF Seen, SeenResult, Result
<1> QED
  BY <1>1, <1>3, FunctionIsSeq

\* The same for all the lists returned.
LEMMA SeenReturnedType ==
  ASSUME NEW lists \in Seq(Seq(Result))
  PROVE  LET seen == [n \in DOMAIN lists |-> Seen(lists[n])]
         IN  seen \in Seq(Seq(SeenResult)) /\ Len(seen) = Len(lists)
<1>1. DOMAIN lists = 1..Len(lists) /\ Len(lists) \in Nat
  BY LenProperties
<1>2. \A n \in 1..Len(lists) : Seen(lists[n]) \in Seq(SeenResult)
  BY ElementOfSeq, SeenType
<1>3. [n \in DOMAIN lists |-> Seen(lists[n])] \in [1..Len(lists) -> Seq(SeenResult)]
  BY <1>1, <1>2
<1> QED
  BY <1>1, <1>3, FunctionIsSeq

\* What the caller sees of the lists grows with them.
LEMMA SeenAppend ==
  ASSUME NEW lists \in Seq(Seq(Result)), NEW list \in Seq(Result)
  PROVE  [n \in DOMAIN Append(lists, list) |-> Seen(Append(lists, list)[n])]
             = Append([n \in DOMAIN lists |-> Seen(lists[n])], Seen(list))
<1> DEFINE grown == Append(lists, list)
           seen  == [n \in DOMAIN lists |-> Seen(lists[n])]
           left  == [n \in DOMAIN grown |-> Seen(grown[n])]
           right == Append(seen, Seen(list))
<1>1. /\ grown \in Seq(Seq(Result)) /\ Len(grown) = Len(lists) + 1 /\ grown[Len(lists) + 1] = list
      /\ \A n \in 1..Len(lists) : grown[n] = lists[n]
      /\ DOMAIN grown = 1..(Len(lists) + 1) /\ DOMAIN lists = 1..Len(lists) /\ Len(lists) \in Nat
  BY AppendProperties, LenProperties
<1>2. seen \in Seq(Seq(SeenResult)) /\ Len(seen) = Len(lists) /\ Seen(list) \in Seq(SeenResult)
  BY SeenReturnedType, SeenType
<1>3. left \in Seq(Seq(SeenResult)) /\ Len(left) = Len(lists) + 1
  BY <1>1, SeenReturnedType
<1>4. /\ right \in Seq(Seq(SeenResult)) /\ Len(right) = Len(lists) + 1
      /\ right[Len(lists) + 1] = Seen(list)
      /\ \A n \in 1..Len(lists) : right[n] = seen[n]
  BY <1>2, AppendProperties
<1>5. \A n \in 1..(Len(lists) + 1) : left[n] = right[n]
  BY <1>1, <1>4
<1> QED
  BY <1>3, <1>4, <1>5, SeqEqual

\* The dispatcher starts as the specification does.
LEMMA InitRefines == Init => Abstract!Init
<1> SUFFICES ASSUME Init PROVE Abstract!Init
  OBVIOUS
<1>1. SeenReturned \in Seq(Seq(SeenResult)) /\ Len(SeenReturned) = 0
  BY SeenReturnedType, EmptySeq DEF Init, SeenReturned
<1>2. SeenReturned = <<>>
  BY <1>1, EmptySeq
<1>3. Sending = {} /\ Succeeded = {} /\ calls = <<>>
  BY DEF Init, Sending, Succeeded
<1> QED
  BY <1>2, <1>3 DEF Abstract!Init, Sending, Succeeded, SeenReturned, Seen

\* The steps of Dispatch, in the words of this module.
LEMMA AbstractSteps ==
  /\ Abstract!Idle <=> Len(SeenReturned) = Len(calls)
  /\ \A p \in Payload : Abstract!Call(p) <=>
         /\ Abstract!Idle /\ calls' = Append(calls, p)
         /\ Sending' = ToSet(RouteOf(p)) /\ Succeeded' = {} /\ UNCHANGED SeenReturned
  /\ \A ch, success : Abstract!Complete(ch, success) <=>
         /\ ch \in Sending /\ Sending' = Sending \ {ch}
         /\ Succeeded' = IF success THEN Succeeded \cup {ch} ELSE Succeeded
         /\ UNCHANGED <<calls, SeenReturned>>
  /\ Current \in Payload => (Abstract!Return <=>
         /\ ~Abstract!Idle /\ Sending = {}
         /\ LET route == RouteOf(Current)
            IN  SeenReturned' = Append(SeenReturned, [i \in DOMAIN route |->
                    [channel |-> route[i], success |-> route[i] \in Succeeded]])
         /\ UNCHANGED <<calls, Sending, Succeeded>>)
  /\ UNCHANGED <<calls, Sending, Succeeded, SeenReturned>> => UNCHANGED Abstract!vars
<1> USE DEF Sending, Succeeded, SeenReturned, Seen
<1>1. Abstract!Idle <=> Len(SeenReturned) = Len(calls)
  BY DEF Abstract!Idle
<1>2. ASSUME NEW p \in Payload
      PROVE  Abstract!Call(p) <=>
                 /\ Abstract!Idle /\ calls' = Append(calls, p)
                 /\ Sending' = ToSet(RouteOf(p)) /\ Succeeded' = {} /\ UNCHANGED SeenReturned
  BY DEF Abstract!Call, ToSet
<1>3. ASSUME NEW ch, NEW success
      PROVE  Abstract!Complete(ch, success) <=>
                 /\ ch \in Sending /\ Sending' = Sending \ {ch}
                 /\ Succeeded' = IF success THEN Succeeded \cup {ch} ELSE Succeeded
                 /\ UNCHANGED <<calls, SeenReturned>>
  BY DEF Abstract!Complete
<1>4. ASSUME Current \in Payload
      PROVE  Abstract!Return <=>
         /\ ~Abstract!Idle /\ Sending = {}
         /\ LET route == RouteOf(Current)
            IN  SeenReturned' = Append(SeenReturned, [i \in DOMAIN route |->
                    [channel |-> route[i], success |-> route[i] \in Succeeded]])
         /\ UNCHANGED <<calls, Sending, Succeeded>>
  BY <1>4 DEF Abstract!Return, Current, Call
<1>5. UNCHANGED <<calls, Sending, Succeeded, SeenReturned>> => UNCHANGED Abstract!vars
  BY DEF Abstract!vars
<1> QED
  BY <1>1, <1>2, <1>3, <1>4, <1>5

\* A step of the dispatcher is a step of the specification, or none.
LEMMA NextRefines ==
  ASSUME TypeOK, ResultsInv, [Next]_vars
  PROVE  [Abstract!Next]_(Abstract!vars)
<1>1. Len(SeenReturned) = Len(returned)
  BY SeenReturnedType DEF SeenReturned, TypeOK
<1>2. ASSUME NEW p \in Payload, Dispatch(p) PROVE Abstract!Call(p)
  <2>1. ToSet(RouteOf(p)) \subseteq Channels
    BY Routes, LenProperties, ElementOfSeq DEF ToSet
  <2>2. Sending' = ToSet(RouteOf(p)) /\ Succeeded' = {}
    BY <1>2, <2>1 DEF Sending, Succeeded, Dispatch
  <2>3. UNCHANGED SeenReturned
    BY <1>2 DEF SeenReturned, Dispatch
  <2> QED
    BY <1>1, <1>2, <2>2, <2>3, AbstractSteps DEF Dispatch, Idle, Call
<1>3. ASSUME NEW ch \in Channels, FailHeaders(ch) \/ FailConnect(ch) \/ Timeout(ch) \/ Receive(ch)
      PROVE  \E success \in BOOLEAN : ch \in Sending /\ Abstract!Complete(ch, success)
  <2>1. PICK e \in Errors : Finish(ch, e)
    BY <1>3, SendEnds
  <2>2. sends[ch] \in {"ready", "waiting"}
    BY <1>3, SendEnds
  <2>3. Sending' = Sending \ {ch} /\ ch \in Sending
    BY <2>1, <2>2 DEF Sending, Finish, TypeOK
  <2>4. Succeeded' = IF e = "none" THEN Succeeded \cup {ch} ELSE Succeeded
    BY <2>1, <2>2 DEF Succeeded, Finish, TypeOK
  <2>5. UNCHANGED <<calls, SeenReturned>>
    BY <2>1 DEF SeenReturned, Finish
  <2>6. CASE e = "none"
    BY <2>3, <2>4, <2>5, <2>6, AbstractSteps
  <2>7. CASE e # "none"
    BY <2>3, <2>4, <2>5, <2>7, AbstractSteps
  <2> QED
    BY <2>6, <2>7
<1>4. ASSUME Return PROVE Abstract!Return
  <2> DEFINE route == RouteOf(Current)
             results == [i \in DOMAIN route |-> [channel |-> route[i], error |-> errors[route[i]]]]
  <2>1. ~Idle /\ returned' = Append(returned, results) /\ UNCHANGED <<calls, sends, errors>>
        /\ \A ch \in Channels : sends[ch] \in {"off", "done"}
    BY <1>4 DEF Return
  <2>2. Current \in Payload /\ route \in Seq(Channels)
    BY <2>1, CurrentType, Routes
  <2>3. DOMAIN route = 1..Len(route) /\ Len(route) \in Nat /\ \A i \in DOMAIN route : route[i] \in Channels
    BY <2>2, LenProperties, ElementOfSeq
  <2>4. results \in Seq(Result)
    <3>1. results \in [1..Len(route) -> Result]
      BY <2>3 DEF TypeOK, Result
    <3> QED
      BY <2>3, <3>1, FunctionIsSeq
  <2>5. SeenReturned' = Append(SeenReturned, Seen(results))
    <3> HIDE DEF results
    <3> QED
      BY <2>1, <2>4, SeenAppend DEF SeenReturned, TypeOK
  <2>6. ASSUME NEW i \in DOMAIN route
        PROVE  (errors[route[i]] = "none") = (route[i] \in Succeeded)
    <3>1. route[i] \in ToSet(route)
      BY DEF ToSet
    <3>2. sends[route[i]] = "done"
      BY <2>1, <2>3, <3>1 DEF ResultsInv, OnRoute
    <3> QED
      BY <2>3, <3>2 DEF Succeeded
  <2>7. Seen(results) = [i \in DOMAIN route |->
                            [channel |-> route[i], success |-> route[i] \in Succeeded]]
    BY <2>6 DEF Seen
  <2>8. Sending = {} /\ UNCHANGED <<calls, Sending, Succeeded>>
    BY <2>1 DEF Sending, Succeeded
  <2> QED
    BY <1>1, <2>1, <2>2, <2>5, <2>7, <2>8, AbstractSteps DEF Idle, Call
<1>5. ASSUME NEW ch \in Channels, Post(ch) PROVE UNCHANGED <<calls, Sending, Succeeded, SeenReturned>>
  BY <1>5 DEF Post, CanPost, Sending, Succeeded, SeenReturned, TypeOK
<1>6. ASSUME Servers \/ UNCHANGED vars PROVE UNCHANGED <<calls, Sending, Succeeded, SeenReturned>>
  BY <1>6 DEF Servers, Answer, LoseRequest, vars, Sending, Succeeded, SeenReturned
<1>7. CASE \E p \in Payload : Dispatch(p)
  BY <1>2, <1>7 DEF Abstract!Next
<1>8. CASE \E ch \in Channels : FailHeaders(ch) \/ FailConnect(ch) \/ Timeout(ch) \/ Receive(ch)
  BY <1>3, <1>8 DEF Abstract!Next, Sending
<1>9. CASE Return
  BY <1>4, <1>9 DEF Abstract!Next
<1> QED
  BY <1>5, <1>6, <1>7, <1>8, <1>9, AbstractSteps DEF Next, Client

\* One result per routed channel, in order, when all have completed, and no
\* exception.
THEOREM Implementation == Spec => Dispatches
<1>1. TypeOK /\ ResultsInv /\ [Next]_vars => [Abstract!Next]_(Abstract!vars)
  BY NextRefines
<1> QED
  BY InitRefines, <1>1, ResultsAlways, TypeCorrect, PTL DEF Spec, Dispatches, Abstract!Spec
=============================================================================
