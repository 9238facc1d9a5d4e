-------------------------------- MODULE Call --------------------------------
(***************************************************************************)
(* One call through every layer: a bridge's send or open_stream, under     *)
(* with_deadline or not, a connection that may fail at any moment,         *)
(* hyper_serve reading the request, dispatch::handle, the handler, and the *)
(* answer read back by the bridge.  Streams carry no messages here, only   *)
(* their END frame: StreamServer and StreamClient have the rest.           *)
(***************************************************************************)
EXTENDS Dispatch

CONSTANTS
  Requests,   \* the requests callers make
  ErrCodes    \* the codes of the errors handlers return

ASSUME CallAssumption == Requests \subseteq Request /\ ErrCodes \subseteq Int

VARIABLES
  bridge,     \* which of the two bridges
  deadline,   \* "none", "header" (DeadlineInterceptor) or "race" (with_deadline)
  req,        \* the request
  link,       \* whether the connection stands
  cpc,        \* control point of the caller
  result,     \* what the caller was told
  spc,        \* control point of the server
  body,       \* the request body the server collected
  got,        \* what the handler was given
  outcome,    \* what the handler did
  answer      \* the response

callVars   == <<bridge, deadline, req>>
clientVars == <<cpc, result>>
serverVars == <<spc, body, got, outcome, answer>>
vars == <<callVars, link, clientVars, serverVars>>

Streaming == req.shape = "stream"   \* the caller uses open_stream

\* What a handler did, and what a caller was told: an error has a cause.
Pending     == [kind |-> "pending", code |-> 0]
Ok          == [kind |-> "ok", code |-> 0]
Panic       == [kind |-> "panic", code |-> 0]
Err(code)   == [kind |-> "err", code |-> code]

Server(code)     == [kind |-> "err", cause |-> "server", code |-> code]
MissingEnd       == [kind |-> "err", cause |-> "missing", code |-> 13]
Transport        == [kind |-> "err", cause |-> "transport", code |-> 13]
DeadlineExceeded == [kind |-> "err", cause |-> "deadline", code |-> 4]

Init ==
  /\ bridge \in {"hyper", "reqwest"}
  /\ deadline \in {"none", "header", "race"}
  /\ req \in Requests
  /\ link = "up"
  /\ cpc = "connect"
  /\ result = Pending
  /\ spc = "idle"
  /\ body = NoBody
  /\ got = "nothing"
  /\ outcome = Pending
  /\ answer = Empty(200)

-----------------------------------------------------------------------------
(* The server.                                                              *)

\* The whole request body arrives.
CollectBody ==
  /\ spc = "collect"
  /\ link = "up"
  /\ body' = req.body
  /\ spc' = "dispatch"
  /\ UNCHANGED <<callVars, link, clientVars, got, outcome, answer>>

\* The connection breaks while the body is read.  hyper drops the service, or
\* lets it see the error, and `unwrap_or_default` makes an empty body of it.
CollectBroken ==
  /\ spc = "collect"
  /\ link = "down"
  /\ spc' \in {"gone", "dispatch"}
  /\ UNCHANGED <<callVars, link, clientVars, body, got, outcome, answer>>

Delivered == [req EXCEPT !.body = body]

HandleRequest ==
  /\ spc = "dispatch"
  /\ IF Refused(Delivered)
       THEN /\ answer' = RefusalOf(Delivered)
            /\ spc' = "answered"
            /\ UNCHANGED got
       ELSE /\ got' = HandlerInput(Delivered)
            /\ spc' = "handler"
            /\ UNCHANGED answer
  /\ UNCHANGED <<callVars, link, clientVars, body, outcome>>

\* The answer to what the handler did: its reply or END frame, its error, or,
\* after a panic, an empty response with the writer's initial status.
AnswerTo(r) ==
  CASE r.kind = "ok"  /\ req.method = "unary"  -> Reply
    [] r.kind = "ok"  /\ req.method = "stream" -> stream_fail(0)
    [] r.kind = "err" /\ req.method = "unary"  -> Json(http_status(r.code), r.code)
    [] r.kind = "err" /\ req.method = "stream" -> stream_fail(r.code)
    [] r.kind = "panic"                        -> Empty(200)

\* A response header that http refuses turns the answer into an empty 500.
HandlerReturns(r) ==
  /\ spc = "handler"
  /\ outcome' = r
  /\ \/ answer' = AnswerTo(r)
     \/ r.kind # "panic" /\ answer' = Empty(500)
  /\ spc' = "answered"
  /\ UNCHANGED <<callVars, link, clientVars, body, got>>

-----------------------------------------------------------------------------
(* The connection and the caller.                                           *)

Connect ==
  /\ cpc = "connect"
  /\ cpc' = "head"
  /\ spc' = "collect"
  /\ UNCHANGED <<callVars, link, result, body, got, outcome, answer>>

Return(r) == cpc' = "done" /\ result' = r

ConnectFails ==
  /\ cpc = "connect"
  /\ Return(Transport)
  /\ UNCHANGED <<callVars, link, serverVars>>

\* The connection may break at any time once it stands.
LinkBreaks ==
  /\ link = "up"
  /\ spc # "idle"
  /\ link' = "down"
  /\ UNCHANGED <<callVars, clientVars, serverVars>>

\* The head of the response.  open_stream looks at the status and at nothing
\* else; send goes on to the body.
ReceiveHead ==
  /\ cpc = "head"
  /\ link = "up"
  /\ spc = "answered"
  /\ \/ /\ Streaming
        /\ answer.status >= 300
        /\ Return(Server(connect_from_status(answer.status)))
     \/ /\ Streaming => answer.status < 300
        /\ cpc' = "body"
        /\ UNCHANGED result
  /\ UNCHANGED <<callVars, link, serverVars>>

\* decode_error_json; the code is 0 when the body is no error.
decode_error_json(kind, verdict) == IF kind = "json" THEN code_from_string(verdict) ELSE 0

\* How send reads an error: the code of the body, or the one the status stands
\* for.  (Before it: a version that only looks at the status.)
StatusOnly(status, code) == connect_from_status(status)
CodeOf(status, code)     == IF code # 0 THEN code ELSE connect_from_status(status)

\* How send reads a response, the body of which has come in full.
Decoded ==
  IF answer.status < 300 THEN Ok
  ELSE Server(CodeOf(answer.status, decode_error_json(answer.kind, answer.verdict)))

\* How recv ends: with the verdict of the END frame, or for lack of one.
Ended ==
  IF answer.kind # "end" THEN MissingEnd
  ELSE IF decode_end_stream(answer.verdict) = 0 THEN Ok
  ELSE Server(decode_end_stream(answer.verdict))

ReceiveBody ==
  /\ cpc = "body"
  /\ link = "up"
  /\ Return(IF Streaming THEN Ended ELSE Decoded)
  /\ UNCHANGED <<callVars, link, serverVars>>

\* The connection breaks before the response is complete.  The reqwest bridge
\* makes do without the body of an error response.  (Before it: a caller that
\* waits for a head for ever.)
WaitsForBody   == cpc = "body"
WaitsForServer == cpc \in {"head", "body"}

BodyOptional == bridge = "reqwest" /\ ~Streaming /\ cpc = "body" /\ answer.status >= 300

ReceiveBroken ==
  /\ WaitsForServer
  /\ link = "down"
  /\ Return(IF BodyOptional THEN Server(CodeOf(answer.status, 0)) ELSE Transport)
  /\ UNCHANGED <<callVars, link, serverVars>>

\* with_deadline drops the call it wraps, all of send or only the opening of a
\* stream, and with it the connection.
NeverRaces == FALSE
Races == deadline = "race"

Timeout ==
  /\ Races
  /\ cpc \in {"connect", "head"} \/ (cpc = "body" /\ ~Streaming)
  /\ Return(DeadlineExceeded)
  /\ link' = "down"
  /\ UNCHANGED <<callVars, serverVars>>

-----------------------------------------------------------------------------
ServerStep == CollectBody \/ CollectBroken \/ HandleRequest
ClientStep == Connect \/ ConnectFails \/ ReceiveHead \/ ReceiveBody \/ ReceiveBroken

Next ==
  \/ ServerStep
  \/ HandlerReturns(Ok) \/ HandlerReturns(Panic)
  \/ \E c \in ErrCodes : HandlerReturns(Err(c))
  \/ ClientStep
  \/ LinkBreaks
  \/ Timeout

\* Both sides keep running and timers fire; a handler need not return and a
\* connection need not break.
Fairness == WF_vars(ServerStep) /\ WF_vars(ClientStep) /\ WF_vars(Timeout)

Spec == Init /\ [][Next]_vars

FairSpec == Spec /\ Fairness
-----------------------------------------------------------------------------
(* Properties.                                                              *)

Outcome == {Pending, Ok, Panic} \cup {Err(c) : c \in ErrCodes}
Result  == {Pending, Ok, MissingEnd, Transport, DeadlineExceeded} \cup {Server(c) : c \in Code \ {0}}

\* Every variable holds a value the code could hold; in particular a caller is
\* never told an error without a code of the protocol.
TypeOK ==
  /\ bridge \in {"hyper", "reqwest"}
  /\ deadline \in {"none", "header", "race"}
  /\ req \in Requests
  /\ link \in {"up", "down"}
  /\ cpc \in {"connect", "head", "body", "done"}
  /\ result \in Result
  /\ spc \in {"idle", "collect", "gone", "dispatch", "handler", "answered"}
  /\ body \in {req.body, NoBody}
  /\ got \in {"nothing", "empty", "message", "compressed"}
  /\ outcome \in Outcome
  /\ answer \in Answer

\* A caller is told success only if the handler succeeded on the message the
\* caller sent, whatever broke in between (bridge_reqwest.rs:107-116,
\* dispatch.rs:104-106).  Two ways round it are the code's: a unary handler that
\* panics leaves an empty 200, and a stream handler may fail with code 0.
TruthfulSuccess ==
  result.kind = "ok" =>
     /\ got = HandlerInput(req)
     /\ \/ outcome.kind = "ok"
        \/ ~Streaming /\ outcome = Panic
        \/ Streaming /\ outcome = Err(0)

\* A handler runs on the message the caller sent; a stream handler always does
\* (dispatch.rs:123-144), a unary handler may run on an empty one instead if the
\* upload broke, and then no caller is told of its success (server.rs:69).
NoSubstitute ==
  got # "nothing" =>
     \/ /\ body = req.body
        /\ req.method = "stream" =>
             body.cut = "no" /\ body.pieces \in {<<"plain">>, <<"gz">>}
     \/ /\ req.method = "unary"
        /\ link = "down" /\ result.kind # "ok"

\* The caller gets the code of the handler's error, by way of JSON or of an END
\* frame; when a connection breaks inside the JSON, a code of the same status
\* (bridge_reqwest.rs:110-116).
CodeReachesCaller ==
  result.kind = "err" /\ result.cause = "server"
     /\ outcome.kind = "err" /\ outcome.code \in Code \ {0} /\ answer.kind # "empty" =>
       \/ result.code = outcome.code
       \/ /\ bridge = "reqwest" /\ ~Streaming /\ link = "down"
          /\ http_status(result.code) = http_status(outcome.code)

\* Once the response is there or the connection is gone the caller is told.
CallerIsTold ==
  (cpc # "connect" /\ (spc = "answered" \/ link = "down")) ~> cpc = "done"

\* A call under with_deadline ends even if the handler never returns; a stream
\* is at least opened (interceptors.rs:70-81).
DeadlineEndsCall ==
  deadline = "race" ~> cpc = "done" \/ (Streaming /\ cpc = "body")

-----------------------------------------------------------------------------
(* What the repository says and the code does not keep.                     *)

\* interceptors.rs:56-57: the DeadlineInterceptor "races the call with a timeout".
InterceptorRaces == deadline = "header" ~> cpc = "done"
=============================================================================
