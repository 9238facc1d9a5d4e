----------------------------- MODULE CallProofs -----------------------------
(* Theorems about Call: what the caller is told of what the handler did.   *)
EXTENDS Call, EncodingProofs

\* Two codes with one HTTP status are not told apart by the status, and that
\* is all it loses: the code a status is read back as has this status again
\* (http_status, connect_from_status).
THEOREM StatusRoundTrip ==
  ASSUME NEW c \in Int
  PROVE  http_status(connect_from_status(http_status(c))) = http_status(c)
<1>1. http_status(c) \in {499, 400, 504, 404, 409, 403, 429, 501, 503, 401, 500}
  BY DEF http_status
<1>2. \A s \in {499, 400, 504, 404, 409, 403, 429, 501, 503, 401, 500} :
         http_status(connect_from_status(s)) = s
  <2> TAKE s \in {499, 400, 504, 404, 409, 403, 429, 501, 503, 401, 500}
  <2>1. connect_from_status(s) =
          IF s = 400 THEN 3 ELSE IF s = 404 THEN 5 ELSE IF s = 403 THEN 7 ELSE
          IF s = 401 THEN 16 ELSE IF s = 429 THEN 8 ELSE IF s = 503 THEN 14 ELSE
          IF s = 409 THEN 10 ELSE IF s = 504 THEN 4 ELSE IF s = 501 THEN 12 ELSE
          IF s = 499 THEN 1 ELSE 13
    BY DEF connect_from_status
  <2>2. /\ http_status(3) = 400 /\ http_status(5) = 404 /\ http_status(7) = 403
        /\ http_status(16) = 401 /\ http_status(8) = 429 /\ http_status(14) = 503
        /\ http_status(10) = 409 /\ http_status(4) = 504 /\ http_status(12) = 501
        /\ http_status(1) = 499 /\ http_status(13) = 500
    BY DEF http_status
  <2> QED
    BY <2>1, <2>2
<1> QED
  BY <1>1, <1>2

\* An error's status is an error status, and it is never read back as success
\* (http_status, connect_from_status).
LEMMA StatusTypes ==
  ASSUME NEW c \in Int
  PROVE  /\ http_status(c) \in 400..599
         /\ connect_from_status(c) \in Code \ {0}
BY DEF http_status, connect_from_status, Code

\* Any i32 becomes the name of a code, and any name the code of an error or, for
\* "ok", 0 (code_to_string, code_from_string).
LEMMA CodeTypes ==
  /\ \A c \in Int : code_to_string(c) \in CodeName
  /\ \A n \in CodeName : code_from_string(n) \in Code
<1>1. 2 \in Code /\ CodeNames[2 + 1] = "unknown"
  BY DEF Code, CodeNames
<1> QED
  BY <1>1 DEF code_to_string, code_from_string, CodeName

-----------------------------------------------------------------------------
(* The checks of a request.                                                *)

\* A failure a caller of the request's shape cannot take for success.
LooksFailed(shape, a) ==
  \/ a.status >= 300
  \/ shape = "stream" /\ a.kind = "end" /\ decode_end_stream(a.verdict) # 0

\* The chain of the checks ahead of the handler, written out.
LEMMA Passed ==
  ASSUME NEW r \in Request, ~Refused(r)
  PROVE  /\ r.shape = r.method
         /\ r.method \in {"unary", "stream"}
         /\ r.method = "stream" =>
              r.body.cut = "no" /\ r.body.pieces \in {<<"plain">>, <<"gz">>}
<1>1. Failing(EntryChecks(r)) = {}
  BY DEF Refused, Checks
<1>2. /\ Len(EntryChecks(r)) = 6
      /\ EntryChecks(r)[6].fails <=> r.shape # r.method
      /\ EntryChecks(r)[4].fails <=> r.method = "unknown"
  BY DEF EntryChecks, Check, ShapeDiffers
<1>3. r.shape = r.method /\ r.method \in {"unary", "stream"}
  <2>1. \A i \in 1..6 : ~EntryChecks(r)[i].fails
    BY <1>1, <1>2 DEF Failing
  <2>2. ~EntryChecks(r)[6].fails /\ ~EntryChecks(r)[4].fails
    BY <2>1
  <2>3. r.shape = r.method /\ r.method # "unknown"
    BY <1>2, <2>2, Zenon
  <2> QED
    BY <2>3 DEF Request
<1>4. CASE r.method = "stream"
  <2>1. Failing(StreamChecks(r)) = {}
    BY <1>1, <1>4 DEF Refused, Checks
  <2>2. /\ Len(StreamChecks(r)) = 6
        /\ StreamChecks(r)[3].fails <=> count_frames_error(r.body) # 0
        /\ StreamChecks(r)[4].fails <=> Len(r.body.pieces) # 1
        /\ StreamChecks(r)[5].fails <=> r.body.cut = "payload"
        /\ StreamChecks(r)[6].fails <=> r.body.pieces = <<"corrupt">>
    BY DEF StreamChecks, Check, FrameCountWrong
  <2>a. \A i \in 1..6 : ~StreamChecks(r)[i].fails
    BY <2>1, <2>2 DEF Failing
  <2>b. /\ ~StreamChecks(r)[3].fails /\ ~StreamChecks(r)[4].fails
        /\ ~StreamChecks(r)[5].fails /\ ~StreamChecks(r)[6].fails
    BY <2>a
  <2>3. /\ count_frames_error(r.body) = 0 /\ Len(r.body.pieces) = 1
        /\ r.body.cut # "payload" /\ r.body.pieces # <<"corrupt">>
    BY <2>2, <2>b, Zenon
  <2>4. r.body.pieces \in Seq(Piece) /\ r.body.cut \in {"no", "header", "payload"}
    BY DEF Request, Body
  <2>5. r.body.cut # "header" /\ r.body.pieces[1] # "large"
    BY <2>3, <2>4 DEF count_frames_error, Last
  <2>6. r.body.pieces = <<r.body.pieces[1]>> /\ r.body.pieces[1] \in Piece
    BY <2>3, <2>4
  <2> QED
    BY <1>3, <2>3, <2>4, <2>5, <2>6 DEF Piece
<1> QED
  BY <1>3, <1>4

\* The first failing check is one of those that fail.
LEMMA MinIn ==
  ASSUME NEW S \in SUBSET (1..6), S # {}
  PROVE  Min(S) \in S
<1>1. \A x \in S : x = 1 \/ x = 2 \/ x = 3 \/ x = 4 \/ x = 5 \/ x = 6
  OBVIOUS
<1>2. \E x \in S : \A y \in S : x <= y
  <2>1. CASE 1 \in S BY <1>1, <2>1
  <2>2. CASE 1 \notin S /\ 2 \in S BY <1>1, <2>2
  <2>3. CASE 1 \notin S /\ 2 \notin S /\ 3 \in S BY <1>1, <2>3
  <2>4. CASE 1 \notin S /\ 2 \notin S /\ 3 \notin S /\ 4 \in S BY <1>1, <2>4
  <2>5. CASE (\A x \in S : x = 5 \/ x = 6) /\ 5 \in S BY <2>5
  <2>6. CASE \A x \in S : x = 6
    <3>1. PICK x \in S : TRUE OBVIOUS
    <3> QED BY <2>6, <3>1
  <2> QED
    BY <1>1, <2>1, <2>2, <2>3, <2>4, <2>5, <2>6
<1> QED
  BY <1>2 DEF Min

\* An answer that is a failure of one of the two forms.
LEMMA FailureForms ==
  ASSUME NEW c \in Code \ {0}, NEW status \in 400..599
  PROVE  /\ Json(status, c) \in Answer /\ Json(status, c).status >= 300
         /\ write_error(c) \in Answer /\ write_error(c).status >= 300
         /\ stream_fail(c) \in Answer /\ stream_fail(c).kind = "end"
         /\ decode_end_stream(stream_fail(c).verdict) # 0
<1>1. c \in Int /\ http_status(c) \in 400..599
  BY StatusTypes DEF Code
<1>2. code_to_string(c) \in Verdict
  BY <1>1, CodeTypes DEF Verdict
<1>3. encode_end_stream(c) \in Verdict /\ decode_end_stream(encode_end_stream(c)) # 0
  BY <1>1, EndRoundTrip
<1> QED
  BY <1>1, <1>2, <1>3 DEF Json, write_error, stream_fail, EndOnly, Answer

\* Every refusal looks like a failure to a caller of the request's shape.
LEMMA RefusalFails ==
  ASSUME NEW r \in Request, Refused(r)
  PROVE  RefusalOf(r) \in Answer /\ LooksFailed(r.shape, RefusalOf(r))
<1> DEFINE Fine(c) == c.answer \in Answer /\ LooksFailed(r.shape, c.answer)
           checks == Checks(r)
<1>1. {2, 5, 8, 12, 13} \subseteq Code \ {0} /\ {404, 405, 415} \subseteq 400..599
  BY DEF Code
<1>2. /\ Len(EntryChecks(r)) = 6
      /\ \A i \in 1..6 : Fine(EntryChecks(r)[i])
      /\ EntryChecks(r)[6].fails <=> r.shape # r.method
  <2>1. /\ Len(EntryChecks(r)) = 6
        /\ EntryChecks(r)[6].fails <=> r.shape # r.method
    BY DEF EntryChecks, Check, ShapeDiffers
  <2>2. /\ EntryChecks(r)[1].answer = write_error(12)
        /\ EntryChecks(r)[2].answer = Json(405, 2)
        /\ EntryChecks(r)[3].answer = write_error(8)
        /\ EntryChecks(r)[4].answer = Json(404, 12)
        /\ EntryChecks(r)[5].answer = Json(415, 2)
        /\ EntryChecks(r)[6].answer = Json(415, 2)
    BY DEF EntryChecks, Check
  <2>3. \A i \in 1..6 : i = 1 \/ i = 2 \/ i = 3 \/ i = 4 \/ i = 5 \/ i = 6
    OBVIOUS
  <2>4. /\ Fine([answer |-> write_error(12)]) /\ Fine([answer |-> write_error(8)])
        /\ Fine([answer |-> Json(405, 2)]) /\ Fine([answer |-> Json(404, 12)])
        /\ Fine([answer |-> Json(415, 2)])
    BY <1>1, FailureForms, SMTT(20) DEF LooksFailed
  <2> QED
    BY <2>1, <2>2, <2>3, <2>4
<1>3. CASE Failing(EntryChecks(r)) # {}
  <2>1. checks = EntryChecks(r) /\ Failing(checks) \in SUBSET (1..6)
    BY <1>2, <1>3 DEF Checks, Failing
  <2>2. Min(Failing(checks)) \in 1..6
    BY <1>3, <2>1, MinIn
  <2> QED
    BY <1>2, <2>1, <2>2 DEF RefusalOf
<1>4. CASE Failing(EntryChecks(r)) = {}
  <2>1. r.shape = r.method
    <3>1. ~EntryChecks(r)[6].fails
      BY <1>2, <1>4 DEF Failing
    <3> QED
      BY <1>2, <3>1, Zenon
  <2>2. CASE r.method = "stream"
    <3>1. checks = StreamChecks(r) /\ Failing(checks) # {}
      BY <1>4, <2>2 DEF Checks, Refused
    <3>2. /\ Len(checks) = 6
          /\ checks[1].answer = stream_fail(12)
          /\ checks[2].answer = stream_fail(12)
          /\ checks[3].answer = stream_fail(count_frames_error(r.body))
          /\ checks[3].fails <=> count_frames_error(r.body) # 0
          /\ checks[4].answer = stream_fail(12)
          /\ checks[5].answer = stream_fail(13)
          /\ checks[6].answer = stream_fail(13)
      <4>1. /\ Len(StreamChecks(r)) = 6
            /\ StreamChecks(r)[1].answer = stream_fail(12)
            /\ StreamChecks(r)[2].answer = stream_fail(12)
            /\ StreamChecks(r)[3].answer = stream_fail(count_frames_error(r.body))
            /\ StreamChecks(r)[3].fails <=> count_frames_error(r.body) # 0
            /\ StreamChecks(r)[4].answer = stream_fail(12)
            /\ StreamChecks(r)[5].answer = stream_fail(13)
            /\ StreamChecks(r)[6].answer = stream_fail(13)
        BY DEF StreamChecks, Check
      <4> HIDE DEF checks
      <4> QED
        BY <3>1, <4>1
    <3>3. count_frames_error(r.body) \in {0, 8, 13}
      BY DEF count_frames_error
    <3>4. Failing(checks) \in SUBSET (1..6)
      BY <3>2 DEF Failing
    <3>5. PICK i \in 1..6 : i = Min(Failing(checks)) /\ i \in Failing(checks)
      BY <3>1, <3>4, MinIn
    <3>6. checks[i].fails
      BY <3>5 DEF Failing
    <3>7. i = 3 => count_frames_error(r.body) \in {8, 13}
      <4>1. i = 3 => count_frames_error(r.body) # 0
        BY <3>2, <3>6, Zenon
      <4> QED
        BY <3>3, <4>1
    <3>8. PICK c \in {8, 12, 13} : checks[i].answer = stream_fail(c)
      BY <3>2, <3>5, <3>7
    <3> QED
      BY <1>1, <2>1, <2>2, <3>5, <3>8, FailureForms DEF RefusalOf, LooksFailed
  <2>3. CASE r.method # "stream"
    <3>1. checks = UnaryChecks(r) /\ Failing(checks) # {}
      BY <1>4, <2>3 DEF Checks, Refused
    <3>2. /\ Len(checks) = 3
          /\ checks[1].answer = write_error(5)
          /\ checks[2].answer = write_error(12)
          /\ checks[3].answer = write_error(13)
      BY <3>1 DEF UnaryChecks, Check
    <3>3. Failing(checks) \in SUBSET (1..6) /\ Failing(checks) \in SUBSET (1..3)
      BY <3>2 DEF Failing
    <3>4. PICK i \in 1..3 : i = Min(Failing(checks))
      BY <3>1, <3>3, MinIn
    <3>5. PICK c \in {5, 12, 13} : checks[i].answer = write_error(c)
      BY <3>2, <3>4
    <3>6. c \in Code \ {0}
      BY DEF Code
    <3> QED
      BY <3>4, <3>5, <3>6, FailureForms DEF RefusalOf, LooksFailed
  <2> QED
    BY <2>2, <2>3
<1> QED
  BY <1>3, <1>4

-----------------------------------------------------------------------------
(* The invariant.                                                          *)

\* How the control points hang together with what the server collected, gave to
\* the handler and answered.
FlowInv ==
  /\ cpc = "connect" => spc = "idle"
  /\ cpc = "body" => spc = "answered" /\ (Streaming => answer.status < 300)
  /\ spc \in {"dispatch", "handler", "answered"} /\ body # req.body => link = "down"
  /\ got # "nothing" <=> spc = "handler" \/ outcome # Pending
  /\ got # "nothing" => ~Refused(Delivered) /\ got = HandlerInput(Delivered)
  /\ outcome # Pending =>
       /\ spc = "answered"
       /\ answer = AnswerTo(outcome) \/ (outcome # Panic /\ answer = Empty(500))
  /\ outcome = Pending /\ spc = "answered" => LooksFailed(req.shape, answer)

\* What the caller was told, against what the server did.
ToldInv ==
  /\ cpc # "done" => result = Pending
  /\ result.kind = "ok" => spc = "answered" /\ body = req.body
  /\ result.kind = "err" /\ result.cause = "server" => spc = "answered"
  /\ TruthfulSuccess
  /\ CodeReachesCaller

CallInv == TypeOK /\ FlowInv /\ ToldInv

\* A call starts in CallInv: no handler has run and the caller was told nothing.
LEMMA CallInit == Init => CallInv
<1> SUFFICES ASSUME Init PROVE CallInv
  OBVIOUS
<1>1. Empty(200) \in Answer
  BY DEF Empty, Answer, Verdict
<1> QED
  BY <1>1 DEF Init, CallInv, TypeOK, FlowInv, ToldInv, TruthfulSuccess, CodeReachesCaller,
     Outcome, Result, Pending, Ok, Panic, Server, NoBody

\* What reaches dispatch::handle is a request, with the caller's body or none
\* (server.rs:69-83).
LEMMA DeliveredType ==
  ASSUME TypeOK
  PROVE  /\ req \in Request /\ Delivered \in Request
         /\ Delivered.shape = req.shape /\ Delivered.method = req.method
         /\ Delivered.body = body
         /\ body = req.body => Delivered = req
<1>1. req \in Request
  BY CallAssumption DEF TypeOK
<1>2. NoBody \in Body
  BY DEF NoBody, Body
<1> QED
  BY <1>1, <1>2 DEF TypeOK, Delivered, Request

\* FlowInv and ToldInv speak of the server's data and the caller's result: a step
\* that changes neither keeps them.
LEMMA DataKept ==
  ASSUME UNCHANGED <<req, body, outcome>>
  PROVE  Delivered' = Delivered /\ AnswerTo(outcome)' = AnswerTo(outcome) /\ Streaming' = Streaming
BY DEF Delivered, AnswerTo, Streaming

\* The actions that leave the server's data and the caller's result alone, or
\* tell the caller of an error that is not the server's.
LEMMA QuietStep ==
  ASSUME CallInv,
         \/ CollectBody \/ CollectBroken \/ Connect \/ LinkBreaks \/ UNCHANGED vars
         \/ ConnectFails \/ Timeout
  PROVE  CallInv'
<1> USE DEF CallInv, callVars, clientVars, serverVars, vars, Return
<1>1. CASE CollectBody
  BY <1>1 DEF CollectBody, TypeOK, FlowInv, ToldInv, TruthfulSuccess, CodeReachesCaller,
     Streaming, Delivered
<1>2. CASE CollectBroken
  BY <1>2 DEF CollectBroken, TypeOK, FlowInv, ToldInv, TruthfulSuccess, CodeReachesCaller,
     Streaming, Delivered
<1>3. CASE Connect
  BY <1>3 DEF Connect, TypeOK, FlowInv, ToldInv, TruthfulSuccess, CodeReachesCaller,
     Streaming, Delivered
<1>4. CASE LinkBreaks \/ UNCHANGED vars \/ ConnectFails \/ Timeout
  <2>1. /\ UNCHANGED <<callVars, body, got, outcome, answer>>
        /\ spc' = spc /\ (link' = link \/ link' = "down")
        /\ \/ UNCHANGED clientVars
           \/ cpc # "done" /\ cpc' = "done" /\ result' \in {Transport, DeadlineExceeded}
    BY <1>4 DEF LinkBreaks, ConnectFails, Timeout
  <2>2. Delivered' = Delivered /\ AnswerTo(outcome)' = AnswerTo(outcome) /\ Streaming' = Streaming
    BY <2>1, DataKept
  <2>3. TypeOK'
    BY <2>1 DEF TypeOK, Result
  <2>4. FlowInv'
    BY <2>1, <2>2 DEF FlowInv
  <2>5. CASE UNCHANGED clientVars
    <3>1. TruthfulSuccess'
      BY <2>1, <2>2, <2>5 DEF ToldInv, TruthfulSuccess
    <3>2. CodeReachesCaller'
      BY <2>1, <2>2, <2>5 DEF ToldInv, CodeReachesCaller
    <3> QED
      BY <2>1, <2>3, <2>4, <2>5, <3>1, <3>2 DEF ToldInv
  <2>6. CASE cpc' = "done" /\ result' \in {Transport, DeadlineExceeded}
    <3>1. result'.kind = "err" /\ result'.cause # "server"
      BY <2>6 DEF Transport, DeadlineExceeded
    <3> QED
      BY <2>3, <2>4, <2>6, <3>1 DEF ToldInv, TruthfulSuccess, CodeReachesCaller
  <2> QED
    BY <2>1, <2>5, <2>6
<1> QED
  BY <1>1, <1>2, <1>3, <1>4

\* handle refuses the request, or gives its message to the handler.
LEMMA RequestStep ==
  ASSUME CallInv, HandleRequest
  PROVE  CallInv'
<1> USE DEF CallInv
<1>1. /\ spc = "dispatch"
      /\ UNCHANGED <<callVars, link, clientVars, body, outcome>>
      /\ \/ /\ Refused(Delivered) /\ answer' = RefusalOf(Delivered)
            /\ spc' = "answered" /\ got' = got
         \/ /\ ~Refused(Delivered) /\ got' = HandlerInput(Delivered)
            /\ spc' = "handler" /\ answer' = answer
  BY DEF HandleRequest
<1>2. /\ UNCHANGED <<bridge, deadline, req, link, cpc, result, body, outcome>>
      /\ Delivered' = Delivered /\ AnswerTo(outcome)' = AnswerTo(outcome) /\ Streaming' = Streaming
  BY <1>1, DataKept DEF callVars, clientVars
<1>3. Delivered \in Request /\ Delivered.shape = req.shape
  BY DeliveredType
<1>4. HandlerInput(Delivered) \in {"empty", "message", "compressed"}
  BY DEF HandlerInput
<1>5. Refused(Delivered) => RefusalOf(Delivered) \in Answer /\ LooksFailed(req.shape, RefusalOf(Delivered))
  BY <1>3, RefusalFails
<1>6. /\ outcome = Pending /\ got = "nothing" /\ cpc # "connect" /\ cpc # "body"
      /\ result.kind # "ok" /\ ~(result.kind = "err" /\ result.cause = "server")
  BY <1>1 DEF FlowInv, ToldInv
<1>7. TypeOK'
  BY <1>1, <1>2, <1>4, <1>5 DEF TypeOK
<1>8. FlowInv'
  BY <1>1, <1>2, <1>4, <1>5, <1>6 DEF FlowInv
<1>9. ToldInv'
  BY <1>2, <1>6 DEF ToldInv, TruthfulSuccess, CodeReachesCaller
<1> QED
  BY <1>7, <1>8, <1>9

\* The handler returns, and handle writes its answer.
LEMMA HandlerStep ==
  ASSUME CallInv, NEW r \in {Ok, Panic} \cup {Err(c) : c \in ErrCodes}, HandlerReturns(r)
  PROVE  CallInv'
<1> USE DEF CallInv
<1>1. /\ spc = "handler" /\ spc' = "answered" /\ outcome' = r
      /\ answer' = AnswerTo(r) \/ (r # Panic /\ answer' = Empty(500))
      /\ UNCHANGED <<callVars, link, clientVars, body, got>>
  BY DEF HandlerReturns, Panic
<1>2. /\ UNCHANGED <<bridge, deadline, req, link, cpc, result, body, got>>
      /\ Delivered' = Delivered /\ Streaming' = Streaming
      /\ AnswerTo(outcome)' = AnswerTo(r)
  BY <1>1 DEF callVars, clientVars, Delivered, AnswerTo, Streaming
<1>3. /\ got # "nothing" /\ ~Refused(Delivered) /\ cpc # "connect" /\ cpc # "body"
      /\ result.kind # "ok" /\ ~(result.kind = "err" /\ result.cause = "server")
  BY <1>1 DEF FlowInv, ToldInv
<1>4. req.method \in {"unary", "stream"}
  BY <1>3, DeliveredType, Passed
<1>5. r # Pending
  BY DEF Ok, Panic, Err, Pending
<1>6. AnswerTo(r) \in Answer /\ Empty(500) \in Answer
  <2>1. /\ Reply \in Answer /\ Empty(200) \in Answer /\ Empty(500) \in Answer
    BY DEF Reply, Empty, Answer, Verdict
  <2>2. \A c \in Int : Json(http_status(c), c) \in Answer /\ stream_fail(c) \in Answer
    <3> TAKE c \in Int
    <3>1. http_status(c) \in 400..599 /\ code_to_string(c) \in Verdict
      BY StatusTypes, CodeTypes DEF Verdict
    <3>2. encode_end_stream(c) \in Verdict
      BY EndRoundTrip
    <3> QED
      BY <3>1, <3>2 DEF Json, stream_fail, EndOnly, Answer
  <2>3. r = Ok \/ r = Panic \/ \E c \in Int : r = Err(c)
    BY CallAssumption
  <2> QED
    BY <1>4, <2>1, <2>2, <2>3 DEF AnswerTo, Ok, Panic, Err
<1>7. TypeOK'
  BY <1>1, <1>2, <1>6 DEF TypeOK, Outcome
<1>8. FlowInv'
  BY <1>1, <1>2, <1>3, <1>5 DEF FlowInv
<1>9. ToldInv'
  BY <1>2, <1>3 DEF ToldInv, TruthfulSuccess, CodeReachesCaller
<1> QED
  BY <1>7, <1>8, <1>9

\* What each kind of response is read as.
LEMMA Reading ==
  /\ \A n : code_from_string(n) \in Code /\ decode_end_stream(n) \in Code
  /\ \A k, n : decode_error_json(k, n) \in Code
  /\ \A status \in Int, c \in Code : CodeOf(status, c) \in Code \ {0}
<1>1. 0 \in Code /\ 2 \in Code
  BY DEF Code
<1>2. \A n : code_from_string(n) \in Code
  <2> TAKE n
  <2>1. CASE n \in CodeName
    <3>1. PICK c \in Code : CodeNames[c + 1] = n
      BY <2>1 DEF CodeName
    <3> QED
      BY <2>1, <3>1, Zenon DEF code_from_string
  <2>2. CASE n \notin CodeName
    BY <1>1, <2>2 DEF code_from_string
  <2> QED
    BY <2>1, <2>2
<1>3. \A n : decode_end_stream(n) \in Code
  BY <1>1, <1>2 DEF decode_end_stream
<1>4. \A k, n : decode_error_json(k, n) \in Code
  BY <1>1, <1>2 DEF decode_error_json
<1>5. \A status \in Int, c \in Code : CodeOf(status, c) \in Code \ {0}
  BY StatusTypes DEF CodeOf
<1> QED
  BY <1>2, <1>3, <1>4, <1>5

\* The caller reads the head or the body of the response, or finds it broken.
LEMMA ReceiveStep ==
  ASSUME CallInv, ReceiveHead \/ ReceiveBody \/ ReceiveBroken
  PROVE  CallInv'
<1> USE DEF CallInv
<1>1. /\ UNCHANGED <<bridge, deadline, req, link, spc, body, got, outcome, answer>>
      /\ cpc \in {"head", "body"} /\ result = Pending
      /\ Delivered' = Delivered /\ AnswerTo(outcome)' = AnswerTo(outcome) /\ Streaming' = Streaming
  <2>1. /\ UNCHANGED <<callVars, link, serverVars>>
        /\ cpc \in {"head", "body"}
    BY DEF ReceiveHead, ReceiveBody, ReceiveBroken, WaitsForServer
  <2> QED
    BY <2>1, DataKept DEF callVars, serverVars, ToldInv
<1>2. answer.status \in Int
  BY DEF TypeOK, Answer
<1>3. CASE UNCHANGED result
  <2>1. /\ cpc' = "body" /\ spc = "answered" /\ (Streaming => answer.status < 300)
    BY <1>1, <1>3 DEF ReceiveHead, ReceiveBody, ReceiveBroken, Return, Ended, Decoded, Pending,
       Ok, Server, MissingEnd, Transport
  <2>2. TypeOK'
    BY <1>1, <1>3, <2>1 DEF TypeOK
  <2>3. FlowInv'
    BY <1>1, <1>3, <2>1 DEF FlowInv
  <2> QED
    BY <1>1, <1>3, <2>1, <2>2, <2>3 DEF ToldInv, TruthfulSuccess, CodeReachesCaller, Pending
<1>4. CASE cpc' = "done" /\ result' \in Result /\ TruthfulSuccess' /\ CodeReachesCaller'
           /\ (result'.kind = "ok" => spc = "answered" /\ body = req.body)
           /\ (result'.kind = "err" /\ result'.cause = "server" => spc = "answered")
  <2>1. TypeOK'
    BY <1>1, <1>4 DEF TypeOK
  <2>2. FlowInv'
    BY <1>1, <1>4 DEF FlowInv
  <2> QED
    BY <1>1, <1>4, <2>1, <2>2 DEF ToldInv
<1>5. spc = "answered" /\ link = "up" => body = req.body
  BY DEF FlowInv, TypeOK
<1>6. CASE cpc' = "done" /\ result' = Transport
  BY <1>4, <1>6 DEF Transport, Result, TruthfulSuccess, CodeReachesCaller
<1>7. ASSUME outcome.kind = "err", outcome.code \in Code \ {0}, answer.kind # "empty"
      PROVE  /\ Streaming => answer = stream_fail(outcome.code)
             /\ ~Streaming => answer = Json(http_status(outcome.code), outcome.code)
  <2>1. outcome # Pending /\ outcome # Panic /\ outcome # Ok
    BY <1>7 DEF Pending, Panic, Ok
  <2>2. answer # Empty(500)
    BY <1>7 DEF Empty
  <2>3. answer = AnswerTo(outcome) /\ ~Refused(Delivered)
    BY <2>1, <2>2 DEF FlowInv
  <2>4. req.shape = req.method /\ req.method \in {"unary", "stream"}
    BY <2>3, DeliveredType, Passed
  <2> QED
    BY <1>7, <2>3, <2>4 DEF AnswerTo, Streaming
<1>8. CASE ReceiveHead /\ ~UNCHANGED result
  <2>1. /\ spc = "answered" /\ Streaming /\ answer.status >= 300 /\ cpc' = "done"
        /\ result' = Server(connect_from_status(answer.status))
    BY <1>8 DEF ReceiveHead, Return
  <2>2. result' \in Result /\ result'.kind = "err"
    BY <1>2, <2>1, StatusTypes DEF Result, Server
  <2>3. ~(outcome.kind = "err" /\ outcome.code \in Code \ {0} /\ answer.kind # "empty")
    BY <1>7, <2>1 DEF stream_fail, EndOnly
  <2> QED
    BY <1>1, <1>4, <2>1, <2>2, <2>3 DEF TruthfulSuccess, CodeReachesCaller
<1>9. CASE ReceiveBroken /\ result' # Transport
  <2>1. /\ bridge = "reqwest" /\ ~Streaming /\ cpc = "body" /\ link = "down" /\ cpc' = "done"
        /\ result' = Server(CodeOf(answer.status, 0))
    BY <1>9 DEF ReceiveBroken, Return, BodyOptional
  <2>2. result' \in Result /\ result'.kind = "err" /\ spc = "answered"
    BY <1>2, <2>1, Reading DEF Result, Server, Code, FlowInv
  <2>3. ASSUME outcome.kind = "err", outcome.code \in Code \ {0}, answer.kind # "empty"
        PROVE  http_status(result'.code) = http_status(outcome.code)
    <3>1. answer.status = http_status(outcome.code)
      BY <1>7, <2>1, <2>3 DEF Json
    <3>2. result'.code = connect_from_status(answer.status)
      BY <2>1 DEF Server, CodeOf
    <3> QED
      BY <2>3, <3>1, <3>2, StatusRoundTrip DEF Code
  <2> QED
    BY <1>1, <1>4, <2>1, <2>2, <2>3 DEF TruthfulSuccess, CodeReachesCaller
<1>10. CASE ReceiveBody
  <2>1. /\ cpc = "body" /\ link = "up" /\ cpc' = "done" /\ spc = "answered" /\ body = req.body
        /\ result' = IF Streaming THEN Ended ELSE Decoded
        /\ Streaming => answer.status < 300
    BY <1>5, <1>10 DEF ReceiveBody, Return, FlowInv
  <2>2. Delivered = req
    BY <2>1, DeliveredType
  <2>3. outcome = Pending => LooksFailed(req.shape, answer)
    BY <2>1 DEF FlowInv
  <2>4. outcome # Pending =>
          /\ got = HandlerInput(req) /\ req.shape = req.method /\ req.method \in {"unary", "stream"}
          /\ answer = AnswerTo(outcome) \/ answer = Empty(500)
    BY <2>2, DeliveredType, Passed DEF FlowInv
  <2>5. outcome \in {Pending, Ok, Panic} \/ \E c \in Int : outcome = Err(c)
    BY CallAssumption DEF TypeOK, Outcome
  <2>6. CASE Streaming
    <3>1. /\ answer.kind # "end" => result' = MissingEnd
          /\ answer.kind = "end" /\ decode_end_stream(answer.verdict) = 0 => result' = Ok
          /\ answer.kind = "end" /\ decode_end_stream(answer.verdict) # 0 =>
               result' = Server(decode_end_stream(answer.verdict))
      BY <2>1, <2>6 DEF Ended
    <3>2. result' \in Result
      BY <3>1, Reading DEF Result, Server
    <3>3. ASSUME result'.kind = "ok"
          PROVE  got = HandlerInput(req) /\ (outcome.kind = "ok" \/ outcome = Err(0))
      <4>1. answer.kind = "end" /\ decode_end_stream(answer.verdict) = 0
        BY <3>1, <3>3 DEF MissingEnd, Server
      <4>2. outcome # Pending
        BY <2>1, <2>3, <2>6, <4>1, <1>2 DEF LooksFailed, TypeOK, Answer
      <4>3. answer = AnswerTo(outcome) /\ req.method = "stream" /\ got = HandlerInput(req)
        BY <2>4, <2>6, <4>1, <4>2 DEF Empty, Streaming
      <4>4. outcome # Panic
        BY <4>1, <4>3 DEF AnswerTo, Empty, Panic
      <4>5. ASSUME NEW c \in Int, outcome = Err(c) PROVE c = 0
        <5>1. answer = stream_fail(c)
          BY <4>3, <4>5 DEF AnswerTo, Err
        <5>2. decode_end_stream(encode_end_stream(c)) = 0
          BY <4>1, <5>1 DEF stream_fail, EndOnly
        <5> QED
          BY <5>2, EndRoundTrip
      <4> QED
        BY <2>5, <4>2, <4>3, <4>4, <4>5 DEF Ok
    <3>4. ASSUME result'.kind = "err", result'.cause = "server", outcome.kind = "err",
                 outcome.code \in Code \ {0}, answer.kind # "empty"
          PROVE  result'.code = outcome.code
      <4>1. answer.kind = "end" /\ answer.verdict = encode_end_stream(outcome.code)
        BY <1>7, <2>6, <3>4 DEF stream_fail, EndOnly
      <4>2. decode_end_stream(answer.verdict) = outcome.code
        BY <3>4, <4>1, EndRoundTrip DEF Code
      <4> QED
        BY <3>1, <3>4, <4>1, <4>2 DEF Server
    <3> QED
      BY <1>1, <1>4, <2>1, <2>6, <3>2, <3>3, <3>4 DEF TruthfulSuccess, CodeReachesCaller
  <2>7. CASE ~Streaming
    <3> DEFINE code == decode_error_json(answer.kind, answer.verdict)
    <3>1. /\ answer.status < 300 => result' = Ok
          /\ answer.status >= 300 => result' = Server(CodeOf(answer.status, code))
      BY <1>2, <2>1, <2>7 DEF Decoded
    <3>2. result' \in Result
      BY <1>2, <3>1, Reading DEF Result, Server
    <3>3. ASSUME result'.kind = "ok"
          PROVE  got = HandlerInput(req) /\ (outcome.kind = "ok" \/ outcome = Panic)
      <4>1. answer.status < 300
        BY <1>2, <3>1, <3>3 DEF Server
      <4>2. outcome # Pending
        BY <1>2, <2>3, <2>7, <4>1 DEF LooksFailed, Streaming
      <4>3. answer = AnswerTo(outcome) /\ req.method = "unary" /\ got = HandlerInput(req)
        BY <2>4, <2>7, <4>1, <4>2 DEF Empty, Streaming
      <4>4. ASSUME NEW c \in Int, outcome = Err(c) PROVE FALSE
        <5>1. answer = Json(http_status(c), c)
          BY <4>3, <4>4 DEF AnswerTo, Err
        <5> QED
          BY <4>1, <5>1, StatusTypes DEF Json
      <4> QED
        BY <2>5, <4>2, <4>3, <4>4 DEF Ok
    <3>4. ASSUME outcome.kind = "err", outcome.code \in Code \ {0}, answer.kind # "empty",
                 result'.kind = "err"
          PROVE  result'.code = outcome.code
      <4>1. answer.kind = "json" /\ answer.verdict = code_to_string(outcome.code)
        BY <1>7, <2>7, <3>4 DEF Json
      <4>2. code = outcome.code
        BY <3>4, <4>1, NameRoundTrip DEF decode_error_json
      <4> QED
        BY <3>1, <3>4, <4>2, <1>2 DEF CodeOf, Server, Ok
    <3> QED
      BY <1>1, <1>4, <2>1, <2>7, <3>2, <3>3, <3>4 DEF TruthfulSuccess, CodeReachesCaller
  <2> QED
    BY <2>6, <2>7
<1>11. CASE ReceiveBroken /\ result' = Transport
  BY <1>6, <1>11 DEF ReceiveBroken, Return
<1> QED
  BY <1>3, <1>8, <1>9, <1>10, <1>11

-----------------------------------------------------------------------------
(* The theorems.                                                           *)

\* The inductive invariant of Call: types, the way a request's message flows to
\* the handler and its answer back, and what the caller was told of it.
THEOREM CallCorrect == Spec => []CallInv
<1>1. CallInv /\ [Next]_vars => CallInv'
  <2> SUFFICES ASSUME CallInv, [Next]_vars PROVE CallInv'
    OBVIOUS
  <2>1. CASE ServerStep
    BY <2>1, QuietStep, RequestStep DEF ServerStep
  <2>2. CASE \E r \in {Ok, Panic} \cup {Err(c) : c \in ErrCodes} : HandlerReturns(r)
    BY <2>2, HandlerStep
  <2>3. CASE ClientStep
    BY <2>3, QuietStep, ReceiveStep DEF ClientStep
  <2>4. CASE LinkBreaks \/ Timeout \/ UNCHANGED vars
    BY <2>4, QuietStep
  <2> QED
    BY <2>1, <2>2, <2>3, <2>4 DEF Next
<1> QED
  BY <1>1, CallInit, PTL DEF Spec

\* Every variable of Call holds a value the code could hold, whatever requests
\* and error codes there are.
THEOREM TypeCorrect == Spec => []TypeOK
BY CallCorrect, PTL DEF CallInv

\* No caller is told success unless the handler succeeded on its message, but
\* for a unary panic and a stream error of code 0.
THEOREM SuccessIsTruthful == Spec => []TruthfulSuccess
BY CallCorrect, PTL DEF CallInv, ToldInv

\* The code of a handler's error reaches the caller, at worst as another code of
\* the same status when the JSON is cut off.
THEOREM CodeReaches == Spec => []CodeReachesCaller
BY CallCorrect, PTL DEF CallInv, ToldInv

\* A stream handler runs on the caller's one message only; a unary handler that
\* ran on anything else has no caller who is told of success.
THEOREM NoneSubstituted == Spec => []NoSubstitute
<1>1. CallInv => NoSubstitute
  <2> SUFFICES ASSUME CallInv, got # "nothing" PROVE NoSubstitute
    BY DEF NoSubstitute
  <2>1. /\ TypeOK /\ ~Refused(Delivered) /\ spc \in {"handler", "answered"}
        /\ body # req.body => link = "down" /\ result.kind # "ok"
    BY DEF CallInv, FlowInv, ToldInv
  <2>2. /\ req.method \in {"unary", "stream"}
        /\ req.method = "stream" => body.cut = "no" /\ body.pieces \in {<<"plain">>, <<"gz">>}
    BY <2>1, DeliveredType, Passed
  <2>3. body # req.body => req.method # "stream"
    BY <2>1, <2>2 DEF TypeOK, NoBody
  <2> QED
    BY <2>1, <2>2, <2>3 DEF NoSubstitute
<1> QED
  BY <1>1, CallCorrect, PTL
=============================================================================
