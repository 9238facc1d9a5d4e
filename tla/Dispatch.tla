------------------------------ MODULE Dispatch ------------------------------
(***************************************************************************)
(* What dispatch::handle does with a request before a handler runs: a      *)
(* chain of checks, the first of which that fails answers the caller, and  *)
(* the request message the handler gets when none does.                    *)
(***************************************************************************)
EXTENDS Codes, SequencesExt

\* A body is a sequence of pieces.  For a stream they are its frames: plain, or
\* flagged as gzip and readable or not, or with a length beyond the limit; the
\* last one may be cut in its header or in its payload.  For a unary call there
\* is one piece at most, gzip data or not.  A big body is beyond the limit.
Piece == {"plain", "gz", "corrupt", "large"}
Body  == [pieces : Seq(Piece), cut : {"no", "header", "payload"}, big : BOOLEAN]
NoBody == [pieces |-> <<>>, cut |-> "no", big |-> FALSE]

\* `shape` is the one the content type names; `method` is what the path names;
\* `encoding` is the header that the shape reads.
Request ==
  [version : {"absent", "1", "other"}, verb : {"POST", "other"},
   method : {"unary", "stream", "unknown"}, shape : {"unary", "stream", "unsupported"},
   registered : BOOLEAN, encoding : {"none", "identity", "gzip", "other"}, body : Body]

\* What reaches the caller: a JSON error, an END frame, a reply, or nothing but
\* the head.  (Before Json: one that has no name for
\* a code the protocol does not have.)
JsonNameless(status, code) ==
  [status |-> status, kind |-> "json", verdict |-> IF code \in Code THEN code_to_string(code) ELSE Nameless]
Json(status, code) == [status |-> status, kind |-> "json", verdict |-> code_to_string(code)]
EndOnly(code)      == [status |-> 200, kind |-> "end", verdict |-> encode_end_stream(code)]
Reply              == [status |-> 200, kind |-> "reply", verdict |-> NoError]
Empty(status)      == [status |-> status, kind |-> "empty", verdict |-> NoError]

Answer == [status : {200} \cup 400..599, kind : {"json", "end", "reply", "empty"}, verdict : Verdict]

write_error(code)  == Json(http_status(code), code)
stream_fail(code)  == EndOnly(code)

\* A check: whether the request fails it, and the answer it then gets.
Check(fails, answer) == [fails |-> fails, answer |-> answer]

-----------------------------------------------------------------------------
\* The checks every request goes through.  (Before them: a comparison of the
\* content type's shape with the method's that lets all pass.)
AnyShape(req)     == FALSE
ShapeDiffers(req) == req.shape # req.method

EntryChecks(req) ==
  << Check(req.version = "other", write_error(12)),
     Check(req.verb # "POST", Json(405, 2)),
     Check(req.body.big, write_error(8)),
     Check(req.method = "unknown", Json(404, 12)),
     Check(req.shape = "unsupported", Json(415, 2)),
     Check(ShapeDiffers(req), Json(415, 2)) >>

\* count_frames: the code of its error, or 0.  A frame beyond the limit is the
\* last one, as the whole body is within it.
count_frames_error(body) ==
  CASE body.cut = "header" -> 13
    [] body.cut # "header" /\ body.pieces # <<>> /\ Last(body.pieces) = "large" -> 8
    [] OTHER -> 0

\* The stream request carries one frame, complete and readable.  (Before the
\* count: one that lets further frames pass.)
NoFrame(body)         == body.pieces = <<>>
FrameCountWrong(body) == Len(body.pieces) # 1

StreamChecks(req) ==
  << Check(~req.registered, stream_fail(12)),
     Check(req.encoding = "other", stream_fail(12)),
     Check(count_frames_error(req.body) # 0, stream_fail(count_frames_error(req.body))),
     Check(FrameCountWrong(req.body), stream_fail(12)),
     Check(req.body.cut = "payload", stream_fail(13)),
     Check(req.body.pieces = <<"corrupt">>, stream_fail(13)) >>

\* A unary call refuses "identity", and does not look into an empty body.
UnaryChecks(req) ==
  << Check(~req.registered, write_error(5)),
     Check(req.encoding \in {"identity", "other"}, write_error(12)),
     Check(req.encoding = "gzip" /\ req.body.pieces # <<>> /\ req.body.pieces[1] # "gz",
           write_error(13)) >>

-----------------------------------------------------------------------------
Failing(checks) == {i \in 1..Len(checks) : checks[i].fails}

Checks(req) ==
  IF Failing(EntryChecks(req)) # {} THEN EntryChecks(req)
  ELSE IF req.method = "stream" THEN StreamChecks(req) ELSE UnaryChecks(req)

Refused(req)   == Failing(Checks(req)) # {}
RefusalOf(req) == Checks(req)[Min(Failing(Checks(req)))].answer

\* The message given to the handler: what the caller encoded, compressed data a
\* unary call did not announce, or the empty message of an empty unary body.
HandlerInput(req) ==
  IF req.body.pieces = <<>> THEN "empty"
  ELSE IF req.method = "unary" /\ req.encoding # "gzip" /\ req.body.pieces[1] # "plain"
       THEN "compressed"
       ELSE "message"
=============================================================================
