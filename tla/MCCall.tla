------------------------------- MODULE MCCall -------------------------------
(* Call on well-formed requests and on those that differ from them a little. *)
EXTENDS Call

Cut(where, pieces) == [pieces |-> pieces, cut |-> where, big |-> FALSE]
Whole(pieces)      == Cut("no", pieces)

Good(shape) ==
  [version |-> "1", verb |-> "POST", method |-> shape, shape |-> shape,
   registered |-> TRUE, encoding |-> "none", body |-> Whole(<<"plain">>)]

\* What any request may have wrong ahead of the body.
HeadVariants(r) ==
  { [r EXCEPT !.version = "absent"], [r EXCEPT !.version = "other"], [r EXCEPT !.verb = "other"],
    [r EXCEPT !.body.big = TRUE], [r EXCEPT !.method = "unknown"], [r EXCEPT !.registered = FALSE],
    [r EXCEPT !.shape = "unsupported"] }

UnaryRequests ==
  HeadVariants(Good("unary"))
  \cup { [Good("unary") EXCEPT !.encoding = e, !.body = b] :
           e \in {"none", "identity", "gzip", "other"},
           b \in {NoBody, Whole(<<"plain">>), Whole(<<"gz">>)} }

StreamRequests ==
  HeadVariants(Good("stream"))
  \cup { [Good("stream") EXCEPT !.encoding = e] : e \in {"none", "identity", "gzip", "other"} }
  \cup { [Good("stream") EXCEPT !.body = b] :
           b \in { NoBody, Whole(<<"gz">>), Whole(<<"corrupt">>), Whole(<<"plain", "plain">>),
                   Cut("header", <<"plain">>), Cut("payload", <<"plain">>),
                   Cut("payload", <<"plain", "plain">>), Cut("payload", <<"large">>) } }

\* A caller that takes one shape of method for the other.
Mismatched == { [Good("unary") EXCEPT !.method = "stream"], [Good("stream") EXCEPT !.method = "unary"] }

MCRequests == UnaryRequests \cup StreamRequests \cup Mismatched

\* 0 and a code out of range are errors a handler may return, too.
MCErrCodes == {0, 3, 13, 15, 99}
=============================================================================
