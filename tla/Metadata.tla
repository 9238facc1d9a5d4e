------------------------------ MODULE Metadata ------------------------------
(***************************************************************************)
(* What travels beside the message of a call: request headers through the  *)
(* interceptors and the bridge to the handler; response headers, trailers  *)
(* and error details from the handler back to the caller and the observers.*)
(*                                                                         *)
(* Header maps are functions from names to the sequence of their values.   *)
(* The crate's BTreeMap tells names apart by case, HTTP does not.          *)
(***************************************************************************)
EXTENDS ErrorDetails

CONSTANTS
  Calls,        \* the calls that are made, see Call
  HeaderNames,  \* the names handlers use with set_header
  TrailerNames, \* the names handlers use with set_trailer
  Values        \* the values handlers give them

-----------------------------------------------------------------------------
\* What names and values are made of.
Text == STRING

\* A name: how many times it is prefixed with "trailer-", the word behind, and
\* whether it is spelt with capitals.
Name == [prefix : Nat, word : Text, spelt : {"lower", "upper"}]
Named(word) == [prefix |-> 0, word |-> word, spelt |-> "lower"]
Lower(n) == [n EXCEPT !.spelt = "lower"]
Upper(n) == [n EXCEPT !.spelt = "upper"]

ContentType     == Named("content-type")
ContentEncoding == Named("content-encoding")
Timeout         == Named("connect-timeout-ms")
Authorization   == Named("authorization")
Host            == Named("host")

\* The one value in the models that is not visible ASCII.
Unicode == "unicode"

\* A name that is there has a value.
IsHeaders(h)  == DOMAIN h \subseteq Name /\ \A n \in DOMAIN h : h[n] \in Seq(Text) \ {<<>>}
NoHeaders == [n \in {} |-> <<>>]
Of(h, n)      == IF n \in DOMAIN h THEN h[n] ELSE <<>>
Put(h, n, vs) == [m \in DOMAIN h \cup {n} |-> IF m = n THEN vs ELSE h[m]]
PutMissing(h, more) == [n \in DOMAIN h \cup DOMAIN more |-> IF n \in DOMAIN h THEN h[n] ELSE more[n]]
Appended(h, more)   == [n \in DOMAIN h \cup DOMAIN more |-> Of(h, n) \o Of(more, n)]

\* What http's header map holds: one spelling per name, the values in the order of
\* the BTreeMap, where capitals come first.
HeaderMap(h) == [n \in {Lower(m) : m \in DOMAIN h} |-> Of(h, Upper(n)) \o Of(h, n)]

-----------------------------------------------------------------------------
\* The interceptors.  A user's own may rewrite nothing and refuse the call.
MetadataInterceptor(h) == [kind |-> "metadata", headers |-> h]
TimeoutInterceptor(ms) == [kind |-> "timeout", ms |-> ms]
RefusingInterceptor    == [kind |-> "refuse"]

\* A timeout is a number in digits.
IsInterceptor(ic) ==
  \/ ic.kind = "metadata" /\ IsHeaders(ic.headers)
  \/ ic.kind = "timeout" /\ ic.ms \in Text \ {Unicode}
  \/ ic.kind = "refuse"

\* A call: its shape, the bridge, what the caller puts into the headers, the
\* arguments of `connect` and whether gzip is accepted; bounds on the handler: how
\* many headers and trailers it sets, and the details of its errors; or, when the
\* server is another implementation, the entries in the errors that sends.
NoTimeout == "0"

\* The words the code itself puts into headers.
OwnTexts == {"content-type", "content-encoding", "connect-timeout-ms", "authorization", "host",
             "authority", "token", "proto", "connect+proto", "json", "gzip", ""}

ASSUME MetadataAssumption ==
  /\ OwnTexts \subseteq Text
  /\ HeaderNames \cup TrailerNames \subseteq Name
  /\ Values \subseteq Text
  /\ \A c \in Calls :
       /\ IsHeaders(c.caller)
       /\ c.timeout \in Text \ {Unicode}
       /\ c.extra \in Seq(ToSet(c.extra))
       /\ \A ic \in ToSet(c.extra) : IsInterceptor(ic)
       /\ c.sets \in Nat
       /\ \A details \in c.errors : details \in Seq([type : Text, value : Seq(Byte)])
       /\ \A entries \in c.foreign : entries \in Seq([type : Text, text : Seq(Char)])

with_standard_interceptors(c) ==
  (IF c.token THEN <<MetadataInterceptor(Put(NoHeaders, Authorization, <<"token">>))>> ELSE <<>>)
  \o (IF c.timeout # NoTimeout THEN <<TimeoutInterceptor(c.timeout)>> ELSE <<>>)
  \o c.extra

\* (Before it: a version in which what is there wins the other way.)
Overwritten(h, more)   == PutMissing(more, h)
AddMetadata(h, more)   == PutMissing(h, more)

\* A timeout of 0 is none, and leaves the one that is there.  (Before it: a version
\* that overwrites that, too.)
AlwaysTimeout(h, ms)   == Put(h, Timeout, <<ms>>)
with_timeout(h, ms)    == IF ms = NoTimeout THEN h ELSE Put(h, Timeout, <<ms>>)

VARIABLES
  call,       \* the call
  pc,         \* where it is
  next,       \* the interceptor whose turn it is
  req,        \* the request's headers
  sent,       \* them on the wire
  seen,       \* them in the handler's context (HandlerContext.headers)
  made,       \* how many headers and trailers the handler has set
  recorded,   \* headers_internal
  trailing,   \* trailers_internal
  outcome,    \* what the handler did
  head,       \* the response's headers on the wire
  tail,       \* what its body carries: END metadata and the entries of details
  got,        \* what the caller reads
  observed    \* what the observers were given, in order

requestVars == <<next, req, sent>>
handlerVars == <<seen, made, recorded, trailing>>
answerVars  == <<outcome, head, tail>>
vars == <<call, pc, requestVars, handlerVars, answerVars, got, observed>>

Chain  == with_standard_interceptors(call)
Unary  == call.shape = "unary"
Foreign == call.foreign # {}

Nothing == [kind |-> "nothing"]
Refused == [kind |-> "refused"]
NoTail  == [metadata |-> NoHeaders, entries |-> <<>>]

Init ==
  /\ call \in Calls
  /\ pc = "intercept"
  /\ next = 1
  /\ req = call.caller
  /\ sent = NoHeaders /\ seen = NoHeaders
  /\ made = 0 /\ recorded = NoHeaders /\ trailing = NoHeaders
  /\ outcome = Nothing
  /\ head = NoHeaders /\ tail = NoTail
  /\ got = Nothing
  /\ observed = <<>>

-----------------------------------------------------------------------------
(* The request.                                                             *)

Intercept ==
  /\ pc = "intercept"
  /\ next <= Len(Chain)
  /\ LET ic == Chain[next] IN
       \/ /\ ic.kind = "metadata"
          /\ req' = AddMetadata(req, ic.headers)
          /\ next' = next + 1
          /\ UNCHANGED <<pc, got>>
       \/ /\ ic.kind = "timeout"
          /\ req' = with_timeout(req, ic.ms)
          /\ next' = next + 1
          /\ UNCHANGED <<pc, got>>
       \/ /\ ic.kind = "refuse"
          /\ got' = Refused
          /\ pc' = "done"
          /\ UNCHANGED <<req, next>>
  /\ UNCHANGED <<call, sent, handlerVars, answerVars, observed>>

\* The bridge adds a content type unless the caller has one, in any spelling.
WithContentType(h) ==
  IF \E n \in DOMAIN h : Lower(n) = ContentType THEN h
  ELSE Put(h, ContentType, <<IF Unary THEN "proto" ELSE "connect+proto">>)

\* It hands the request to HTTP; hyper's bridge has put the host of the URL ahead of
\* the caller's headers.  (The one the library under reqwest adds is left out.)
Outgoing(h) ==
  LET m == HeaderMap(WithContentType(h)) IN
    IF call.bridge = "hyper" THEN Put(m, Host, <<"authority">> \o Of(m, Host)) ELSE m

\* hyper_serve reads what arrives, and makes an empty value of one it cannot read
\* as text.
Transmit ==
  /\ pc = "intercept"
  /\ next > Len(Chain)
  /\ sent' = Outgoing(req)
  /\ seen' = [n \in DOMAIN sent' |->
                [i \in 1..Len(sent'[n]) |-> IF sent'[n][i] = Unicode THEN "" ELSE sent'[n][i]]]
  /\ pc' = "handler"
  /\ UNCHANGED <<call, next, req, made, recorded, trailing, answerVars, got, observed>>

\* The transport fails before there is a response.
TransportFails ==
  /\ pc \in {"intercept", "handler", "answered"}
  /\ next > Len(Chain)
  /\ got' = Refused
  /\ pc' = "done"
  /\ UNCHANGED <<call, requestVars, handlerVars, answerVars, observed>>

-----------------------------------------------------------------------------
(* The handler.                                                             *)

MaySet == pc = "handler" /\ ~Foreign /\ made < call.sets

\* Headers are kept under the name in lower case.  (Before it: as it is spelt.)
AsSpelt(n)   == n
HeaderKey(n) == Lower(n)

set_header(n, v) ==
  /\ MaySet
  /\ recorded' = Put(recorded, HeaderKey(n), Append(Of(recorded, HeaderKey(n)), v))
  /\ made' = made + 1
  /\ UNCHANGED <<call, pc, requestVars, seen, trailing, answerVars, got, observed>>

set_trailer(n, v) ==
  /\ MaySet
  /\ trailing' = Put(trailing, n, Append(Of(trailing, n), v))
  /\ made' = made + 1
  /\ UNCHANGED <<call, pc, requestVars, seen, recorded, answerVars, got, observed>>

\* Trailers become headers; of two that differ in case the lower one is left.
mux_trailers(h, t) ==
  [n \in DOMAIN h \cup {[Lower(m) EXCEPT !.prefix = @ + 1] : m \in DOMAIN t} |->
     LET m == [n EXCEPT !.prefix = @ - 1] IN
       IF n.prefix > 0 /\ m \in DOMAIN t THEN t[m]
       ELSE IF n.prefix > 0 /\ Upper(m) \in DOMAIN t THEN t[Upper(m)]
       ELSE h[n]]

merge_response_headers(h, extra) == Appended(h, extra)

Typed(type) == Put(NoHeaders, ContentType, <<type>>)

\* The type of the answer: the shape of the method in the codec of the request.
ReplyType == Head(seen[ContentType])

\* (Before it: one that merges the handler's headers last.)
TypedThenMerged(gz) ==
  LET h == IF gz THEN Put(NoHeaders, ContentEncoding, <<"gzip">>) ELSE NoHeaders IN
    merge_response_headers(Put(mux_trailers(h, trailing), ContentType, <<ReplyType>>), recorded)
OkHeaders(gz) ==
  LET h == IF gz THEN Put(NoHeaders, ContentEncoding, <<"gzip">>) ELSE NoHeaders IN
    Put(merge_response_headers(mux_trailers(h, trailing), recorded), ContentType, <<ReplyType>>)

ErrorHeaders  == mux_trailers(merge_response_headers(Typed("json"), recorded), trailing)
StreamHeaders == merge_response_headers(Typed(ReplyType), recorded)

\* The handler succeeds, with a reply that is worth compressing or not.
HandlerOk(big) ==
  /\ pc = "handler" /\ ~Foreign
  /\ outcome' = [kind |-> "ok", gzip |-> Unary /\ big /\ call.gzip]
  /\ head' = IF Unary THEN OkHeaders(big /\ call.gzip) ELSE StreamHeaders
  /\ tail' = IF Unary THEN NoTail ELSE [NoTail EXCEPT !.metadata = trailing]
  /\ pc' = "answered"
  /\ UNCHANGED <<call, requestVars, handlerVars, got, observed>>

\* It fails, with a code other than 0 (see StreamServer!FailureRidesEnd for 0).
HandlerError(details) ==
  /\ pc = "handler" /\ ~Foreign
  /\ outcome' = [kind |-> "err", details |-> details]
  /\ head' = IF Unary THEN ErrorHeaders ELSE StreamHeaders
  /\ tail' = [metadata |-> IF Unary THEN NoHeaders ELSE trailing, entries |-> wire_details(details)]
  /\ pc' = "answered"
  /\ UNCHANGED <<call, requestVars, handlerVars, got, observed>>

\* Another implementation of the protocol answers with an error.
ForeignError(entries) ==
  /\ pc = "handler" /\ Foreign
  /\ outcome' = [kind |-> "foreign", entries |-> entries]
  /\ head' = Typed("json")
  /\ tail' = [NoTail EXCEPT !.entries = entries]
  /\ pc' = "answered"
  /\ UNCHANGED <<call, requestVars, handlerVars, got, observed>>

-----------------------------------------------------------------------------
(* The response.                                                            *)

\* The hyper bridge pushes every value; the reqwest bridge leaves out a value it
\* cannot read and inserts the others, each over the one before.
Readable(vs) == {i \in 1..Len(vs) : vs[i] # Unicode}
Kept(vs) ==
  IF call.bridge = "hyper" \/ Readable(vs) = {} THEN vs ELSE <<vs[Max(Readable(vs))]>>

Received ==
  [n \in {m \in DOMAIN head : call.bridge = "hyper" \/ Readable(head[m]) # {}} |-> Kept(head[n])]

\* (Before HeadersOf: a version that leaves the trailers among the headers.)
AllOf(all)     == all
HeadersOf(all) == [n \in {m \in DOMAIN all : m.prefix = 0} |-> all[n]]

demux_trailers(all) ==
  [headers  |-> HeadersOf(all),
   trailers |-> [n \in {[m EXCEPT !.prefix = @ - 1] : m \in {k \in DOMAIN all : k.prefix > 0}} |->
                   all[[n EXCEPT !.prefix = @ + 1]]]]

\* A Stream has no way to the response's headers, and the END frame's metadata
\* for trailers.
Receive ==
  /\ pc = "answered"
  /\ got' = [kind     |-> "answer",
             headers  |-> IF Unary THEN demux_trailers(Received).headers ELSE NoHeaders,
             trailers |-> IF Unary THEN demux_trailers(Received).trailers ELSE tail.metadata,
             details  |-> parse_wire_details(tail.entries)]
  /\ pc' = IF Unary THEN "observe" ELSE "done"
  /\ next' = 1
  /\ UNCHANGED <<call, req, sent, handlerVars, answerVars, observed>>

\* Each observer gets the request as it was sent.  (Before it: as the caller made it.)
CallersRequest == call.caller
SentRequest    == req

Observe ==
  /\ pc = "observe"
  /\ IF next <= Len(Chain)
       THEN /\ observed' = Append(observed, [by |-> next, req |-> SentRequest])
            /\ next' = next + 1
            /\ UNCHANGED pc
       ELSE /\ pc' = "done"
            /\ UNCHANGED <<next, observed>>
  /\ UNCHANGED <<call, req, sent, handlerVars, answerVars, got>>

Next ==
  \/ Intercept \/ Transmit \/ TransportFails
  \/ \E n \in HeaderNames, v \in Values : set_header(n, v)
  \/ \E n \in TrailerNames, v \in Values : set_trailer(n, v)
  \/ \E big \in BOOLEAN : HandlerOk(big)
  \/ \E d \in call.errors : HandlerError(d)
  \/ \E e \in call.foreign : ForeignError(e)
  \/ Receive \/ Observe

Spec == Init /\ [][Next]_vars
-----------------------------------------------------------------------------
(* Properties.                                                              *)

\* Every variable holds a value the code could hold; HTTP has one spelling of
\* each name on either way.
TypeOK ==
  /\ call \in Calls
  /\ pc \in {"intercept", "handler", "answered", "observe", "done"}
  /\ next \in 1..(Len(Chain) + 1)
  /\ \A h \in {req, sent, seen, recorded, trailing, head, tail.metadata} : IsHeaders(h)
  /\ \A h \in {sent, seen, recorded, head} : \A n \in DOMAIN h : n.spelt = "lower"
  /\ made \in 0..call.sets
  /\ outcome.kind \in {"nothing", "ok", "err", "foreign"}
  /\ got.kind \in {"nothing", "refused", "answer"}
  /\ got.kind = "answer" => IsHeaders(got.headers) /\ IsHeaders(got.trailers)
  /\ \A k \in 1..Len(observed) : IsHeaders(observed[k].req)

Served == pc \in {"handler", "answered", "observe"}
LowerChain ==
  \A i \in 1..Len(Chain) : Chain[i].kind = "metadata" => \A n \in DOMAIN Chain[i].headers : n.spelt = "lower"

\* A header the caller sets itself, however it spells it, is the one a handler
\* reads first, not the one an interceptor adds to every call (or_insert_with,
\* protocol.rs:405), as long as interceptors spell theirs in lower case.  Two are
\* excepted: the deadline, and over hyper the host, where the bridge's own comes
\* first (bridge_hyper.rs:45, 104).
CallerComesFirst ==
  Served /\ LowerChain =>
    \A n \in DOMAIN call.caller :
       Lower(n) # Timeout /\ (Lower(n) = Host => call.bridge # "hyper") =>
         LET own == Of(call.caller, Upper(n)) \o Of(call.caller, Lower(n)) IN
           Head(seen[Lower(n)]) = IF Head(own) = Unicode THEN "" ELSE Head(own)

\* The deadline a handler reads is the one of the innermost interceptor that sets
\* one, over that of `connect` and of the caller (with_timeout inserts,
\* protocol.rs:374), but for a caller who spells the header in capitals; one of 0
\* sets none (protocol.rs:373).
SetsDeadline(ic) == ic.kind = "timeout" /\ ic.ms # NoTimeout

InnermostDeadline ==
  Served /\ LowerChain /\ Upper(Timeout) \notin DOMAIN call.caller =>
    \A i \in 1..Len(Chain) :
       /\ SetsDeadline(Chain[i])
       /\ \A j \in (i + 1)..Len(Chain) : ~SetsDeadline(Chain[j])
       => Head(seen[Timeout]) = Chain[i].ms

\* Observers run once each, in the order of the chain, only behind a response of
\* a unary call, and are given the request that went out, every interceptor's
\* changes included (interceptors.rs:25-35).
ObserversSeeWhatWasSent ==
  /\ observed # <<>> => Unary /\ got.kind = "answer"
  /\ \A k \in 1..Len(observed) :
        /\ observed[k].by = k
        /\ Outgoing(observed[k].req) = sent
  /\ pc = "done" /\ Unary /\ got.kind = "answer" => Len(observed) = Len(Chain)

\* Names that run into each other: a header of the handler that looks like a
\* trailer, and trailers that differ in case.
Collisions ==
  \/ \E n \in DOMAIN recorded : n.prefix > 0
  \/ \E n \in DOMAIN trailing : n.spelt = "upper" /\ Lower(n) \in DOMAIN trailing

Answered == got.kind = "answer" /\ outcome.kind \in {"ok", "err"}

\* What a handler sets arrives under its name, headers as headers and trailers as
\* trailers, and nothing else does: by way of HTTP headers (all values over hyper,
\* the last one over reqwest, bridge_reqwest.rs:232) unless names collide, and in an
\* END frame always, as they were spelt (dispatch.rs:191-194, 229-240).
MetadataArrives ==
  /\ Answered /\ ~Unary => got.trailers = trailing
  /\ Answered /\ Unary /\ ~Collisions =>
       LET own == DOMAIN recorded \ {ContentType, ContentEncoding} IN
         /\ {n \in DOMAIN got.headers : n \notin {ContentType, ContentEncoding}}
              = {n \in own : call.bridge = "hyper" \/ Readable(recorded[n]) # {}}
         /\ \A n \in own \cap DOMAIN got.headers : got.headers[n] = Kept(recorded[n])
         /\ \A n \in DOMAIN trailing :
              Lower(n) \in DOMAIN got.trailers => got.trailers[Lower(n)] = Kept(trailing[n])
         /\ DOMAIN got.trailers
              = {Lower(n) : n \in {m \in DOMAIN trailing :
                                     call.bridge = "hyper" \/ Readable(trailing[m]) # {}}}

\* Whatever content types and encodings a handler sets, the caller of a unary call
\* reads the server's type, of the codec it used itself, and a compressed reply
\* is announced as such first (dispatch.rs:222-231).
ReplySaysWhatItIs ==
  Answered /\ Unary /\ outcome.kind = "ok" =>
    /\ got.headers[ContentType] = <<ReplyType>>
    /\ outcome.gzip => Head(head[ContentEncoding]) = "gzip"

\* What of another implementation's details the decoder should take.
Taken(entries) ==
  Only(entries, {i \in 1..Len(entries) :
    /\ entries[i].type # NoType
    /\ \/ WellFormedText(entries[i].text)
       \/ Contains(entries[i].text, Pad) /\ ~Undecodable(entries[i].text)})

\* The details of an error arrive in order, except those without type or value.
\* Of another implementation's error arrives every detail whose value is
\* well-formed base64, padded or not, as the bytes it stands for, and none that is
\* not; only of texts with a '=' the decoder takes some more (protocol.rs:157-177,
\* 298-335).
DetailsArrive ==
  got.kind = "answer" =>
    CASE outcome.kind = "err" ->
           LET given == outcome.details IN
             /\ got.details = Only(given, {i \in 1..Len(given) : given[i].type # NoType /\ given[i].value # <<>>})
             /\ \A i \in 1..Len(given) : IsBase64Of(tail.entries[i].text, given[i].value)
      [] outcome.kind = "foreign" ->
           LET taken == Taken(outcome.entries) IN
             /\ Len(got.details) = Len(taken)
             /\ \A i \in 1..Len(taken) :
                  /\ got.details[i].type = taken[i].type
                  /\ WellFormedText(taken[i].text) => Carries(Unpadded(taken[i].text), got.details[i].value)
      [] outcome.kind = "ok" -> got.details = <<>>

=============================================================================
