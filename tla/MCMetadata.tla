----------------------------- MODULE MCMetadata -----------------------------
(* Metadata on calls that each exercise one part of it.                     *)
EXTENDS Metadata

X == Named("x")

\* A map with one value, or several, under each of a few names.
One(n, v)    == Put(NoHeaders, n, <<v>>)
Two(n, v, w) == Put(NoHeaders, n, <<v, w>>)

Plain(shape, bridge) ==
  [shape |-> shape, bridge |-> bridge, caller |-> NoHeaders, token |-> FALSE, timeout |-> NoTimeout,
   extra |-> <<>>, gzip |-> FALSE, sets |-> 0, errors |-> {<<>>}, foreign |-> {}]

\* What callers put into the headers themselves.
CallerHeaders ==
  { NoHeaders, Two(X, "a", Unicode), One(X, Unicode),
    One(Authorization, "own"), One(Upper(Authorization), "own"),
    Put(One(Authorization, "own"), Upper(Authorization), <<"other", "more">>),
    One(Timeout, "50"), One(Upper(Timeout), "50"), One(Host, "own"), One(Upper(Host), "own"),
    One(ContentType, "json"), One(Upper(ContentType), "json") }

\* The interceptors callers add to the standard ones.
Extras ==
  { <<>>, <<TimeoutInterceptor("200")>>, <<RefusingInterceptor>>,
    <<TimeoutInterceptor(NoTimeout)>>,
    <<TimeoutInterceptor("600"), TimeoutInterceptor(NoTimeout)>>,
    <<MetadataInterceptor(One(X, "fixed")), TimeoutInterceptor("300")>>,
    <<MetadataInterceptor(One(Upper(Authorization), "theirs"))>>,
    <<MetadataInterceptor(One(Timeout, "400")), RefusingInterceptor, TimeoutInterceptor("500")>> }

RequestCalls ==
  { [Plain(shape, bridge) EXCEPT !.caller = h, !.token = t, !.timeout = ms, !.extra = e, !.sets = 1] :
      shape \in {"unary", "stream"}, bridge \in {"hyper", "reqwest"}, h \in CallerHeaders,
      t \in BOOLEAN, ms \in {NoTimeout, "100"}, e \in Extras }

ResponseCalls ==
  { [Plain(shape, bridge) EXCEPT !.gzip = TRUE, !.sets = 3, !.token = TRUE] :
      shape \in {"unary", "stream"}, bridge \in {"hyper", "reqwest"} }

MCHeaderNames  == { Upper(X), [X EXCEPT !.prefix = 1], ContentType, ContentEncoding }
MCTrailerNames == { X, Upper(X), [X EXCEPT !.prefix = 1] }
MCValues == {"a", "b", Unicode}

Bytes == {0, 1, 62, 63, 170, 255}

\* Details of one value: all short ones, and some longer than the decoder's buffer;
\* and several details, some of which have no type or no value.
Details ==
  { <<>> }
  \cup { <<Detail("t", v)>> : v \in BoundedSeq(Bytes, 3) }
  \cup { <<Detail("t", v \o <<255, 0, 1>> \o v)>> : v \in BoundedSeq({0, 255}, 2) }
  \cup { <<Detail(t, <<1>>), Detail("u", v), Detail("w", <<2, 255>>)>> : t \in {NoType, "t"}, v \in {<<>>, <<3>>} }

Chars == {0, 1, 32, 48, 62, 63, Alien}

Texts ==
  { text \o pad : text \in BoundedSeq(Chars, 3) \cup {<<1, 2, 3, 4, 5>>, <<1, 2, 3, 4, 48, 0>>},
                 pad \in {<<>>, <<Pad>>, <<Pad, Pad>>} }

Entries ==
  { <<Entry("t", text), Entry(u, <<0, 16>>), Entry("w", <<16, 16, 32, Pad>>)>> :
      text \in Texts, u \in {NoType, "u"} }
DetailCalls ==
  { [Plain(shape, "reqwest") EXCEPT !.errors = Details] : shape \in {"unary", "stream"} }
ForeignCalls == { [Plain("unary", "hyper") EXCEPT !.foreign = Entries] }

MCCalls == RequestCalls \cup ResponseCalls \cup DetailCalls \cup ForeignCalls
=============================================================================
