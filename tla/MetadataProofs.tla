--------------------------- MODULE MetadataProofs ---------------------------
(***************************************************************************)
(* Proofs about Metadata for every chain of interceptors, every header a    *)
(* caller sends and everything a handler sets.                             *)
(***************************************************************************)
EXTENDS Metadata, EncodingProofs

-----------------------------------------------------------------------------
(* Names and values.                                                        *)

ValueList == Seq(Text) \ {<<>>}

\* A trailer's name as a header, and the name behind a header's "trailer-".
Prefixed(m)   == [Lower(m) EXCEPT !.prefix = @ + 1]
Unprefixed(n) == [n EXCEPT !.prefix = @ - 1]

\* A name has one spelling in lower case and one in capitals, and is one of them.
LEMMA Spellings ==
  ASSUME NEW n \in Name
  PROVE  /\ Lower(n) \in Name /\ Upper(n) \in Name
         /\ Lower(n).spelt = "lower" /\ Upper(n).spelt = "upper"
         /\ Lower(n).prefix = n.prefix /\ Upper(n).prefix = n.prefix
         /\ Lower(Lower(n)) = Lower(n) /\ Lower(Upper(n)) = Lower(n)
         /\ Upper(Lower(n)) = Upper(n) /\ Upper(Upper(n)) = Upper(n)
         /\ n.spelt = "lower" \/ n.spelt = "upper"
         /\ n.spelt = "lower" => Lower(n) = n
         /\ n.spelt = "upper" => Upper(n) = n
<1>1. /\ Lower(n) \in Name /\ Upper(n) \in Name
      /\ Lower(n).spelt = "lower" /\ Upper(n).spelt = "upper"
      /\ Lower(n).prefix = n.prefix /\ Upper(n).prefix = n.prefix
  BY DEF Lower, Upper, Name
<1>2. Lower(Lower(n)) = Lower(n) /\ Lower(Upper(n)) = Lower(n)
  BY DEF Lower, Upper, Name
<1>3. Upper(Lower(n)) = Upper(n) /\ Upper(Upper(n)) = Upper(n)
  BY DEF Lower, Upper, Name
<1>4. n.spelt = "lower" \/ n.spelt = "upper"
  BY DEF Name
<1>5. n.spelt = "lower" => Lower(n) = n
  BY DEF Lower, Name
<1>6. n.spelt = "upper" => Upper(n) = n
  BY DEF Upper, Name
<1> QED
  BY <1>1, <1>2, <1>3, <1>4, <1>5, <1>6

\* Prefixing and its reverse (mux_trailers, demux_trailers).
LEMMA Prefixing ==
  ASSUME NEW n \in Name
  PROVE  /\ Prefixed(n) \in Name /\ Prefixed(n).spelt = "lower"
         /\ n.prefix \in Nat /\ Prefixed(n).prefix = n.prefix + 1
         /\ Unprefixed(Prefixed(n)) = Lower(n)
         /\ Prefixed(Lower(n)) = Prefixed(n)
         /\ n.prefix > 0 /\ n.spelt = "lower" =>
              /\ Unprefixed(n) \in Name /\ Unprefixed(n).spelt = "lower"
              /\ Prefixed(Unprefixed(n)) = n
<1>1. PICK p \in Nat, w \in Text, u \in {"lower", "upper"} :
        n = [prefix |-> p, word |-> w, spelt |-> u]
  BY DEF Name
<1>2. /\ Lower(n) = [prefix |-> p, word |-> w, spelt |-> "lower"]
      /\ Unprefixed(n) = [prefix |-> p - 1, word |-> w, spelt |-> u]
  BY <1>1 DEF Lower, Unprefixed
<1>3. Prefixed(n) = [prefix |-> p + 1, word |-> w, spelt |-> "lower"]
  BY <1>2 DEF Prefixed
<1>4. Unprefixed(Prefixed(n)) = [prefix |-> p, word |-> w, spelt |-> "lower"]
  BY <1>3 DEF Unprefixed
<1>5. Prefixed(Lower(n)) = Prefixed(n)
  BY Spellings DEF Prefixed
<1>6. ASSUME n.prefix > 0, n.spelt = "lower"
      PROVE  /\ Unprefixed(n) \in Name /\ Unprefixed(n).spelt = "lower"
             /\ Prefixed(Unprefixed(n)) = n
  <2>1. /\ p - 1 \in Nat /\ u = "lower" /\ (p - 1) + 1 = p
        /\ Unprefixed(n) = [prefix |-> p - 1, word |-> w, spelt |-> "lower"]
    BY <1>1, <1>2, <1>6
  <2>2. Unprefixed(n) \in Name /\ Unprefixed(n).spelt = "lower"
    BY <2>1 DEF Name
  <2>3. Lower(Unprefixed(n)) = Unprefixed(n)
    BY <2>2, Spellings
  <2>4. Prefixed(Unprefixed(n)) = n
    BY <1>1, <2>1, <2>3 DEF Prefixed
  <2> QED
    BY <2>2, <2>4
<1>7. Prefixed(n) \in Name /\ Prefixed(n).spelt = "lower"
  BY <1>3 DEF Name
<1>8. n.prefix \in Nat /\ Prefixed(n).prefix = n.prefix + 1
  BY <1>1, <1>3
<1> QED
  BY <1>2, <1>4, <1>5, <1>6, <1>7, <1>8

\* The names the code itself uses.
LEMMA OwnNames ==
  /\ \A n \in {ContentType, ContentEncoding, Timeout, Authorization, Host} :
        n \in Name /\ n.spelt = "lower" /\ n.prefix = 0 /\ Lower(n) = n
  /\ ContentType # ContentEncoding /\ ContentType # Timeout
  /\ ContentType # Host /\ Timeout # Host
<1>1. \A w \in Text : Named(w) \in Name /\ Named(w).spelt = "lower" /\ Named(w).prefix = 0
                      /\ Named(w).word = w
  BY DEF Named, Name
<1>2. \A w \in Text : Lower(Named(w)) = Named(w)
  BY <1>1, Spellings
<1>3. {"content-type", "content-encoding", "connect-timeout-ms", "authorization", "host"} \subseteq Text
  BY MetadataAssumption DEF OwnTexts
<1> QED
  BY <1>1, <1>2, <1>3 DEF ContentType, ContentEncoding, Timeout, Authorization, Host

\* Two lists of values, one behind the other.
LEMMA Behind ==
  ASSUME NEW s \in Seq(Text), NEW t \in Seq(Text)
  PROVE  /\ s \o t \in Seq(Text)
         /\ s # <<>> => s \o t # <<>> /\ Head(s \o t) = Head(s)
         /\ t # <<>> => s \o t # <<>>
         /\ s = <<>> => s \o t = t
         /\ t = <<>> => s \o t = s
<1>1. /\ s \o t \in Seq(Text) /\ Len(s \o t) = Len(s) + Len(t)
      /\ Len(s) \in Nat /\ Len(t) \in Nat
  OBVIOUS
<1>2. s # <<>> => Len(s) > 0 /\ (s \o t)[1] = s[1]
  BY <1>1
<1>3. t # <<>> => Len(t) > 0
  BY <1>1
<1>4. s = <<>> => s \o t = t
  OBVIOUS
<1>5. t = <<>> => s \o t = s
  OBVIOUS
<1>6. \A q \in Seq(Text) : Len(q) > 0 => q # <<>> /\ Head(q) = q[1]
  OBVIOUS
<1> QED
  BY <1>1, <1>2, <1>3, <1>4, <1>5, <1>6

\* One value makes a list.
LEMMA OneValue ==
  ASSUME NEW v \in Text
  PROVE  <<v>> \in ValueList /\ Head(<<v>>) = v
BY DEF ValueList

\* And so does one more.
LEMMA OneMore ==
  ASSUME NEW vs \in Seq(Text), NEW v \in Text
  PROVE  Append(vs, v) \in ValueList
<1>1. Append(vs, v) \in Seq(Text) /\ Len(Append(vs, v)) = Len(vs) + 1 /\ Len(vs) \in Nat
  OBVIOUS
<1> QED
  BY <1>1 DEF ValueList

\* An element of a sequence.
LEMMA ElementOf ==
  ASSUME NEW S, NEW s \in Seq(S), NEW k \in 1..Len(s)
  PROVE  s[k] \in S
OBVIOUS

-----------------------------------------------------------------------------
(* Header maps.                                                             *)

\* The names of a map that went over HTTP.
AllLower(h) == \A n \in DOMAIN h : n.spelt = "lower"

\* The values of a name: none exactly if the name is not there.
LEMMA OfIs ==
  ASSUME NEW h, IsHeaders(h), NEW n
  PROVE  /\ Of(h, n) \in Seq(Text)
         /\ n \in DOMAIN h => Of(h, n) = h[n] /\ Of(h, n) # <<>>
         /\ n \notin DOMAIN h => Of(h, n) = <<>>
BY DEF IsHeaders, Of

\* An empty map.
LEMMA NoHeadersIs == IsHeaders(NoHeaders) /\ DOMAIN NoHeaders = {}
BY DEF NoHeaders, IsHeaders

\* BTreeMap::insert.
LEMMA PutIs ==
  ASSUME NEW h, IsHeaders(h), NEW n \in Name, NEW vs \in ValueList
  PROVE  /\ IsHeaders(Put(h, n, vs))
         /\ DOMAIN Put(h, n, vs) = DOMAIN h \cup {n}
         /\ n \in DOMAIN Put(h, n, vs) /\ Put(h, n, vs)[n] = vs
         /\ \A m \in DOMAIN h : m # n => Put(h, n, vs)[m] = h[m]
         /\ AllLower(h) /\ n.spelt = "lower" => AllLower(Put(h, n, vs))
BY DEF IsHeaders, Put, ValueList, AllLower

\* What or_insert_with does for every name of another map.
LEMMA PutMissingIs ==
  ASSUME NEW h, IsHeaders(h), NEW more, IsHeaders(more)
  PROVE  /\ IsHeaders(PutMissing(h, more))
         /\ DOMAIN PutMissing(h, more) = DOMAIN h \cup DOMAIN more
         /\ \A n \in DOMAIN h : PutMissing(h, more)[n] = h[n]
         /\ \A n \in DOMAIN more : n \notin DOMAIN h => PutMissing(h, more)[n] = more[n]
BY DEF IsHeaders, PutMissing

\* merge_response_headers.
LEMMA AppendedIs ==
  ASSUME NEW h, IsHeaders(h), NEW more, IsHeaders(more)
  PROVE  /\ IsHeaders(Appended(h, more))
         /\ DOMAIN Appended(h, more) = DOMAIN h \cup DOMAIN more
         /\ \A n \in DOMAIN h \cup DOMAIN more : Appended(h, more)[n] = Of(h, n) \o Of(more, n)
         /\ AllLower(h) /\ AllLower(more) => AllLower(Appended(h, more))
<1>1. DOMAIN Appended(h, more) = DOMAIN h \cup DOMAIN more
  BY DEF Appended
<1>2. \A n \in DOMAIN h \cup DOMAIN more : Appended(h, more)[n] = Of(h, n) \o Of(more, n)
  BY DEF Appended
<1>3. ASSUME NEW n \in DOMAIN h \cup DOMAIN more
      PROVE  n \in Name /\ Of(h, n) \o Of(more, n) \in Seq(Text) \ {<<>>}
  <2>1. n \in Name
    BY DEF IsHeaders
  <2> QED
    BY <2>1, OfIs, Behind
<1>4. AllLower(h) /\ AllLower(more) => AllLower(Appended(h, more))
  BY <1>1 DEF AllLower
<1> QED
  BY <1>1, <1>2, <1>3, <1>4 DEF IsHeaders

\* http's header map.
LEMMA HeaderMapIs ==
  ASSUME NEW h, IsHeaders(h)
  PROVE  /\ IsHeaders(HeaderMap(h))
         /\ DOMAIN HeaderMap(h) = {Lower(m) : m \in DOMAIN h}
         /\ \A n \in DOMAIN HeaderMap(h) :
               n.spelt = "lower" /\ HeaderMap(h)[n] = Of(h, Upper(n)) \o Of(h, n)
<1> DEFINE H == HeaderMap(h)
<1>1. DOMAIN H = {Lower(m) : m \in DOMAIN h}
  BY DEF HeaderMap
<1>2. \A n \in DOMAIN H : H[n] = Of(h, Upper(n)) \o Of(h, n)
  BY DEF HeaderMap
<1> HIDE DEF H
<1>3. ASSUME NEW n \in DOMAIN H
      PROVE  n \in Name /\ n.spelt = "lower" /\ H[n] \in Seq(Text) \ {<<>>}
  <2>1. PICK m \in DOMAIN h : n = Lower(m)
    BY <1>1
  <2>2. m \in Name
    BY DEF IsHeaders
  <2>3. n \in Name /\ n.spelt = "lower" /\ (m = n \/ m = Upper(n))
    BY <2>1, <2>2, Spellings
  <2>4. Of(h, Upper(n)) \in Seq(Text) /\ Of(h, n) \in Seq(Text)
    BY OfIs
  <2>5. Of(h, Upper(n)) # <<>> \/ Of(h, n) # <<>>
    BY <2>1, <2>3, OfIs
  <2>6. Of(h, Upper(n)) \o Of(h, n) \in Seq(Text) \ {<<>>}
    BY <2>4, <2>5, Behind
  <2> QED
    BY <1>2, <2>3, <2>6
<1>4. IsHeaders(H)
  BY <1>3 DEF IsHeaders
<1> QED
  BY <1>1, <1>2, <1>3, <1>4 DEF H

\* The last readable value of a list.
LEMMA KeptIs ==
  ASSUME NEW vs \in ValueList
  PROVE  /\ Kept(vs) \in ValueList
         /\ call.bridge = "hyper" => Kept(vs) = vs
         /\ \A v \in Text : v # Unicode /\ vs = <<v>> => Kept(vs) = vs /\ Readable(vs) # {}
<1> DEFINE R == Readable(vs)
<1>1. Len(vs) \in Nat /\ vs \in Seq(Text)
  BY DEF ValueList
<1>2. R \in SUBSET (1..Len(vs))
  BY DEF Readable
<1>3. ASSUME R # {} PROVE Max(R) \in R
  <2>1. PICK n \in Nat : n = Len(vs)
    BY <1>1
  <2>2. R \in SUBSET (0..n)
    BY <1>2, <2>1
  <2>3. \E x \in R : \A y \in R : x >= y
    BY <1>3, <2>2, GreatestNumber
  <2> QED
    BY <2>3 DEF Max
<1>4. ASSUME R # {} PROVE vs[Max(R)] \in Text
  BY <1>1, <1>2, <1>3, <1>4
<1>5. Kept(vs) \in ValueList
  BY <1>4, OneValue DEF Kept
<1>6. ASSUME NEW v \in Text, v # Unicode, vs = <<v>>
      PROVE  Kept(vs) = vs /\ R # {}
  <2>1. Len(vs) = 1 /\ vs[1] = v
    BY <1>6
  <2>2. R = {1}
    BY <1>6, <2>1 DEF Readable
  <2>3. Max(R) = 1
    BY <1>3, <2>2
  <2> QED
    BY <1>6, <2>1, <2>2, <2>3 DEF Kept
<1> QED
  BY <1>5, <1>6 DEF Kept

\* Of trailers that differ in case, the one in lower case is left.
Survivor(t, m) == IF Lower(m) \in DOMAIN t THEN Lower(m) ELSE m

\* mux_trailers: the headers keep their names and values, but for those that a
\* trailer shadows, and every trailer is there under its prefixed name.
LEMMA MuxIs ==
  ASSUME NEW h, IsHeaders(h), AllLower(h), NEW t, IsHeaders(t)
  PROVE  /\ IsHeaders(mux_trailers(h, t))
         /\ AllLower(mux_trailers(h, t))
         /\ \A n : n \in DOMAIN mux_trailers(h, t) <=> n \in DOMAIN h \/ \E m \in DOMAIN t : n = Prefixed(m)
         /\ \A n \in DOMAIN h : n.prefix = 0 => mux_trailers(h, t)[n] = h[n]
         /\ \A m \in DOMAIN t :
               mux_trailers(h, t)[Prefixed(m)] = t[Survivor(t, m)]
<1> DEFINE M == mux_trailers(h, t)
           V(n) == IF n.prefix > 0 /\ Unprefixed(n) \in DOMAIN t THEN t[Unprefixed(n)]
                   ELSE IF n.prefix > 0 /\ Upper(Unprefixed(n)) \in DOMAIN t
                          THEN t[Upper(Unprefixed(n))]
                   ELSE h[n]
<1>1. M = [n \in DOMAIN h \cup {Prefixed(m) : m \in DOMAIN t} |-> V(n)]
  BY Zenon DEF mux_trailers, Prefixed, Unprefixed
<1> HIDE DEF V, M
<1>2. /\ DOMAIN M = DOMAIN h \cup {Prefixed(m) : m \in DOMAIN t}
      /\ \A n \in DOMAIN M : M[n] = V(n)
  BY <1>1
<1>3. ASSUME NEW m \in DOMAIN t
      PROVE  /\ Prefixed(m) \in DOMAIN M /\ Prefixed(m) \in Name /\ Prefixed(m).spelt = "lower"
             /\ V(Prefixed(m)) = t[Survivor(t, m)]
             /\ V(Prefixed(m)) \in ValueList
  <2>1. m \in Name
    BY DEF IsHeaders
  <2>2. /\ Prefixed(m) \in Name /\ Prefixed(m).spelt = "lower" /\ Prefixed(m).prefix > 0
        /\ Unprefixed(Prefixed(m)) = Lower(m)
    BY <2>1, Prefixing
  <2>3. Lower(m) \notin DOMAIN t => Upper(Lower(m)) = m
    BY <2>1, Spellings
  <2>4. V(Prefixed(m)) = t[Survivor(t, m)]
    BY <2>2, <2>3 DEF V, Survivor
  <2>5. t[Survivor(t, m)] \in ValueList
    BY DEF IsHeaders, ValueList, Survivor
  <2> QED
    BY <1>2, <2>2, <2>4, <2>5
<1>4. ASSUME NEW n \in DOMAIN h
      PROVE  /\ n \in Name /\ n.spelt = "lower"
             /\ n.prefix = 0 => V(n) = h[n]
             /\ V(n) \in ValueList
  <2>1. n \in Name /\ h[n] \in ValueList
    BY DEF IsHeaders, ValueList
  <2>2. n.prefix \in Nat
    BY <2>1, Prefixing
  <2>3. n.prefix = 0 => V(n) = h[n]
    BY DEF V
  <2>4. V(n) \in ValueList
    BY <2>1 DEF V, IsHeaders, ValueList
  <2> QED
    BY <2>1, <2>3, <2>4 DEF AllLower
<1>5. \A n \in DOMAIN M : n \in Name /\ n.spelt = "lower" /\ M[n] \in ValueList
  BY <1>2, <1>3, <1>4
<1>6. IsHeaders(M) /\ AllLower(M)
  BY <1>5 DEF IsHeaders, AllLower, ValueList
<1> QED
  BY <1>2, <1>3, <1>4, <1>6 DEF M

\* demux_trailers: names without the prefix are headers, the others trailers under
\* the name behind it.
LEMMA DemuxIs ==
  ASSUME NEW all, IsHeaders(all), AllLower(all)
  PROVE  /\ IsHeaders(HeadersOf(all))
         /\ DOMAIN HeadersOf(all) = {m \in DOMAIN all : m.prefix = 0}
         /\ \A n \in DOMAIN HeadersOf(all) : HeadersOf(all)[n] = all[n]
         /\ demux_trailers(all).headers = HeadersOf(all)
         /\ IsHeaders(demux_trailers(all).trailers)
         /\ DOMAIN demux_trailers(all).trailers
              = {Unprefixed(k) : k \in {m \in DOMAIN all : m.prefix > 0}}
         /\ \A n \in DOMAIN demux_trailers(all).trailers :
               demux_trailers(all).trailers[n] = all[Prefixed(n)]
<1> DEFINE T == demux_trailers(all).trailers
           D == {Unprefixed(k) : k \in {m \in DOMAIN all : m.prefix > 0}}
<1>1. /\ IsHeaders(HeadersOf(all))
      /\ DOMAIN HeadersOf(all) = {m \in DOMAIN all : m.prefix = 0}
      /\ \A n \in DOMAIN HeadersOf(all) : HeadersOf(all)[n] = all[n]
  BY DEF HeadersOf, IsHeaders
<1>2. T = [n \in D |-> all[[n EXCEPT !.prefix = @ + 1]]]
  BY DEF demux_trailers, Unprefixed
<1>3. demux_trailers(all).headers = HeadersOf(all)
  BY DEF demux_trailers
<1> HIDE DEF T
<1>4. ASSUME NEW n \in D
      PROVE  /\ n \in Name /\ T[n] = all[Prefixed(n)] /\ T[n] \in ValueList
  <2>1. PICK k \in DOMAIN all : k.prefix > 0 /\ n = Unprefixed(k)
    OBVIOUS
  <2>2. k \in Name /\ k.spelt = "lower" /\ all[k] \in ValueList
    BY DEF IsHeaders, AllLower, ValueList
  <2>3. n \in Name /\ n.spelt = "lower" /\ Prefixed(n) = k
    BY <2>1, <2>2, Prefixing
  <2>4. Lower(n) = n
    BY <2>3, Spellings
  <2>5. [n EXCEPT !.prefix = @ + 1] = k
    BY <2>3, <2>4 DEF Prefixed
  <2>6. T[n] = all[k]
    BY <1>2, <2>5
  <2> QED
    BY <2>2, <2>3, <2>6
<1>5. DOMAIN T = D
  BY <1>2
<1>6. IsHeaders(T)
  BY <1>4, <1>5 DEF IsHeaders, ValueList
<1> QED
  BY <1>1, <1>3, <1>4, <1>5, <1>6 DEF T

\* What a bridge makes of the headers of a response.
LEMMA ReceivedIs ==
  ASSUME IsHeaders(head), AllLower(head)
  PROVE  /\ IsHeaders(Received) /\ AllLower(Received)
         /\ DOMAIN Received
              = {m \in DOMAIN head : call.bridge = "hyper" \/ Readable(head[m]) # {}}
         /\ \A n \in DOMAIN Received : Received[n] = Kept(head[n])
<1>1. /\ DOMAIN Received
           = {m \in DOMAIN head : call.bridge = "hyper" \/ Readable(head[m]) # {}}
      /\ \A n \in DOMAIN Received : Received[n] = Kept(head[n])
  BY DEF Received
<1>2. \A n \in DOMAIN head : n \in Name /\ n.spelt = "lower" /\ head[n] \in ValueList
  BY DEF IsHeaders, AllLower, ValueList
<1>3. \A n \in DOMAIN Received : n \in Name /\ n.spelt = "lower" /\ Received[n] \in ValueList
  BY <1>1, <1>2, KeptIs
<1> QED
  BY <1>1, <1>3 DEF IsHeaders, AllLower, ValueList

-----------------------------------------------------------------------------
(* The request.                                                             *)

\* The interceptors of a call: those `connect` makes, and the caller's own.
LEMMA ChainIs ==
  ASSUME call \in Calls
  PROVE  Len(Chain) \in Nat /\ \A i \in 1..Len(Chain) : IsInterceptor(Chain[i])
<1> DEFINE m == MetadataInterceptor(Put(NoHeaders, Authorization, <<"token">>))
           t == TimeoutInterceptor(call.timeout)
           S == ToSet(call.extra) \cup {m, t}
           A == IF call.token THEN <<m>> ELSE <<>>
           B == IF call.timeout # NoTimeout THEN <<t>> ELSE <<>>
<1>1. IsInterceptor(m)
  <2>1. "token" \in Text
    BY MetadataAssumption DEF OwnTexts
  <2>2. Authorization \in Name
    BY OwnNames
  <2>3. IsHeaders(Put(NoHeaders, Authorization, <<"token">>))
    BY <2>1, <2>2, OneValue, NoHeadersIs, PutIs
  <2> QED
    BY <2>3 DEF IsInterceptor, MetadataInterceptor
<1>2. IsInterceptor(t)
  BY MetadataAssumption DEF IsInterceptor, TimeoutInterceptor
<1>3. \A ic \in S : IsInterceptor(ic)
  BY <1>1, <1>2, MetadataAssumption
<1>4. Chain = A \o B \o call.extra
  BY DEF Chain, with_standard_interceptors
<1>5. call.extra \in Seq(S)
  <2>1. call.extra \in Seq(ToSet(call.extra))
    BY MetadataAssumption
  <2> DEFINE X == ToSet(call.extra)
  <2>2. X \subseteq S
    OBVIOUS
  <2> HIDE DEF X, S
  <2> QED
    BY <2>1, <2>2 DEF X
<1>6. m \in S /\ t \in S
  OBVIOUS
<1> HIDE DEF m, t, S
<1>7. A \in Seq(S) /\ B \in Seq(S)
  BY <1>6
<1> HIDE DEF A, B
<1>8. Chain \in Seq(S)
  BY <1>4, <1>5, <1>7
<1> QED
  BY <1>3, <1>8

\* The call does not change, and so nothing does that depends on it alone.
LEMMA CallIsFixed ==
  ASSUME call' = call
  PROVE  Chain' = Chain /\ (Unary' <=> Unary) /\ (LowerChain' <=> LowerChain)
BY DEF Chain, Unary, LowerChain, with_standard_interceptors

\* Every step leaves the call alone.
LEMMA StepKeepsCall ==
  ASSUME [Next]_vars
  PROVE  call' = call
BY DEF Next, Intercept, Transmit, TransportFails, set_header, set_trailer, HandlerOk, HandlerError,
       ForeignError, Receive, Observe, vars

\* What the bridge adds: a content type, unless there is one in any spelling.
LEMMA WithContentTypeIs ==
  ASSUME NEW h, IsHeaders(h)
  PROVE  /\ IsHeaders(WithContentType(h))
         /\ \E n \in DOMAIN WithContentType(h) : Lower(n) = ContentType
         /\ \A n \in DOMAIN h : n \in DOMAIN WithContentType(h) /\ WithContentType(h)[n] = h[n]
         /\ \A n \in DOMAIN WithContentType(h) :
               n \notin DOMAIN h => n = ContentType /\ \A m \in DOMAIN h : Lower(m) # ContentType
<1>1. CASE \E n \in DOMAIN h : Lower(n) = ContentType
  <2>1. WithContentType(h) = h
    BY <1>1, Zenon DEF WithContentType
  <2> QED
    BY <1>1, <2>1
<1>2. CASE ~\E n \in DOMAIN h : Lower(n) = ContentType
  <2> DEFINE vs == <<IF Unary THEN "proto" ELSE "connect+proto">>
  <2>1. WithContentType(h) = Put(h, ContentType, vs)
    BY <1>2, Zenon DEF WithContentType
  <2>2. vs \in ValueList
    <3>1. "proto" \in Text /\ "connect+proto" \in Text
      BY MetadataAssumption DEF OwnTexts
    <3> QED
      BY <3>1, OneValue
  <2> HIDE DEF vs
  <2>3. /\ ContentType \in Name /\ Lower(ContentType) = ContentType
    BY OwnNames
  <2>4. ContentType \notin DOMAIN h
    BY <1>2, <2>3
  <2> DEFINE W == Put(h, ContentType, vs)
  <2>5. /\ IsHeaders(W)
        /\ DOMAIN W = DOMAIN h \cup {ContentType}
        /\ \A m \in DOMAIN h : m # ContentType => W[m] = h[m]
    BY <2>2, <2>3, PutIs
  <2> HIDE DEF W
  <2>6. \A m \in DOMAIN h : Lower(m) # ContentType
    BY <1>2
  <2> QED
    BY <2>1, <2>3, <2>4, <2>5, <2>6 DEF W
<1> QED
  BY <1>1, <1>2

\* What goes out: over HTTP every name has one spelling; every header of the request
\* is there with the values it has, in capitals first, but for the host over hyper.
LEMMA OutgoingIs ==
  ASSUME NEW h, IsHeaders(h)
  PROVE  /\ IsHeaders(Outgoing(h)) /\ AllLower(Outgoing(h))
         /\ DOMAIN HeaderMap(WithContentType(h)) \subseteq DOMAIN Outgoing(h)
         /\ \A n \in DOMAIN HeaderMap(WithContentType(h)) :
               n # Host \/ call.bridge # "hyper" => Outgoing(h)[n] = HeaderMap(WithContentType(h))[n]
<1> DEFINE m == HeaderMap(WithContentType(h))
           vs == <<"authority">> \o Of(m, Host)
<1>1. IsHeaders(m) /\ AllLower(m)
  BY WithContentTypeIs, HeaderMapIs DEF AllLower
<1>2. CASE call.bridge = "hyper"
  <2>1. Outgoing(h) = Put(m, Host, vs)
    BY <1>2, Zenon DEF Outgoing
  <2>2. Host \in Name /\ Host.spelt = "lower"
    BY OwnNames
  <2>3. vs \in ValueList
    <3>1. "authority" \in Text
      BY MetadataAssumption DEF OwnTexts
    <3>2. <<"authority">> \in ValueList
      BY <3>1, OneValue
    <3>3. Of(m, Host) \in Seq(Text)
      BY <1>1, OfIs
    <3> HIDE DEF m
    <3> QED
      BY <3>2, <3>3, Behind DEF ValueList
  <2> HIDE DEF m, vs
  <2>4. /\ IsHeaders(Put(m, Host, vs)) /\ AllLower(Put(m, Host, vs))
        /\ DOMAIN Put(m, Host, vs) = DOMAIN m \cup {Host}
        /\ \A n \in DOMAIN m : n # Host => Put(m, Host, vs)[n] = m[n]
    BY <1>1, <2>2, <2>3, PutIs
  <2> QED
    BY <1>2, <2>1, <2>4 DEF m
<1>3. CASE call.bridge # "hyper"
  <2>1. Outgoing(h) = m
    BY <1>3, Zenon DEF Outgoing
  <2> QED
    BY <1>1, <2>1
<1> QED
  BY <1>2, <1>3

\* What the server reads of a map: every value as text.
Legible(h) ==
  [n \in DOMAIN h |-> [i \in 1..Len(h[n]) |-> IF h[n][i] = Unicode THEN "" ELSE h[n][i]]]

\* It reads as many values as there are, none of them unreadable.
LEMMA LegibleIs ==
  ASSUME NEW h, IsHeaders(h)
  PROVE  /\ IsHeaders(Legible(h))
         /\ DOMAIN Legible(h) = DOMAIN h
         /\ \A n \in DOMAIN h :
               /\ Head(Legible(h)[n]) = IF Head(h[n]) = Unicode THEN "" ELSE Head(h[n])
               /\ Head(Legible(h)[n]) \in Text \ {Unicode}
<1> DEFINE L == Legible(h)
<1>1. DOMAIN L = DOMAIN h
  BY DEF Legible
<1>2. "" \in Text /\ "" # Unicode
  BY MetadataAssumption DEF OwnTexts, Unicode
<1>3. ASSUME NEW n \in DOMAIN h
      PROVE  /\ L[n] \in Seq(Text) \ {<<>>}
             /\ Head(L[n]) = IF Head(h[n]) = Unicode THEN "" ELSE Head(h[n])
             /\ Head(L[n]) \in Text \ {Unicode}
  <2> DEFINE vs == h[n]
             read(v) == IF v = Unicode THEN "" ELSE v
             ls == [i \in 1..Len(vs) |-> read(vs[i])]
  <2>1. L[n] = ls
    BY DEF Legible
  <2>2. vs \in Seq(Text) /\ vs # <<>>
    BY DEF IsHeaders
  <2>3. /\ \A v \in Text : read(v) \in Text \ {Unicode}
        /\ read(Head(vs)) = IF Head(vs) = Unicode THEN "" ELSE Head(vs)
    BY <1>2
  <2> HIDE DEF vs, L, read
  <2>4. Len(vs) \in Nat /\ 1 \in 1..Len(vs) /\ Head(vs) = vs[1] /\ \A i \in 1..Len(vs) : vs[i] \in Text
    BY <2>2
  <2>5. ls \in Seq(Text)
    <3>1. \A i \in 1..Len(vs) : read(vs[i]) \in Text
      BY <2>3, <2>4
    <3> DEFINE f(i) == read(vs[i])
    <3> HIDE DEF f
    <3>2. \A i \in 1..Len(vs) : f(i) \in Text
      BY <3>1 DEF f
    <3>3. [i \in 1..Len(vs) |-> f(i)] \in Seq(Text)
      BY <2>4, <3>2
    <3> QED
      BY <3>3 DEF f
  <2>6. Len(ls) = Len(vs) /\ ls[1] = read(vs[1])
    <3>1. ls[1] = read(vs[1])
      BY <2>4
    <3>2. Len(ls) = Len(vs)
      BY <2>2, <2>4, <2>5
    <3> QED
      BY <3>1, <3>2
  <2> HIDE DEF ls
  <2>7. ls # <<>> /\ Head(ls) = ls[1]
    BY <2>4, <2>5, <2>6
  <2> QED
    BY <2>1, <2>3, <2>4, <2>5, <2>6, <2>7 DEF vs
<1> QED
  BY <1>1, <1>3 DEF IsHeaders

-----------------------------------------------------------------------------
(* Types.                                                                   *)

\* Once the request is on its way, the wire has what the chain made of it, and the
\* handler reads the wire; a caller that has an answer had the request sent.
Told == Served \/ got.kind = "answer"
Transmitted == Told => sent = Outgoing(req) /\ seen = Legible(sent)

\* The observers are given their turns behind the answer of a unary call.
Progress ==
  /\ pc \in {"intercept", "handler", "answered"} => observed = <<>> /\ got = Nothing
  /\ pc \in {"intercept", "handler"} => outcome = Nothing
  /\ pc \in {"handler", "answered"} => next = Len(Chain) + 1
  /\ pc = "observe" => Unary /\ got.kind = "answer" /\ Len(observed) = next - 1
  /\ observed \in Seq([by : Nat, req : {req}])
  /\ \A k \in 1..Len(observed) : observed[k].by = k
  /\ observed # <<>> => Unary /\ got.kind = "answer"
  /\ pc = "done" /\ Unary /\ got.kind = "answer" => Len(observed) = Len(Chain)

\* The two halves of TypeOK: the header maps, and the rest.
MapsOK ==
  /\ IsHeaders(req) /\ IsHeaders(sent) /\ IsHeaders(seen) /\ IsHeaders(recorded)
  /\ IsHeaders(trailing) /\ IsHeaders(head) /\ IsHeaders(tail.metadata)
  /\ AllLower(sent) /\ AllLower(seen) /\ AllLower(recorded) /\ AllLower(head)

RestOK ==
  /\ call \in Calls
  /\ pc \in {"intercept", "handler", "answered", "observe", "done"}
  /\ next \in 1..(Len(Chain) + 1)
  /\ made \in 0..call.sets
  /\ outcome.kind \in {"nothing", "ok", "err", "foreign"}
  /\ got.kind \in {"nothing", "refused", "answer"}
  /\ got.kind = "answer" => IsHeaders(got.headers) /\ IsHeaders(got.trailers)
  /\ \A k \in 1..Len(observed) : IsHeaders(observed[k].req)

\* TypeOK is both.
LEMMA MapsAre == TypeOK <=> MapsOK /\ RestOK
BY DEF TypeOK, MapsOK, RestOK, AllLower

\* The words the code puts into headers are text.
LEMMA OwnValues ==
  /\ \A v \in {"proto", "connect+proto", "json", "gzip"} : v \in Text /\ v # Unicode
  /\ <<"json">> \in ValueList /\ <<"gzip">> \in ValueList
<1>1. \A v \in {"proto", "connect+proto", "json", "gzip"} : v \in Text
  BY MetadataAssumption DEF OwnTexts
<1>2. \A v \in {"proto", "connect+proto", "json", "gzip"} : v # Unicode
  BY DEF Unicode
<1>3. "json" \in Text /\ "gzip" \in Text
  BY <1>1
<1>4. <<"json">> \in ValueList
  BY <1>3, OneValue
<1>5. <<"gzip">> \in ValueList
  BY <1>3, OneValue
<1> QED
  BY <1>1, <1>2, <1>4, <1>5

\* What a handler reads has a content type, and so has its reply.
LEMMA ReplyTypeIs ==
  ASSUME TypeOK, Transmitted, Told
  PROVE  ReplyType \in Text \ {Unicode} /\ <<ReplyType>> \in ValueList
<1> DEFINE W == WithContentType(req)
<1>1. sent = Outgoing(req) /\ seen = Legible(sent) /\ IsHeaders(req)
  BY MapsAre DEF Transmitted, MapsOK
<1>2. IsHeaders(W) /\ \E n \in DOMAIN W : Lower(n) = ContentType
  BY <1>1, WithContentTypeIs
<1>3. IsHeaders(sent) /\ DOMAIN HeaderMap(W) \subseteq DOMAIN sent
  BY <1>1, OutgoingIs
<1> HIDE DEF W
<1>4. ContentType \in DOMAIN HeaderMap(W)
  BY <1>2, HeaderMapIs
<1>5. Head(seen[ContentType]) \in Text \ {Unicode}
  BY <1>1, <1>3, <1>4, LegibleIs
<1> QED
  BY <1>5, OneValue DEF ReplyType

\* The headers of a reply: those of a success, of an error, of a stream and of
\* another implementation.
LEMMA HeadsAre ==
  ASSUME TypeOK, Transmitted, Told, NEW gz \in BOOLEAN
  PROVE  /\ IsHeaders(OkHeaders(gz)) /\ AllLower(OkHeaders(gz))
         /\ IsHeaders(ErrorHeaders) /\ AllLower(ErrorHeaders)
         /\ IsHeaders(StreamHeaders) /\ AllLower(StreamHeaders)
         /\ IsHeaders(Typed("json")) /\ AllLower(Typed("json"))
<1>1. /\ ContentType \in Name /\ ContentType.spelt = "lower"
      /\ ContentEncoding \in Name /\ ContentEncoding.spelt = "lower"
  BY OwnNames
<1>2. ASSUME NEW h, IsHeaders(h), AllLower(h), NEW n \in Name, n.spelt = "lower", NEW vs \in ValueList
      PROVE  IsHeaders(Put(h, n, vs)) /\ AllLower(Put(h, n, vs))
  BY <1>2, PutIs
<1>3. ASSUME NEW h, IsHeaders(h), AllLower(h)
      PROVE  /\ IsHeaders(merge_response_headers(h, recorded))
             /\ AllLower(merge_response_headers(h, recorded))
  BY <1>3, MapsAre, AppendedIs DEF merge_response_headers, MapsOK
<1>4. ASSUME NEW h, IsHeaders(h), AllLower(h)
      PROVE  IsHeaders(mux_trailers(h, trailing)) /\ AllLower(mux_trailers(h, trailing))
  BY <1>4, MapsAre, MuxIs DEF MapsOK
<1>5. IsHeaders(NoHeaders) /\ AllLower(NoHeaders)
  BY NoHeadersIs DEF AllLower
<1>6. <<ReplyType>> \in ValueList /\ <<"json">> \in ValueList /\ <<"gzip">> \in ValueList
  BY ReplyTypeIs, OwnValues
<1>7. ASSUME NEW type, <<type>> \in ValueList
      PROVE  IsHeaders(Typed(type)) /\ AllLower(Typed(type))
  BY <1>1, <1>2, <1>5, <1>7 DEF Typed
<1> DEFINE h == IF gz THEN Put(NoHeaders, ContentEncoding, <<"gzip">>) ELSE NoHeaders
<1>8. IsHeaders(h) /\ AllLower(h)
  BY <1>1, <1>2, <1>5, <1>6
<1>9. OkHeaders(gz) = Put(merge_response_headers(mux_trailers(h, trailing), recorded), ContentType, <<ReplyType>>)
  BY Zenon DEF OkHeaders
<1> HIDE DEF h
<1>10. IsHeaders(OkHeaders(gz)) /\ AllLower(OkHeaders(gz))
  BY <1>1, <1>2, <1>3, <1>4, <1>6, <1>8, <1>9
<1>11. IsHeaders(ErrorHeaders) /\ AllLower(ErrorHeaders)
  BY <1>3, <1>4, <1>6, <1>7 DEF ErrorHeaders
<1>12. IsHeaders(StreamHeaders) /\ AllLower(StreamHeaders)
  BY <1>3, <1>6, <1>7 DEF StreamHeaders
<1> QED
  BY <1>6, <1>7, <1>10, <1>11, <1>12

\* Every step keeps the header maps well-formed.
LEMMA MapsStep ==
  ASSUME TypeOK, Progress, Transmitted, Next
  PROVE  MapsOK'
<1>1. MapsOK /\ RestOK
  BY MapsAre
<1>2. CASE Intercept
  <2>1. IsInterceptor(Chain[next])
    BY <1>1, <1>2, ChainIs DEF Intercept, RestOK
  <2>2. Timeout \in Name
    BY OwnNames
  <2>3. IsHeaders(req')
    <3>1. CASE Chain[next].kind = "metadata" /\ req' = AddMetadata(req, Chain[next].headers)
      <4>1. IsHeaders(Chain[next].headers)
        BY <2>1, <3>1 DEF IsInterceptor
      <4> QED
        BY <1>1, <3>1, <4>1, PutMissingIs DEF AddMetadata, MapsOK
    <3>2. CASE Chain[next].kind = "timeout" /\ req' = with_timeout(req, Chain[next].ms)
      <4>1. <<Chain[next].ms>> \in ValueList
        BY <2>1, <3>2, OneValue DEF IsInterceptor
      <4>2. IsHeaders(Put(req, Timeout, <<Chain[next].ms>>)) /\ IsHeaders(req)
        BY <1>1, <2>2, <4>1, PutIs DEF MapsOK
      <4> QED
        BY <3>2, <4>2, Zenon DEF with_timeout
    <3>3. CASE req' = req
      BY <1>1, <3>3 DEF MapsOK
    <3> QED
      BY <1>2, <3>1, <3>2, <3>3 DEF Intercept
  <2> QED
    BY <1>1, <1>2, <2>3 DEF Intercept, MapsOK, handlerVars, answerVars
<1>3. CASE Transmit
  <2>1. sent' = Outgoing(req) /\ seen' = Legible(sent')
    BY <1>3 DEF Transmit, Legible
  <2>2. IsHeaders(req)
    BY <1>1 DEF MapsOK
  <2>3. IsHeaders(sent') /\ AllLower(sent')
    BY <2>1, <2>2, OutgoingIs
  <2>4. IsHeaders(seen') /\ AllLower(seen')
    BY <2>1, <2>3, LegibleIs DEF AllLower
  <2> QED
    BY <1>1, <1>3, <2>3, <2>4 DEF Transmit, MapsOK, answerVars
<1>4. CASE \E n \in HeaderNames, v \in Values : set_header(n, v)
  <2>1. PICK n \in HeaderNames, v \in Values : set_header(n, v)
    BY <1>4
  <2>2. n \in Name /\ v \in Text
    BY MetadataAssumption
  <2> DEFINE k == HeaderKey(n)
             vs == Append(Of(recorded, k), v)
  <2>3. k \in Name /\ k.spelt = "lower"
    BY <2>2, Spellings DEF HeaderKey
  <2>4. vs \in ValueList
    <3>1. Of(recorded, k) \in Seq(Text)
      BY <1>1, OfIs DEF MapsOK
    <3> QED
      BY <2>2, <3>1, OneMore
  <2>5. recorded' = Put(recorded, k, vs)
    BY <2>1 DEF set_header
  <2> HIDE DEF k, vs
  <2>6. IsHeaders(recorded') /\ AllLower(recorded')
    BY <1>1, <2>3, <2>4, <2>5, PutIs DEF MapsOK
  <2> QED
    BY <1>1, <2>1, <2>6 DEF set_header, MapsOK, requestVars, answerVars
<1>5. CASE \E n \in TrailerNames, v \in Values : set_trailer(n, v)
  <2>1. PICK n \in TrailerNames, v \in Values : set_trailer(n, v)
    BY <1>5
  <2>2. n \in Name /\ v \in Text
    BY MetadataAssumption
  <2> DEFINE vs == Append(Of(trailing, n), v)
  <2>3. vs \in ValueList
    <3>1. Of(trailing, n) \in Seq(Text)
      BY <1>1, OfIs DEF MapsOK
    <3> QED
      BY <2>2, <3>1, OneMore
  <2>4. trailing' = Put(trailing, n, vs)
    BY <2>1 DEF set_trailer
  <2> HIDE DEF vs
  <2>5. IsHeaders(trailing')
    BY <1>1, <2>2, <2>3, <2>4, PutIs DEF MapsOK
  <2> QED
    BY <1>1, <2>1, <2>5 DEF set_trailer, MapsOK, requestVars, answerVars
<1>6. CASE \/ \E big \in BOOLEAN : HandlerOk(big)
           \/ \E d \in call.errors : HandlerError(d)
           \/ \E e \in call.foreign : ForeignError(e)
  <2>1. Told
    BY <1>6 DEF HandlerOk, HandlerError, ForeignError, Told, Served
  <2>2. \A gz \in BOOLEAN : IsHeaders(OkHeaders(gz)) /\ AllLower(OkHeaders(gz))
    BY <2>1, HeadsAre
  <2>3. \A h \in {ErrorHeaders, StreamHeaders, Typed("json")} : IsHeaders(h) /\ AllLower(h)
    <3>1. TRUE \in BOOLEAN
      OBVIOUS
    <3> QED
      BY <2>1, <3>1, HeadsAre
  <2>4. /\ NoTail.metadata = NoHeaders
        /\ \A m : [NoTail EXCEPT !.metadata = m].metadata = m
        /\ \A e : [NoTail EXCEPT !.entries = e].metadata = NoHeaders
    BY DEF NoTail
  <2>5. IsHeaders(NoHeaders) /\ IsHeaders(trailing)
    BY <1>1, NoHeadersIs DEF MapsOK
  <2>6. ASSUME NEW big \in BOOLEAN, HandlerOk(big)
        PROVE  IsHeaders(head') /\ AllLower(head') /\ IsHeaders(tail'.metadata)
    <3>1. (big /\ call.gzip) \in BOOLEAN
      OBVIOUS
    <3>2. head' = OkHeaders(big /\ call.gzip) \/ head' = StreamHeaders
      BY <2>6 DEF HandlerOk
    <3>3. IsHeaders(head') /\ AllLower(head')
      BY <2>2, <2>3, <3>1, <3>2, Zenon
    <3>4. tail' = NoTail \/ tail' = [NoTail EXCEPT !.metadata = trailing]
      BY <2>6 DEF HandlerOk
    <3> QED
      BY <2>4, <2>5, <3>3, <3>4
  <2>7. ASSUME NEW d, HandlerError(d)
        PROVE  IsHeaders(head') /\ AllLower(head') /\ IsHeaders(tail'.metadata)
    BY <2>3, <2>5, <2>7 DEF HandlerError
  <2>8. ASSUME NEW e, ForeignError(e)
        PROVE  IsHeaders(head') /\ AllLower(head') /\ IsHeaders(tail'.metadata)
    BY <2>3, <2>4, <2>5, <2>8 DEF ForeignError
  <2>9. IsHeaders(head') /\ AllLower(head') /\ IsHeaders(tail'.metadata)
    BY <1>6, <2>6, <2>7, <2>8
  <2>10. UNCHANGED <<req, sent, seen, recorded, trailing>>
    BY <1>6 DEF HandlerOk, HandlerError, ForeignError, requestVars, handlerVars
  <2> QED
    BY <1>1, <2>9, <2>10 DEF MapsOK
<1>7. CASE TransportFails \/ Receive \/ Observe
  BY <1>1, <1>7 DEF TransportFails, Receive, Observe, MapsOK, requestVars, handlerVars, answerVars
<1> QED
  BY <1>2, <1>3, <1>4, <1>5, <1>6, <1>7 DEF Next

\* What the caller reads, and what the observers are given, are header maps.
LEMMA GotStep ==
  ASSUME TypeOK, Receive
  PROVE  /\ got'.kind = "answer"
         /\ IsHeaders(got'.headers) /\ IsHeaders(got'.trailers)
         /\ got'.headers = IF Unary THEN HeadersOf(Received) ELSE NoHeaders
         /\ got'.trailers = IF Unary THEN demux_trailers(Received).trailers ELSE tail.metadata
<1>1. MapsOK
  BY MapsAre
<1>2. IsHeaders(Received) /\ AllLower(Received)
  BY <1>1, ReceivedIs DEF MapsOK
<1>3. /\ IsHeaders(HeadersOf(Received)) /\ IsHeaders(demux_trailers(Received).trailers)
      /\ demux_trailers(Received).headers = HeadersOf(Received)
  BY <1>2, DemuxIs
<1>4. /\ got'.kind = "answer"
      /\ got'.headers = IF Unary THEN HeadersOf(Received) ELSE NoHeaders
      /\ got'.trailers = IF Unary THEN demux_trailers(Received).trailers ELSE tail.metadata
  <2>1. /\ got'.kind = "answer"
        /\ got'.headers = IF Unary THEN demux_trailers(Received).headers ELSE NoHeaders
        /\ got'.trailers = IF Unary THEN demux_trailers(Received).trailers ELSE tail.metadata
    BY DEF Receive
  <2> QED
    BY <1>3, <2>1
<1>5. IsHeaders(NoHeaders) /\ IsHeaders(tail.metadata)
  BY <1>1, NoHeadersIs DEF MapsOK
<1> QED
  BY <1>3, <1>4, <1>5

\* Every step keeps the order of the observers.
LEMMA ProgressStep ==
  ASSUME TypeOK, Progress, [Next]_vars
  PROVE  Progress'
<1>1. RestOK /\ Len(Chain) \in Nat
  BY MapsAre, ChainIs DEF RestOK
<1>2. Chain' = Chain /\ (Unary' <=> Unary)
  BY StepKeepsCall, CallIsFixed
<1>3. CASE Intercept
  <2>1. observed = <<>> /\ got = Nothing /\ outcome = Nothing
    BY <1>3 DEF Intercept, Progress
  <2>2. /\ observed' = <<>> /\ outcome' = outcome
        /\ (pc' = "intercept" /\ got' = got) \/ (pc' = "done" /\ got' = Refused)
    BY <1>3, <2>1 DEF Intercept, answerVars
  <2>3. observed' \in Seq([by : Nat, req : {req'}]) /\ Len(observed') = 0
    BY <2>2
  <2> QED
    BY <2>1, <2>2, <2>3 DEF Progress, Refused, Nothing
<1>4. CASE Transmit
  <2>1. next = Len(Chain) + 1
    <3>1. next > Len(Chain)
      BY <1>4 DEF Transmit
    <3>2. next \in 1..(Len(Chain) + 1)
      BY <1>1 DEF RestOK
    <3> QED
      BY <1>1, <3>1, <3>2
  <2>2. pc = "intercept" /\ pc' = "handler" /\ UNCHANGED <<next, req, outcome, observed, got>>
    BY <1>4 DEF Transmit, answerVars
  <2> QED
    BY <1>2, <2>1, <2>2 DEF Progress
<1>5. CASE TransportFails
  <2>1. observed = <<>> /\ pc' = "done" /\ got' = Refused /\ UNCHANGED <<req, observed>>
    BY <1>5 DEF TransportFails, requestVars, Progress
  <2>2. observed' \in Seq([by : Nat, req : {req'}]) /\ Len(observed') = 0
    BY <2>1
  <2> QED
    BY <2>1, <2>2 DEF Progress, Refused
<1>6. CASE \/ \E n \in HeaderNames, v \in Values : set_header(n, v)
           \/ \E n \in TrailerNames, v \in Values : set_trailer(n, v)
  <2>1. UNCHANGED <<pc, next, req, outcome, observed, got>>
    BY <1>6 DEF set_header, set_trailer, requestVars, answerVars
  <2> QED
    BY <1>2, <2>1 DEF Progress
<1>7. CASE \/ \E big \in BOOLEAN : HandlerOk(big)
           \/ \E d \in call.errors : HandlerError(d)
           \/ \E e \in call.foreign : ForeignError(e)
  <2>1. pc = "handler" /\ pc' = "answered" /\ UNCHANGED <<next, req, observed, got>>
    BY <1>7 DEF HandlerOk, HandlerError, ForeignError, requestVars
  <2> QED
    BY <1>2, <2>1 DEF Progress
<1>8. CASE Receive
  <2>1. /\ pc = "answered" /\ pc' = IF Unary THEN "observe" ELSE "done"
        /\ next' = 1 /\ UNCHANGED <<req, observed>>
    BY <1>8 DEF Receive
  <2>2. got'.kind = "answer"
    BY <1>8, GotStep
  <2>3. observed = <<>>
    BY <2>1 DEF Progress
  <2>4. observed' \in Seq([by : Nat, req : {req'}]) /\ Len(observed') = 0
    BY <2>1, <2>3
  <2> QED
    BY <1>2, <2>1, <2>2, <2>3, <2>4 DEF Progress
<1>9. CASE Observe
  <2>1. /\ pc = "observe" /\ UNCHANGED <<call, req, got>>
        /\ Unary /\ got.kind = "answer" /\ Len(observed) = next - 1
        /\ observed \in Seq([by : Nat, req : {req}]) /\ next \in Nat
    BY <1>1, <1>9 DEF Observe, Progress, RestOK
  <2>2. CASE next <= Len(Chain)
    <3> DEFINE o == [by |-> next, req |-> req]
    <3>1. /\ observed' = Append(observed, o) /\ next' = next + 1 /\ pc' = pc
      BY <1>9, <2>2 DEF Observe, SentRequest
    <3>2. o \in [by : Nat, req : {req}] /\ o.by = next
      BY <2>1
    <3> HIDE DEF o
    <3>3. /\ observed' \in Seq([by : Nat, req : {req}]) /\ Len(observed') = Len(observed) + 1
          /\ \A k \in 1..Len(observed) : observed'[k] = observed[k]
          /\ observed'[Len(observed) + 1] = o
      BY <2>1, <3>1, <3>2
    <3>4. \A k \in 1..Len(observed) : observed[k].by = k
      BY DEF Progress
    <3>5. ASSUME NEW k \in 1..Len(observed')
          PROVE  observed'[k].by = k
      <4>1. Len(observed) \in Nat /\ (k \in 1..Len(observed) \/ k = Len(observed) + 1)
        BY <2>1, <3>3
      <4>2. CASE k \in 1..Len(observed)
        BY <3>3, <3>4, <4>2
      <4>3. CASE k = Len(observed) + 1
        BY <2>1, <3>2, <3>3, <4>3
      <4> QED
        BY <4>1, <4>2, <4>3
    <3> QED
      BY <1>2, <2>1, <3>1, <3>3, <3>5 DEF Progress
  <2>3. CASE ~(next <= Len(Chain))
    <3>1. pc' = "done" /\ UNCHANGED <<next, observed>> /\ next = Len(Chain) + 1
      BY <1>1, <1>9, <2>3 DEF Observe, RestOK
    <3>2. Len(observed) = Len(Chain)
      BY <1>1, <2>1, <3>1
    <3>3. /\ pc' = "done" /\ observed' = observed /\ req' = req /\ got' = got
          /\ Len(observed') = Len(Chain')
      BY <1>2, <2>1, <3>1, <3>2
    <3>4. \A k \in 1..Len(observed) : observed[k].by = k
      BY DEF Progress
    <3> QED
      BY <1>2, <2>1, <3>3, <3>4 DEF Progress
  <2> QED
    BY <2>2, <2>3
<1>10. CASE UNCHANGED vars
  <2>1. UNCHANGED <<pc, next, req, outcome, observed, got>>
    BY <1>10 DEF vars, requestVars, answerVars
  <2> QED
    BY <1>2, <2>1 DEF Progress
<1> QED
  BY <1>3, <1>4, <1>5, <1>6, <1>7, <1>8, <1>9, <1>10 DEF Next

\* Steps behind the request do not touch it.
LEMMA RequestStays ==
  ASSUME Next, ~Intercept, ~Transmit
  PROVE  UNCHANGED <<req, sent, seen>>
BY DEF Next, TransportFails, set_header, set_trailer, HandlerOk, HandlerError, ForeignError, Receive,
       Observe, requestVars, handlerVars

\* Every step keeps to the request that was transmitted.
LEMMA TransmittedStep ==
  ASSUME Progress, Transmitted, [Next]_vars
  PROVE  Transmitted'
<1>1. call' = call /\ (Unary' <=> Unary)
  BY StepKeepsCall, CallIsFixed
<1>2. ASSUME req' = req PROVE Outgoing(req)' = Outgoing(req)
  <2>1. WithContentType(req)' = WithContentType(req)
    BY <1>1, <1>2, Zenon DEF WithContentType
  <2> QED
    BY <1>1, <2>1, Zenon DEF Outgoing, HeaderMap, Put, Of
<1>3. CASE Intercept
  <2>1. got = Nothing
    BY <1>3 DEF Intercept, Progress
  <2>2. (pc' = "intercept" /\ got' = got) \/ (pc' = "done" /\ got' = Refused)
    BY <1>3 DEF Intercept
  <2>3. ~Told'
    BY <2>1, <2>2 DEF Told, Served, Nothing, Refused
  <2> QED
    BY <2>3 DEF Transmitted
<1>4. CASE Transmit
  <2>1. sent' = Outgoing(req) /\ seen' = Legible(sent') /\ req' = req
    BY <1>4 DEF Transmit, Legible
  <2> QED
    BY <1>2, <2>1 DEF Transmitted, Legible
<1>5. CASE Next /\ ~Intercept /\ ~Transmit
  <2>1. UNCHANGED <<req, sent, seen>>
    BY <1>5, RequestStays
  <2>2. Told' => Told
    <3>1. CASE TransportFails
      <4>1. pc' = "done" /\ got' = Refused
        BY <3>1 DEF TransportFails
      <4> QED
        BY <4>1 DEF Told, Served, Refused
    <3>2. CASE Receive
      BY <3>2 DEF Receive, Told, Served
    <3>3. CASE Next /\ ~Intercept /\ ~Transmit /\ ~TransportFails /\ ~Receive
      <4>1. pc \in {"handler", "answered", "observe"}
        BY <3>3 DEF Next, set_header, set_trailer, MaySet, HandlerOk, HandlerError, ForeignError, Observe
      <4> QED
        BY <4>1 DEF Told, Served
    <3> QED
      BY <1>5, <3>1, <3>2, <3>3
  <2> QED
    BY <1>2, <2>1, <2>2 DEF Transmitted, HeaderMap, Legible
<1>6. CASE UNCHANGED vars
  <2>1. UNCHANGED <<pc, req, sent, seen, got>>
    BY <1>6 DEF vars, requestVars, handlerVars
  <2> QED
    BY <1>2, <2>1 DEF Transmitted, HeaderMap, Legible, Told, Served
<1> QED
  BY <1>3, <1>4, <1>5, <1>6

\* Every step keeps the rest of the types.
LEMMA RestStep ==
  ASSUME TypeOK, Progress, [Next]_vars
  PROVE  RestOK'
<1>1. RestOK /\ MapsOK /\ Len(Chain) \in Nat /\ call.sets \in Nat
  BY MapsAre, ChainIs, MetadataAssumption DEF RestOK
<1>2. call' = call /\ Chain' = Chain
  BY StepKeepsCall, CallIsFixed
<1>3. Progress'
  BY ProgressStep
<1>4. call' \in Calls
  BY <1>1, <1>2 DEF RestOK
<1>5. \A k \in 1..Len(observed) : IsHeaders(observed[k].req)
  BY <1>1 DEF RestOK
<1>6. CASE Intercept
  <2>1. next' = next \/ (next <= Len(Chain) /\ next' = next + 1)
    BY <1>6 DEF Intercept
  <2>2. next' \in 1..(Len(Chain') + 1)
    BY <1>1, <1>2, <2>1 DEF RestOK
  <2>3. /\ got' = got \/ got' = Refused
        /\ pc' = pc \/ pc' = "done"
        /\ UNCHANGED <<made, outcome, observed>>
    BY <1>6 DEF Intercept, handlerVars, answerVars
  <2> QED
    BY <1>1, <1>2, <1>4, <2>2, <2>3 DEF RestOK, Refused
<1>7. CASE Transmit \/ TransportFails
  <2>1. /\ got' = got \/ got' = Refused
        /\ pc' \in {"handler", "done"}
        /\ UNCHANGED <<next, made, outcome, observed>>
    BY <1>7 DEF Transmit, TransportFails, requestVars, handlerVars, answerVars
  <2> QED
    BY <1>1, <1>2, <1>4, <2>1 DEF RestOK, Refused
<1>8. CASE \/ \E n \in HeaderNames, v \in Values : set_header(n, v)
           \/ \E n \in TrailerNames, v \in Values : set_trailer(n, v)
  <2>1. made < call.sets /\ made' = made + 1 /\ UNCHANGED <<pc, next, outcome, observed, got>>
    BY <1>8 DEF set_header, set_trailer, MaySet, requestVars, answerVars
  <2>2. made' \in 0..call'.sets
    BY <1>1, <1>2, <2>1 DEF RestOK
  <2> QED
    BY <1>1, <1>2, <1>4, <2>1, <2>2 DEF RestOK
<1>9. CASE \/ \E big \in BOOLEAN : HandlerOk(big)
           \/ \E d \in call.errors : HandlerError(d)
           \/ \E e \in call.foreign : ForeignError(e)
  <2>1. pc' = "answered" /\ UNCHANGED <<next, made, observed, got>>
    BY <1>9 DEF HandlerOk, HandlerError, ForeignError, requestVars, handlerVars
  <2>2. outcome'.kind \in {"ok", "err", "foreign"}
    BY <1>9 DEF HandlerOk, HandlerError, ForeignError
  <2> QED
    BY <1>1, <1>2, <1>4, <2>1, <2>2 DEF RestOK
<1>10. CASE Receive
  <2>1. pc' \in {"observe", "done"} /\ next' = 1 /\ UNCHANGED <<made, outcome, observed>>
    BY <1>10 DEF Receive, handlerVars, answerVars
  <2>2. got'.kind = "answer" /\ IsHeaders(got'.headers) /\ IsHeaders(got'.trailers)
    BY <1>10, GotStep
  <2>3. next' \in 1..(Len(Chain') + 1)
    BY <1>1, <1>2, <2>1
  <2> QED
    BY <1>1, <1>2, <1>4, <2>1, <2>2, <2>3 DEF RestOK
<1>11. CASE Observe
  <2>1. UNCHANGED <<made, outcome, got, req>>
    BY <1>11 DEF Observe, handlerVars, answerVars
  <2>2. /\ pc' \in {"observe", "done"}
        /\ next' = next \/ (next <= Len(Chain) /\ next' = next + 1)
    BY <1>11 DEF Observe
  <2>3. next' \in 1..(Len(Chain') + 1)
    BY <1>1, <1>2, <2>2 DEF RestOK
  <2>4. ASSUME NEW k \in 1..Len(observed')
        PROVE  IsHeaders(observed'[k].req)
    <3>1. observed' \in Seq([by : Nat, req : {req}])
      BY <1>3, <2>1 DEF Progress
    <3>2. observed'[k] \in [by : Nat, req : {req}]
      BY <3>1, ElementOf
    <3>3. observed'[k].req = req
      BY <3>2
    <3> QED
      BY <1>1, <3>3 DEF MapsOK
  <2> QED
    BY <1>1, <1>2, <1>4, <2>1, <2>2, <2>3, <2>4 DEF RestOK
<1>12. CASE UNCHANGED vars
  BY <1>1, <1>2, <1>12 DEF vars, requestVars, handlerVars, answerVars, RestOK
<1> QED
  BY <1>6, <1>7, <1>8, <1>9, <1>10, <1>11, <1>12 DEF Next

\* Every variable holds a value the code could hold.
Sound == TypeOK /\ Progress /\ Transmitted

LEMMA WellTyped == Spec => []Sound
<1>1. Init => Sound
  <2> SUFFICES ASSUME Init PROVE Sound
    OBVIOUS
  <2>1. call \in Calls /\ IsHeaders(call.caller) /\ call.sets \in Nat
    BY MetadataAssumption DEF Init
  <2>2. Len(Chain) \in Nat
    BY <2>1, ChainIs
  <2>3. IsHeaders(NoHeaders) /\ AllLower(NoHeaders) /\ NoTail.metadata = NoHeaders
    BY NoHeadersIs DEF AllLower, NoTail
  <2>4. MapsOK
    BY <2>1, <2>3 DEF Init, MapsOK
  <2>5. observed = <<>> /\ Len(observed) = 0 /\ observed \in Seq([by : Nat, req : {req}])
    BY DEF Init
  <2>6. RestOK
    BY <2>1, <2>2, <2>5 DEF Init, RestOK, Nothing
  <2>7. Progress /\ Transmitted
    BY <2>5 DEF Init, Progress, Transmitted, Told, Served, Nothing
  <2> QED
    BY <2>4, <2>6, <2>7, MapsAre DEF Sound
<1>2. Sound /\ [Next]_vars => Sound'
  <2> SUFFICES ASSUME Sound, [Next]_vars PROVE Sound'
    OBVIOUS
  <2>1. Progress' /\ Transmitted' /\ RestOK'
    BY ProgressStep, TransmittedStep, RestStep DEF Sound
  <2>2. MapsOK'
    <3>1. CASE Next
      BY <3>1, MapsStep DEF Sound
    <3>2. CASE UNCHANGED vars
      BY <3>2, MapsAre DEF Sound, vars, requestVars, handlerVars, answerVars, MapsOK
    <3> QED
      BY <3>1, <3>2
  <2>3. TypeOK'
    BY <2>1, <2>2, MapsAre DEF TypeOK, MapsOK, RestOK, AllLower
  <2> QED
    BY <2>1, <2>3 DEF Sound
<1> QED
  BY <1>1, <1>2, PTL DEF Spec

\* Whatever names and values callers, interceptors and handlers use, a header that is
\* there has a value, and HTTP has one spelling of each name on either way.
THEOREM TypeCorrect == Spec => []TypeOK
<1>1. Sound => TypeOK
  BY DEF Sound
<1> QED
  BY <1>1, WellTyped, PTL

\* However long the chain is, its observers run once each, in its order, and are given
\* the request that went out.
THEOREM ObserversTold == Spec => []ObserversSeeWhatWasSent
<1>1. Sound => ObserversSeeWhatWasSent
  <2> SUFFICES ASSUME Sound PROVE ObserversSeeWhatWasSent
    OBVIOUS
  <2>1. ASSUME NEW k \in 1..Len(observed)
        PROVE  observed[k].by = k /\ Outgoing(observed[k].req) = sent
    <3>1. observed \in Seq([by : Nat, req : {req}]) /\ observed[k].by = k
      BY DEF Sound, Progress
    <3>2. observed[k] \in [by : Nat, req : {req}]
      BY <3>1, ElementOf
    <3>3. observed # <<>> /\ observed[k].req = req
      BY <3>2
    <3>4. Told
      BY <3>3 DEF Sound, Progress, Told
    <3> QED
      BY <3>1, <3>3, <3>4 DEF Sound, Transmitted
  <2> QED
    BY <2>1 DEF Sound, Progress, ObserversSeeWhatWasSent
<1> QED
  BY <1>1, WellTyped, PTL

-----------------------------------------------------------------------------
(* Which header of a name comes first.                                      *)

\* What a handler reads first under a name, other than the host over hyper: the first
\* value in capitals, if the name goes out in capitals, and else the first of those in
\* lower case.
LEMMA FirstIs ==
  ASSUME TypeOK, Transmitted, Told, NEW n \in Name, n.spelt = "lower", NEW m \in DOMAIN req,
         m = Upper(n) \/ (m = n /\ Upper(n) \notin DOMAIN req), n # Host \/ call.bridge # "hyper"
  PROVE  Head(seen[n]) = IF Head(req[m]) = Unicode THEN "" ELSE Head(req[m])
<1> DEFINE W == WithContentType(req)
<1>1. sent = Outgoing(req) /\ seen = Legible(sent)
  BY DEF Transmitted
<1>2. IsHeaders(req)
  BY MapsAre DEF MapsOK
<1>3. /\ IsHeaders(W)
      /\ m \in DOMAIN W /\ W[m] = req[m]
      /\ \A k \in DOMAIN W : k \notin DOMAIN req => k = ContentType
  BY <1>2, WithContentTypeIs
<1>4. /\ Upper(n) \in Name /\ Upper(n).spelt = "upper" /\ Lower(n) = n /\ Lower(Upper(n)) = n
      /\ ContentType.spelt = "lower"
  BY Spellings, OwnNames
<1>5. n \in DOMAIN sent /\ sent[n] = Of(W, Upper(n)) \o Of(W, n) /\ IsHeaders(sent)
  <2>1. /\ IsHeaders(sent) /\ DOMAIN HeaderMap(W) \subseteq DOMAIN sent
        /\ \A k \in DOMAIN HeaderMap(W) : k # Host \/ call.bridge # "hyper" => sent[k] = HeaderMap(W)[k]
    BY <1>1, <1>2, OutgoingIs
  <2> HIDE DEF W
  <2>2. n \in {Lower(k) : k \in DOMAIN W}
    BY <1>3, <1>4
  <2>3. n \in DOMAIN HeaderMap(W) /\ HeaderMap(W)[n] = Of(W, Upper(n)) \o Of(W, n)
    BY <1>3, <2>2, HeaderMapIs
  <2> QED
    BY <2>1, <2>3
<1> HIDE DEF W
<1>6. Of(W, Upper(n)) \in Seq(Text) /\ Of(W, n) \in Seq(Text)
  BY <1>3, OfIs
<1>7. Head(sent[n]) = Head(req[m])
  <2>1. CASE m = Upper(n)
    <3>1. Of(W, Upper(n)) = req[m] /\ Of(W, Upper(n)) # <<>>
      BY <1>3, <2>1, OfIs
    <3> QED
      BY <1>5, <1>6, <3>1, Behind
  <2>2. CASE m = n /\ Upper(n) \notin DOMAIN req
    <3>1. Upper(n) \notin DOMAIN W
      BY <1>3, <1>4, <2>2
    <3>2. Of(W, Upper(n)) = <<>> /\ Of(W, n) = req[m]
      BY <1>3, <2>2, <3>1, OfIs
    <3> QED
      BY <1>5, <1>6, <3>2, Behind
  <2> QED
    BY <2>1, <2>2
<1>8. Head(seen[n]) = IF Head(sent[n]) = Unicode THEN "" ELSE Head(sent[n])
  BY <1>1, <1>5, LegibleIs
<1> QED
  BY <1>7, <1>8

\* What an interceptor does to the request, by its kind.
LEMMA InterceptIs ==
  ASSUME TypeOK, Intercept
  PROVE  /\ IsHeaders(req) /\ next \in 1..Len(Chain)
         /\ \/ /\ Chain[next].kind = "metadata" /\ IsHeaders(Chain[next].headers)
               /\ req' = PutMissing(req, Chain[next].headers)
               /\ next' = next + 1 /\ pc' = pc
               /\ ~SetsDeadline(Chain[next])
            \/ /\ SetsDeadline(Chain[next]) /\ <<Chain[next].ms>> \in ValueList
               /\ req' = Put(req, Timeout, <<Chain[next].ms>>)
               /\ next' = next + 1 /\ pc' = pc
            \/ /\ ~SetsDeadline(Chain[next]) /\ req' = req
               /\ next' = next + 1 /\ pc' = pc
            \/ pc' = "done" /\ UNCHANGED <<req, next>>
<1>1. IsHeaders(req) /\ call \in Calls /\ next \in 1..(Len(Chain) + 1)
  BY MapsAre DEF MapsOK, RestOK
<1>2. next <= Len(Chain)
  BY DEF Intercept
<1>3. Len(Chain) \in Nat
  BY <1>1, ChainIs
<1>4. next \in 1..Len(Chain)
  BY <1>1, <1>2, <1>3
<1>5. IsInterceptor(Chain[next])
  BY <1>1, <1>4, ChainIs
<1>6. CASE /\ Chain[next].kind = "metadata"
           /\ req' = AddMetadata(req, Chain[next].headers) /\ next' = next + 1 /\ pc' = pc
  BY <1>1, <1>4, <1>5, <1>6 DEF IsInterceptor, AddMetadata, SetsDeadline
<1>7. CASE /\ Chain[next].kind = "timeout"
           /\ req' = with_timeout(req, Chain[next].ms) /\ next' = next + 1 /\ pc' = pc
  <2>1. <<Chain[next].ms>> \in ValueList
    BY <1>5, <1>7, OneValue DEF IsInterceptor
  <2>2. CASE Chain[next].ms = NoTimeout
    BY <1>1, <1>4, <1>7, <2>2 DEF with_timeout, SetsDeadline
  <2>3. CASE Chain[next].ms # NoTimeout
    BY <1>1, <1>4, <1>7, <2>1, <2>3 DEF with_timeout, SetsDeadline
  <2> QED
    BY <2>2, <2>3
<1>8. CASE pc' = "done" /\ UNCHANGED <<req, next>>
  BY <1>1, <1>4, <1>8
<1> QED
  BY <1>6, <1>7, <1>8 DEF Intercept

\* Interceptors that spell in lower case leave the caller's headers in the request,
\* but for the deadline, and add none in capitals.
CallerStays ==
  LowerChain =>
    /\ \A n \in DOMAIN call.caller :
          Lower(n) # Timeout => n \in DOMAIN req /\ req[n] = call.caller[n]
    /\ \A n \in DOMAIN req : n.spelt = "upper" => n \in DOMAIN call.caller

LEMMA CallerStaysCorrect == Spec => []CallerStays
<1>1. Init => CallerStays
  BY DEF Init, CallerStays
<1>2. TypeOK /\ CallerStays /\ [Next]_vars => CallerStays'
  <2> SUFFICES ASSUME TypeOK, CallerStays, [Next]_vars, LowerChain PROVE CallerStays'
    BY StepKeepsCall, CallIsFixed DEF CallerStays
  <2>1. call' = call
    BY StepKeepsCall
  <2>2. CASE Intercept
    <3>1. /\ IsHeaders(req)
          /\ \/ /\ Chain[next].kind = "metadata" /\ IsHeaders(Chain[next].headers)
                /\ req' = PutMissing(req, Chain[next].headers)
             \/ /\ <<Chain[next].ms>> \in ValueList
                /\ req' = Put(req, Timeout, <<Chain[next].ms>>)
             \/ req' = req
      BY <2>2, InterceptIs
    <3>2. next \in 1..Len(Chain)
      BY <2>2, InterceptIs
    <3>3. CASE /\ Chain[next].kind = "metadata" /\ IsHeaders(Chain[next].headers)
               /\ req' = PutMissing(req, Chain[next].headers)
      <4> DEFINE more == Chain[next].headers
      <4>1. \A n \in DOMAIN more : n.spelt = "lower"
        BY <3>2, <3>3 DEF LowerChain
      <4> HIDE DEF more
      <4>2. IsHeaders(more) /\ req' = PutMissing(req, more)
        BY <3>3 DEF more
      <4>3. /\ DOMAIN PutMissing(req, more) = DOMAIN req \cup DOMAIN more
            /\ \A n \in DOMAIN req : PutMissing(req, more)[n] = req[n]
        BY <3>1, <4>2, PutMissingIs
      <4>4. /\ DOMAIN req' = DOMAIN req \cup DOMAIN more
            /\ \A n \in DOMAIN req : req'[n] = req[n]
        BY <4>2, <4>3
      <4> QED
        BY <2>1, <4>1, <4>4 DEF CallerStays
    <3>4. CASE /\ <<Chain[next].ms>> \in ValueList
               /\ req' = Put(req, Timeout, <<Chain[next].ms>>)
      <4>1. Timeout \in Name /\ Timeout.spelt = "lower" /\ Lower(Timeout) = Timeout
        BY OwnNames
      <4>2. /\ DOMAIN req' = DOMAIN req \cup {Timeout}
            /\ \A n \in DOMAIN req : n # Timeout => req'[n] = req[n]
        BY <3>1, <3>4, <4>1, PutIs
      <4> QED
        BY <2>1, <4>1, <4>2 DEF CallerStays
    <3>5. CASE req' = req
      BY <2>1, <3>5 DEF CallerStays
    <3> QED
      BY <3>1, <3>3, <3>4, <3>5
  <2>3. CASE Transmit
    BY <2>1, <2>3 DEF Transmit, CallerStays
  <2>4. CASE Next /\ ~Intercept /\ ~Transmit
    BY <2>1, <2>4, RequestStays DEF CallerStays
  <2>5. CASE UNCHANGED vars
    BY <2>1, <2>5 DEF vars, requestVars, CallerStays
  <2> QED
    BY <2>2, <2>3, <2>4, <2>5
<1> QED
  BY <1>1, <1>2, TypeCorrect, PTL DEF Spec

\* A header the caller sets itself, other than the deadline and, over hyper, the host, is
\* the one a handler reads first, however either spells it, for every chain of
\* interceptors that spell theirs in lower case.
THEOREM CallerIsFirst == Spec => []CallerComesFirst
<1>1. Sound /\ CallerStays => CallerComesFirst
  <2> SUFFICES ASSUME Sound, CallerStays, Served, LowerChain,
                      NEW n \in DOMAIN call.caller, Lower(n) # Timeout,
                      Lower(n) = Host => call.bridge # "hyper"
               PROVE  Head(seen[Lower(n)])
                        = IF Head(Of(call.caller, Upper(n)) \o Of(call.caller, Lower(n))) = Unicode
                            THEN "" ELSE Head(Of(call.caller, Upper(n)) \o Of(call.caller, Lower(n)))
    BY Zenon DEF CallerComesFirst
  <2> DEFINE l == Lower(n)
             u == Upper(n)
             caller == call.caller
             own == Of(caller, u) \o Of(caller, l)
  <2>1. IsHeaders(caller) /\ n \in Name
    BY MetadataAssumption, MapsAre DEF Sound, RestOK, IsHeaders
  <2>2. /\ l \in Name /\ l.spelt = "lower" /\ Upper(l) = u /\ Lower(l) = l
        /\ u.spelt = "upper" /\ Lower(u) = l /\ n \in {l, u}
    BY <2>1, Spellings
  <2>3. /\ Of(caller, u) \in Seq(Text) /\ Of(caller, l) \in Seq(Text)
    BY <2>1, OfIs
  <2>4. TypeOK /\ Transmitted /\ Told
    BY DEF Sound, Told
  <2>5. ASSUME NEW m \in DOMAIN caller, Lower(m) = l
        PROVE  m \in DOMAIN req /\ req[m] = caller[m]
    BY <2>5 DEF CallerStays
  <2> HIDE DEF l, u, caller
  <2>6. \E m \in DOMAIN caller :
          /\ m = u \/ (m = l /\ u \notin DOMAIN req)
          /\ m \in DOMAIN req /\ req[m] = caller[m] /\ Head(own) = Head(caller[m])
    <3>1. CASE u \in DOMAIN caller
      <4>1. Head(own) = Head(caller[u])
        BY <2>1, <2>3, <3>1, OfIs, Behind
      <4>2. u \in DOMAIN req /\ req[u] = caller[u]
        BY <2>2, <2>5, <3>1
      <4> QED
        BY <3>1, <4>1, <4>2
    <3>2. CASE u \notin DOMAIN caller
      <4>1. l \in DOMAIN caller
        BY <2>2, <3>2 DEF caller
      <4>2. Head(own) = Head(caller[l])
        BY <2>1, <2>3, <3>2, <4>1, OfIs, Behind
      <4>3. l \in DOMAIN req /\ req[l] = caller[l]
        BY <2>2, <2>5, <4>1
      <4>4. u \notin DOMAIN req
        BY <2>2, <3>2 DEF CallerStays, caller
      <4> QED
        BY <4>1, <4>2, <4>3, <4>4
    <3> QED
      BY <3>1, <3>2
  <2>7. Head(seen[l]) = IF Head(own) = Unicode THEN "" ELSE Head(own)
    <3>1. l # Host \/ call.bridge # "hyper"
      BY DEF l
    <3> QED
      BY <2>2, <2>4, <2>6, <3>1, FirstIs
  <2> QED
    BY <2>7 DEF l, u, caller
<1> QED
  BY <1>1, WellTyped, CallerStaysCorrect, PTL

\* The last of the interceptors so far that sets a deadline has set the one in the request.
Passed == IF pc = "intercept" THEN next - 1 ELSE Len(Chain)
LastDeadline ==
  pc # "done" =>
    \A i \in 1..Passed :
       /\ SetsDeadline(Chain[i])
       /\ \A j \in (i + 1)..Passed : ~SetsDeadline(Chain[j])
       => Timeout \in DOMAIN req /\ req[Timeout] = <<Chain[i].ms>>

LEMMA LastDeadlineCorrect == Spec => []LastDeadline
<1>1. Init => LastDeadline
  BY DEF Init, LastDeadline, Passed
<1>2. TypeOK /\ LastDeadline /\ [Next]_vars => LastDeadline'
  <2> SUFFICES ASSUME TypeOK, LastDeadline, [Next]_vars, pc' # "done" PROVE LastDeadline'
    BY DEF LastDeadline
  <2>1. Chain' = Chain
    BY StepKeepsCall, CallIsFixed
  <2>2. next \in 1..(Len(Chain) + 1) /\ Len(Chain) \in Nat
    BY MapsAre, ChainIs DEF RestOK
  <2>3. CASE Intercept
    <3>1. pc = "intercept"
      BY <2>3 DEF Intercept
    <3>2. /\ IsHeaders(req) /\ next \in 1..Len(Chain) /\ pc' = "intercept" /\ next' = next + 1
          /\ \/ /\ Chain[next].kind = "metadata" /\ IsHeaders(Chain[next].headers)
                /\ req' = PutMissing(req, Chain[next].headers)
                /\ ~SetsDeadline(Chain[next])
             \/ /\ SetsDeadline(Chain[next]) /\ <<Chain[next].ms>> \in ValueList
                /\ req' = Put(req, Timeout, <<Chain[next].ms>>)
             \/ ~SetsDeadline(Chain[next]) /\ req' = req
      BY <2>3, <3>1, InterceptIs
    <3>3. IsHeaders(req) /\ Timeout \in Name
      BY <3>2, OwnNames
    <3>4. \A vs \in ValueList : Timeout \in DOMAIN Put(req, Timeout, vs) /\ Put(req, Timeout, vs)[Timeout] = vs
      BY <3>3, PutIs
    <3>5. ASSUME NEW more, Timeout \in DOMAIN req
          PROVE  Timeout \in DOMAIN PutMissing(req, more) /\ PutMissing(req, more)[Timeout] = req[Timeout]
      BY <3>5 DEF PutMissing
    <3>6. Passed = next - 1 /\ Passed' = next
      BY <2>2, <3>1, <3>2 DEF Passed
    <3> SUFFICES ASSUME NEW i \in 1..next, SetsDeadline(Chain[i]),
                        \A j \in (i + 1)..next : ~SetsDeadline(Chain[j])
                 PROVE  Timeout \in DOMAIN req' /\ req'[Timeout] = <<Chain[i].ms>>
      BY <2>1, <3>6 DEF LastDeadline
    <3>7. CASE /\ ~SetsDeadline(Chain[next])
               /\ req' = req \/ req' = PutMissing(req, Chain[next].headers)
      <4>1. i \in 1..(next - 1) /\ \A j \in (i + 1)..(next - 1) : j \in (i + 1)..next
        <5>1. i # next
          BY <3>7
        <5> QED
          BY <2>2, <5>1
      <4>2. Timeout \in DOMAIN req /\ req[Timeout] = <<Chain[i].ms>>
        BY <3>1, <3>6, <4>1 DEF LastDeadline
      <4> QED
        BY <3>7, <3>5, <4>2
    <3>8. CASE /\ SetsDeadline(Chain[next]) /\ <<Chain[next].ms>> \in ValueList
               /\ req' = Put(req, Timeout, <<Chain[next].ms>>)
      <4>1. i = next
        <5>1. next \notin (i + 1)..next
          BY <3>8
        <5> QED
          BY <2>2, <5>1
      <4> QED
        BY <3>8, <3>4, <4>1
    <3> QED
      BY <3>2, <3>7, <3>8
  <2>4. CASE Transmit
    <3>1. pc = "intercept" /\ next > Len(Chain) /\ pc' = "handler" /\ req' = req
      BY <2>4 DEF Transmit
    <3>2. Passed' = Passed
      BY <2>1, <2>2, <3>1 DEF Passed
    <3> QED
      BY <2>1, <3>1, <3>2 DEF LastDeadline
  <2>5. CASE (Next /\ ~Intercept /\ ~Transmit) \/ UNCHANGED vars
    <3>1. pc # "done" /\ (pc' = "intercept" <=> pc = "intercept") /\ (pc = "intercept" => next' = next)
      BY <2>5 DEF Next, TransportFails, set_header, set_trailer, MaySet, HandlerOk, HandlerError,
                  ForeignError, Receive, Observe, vars, requestVars
    <3>2. req' = req
      BY <2>5, RequestStays DEF vars, requestVars
    <3>3. Passed' = Passed
      BY <2>1, <3>1 DEF Passed
    <3> QED
      BY <2>1, <3>1, <3>2, <3>3 DEF LastDeadline
  <2> QED
    BY <2>3, <2>4, <2>5
<1> QED
  BY <1>1, <1>2, TypeCorrect, PTL DEF Spec

\* The deadline a handler reads is the one of the innermost interceptor that sets one,
\* whatever other interceptors there are, those with a timeout of 0 included, and
\* wherever they stand.
THEOREM InnermostCounts == Spec => []InnermostDeadline
<1>1. Sound /\ CallerStays /\ LastDeadline => InnermostDeadline
  <2> SUFFICES ASSUME Sound, CallerStays, LastDeadline, Served, LowerChain,
                      Upper(Timeout) \notin DOMAIN call.caller,
                      NEW i \in 1..Len(Chain), SetsDeadline(Chain[i]),
                      \A j \in (i + 1)..Len(Chain) : ~SetsDeadline(Chain[j])
               PROVE  Head(seen[Timeout]) = Chain[i].ms
    BY DEF InnermostDeadline
  <2>1. TypeOK /\ Transmitted /\ Told
    BY DEF Sound, Told
  <2>2. Passed = Len(Chain) /\ pc # "done"
    BY DEF Served, Passed
  <2>3. Timeout \in DOMAIN req /\ req[Timeout] = <<Chain[i].ms>>
    BY <2>2 DEF LastDeadline
  <2>4. Timeout \in Name /\ Timeout.spelt = "lower" /\ Timeout # Host
    BY OwnNames
  <2>5. Upper(Timeout) \notin DOMAIN req
    BY <2>4, Spellings DEF CallerStays
  <2>6. Chain[i].ms \in Text \ {Unicode}
    <3>1. IsInterceptor(Chain[i])
      BY MapsAre, ChainIs DEF Sound, RestOK
    <3> QED
      BY <3>1 DEF IsInterceptor, SetsDeadline
  <2>7. Head(req[Timeout]) = Chain[i].ms
    BY <2>3, <2>6, OneValue
  <2> QED
    BY <2>1, <2>3, <2>4, <2>5, <2>6, <2>7, FirstIs
<1> QED
  BY <1>1, WellTyped, CallerStaysCorrect, LastDeadlineCorrect, PTL

-----------------------------------------------------------------------------
(* What the caller reads.                                                   *)

\* The answer of a handler is made of the headers and trailers it has set.
AnswerIs ==
  /\ Unary /\ outcome.kind = "ok" => outcome.gzip \in BOOLEAN /\ head = OkHeaders(outcome.gzip)
  /\ Unary /\ outcome.kind = "err" => head = ErrorHeaders
  /\ ~Unary /\ outcome.kind \in {"ok", "err"} => tail.metadata = trailing

LEMMA AnswerIsCorrect == Spec => []AnswerIs
<1>1. Init => AnswerIs
  BY DEF Init, AnswerIs, Nothing
<1>2. Progress /\ AnswerIs /\ [Next]_vars => AnswerIs'
  <2> SUFFICES ASSUME Progress, AnswerIs, [Next]_vars PROVE AnswerIs'
    OBVIOUS
  <2>1. Unary' <=> Unary
    BY StepKeepsCall, CallIsFixed
  <2>2. ASSUME UNCHANGED <<seen, recorded, trailing>>
        PROVE  /\ \A gz \in BOOLEAN : OkHeaders(gz)' = OkHeaders(gz)
               /\ ErrorHeaders' = ErrorHeaders
    BY <2>2, Zenon DEF OkHeaders, ErrorHeaders, ReplyType
  <2>3. CASE pc \in {"intercept", "handler"} /\ UNCHANGED outcome
    <3>1. outcome' = Nothing
      BY <2>3 DEF Progress
    <3> QED
      BY <3>1 DEF AnswerIs, Nothing
  <2>4. CASE UNCHANGED <<seen, recorded, trailing, outcome, head, tail>>
    <3>1. /\ \A gz \in BOOLEAN : OkHeaders(gz)' = OkHeaders(gz)
          /\ ErrorHeaders' = ErrorHeaders
      BY <2>2, <2>4
    <3>2. outcome' = outcome /\ head' = head /\ tail' = tail /\ trailing' = trailing
      BY <2>4
    <3>3. Unary /\ outcome.kind = "ok" => outcome'.gzip \in BOOLEAN /\ head' = OkHeaders(outcome.gzip)'
      BY <3>1, <3>2 DEF AnswerIs
    <3> QED
      BY <2>1, <3>1, <3>2, <3>3 DEF AnswerIs
  <2>5. ASSUME NEW big \in BOOLEAN, HandlerOk(big) PROVE AnswerIs'
    <3>1. PICK gz \in BOOLEAN : gz = (big /\ call.gzip)
      OBVIOUS
    <3>2. UNCHANGED <<seen, recorded, trailing>>
      BY <2>5 DEF HandlerOk, handlerVars
    <3>3. /\ outcome'.kind = "ok"
          /\ Unary => outcome'.gzip = gz /\ head' = OkHeaders(gz)
          /\ ~Unary => tail' = [NoTail EXCEPT !.metadata = trailing]
      <4>1. /\ outcome' = [kind |-> "ok", gzip |-> Unary /\ gz]
            /\ head' = IF Unary THEN OkHeaders(gz) ELSE StreamHeaders
            /\ tail' = IF Unary THEN NoTail ELSE [NoTail EXCEPT !.metadata = trailing]
        <5>1. /\ outcome' = [kind |-> "ok", gzip |-> Unary /\ big /\ call.gzip]
              /\ head' = IF Unary THEN OkHeaders(big /\ call.gzip) ELSE StreamHeaders
              /\ tail' = IF Unary THEN NoTail ELSE [NoTail EXCEPT !.metadata = trailing]
          BY <2>5, Zenon DEF HandlerOk
        <5>2. (Unary /\ big /\ call.gzip) = (Unary /\ gz)
          BY <3>1, Zenon
        <5> QED
          BY <3>1, <5>1, <5>2, Zenon
      <4>2. Unary => (Unary /\ gz) = gz
        BY Zenon
      <4> QED
        BY <4>1, <4>2
    <3>4. [NoTail EXCEPT !.metadata = trailing].metadata = trailing
      BY DEF NoTail
    <3>5. OkHeaders(gz)' = OkHeaders(gz)
      BY <2>2, <3>2
    <3> QED
      BY <2>1, <3>2, <3>3, <3>4, <3>5 DEF AnswerIs
  <2>6. ASSUME NEW d, HandlerError(d) PROVE AnswerIs'
    <3>1. UNCHANGED <<seen, recorded, trailing>>
      BY <2>6 DEF HandlerError, handlerVars
    <3>2. /\ outcome'.kind = "err"
          /\ Unary => head' = ErrorHeaders
          /\ ~Unary => tail'.metadata = trailing
      BY <2>6 DEF HandlerError
    <3> QED
      BY <2>1, <2>2, <3>1, <3>2 DEF AnswerIs
  <2>7. ASSUME NEW e, ForeignError(e) PROVE AnswerIs'
    BY <2>7 DEF ForeignError, AnswerIs
  <2> QED
    BY <2>3, <2>4, <2>5, <2>6, <2>7
    DEF Next, Intercept, Transmit, TransportFails, set_header, set_trailer, MaySet, Receive, Observe,
        handlerVars, answerVars, vars
<1> QED
  BY <1>1, <1>2, WellTyped, PTL DEF Spec, Sound

\* A caller has an answer once it is received, and reads it as it was received.
GotIs ==
  got.kind = "answer" =>
    /\ pc \in {"observe", "done"}
    /\ got.headers = IF Unary THEN HeadersOf(Received) ELSE NoHeaders
    /\ got.trailers = IF Unary THEN demux_trailers(Received).trailers ELSE tail.metadata

LEMMA GotIsCorrect == Spec => []GotIs
<1>1. Init => GotIs
  BY DEF Init, GotIs, Nothing
<1>2. TypeOK /\ Progress /\ GotIs /\ [Next]_vars => GotIs'
  <2> SUFFICES ASSUME TypeOK, Progress, GotIs, [Next]_vars PROVE GotIs'
    OBVIOUS
  <2>1. call' = call /\ (Unary' <=> Unary)
    BY StepKeepsCall, CallIsFixed
  <2>2. ASSUME UNCHANGED <<call, head>> PROVE Received' = Received
    BY <2>2, Zenon DEF Received, Kept
  <2>3. ASSUME UNCHANGED <<call, head>>
        PROVE  /\ HeadersOf(Received)' = HeadersOf(Received)
               /\ demux_trailers(Received).trailers' = demux_trailers(Received).trailers
    BY <2>2, <2>3, Zenon DEF HeadersOf, demux_trailers
  <2>4. CASE got' = Refused
    BY <2>4 DEF GotIs, Refused
  <2>5. CASE pc \in {"intercept", "handler", "answered"} /\ got' = got
    BY <2>5 DEF Progress, GotIs, Nothing
  <2>6. CASE Receive
    <3>1. /\ got'.headers = IF Unary THEN HeadersOf(Received) ELSE NoHeaders
          /\ got'.trailers = IF Unary THEN demux_trailers(Received).trailers ELSE tail.metadata
      BY <2>6, GotStep
    <3>2. /\ HeadersOf(Received)' = HeadersOf(Received)
          /\ demux_trailers(Received).trailers' = demux_trailers(Received).trailers
      BY <2>3, <2>6 DEF Receive, answerVars
    <3>3. pc' \in {"observe", "done"} /\ tail' = tail
      BY <2>6 DEF Receive, answerVars
    <3> QED
      BY <2>1, <3>1, <3>2, <3>3 DEF GotIs
  <2>7. CASE Observe \/ UNCHANGED vars
    <3>1. UNCHANGED <<call, head, tail, got>>
      BY <2>7 DEF Observe, vars, answerVars
    <3>2. pc' = pc \/ pc' = "done"
      BY <2>7 DEF Observe, vars
    <3>3. /\ HeadersOf(Received)' = HeadersOf(Received)
          /\ demux_trailers(Received).trailers' = demux_trailers(Received).trailers
      BY <2>3, <3>1
    <3> QED
      BY <2>1, <3>1, <3>2, <3>3 DEF GotIs
  <2> QED
    BY <2>4, <2>5, <2>6, <2>7
    DEF Next, Intercept, Transmit, TransportFails, set_header, set_trailer, MaySet, HandlerOk,
        HandlerError, ForeignError
<1> QED
  BY <1>1, <1>2, WellTyped, PTL DEF Spec, Sound

\* What there is on the wire before the handler's own headers: the encoding.
Announced(gz) == IF gz THEN Put(NoHeaders, ContentEncoding, <<"gzip">>) ELSE NoHeaders

LEMMA AnnouncedIs ==
  ASSUME NEW gz \in BOOLEAN
  PROVE  /\ IsHeaders(Announced(gz)) /\ AllLower(Announced(gz))
         /\ DOMAIN Announced(gz) \subseteq {ContentEncoding}
         /\ gz => ContentEncoding \in DOMAIN Announced(gz) /\ Announced(gz)[ContentEncoding] = <<"gzip">>
         /\ OkHeaders(gz) = Put(Appended(mux_trailers(Announced(gz), trailing), recorded),
                                ContentType, <<ReplyType>>)
<1>1. ContentEncoding \in Name /\ ContentEncoding.spelt = "lower" /\ <<"gzip">> \in ValueList
  BY OwnNames, OwnValues
<1>2. IsHeaders(NoHeaders) /\ AllLower(NoHeaders) /\ DOMAIN NoHeaders = {}
  BY NoHeadersIs DEF AllLower
<1> DEFINE vs == <<"gzip">>
           P == Put(NoHeaders, ContentEncoding, vs)
<1> HIDE DEF vs
<1>3. /\ IsHeaders(P) /\ AllLower(P)
      /\ DOMAIN P = DOMAIN NoHeaders \cup {ContentEncoding}
      /\ P[ContentEncoding] = vs
  BY <1>1, <1>2, PutIs DEF vs
<1>4. Announced(gz) = IF gz THEN P ELSE NoHeaders
  BY DEF Announced, vs
<1>5. OkHeaders(gz) = Put(Appended(mux_trailers(Announced(gz), trailing), recorded),
                          ContentType, <<ReplyType>>)
  BY Zenon DEF OkHeaders, merge_response_headers, Announced
<1> HIDE DEF P
<1> QED
  BY <1>2, <1>3, <1>4, <1>5 DEF vs

\* Whatever a handler sets, the caller of a unary call reads the server's type, and a
\* compressed reply is announced as such first.
THEOREM ReplyTyped == Spec => []ReplySaysWhatItIs
<1>1. Sound /\ AnswerIs /\ GotIs => ReplySaysWhatItIs
  <2> SUFFICES ASSUME Sound, AnswerIs, GotIs, Answered, Unary, outcome.kind = "ok"
               PROVE  /\ got.headers[ContentType] = <<ReplyType>>
                      /\ outcome.gzip => Head(head[ContentEncoding]) = "gzip"
    BY Zenon DEF ReplySaysWhatItIs
  <2>1. TypeOK /\ Transmitted /\ Told /\ MapsOK
    BY MapsAre DEF Sound, Told, Answered
  <2>2. ReplyType \in Text \ {Unicode} /\ <<ReplyType>> \in ValueList
    BY <2>1, ReplyTypeIs
  <2>3. /\ ContentType \in Name /\ ContentType.prefix = 0
        /\ ContentEncoding \in Name /\ ContentEncoding.prefix = 0 /\ ContentEncoding # ContentType
    BY OwnNames
  <2> DEFINE A == Announced(outcome.gzip)
             M == mux_trailers(A, trailing)
             R == Appended(M, recorded)
             vs == <<ReplyType>>
  <2>4. outcome.gzip \in BOOLEAN /\ head = OkHeaders(outcome.gzip)
    BY DEF AnswerIs
  <2>5. /\ IsHeaders(A) /\ AllLower(A)
        /\ outcome.gzip => ContentEncoding \in DOMAIN A /\ A[ContentEncoding] = <<"gzip">>
        /\ head = Put(R, ContentType, vs)
    BY <2>4, AnnouncedIs
  <2> HIDE DEF A
  <2>6. /\ IsHeaders(M)
        /\ \A n \in DOMAIN A : n \in DOMAIN M
        /\ \A n \in DOMAIN A : n.prefix = 0 => M[n] = A[n]
    BY <2>1, <2>5, MuxIs DEF MapsOK
  <2> HIDE DEF M
  <2>7. /\ IsHeaders(R)
        /\ DOMAIN R = DOMAIN M \cup DOMAIN recorded
        /\ \A n \in DOMAIN M \cup DOMAIN recorded : R[n] = Of(M, n) \o Of(recorded, n)
    BY <2>1, <2>6, AppendedIs DEF MapsOK
  <2> HIDE DEF R, vs
  <2>8. /\ ContentType \in DOMAIN head /\ head[ContentType] = vs
        /\ \A m \in DOMAIN R : m # ContentType => head[m] = R[m]
    <3>1. /\ ContentType \in DOMAIN Put(R, ContentType, vs) /\ Put(R, ContentType, vs)[ContentType] = vs
          /\ \A m \in DOMAIN R : m # ContentType => Put(R, ContentType, vs)[m] = R[m]
      BY DEF Put
    <3> QED
      BY <2>5, <3>1
  <2>9. got.headers[ContentType] = vs
    <3>1. Kept(vs) = vs /\ Readable(vs) # {}
      BY <2>2, KeptIs DEF vs
    <3>2. IsHeaders(head) /\ AllLower(head)
      BY <2>1 DEF MapsOK
    <3>3. ContentType \in DOMAIN Received /\ Received[ContentType] = vs
      BY <2>8, <3>1, <3>2, ReceivedIs
    <3>4. IsHeaders(Received) /\ AllLower(Received)
      BY <3>2, ReceivedIs
    <3>5. HeadersOf(Received)[ContentType] = vs
      BY <2>3, <3>3, <3>4, DemuxIs
    <3>6. got.headers = HeadersOf(Received)
      BY DEF GotIs, Answered
    <3> QED
      BY <3>5, <3>6
  <2>10. ASSUME outcome.gzip PROVE Head(head[ContentEncoding]) = "gzip"
    <3> DEFINE z == <<"gzip">>
    <3>1. z \in Seq(Text) /\ z # <<>> /\ Head(z) = "gzip"
      BY OwnValues DEF ValueList
    <3> HIDE DEF z
    <3>2. ContentEncoding \in DOMAIN A /\ A[ContentEncoding] = z
      BY <2>5, <2>10 DEF z
    <3>3. ContentEncoding \in DOMAIN M /\ M[ContentEncoding] = z
      BY <2>3, <2>6, <3>2
    <3>4. Of(M, ContentEncoding) = z /\ Of(recorded, ContentEncoding) \in Seq(Text)
      BY <2>1, <2>6, <3>3, OfIs DEF MapsOK
    <3>5. ContentEncoding \in DOMAIN R /\ R[ContentEncoding] = z \o Of(recorded, ContentEncoding)
      BY <2>7, <3>3, <3>4
    <3>6. Head(R[ContentEncoding]) = "gzip"
      BY <3>1, <3>4, <3>5, Behind
    <3> QED
      BY <2>3, <2>8, <3>5, <3>6
  <2> QED
    BY <2>9, <2>10 DEF vs
<1> QED
  BY <1>1, WellTyped, AnswerIsCorrect, GotIsCorrect, PTL

\* The headers of a unary answer, but for its type and encoding, are those the handler
\* has set and its trailers under their prefixed names, as long as no names collide.
HeadIsRecorded ==
  LET own == DOMAIN recorded \ {ContentType, ContentEncoding} IN
    /\ \A n \in DOMAIN head :
          n \in {ContentType, ContentEncoding} \cup own \cup {Prefixed(m) : m \in DOMAIN trailing}
    /\ \A n \in own : n \in DOMAIN head /\ head[n] = recorded[n]
    /\ \A m \in DOMAIN trailing : Prefixed(m) \in DOMAIN head /\ head[Prefixed(m)] = trailing[m]

\* Where no names collide: the names of headers and of trailers are apart, and so are
\* those of any two trailers.
LEMMA Apart ==
  ASSUME MapsOK, ~Collisions
  PROVE  /\ \A n \in DOMAIN recorded : n \in Name /\ n.prefix = 0
         /\ \A m \in DOMAIN trailing :
               /\ Prefixed(m) \in Name /\ Prefixed(m).prefix > 0
               /\ Prefixed(m) \notin DOMAIN recorded \cup {ContentType, ContentEncoding}
               /\ Survivor(trailing, m) = m
<1>1. ASSUME NEW n \in DOMAIN recorded PROVE n \in Name /\ n.prefix = 0
  <2>1. n \in Name
    BY DEF MapsOK, IsHeaders
  <2>2. n.prefix \in Nat /\ ~(n.prefix > 0)
    BY <2>1, Prefixing DEF Collisions
  <2> QED
    BY <2>1, <2>2
<1>2. ASSUME NEW m \in DOMAIN trailing
      PROVE  /\ Prefixed(m) \in Name /\ Prefixed(m).prefix > 0
             /\ Prefixed(m) \notin DOMAIN recorded \cup {ContentType, ContentEncoding}
             /\ Survivor(trailing, m) = m
  <2>1. m \in Name
    BY DEF MapsOK, IsHeaders
  <2>2. Prefixed(m) \in Name /\ Prefixed(m).prefix = m.prefix + 1 /\ m.prefix \in Nat
    BY <2>1, Prefixing
  <2>3. ContentType.prefix = 0 /\ ContentEncoding.prefix = 0
    BY OwnNames
  <2>4. Lower(m) \in DOMAIN trailing => Lower(m) = m
    BY <2>1, Spellings DEF Collisions
  <2> QED
    BY <1>1, <2>2, <2>3, <2>4 DEF Survivor
<1> QED
  BY <1>1, <1>2

\* So every trailer is there with its own values.
LEMMA MuxApart ==
  ASSUME MapsOK, ~Collisions, NEW h, IsHeaders(h), AllLower(h)
  PROVE  /\ IsHeaders(mux_trailers(h, trailing))
         /\ DOMAIN mux_trailers(h, trailing) = DOMAIN h \cup {Prefixed(m) : m \in DOMAIN trailing}
         /\ \A n \in DOMAIN h : n.prefix = 0 => mux_trailers(h, trailing)[n] = h[n]
         /\ \A m \in DOMAIN trailing : mux_trailers(h, trailing)[Prefixed(m)] = trailing[m]
<1> DEFINE M == mux_trailers(h, trailing)
<1>1. IsHeaders(trailing)
  BY DEF MapsOK
<1>2. /\ IsHeaders(M)
      /\ DOMAIN M = DOMAIN h \cup {Prefixed(m) : m \in DOMAIN trailing}
  <2>1. IsHeaders(M) /\ \A n : n \in DOMAIN M <=> n \in DOMAIN h \/ \E m \in DOMAIN trailing : n = Prefixed(m)
    BY <1>1, MuxIs
  <2> HIDE DEF M
  <2> QED
    BY <2>1
<1>3. \A n \in DOMAIN h : n.prefix = 0 => M[n] = h[n]
  BY <1>1, MuxIs
<1>4. ASSUME NEW m \in DOMAIN trailing PROVE M[Prefixed(m)] = trailing[m]
  <2>1. M[Prefixed(m)] = trailing[Survivor(trailing, m)]
    BY <1>1, MuxIs
  <2>2. Survivor(trailing, m) = m
    BY Apart
  <2> QED
    BY <2>1, <2>2
<1> HIDE DEF M
<1> QED
  BY <1>2, <1>3, <1>4 DEF M

\* A success.
LEMMA OkIsRecorded ==
  ASSUME MapsOK, ~Collisions, NEW gz \in BOOLEAN, head = OkHeaders(gz)
  PROVE  HeadIsRecorded
<1> DEFINE A == Announced(gz)
           M == mux_trailers(A, trailing)
           R == Appended(M, recorded)
           P == {Prefixed(m) : m \in DOMAIN trailing}
           vs == <<ReplyType>>
<1>1. /\ IsHeaders(A) /\ AllLower(A) /\ DOMAIN A \subseteq {ContentEncoding}
      /\ head = Put(R, ContentType, vs)
  BY AnnouncedIs
<1> HIDE DEF A
<1>2. /\ IsHeaders(M) /\ DOMAIN M = DOMAIN A \cup P
      /\ \A m \in DOMAIN trailing : M[Prefixed(m)] = trailing[m]
  BY <1>1, MuxApart
<1> HIDE DEF M
<1>3. /\ DOMAIN R = DOMAIN M \cup DOMAIN recorded
      /\ \A n \in DOMAIN M \cup DOMAIN recorded : R[n] = Of(M, n) \o Of(recorded, n)
  BY <1>2, AppendedIs DEF MapsOK
<1> HIDE DEF R, vs
<1>4. /\ DOMAIN head = DOMAIN R \cup {ContentType}
      /\ \A n \in DOMAIN R : n # ContentType => head[n] = R[n]
  BY <1>1 DEF Put
<1>5. ASSUME NEW n \in DOMAIN recorded \ {ContentType, ContentEncoding}
      PROVE  n \in DOMAIN head /\ head[n] = recorded[n]
  <2>1. n \notin DOMAIN M
    BY <1>1, <1>2, Apart
  <2>2. Of(M, n) = <<>> /\ Of(recorded, n) = recorded[n] /\ Of(recorded, n) \in Seq(Text)
    BY <1>2, <2>1, OfIs DEF MapsOK
  <2>3. <<>> \o recorded[n] = recorded[n]
    BY <2>2
  <2> QED
    BY <1>3, <1>4, <2>2, <2>3
<1>6. ASSUME NEW m \in DOMAIN trailing
      PROVE  Prefixed(m) \in DOMAIN head /\ head[Prefixed(m)] = trailing[m]
  <2>1. /\ Prefixed(m) \notin DOMAIN recorded /\ Prefixed(m) # ContentType
        /\ Prefixed(m) \in DOMAIN M /\ M[Prefixed(m)] = trailing[m]
    <3>1. Prefixed(m) \notin DOMAIN recorded /\ Prefixed(m) # ContentType
      BY Apart
    <3> QED
      BY <1>2, <3>1
  <2>2. /\ Of(M, Prefixed(m)) = trailing[m] /\ Of(M, Prefixed(m)) \in Seq(Text)
        /\ Of(recorded, Prefixed(m)) = <<>>
    BY <1>2, <2>1, OfIs DEF MapsOK
  <2>3. trailing[m] \o <<>> = trailing[m]
    BY <2>2
  <2> QED
    BY <1>3, <1>4, <2>1, <2>2, <2>3
<1>7. \A n \in DOMAIN head :
        n \in {ContentType, ContentEncoding} \cup (DOMAIN recorded \ {ContentType, ContentEncoding}) \cup P
  BY <1>1, <1>2, <1>3, <1>4
<1> QED
  BY <1>5, <1>6, <1>7 DEF HeadIsRecorded

\* An error.
LEMMA ErrorIsRecorded ==
  ASSUME MapsOK, ~Collisions, head = ErrorHeaders
  PROVE  HeadIsRecorded
<1> DEFINE T == Typed("json")
           R == Appended(T, recorded)
           P == {Prefixed(m) : m \in DOMAIN trailing}
<1>1. IsHeaders(T) /\ AllLower(T) /\ DOMAIN T = {ContentType}
  <2>1. ContentType \in Name /\ ContentType.spelt = "lower" /\ <<"json">> \in ValueList
    BY OwnNames, OwnValues
  <2>2. IsHeaders(NoHeaders) /\ AllLower(NoHeaders) /\ DOMAIN NoHeaders = {}
    BY NoHeadersIs DEF AllLower
  <2> DEFINE vs == <<"json">>
  <2>3. T = Put(NoHeaders, ContentType, vs) /\ vs \in ValueList
    BY <2>1 DEF Typed
  <2> HIDE DEF T, vs
  <2>4. /\ IsHeaders(Put(NoHeaders, ContentType, vs)) /\ AllLower(Put(NoHeaders, ContentType, vs))
        /\ DOMAIN Put(NoHeaders, ContentType, vs) = DOMAIN NoHeaders \cup {ContentType}
    BY <2>1, <2>2, <2>3, PutIs
  <2> QED
    BY <2>2, <2>3, <2>4
<1>2. head = mux_trailers(R, trailing)
  BY DEF ErrorHeaders, merge_response_headers
<1> HIDE DEF T
<1>3. /\ IsHeaders(R) /\ AllLower(R)
      /\ DOMAIN R = {ContentType} \cup DOMAIN recorded
      /\ \A n \in DOMAIN T \cup DOMAIN recorded : R[n] = Of(T, n) \o Of(recorded, n)
  <2>1. AllLower(recorded)
    BY DEF MapsOK
  <2> QED
    BY <1>1, <2>1, AppendedIs DEF MapsOK
<1> HIDE DEF R
<1>4. /\ DOMAIN head = DOMAIN R \cup P
      /\ \A n \in DOMAIN R : n.prefix = 0 => head[n] = R[n]
      /\ \A m \in DOMAIN trailing : head[Prefixed(m)] = trailing[m]
  <2> DEFINE M == mux_trailers(R, trailing)
  <2>1. /\ DOMAIN M = DOMAIN R \cup P
        /\ \A n \in DOMAIN R : n.prefix = 0 => M[n] = R[n]
        /\ \A m \in DOMAIN trailing : M[Prefixed(m)] = trailing[m]
    BY <1>3, MuxApart
  <2> HIDE DEF M
  <2>2. head = M
    BY <1>2 DEF M
  <2> QED
    BY <2>1, <2>2
<1>5. ASSUME NEW n \in DOMAIN recorded \ {ContentType, ContentEncoding}
      PROVE  n \in DOMAIN head /\ head[n] = recorded[n]
  <2>1. n.prefix = 0 /\ n \notin DOMAIN T
    BY <1>1, Apart
  <2>2. Of(T, n) = <<>> /\ Of(recorded, n) = recorded[n] /\ Of(recorded, n) \in Seq(Text)
    BY <1>1, <2>1, OfIs DEF MapsOK
  <2>3. <<>> \o recorded[n] = recorded[n]
    BY <2>2
  <2> QED
    BY <1>3, <1>4, <2>1, <2>2, <2>3
<1>6. ASSUME NEW m \in DOMAIN trailing
      PROVE  Prefixed(m) \in DOMAIN head /\ head[Prefixed(m)] = trailing[m]
  BY <1>4
<1>7. \A n \in DOMAIN head :
        n \in {ContentType, ContentEncoding} \cup (DOMAIN recorded \ {ContentType, ContentEncoding}) \cup P
  BY <1>3, <1>4
<1> QED
  BY <1>5, <1>6, <1>7 DEF HeadIsRecorded

\* Headers arrive as headers and trailers as trailers, under their names and with their
\* values, whatever their number, unless names collide.
THEOREM Arrives == Spec => []MetadataArrives
<1>1. Sound /\ AnswerIs /\ GotIs => MetadataArrives
  <2> DEFINE Special == {ContentType, ContentEncoding}
             own == DOMAIN recorded \ Special
             Reads(vs) == call.bridge = "hyper" \/ Readable(vs) # {}
             Back == {Lower(n) : n \in {m \in DOMAIN trailing : Reads(trailing[m])}}
  <2>1. ASSUME AnswerIs, GotIs, Answered, ~Unary PROVE got.trailers = trailing
    BY <2>1 DEF AnswerIs, GotIs, Answered
  <2>2. ASSUME Sound, AnswerIs, GotIs, Answered, Unary, ~Collisions
        PROVE  /\ {n \in DOMAIN got.headers : n \notin Special} = {n \in own : Reads(recorded[n])}
               /\ \A n \in own \cap DOMAIN got.headers : got.headers[n] = Kept(recorded[n])
               /\ \A n \in DOMAIN trailing :
                     Lower(n) \in DOMAIN got.trailers => got.trailers[Lower(n)] = Kept(trailing[n])
               /\ DOMAIN got.trailers = Back
    <3>1. MapsOK
      BY <2>2, MapsAre DEF Sound
    <3>2. HeadIsRecorded
      <4>1. CASE outcome.kind = "ok"
        BY <2>2, <3>1, <4>1, OkIsRecorded DEF AnswerIs
      <4>2. CASE outcome.kind = "err"
        BY <2>2, <3>1, <4>2, ErrorIsRecorded DEF AnswerIs
      <4> QED
        BY <2>2, <4>1, <4>2 DEF Answered
    <3> DEFINE all == Received
               H == got.headers
               T == got.trailers
    <3>3. H = HeadersOf(all) /\ T = demux_trailers(all).trailers
      BY <2>2 DEF GotIs, Answered
    <3>4. /\ IsHeaders(all) /\ AllLower(all)
          /\ DOMAIN all = {m \in DOMAIN head : Reads(head[m])}
          /\ \A n \in DOMAIN all : all[n] = Kept(head[n])
      BY <3>1, ReceivedIs DEF MapsOK
    <3> HIDE DEF all
    <3>5. /\ DOMAIN H = {m \in DOMAIN all : m.prefix = 0}
          /\ \A n \in DOMAIN H : H[n] = all[n]
          /\ DOMAIN T = {Unprefixed(k) : k \in {m \in DOMAIN all : m.prefix > 0}}
          /\ \A n \in DOMAIN T : T[n] = all[Prefixed(n)]
      BY <3>3, <3>4, DemuxIs
    <3> HIDE DEF H, T, Reads, Special
    <3>6. /\ \A n \in own : n.prefix = 0
          /\ \A n \in Special : n.prefix = 0
          /\ \A m \in DOMAIN trailing : Prefixed(m).prefix > 0
      BY <2>2, <3>1, Apart, OwnNames DEF Special
    <3>7. /\ \A n \in DOMAIN head : n \in Special \cup own \cup {Prefixed(m) : m \in DOMAIN trailing}
          /\ \A n \in own : n \in DOMAIN head /\ head[n] = recorded[n]
          /\ \A m \in DOMAIN trailing : Prefixed(m) \in DOMAIN head /\ head[Prefixed(m)] = trailing[m]
      BY <3>2, Zenon DEF HeadIsRecorded, Special
    <3>8. \A m \in DOMAIN trailing :
            /\ Unprefixed(Prefixed(m)) = Lower(m) /\ Prefixed(Lower(m)) = Prefixed(m)
      BY <3>1, Prefixing DEF MapsOK, IsHeaders
    <3>9. \A n \in DOMAIN head : n.prefix = 0 => n \in Special \cup own
      BY <3>6, <3>7
    <3>10. \A n \in DOMAIN head : n.prefix > 0 => \E m \in DOMAIN trailing : n = Prefixed(m)
      BY <3>6, <3>7
    <3> HIDE DEF own
    <3>11. ASSUME NEW n
           PROVE  n \in DOMAIN H /\ n \notin Special <=> n \in own /\ n \notin Special /\ Reads(recorded[n])
      BY <3>4, <3>5, <3>6, <3>7, <3>9
    <3>12. \A n \in own \cap DOMAIN H : H[n] = Kept(recorded[n])
      BY <3>4, <3>5, <3>7
    <3>13. ASSUME NEW m \in DOMAIN trailing
           PROVE  /\ Prefixed(m) \in DOMAIN all <=> Reads(trailing[m])
                  /\ Prefixed(m) \in DOMAIN all => all[Prefixed(m)] = Kept(trailing[m])
      BY <3>4, <3>7
    <3>14. ASSUME NEW k \in DOMAIN T
           PROVE  \E m \in DOMAIN trailing :
                     k = Lower(m) /\ Prefixed(k) = Prefixed(m) /\ Prefixed(m) \in DOMAIN all
      <4>1. PICK n \in DOMAIN all : n.prefix > 0 /\ k = Unprefixed(n)
        BY <3>5
      <4>2. PICK m \in DOMAIN trailing : n = Prefixed(m)
        BY <3>4, <3>10, <4>1
      <4> QED
        BY <3>8, <4>1, <4>2
    <3>15. ASSUME NEW m \in DOMAIN trailing, Reads(trailing[m])
           PROVE  Lower(m) \in DOMAIN T
      <4>1. Prefixed(m) \in DOMAIN all /\ Prefixed(m).prefix > 0
        BY <3>6, <3>13, <3>15
      <4>2. Unprefixed(Prefixed(m)) \in DOMAIN T
        BY <3>5, <4>1
      <4> QED
        BY <3>8, <4>2
    <3>16. ASSUME NEW m \in DOMAIN trailing, Lower(m) \in DOMAIN T
           PROVE  T[Lower(m)] = Kept(trailing[m])
      <4>1. Prefixed(m) \in DOMAIN all
        BY <3>8, <3>14, <3>16
      <4>2. T[Lower(m)] = all[Prefixed(m)]
        BY <3>5, <3>8, <3>16
      <4> QED
        BY <3>13, <4>1, <4>2
    <3>17. DOMAIN T = Back
      <4>1. \A k \in DOMAIN T : k \in Back
        BY <3>13, <3>14
      <4>2. \A k \in Back : k \in DOMAIN T
        BY <3>15
      <4> QED
        BY <4>1, <4>2
    <3>18. {n \in DOMAIN H : n \notin Special} = {n \in own : Reads(recorded[n])}
      <4>1. \A n \in own : n \notin Special
        BY DEF own
      <4> QED
        BY <3>11, <4>1
    <3> QED
      BY <3>12, <3>16, <3>17, <3>18 DEF H, T
  <2> QED
    BY <2>1, <2>2, Zenon DEF MetadataArrives
<1> QED
  BY <1>1, WellTyped, AnswerIsCorrect, GotIsCorrect, PTL

-----------------------------------------------------------------------------
(* The details of an error.                                                 *)

\* What is told of details goes by the entries of the answer: they are those of the
\* error's details, or the ones another implementation has sent.
EntriesAre ==
  /\ outcome.kind = "err" =>
       outcome.details \in call.errors /\ tail.entries = wire_details(outcome.details)
  /\ outcome.kind = "foreign" =>
       outcome.entries \in call.foreign /\ tail.entries = outcome.entries
  /\ outcome.kind = "ok" => tail.entries = <<>>
  /\ pc = "answered" \/ got.kind = "answer" => outcome.kind \in {"ok", "err", "foreign"}
  /\ got.kind = "answer" => got.details = parse_wire_details(tail.entries)

LEMMA EntriesAreCorrect == Spec => []EntriesAre
<1>1. Init => EntriesAre
  BY DEF Init, EntriesAre, Nothing
<1>2. Progress /\ EntriesAre /\ [Next]_vars => EntriesAre'
  <2> SUFFICES ASSUME Progress, EntriesAre, [Next]_vars PROVE EntriesAre'
    OBVIOUS
  <2>1. call' = call
    BY StepKeepsCall
  <2>2. CASE UNCHANGED <<outcome, tail>> /\ pc' # "answered" /\ got'.kind # "answer"
    <3>1. outcome' = outcome /\ tail' = tail
      BY <2>2
    <3> QED
      BY <2>1, <2>2, <3>1 DEF EntriesAre
  <2>3. CASE UNCHANGED <<outcome, tail, got>> /\ (pc' = "answered" => pc = "answered")
    <3>1. outcome' = outcome /\ tail' = tail /\ got' = got
      BY <2>3
    <3> QED
      BY <2>1, <2>3, <3>1 DEF EntriesAre
  <2>4. ASSUME NEW big \in BOOLEAN, HandlerOk(big) PROVE EntriesAre'
    <3>1. got' = Nothing
      BY <2>4 DEF HandlerOk, Progress
    <3>2. outcome'.kind = "ok" /\ tail'.entries = <<>>
      <4>1. outcome' = [kind |-> "ok", gzip |-> Unary /\ big /\ call.gzip]
        BY <2>4, Zenon DEF HandlerOk
      <4>2. tail' = NoTail \/ tail' = [NoTail EXCEPT !.metadata = trailing]
        BY <2>4 DEF HandlerOk
      <4>3. outcome'.kind = "ok"
        <5> DEFINE gz == Unary /\ big /\ call.gzip
        <5>1. outcome' = [kind |-> "ok", gzip |-> gz]
          BY <4>1
        <5> HIDE DEF gz
        <5> QED
          BY <5>1
      <4> QED
        BY <4>2, <4>3 DEF NoTail
    <3> QED
      BY <3>1, <3>2 DEF EntriesAre, Nothing
  <2>5. ASSUME NEW d \in call.errors, HandlerError(d) PROVE EntriesAre'
    <3>1. got' = Nothing
      BY <2>5 DEF HandlerError, Progress
    <3>2. outcome'.kind = "err" /\ outcome'.details = d /\ tail'.entries = wire_details(d)
      BY <2>5 DEF HandlerError
    <3>3. wire_details(outcome.details)' = wire_details(d)
      BY <3>2, Zenon DEF wire_details
    <3> QED
      BY <2>1, <3>1, <3>2, <3>3 DEF EntriesAre, Nothing
  <2>6. ASSUME NEW e \in call.foreign, ForeignError(e) PROVE EntriesAre'
    <3>1. got' = Nothing
      BY <2>6 DEF ForeignError, Progress
    <3>2. outcome'.kind = "foreign" /\ outcome'.entries = e /\ tail'.entries = e
      BY <2>6 DEF ForeignError, NoTail
    <3> QED
      BY <2>1, <3>1, <3>2 DEF EntriesAre, Nothing
  <2>7. CASE Receive
    <3>1. outcome' = outcome /\ tail' = tail /\ pc = "answered" /\ pc' # "answered"
      BY <2>7 DEF Receive, answerVars
    <3>2. got'.details = parse_wire_details(tail.entries)
      BY <2>7 DEF Receive
    <3> QED
      BY <2>1, <3>1, <3>2 DEF EntriesAre
  <2>8. CASE Intercept \/ TransportFails
    BY <2>2, <2>8 DEF Intercept, TransportFails, answerVars, Progress, Nothing, Refused
  <2>9. CASE UNCHANGED vars \/ Transmit \/ Observe
             \/ (\E n \in HeaderNames, v \in Values : set_header(n, v))
             \/ (\E n \in TrailerNames, v \in Values : set_trailer(n, v))
    BY <2>3, <2>9 DEF Transmit, Observe, set_header, set_trailer, vars, answerVars
  <2> QED
    BY <2>4, <2>5, <2>6, <2>7, <2>8, <2>9 DEF Next
<1> QED
  BY <1>1, <1>2, WellTyped, PTL DEF Spec, Sound

\* However many details an error has, and whatever their bytes, they arrive in order,
\* except those without type or value, in well-formed base64; of another
\* implementation's error every detail in well-formed base64 arrives as its bytes.
THEOREM DetailsAreTold == Spec => []DetailsArrive
<1>1. TypeOK /\ EntriesAre => DetailsArrive
  <2> SUFFICES ASSUME TypeOK, EntriesAre, got.kind = "answer"
               PROVE  DetailsArrive
    BY DEF DetailsArrive
  <2>1. /\ call \in Calls
        /\ got.details = parse_wire_details(tail.entries)
        /\ outcome.kind \in {"ok", "err", "foreign"}
    BY DEF TypeOK, EntriesAre
  <2>2. ASSUME outcome.kind = "ok"
        PROVE  got.details = <<>>
    <3>1. tail.entries = <<>>
      BY <2>2 DEF EntriesAre
    <3> QED
      BY <2>1, <3>1, NothingRead
  <2>3. ASSUME outcome.kind = "err"
        PROVE  LET given == outcome.details IN
                 /\ got.details = Only(given, {i \in 1..Len(given) : given[i].type # NoType /\ given[i].value # <<>>})
                 /\ \A i \in 1..Len(given) : IsBase64Of(tail.entries[i].text, given[i].value)
    <3> DEFINE given == outcome.details
    <3>1. given \in call.errors /\ tail.entries = wire_details(given)
      BY <2>3 DEF EntriesAre
    <3>2. given \in Seq([type : Text, value : Seq(Byte)])
      BY <2>1, <3>1, MetadataAssumption, Zenon
    <3> HIDE DEF given
    <3>3. got.details = Only(given, {i \in 1..Len(given) : given[i].type # NoType /\ given[i].value # <<>>})
      BY <2>1, <3>1, <3>2, DetailsRoundTrip
    <3>4. \A i \in 1..Len(given) : IsBase64Of(tail.entries[i].text, given[i].value)
      BY <3>1, <3>2, EntriesWritten
    <3> QED
      BY <3>3, <3>4 DEF given
  <2>4. ASSUME outcome.kind = "foreign"
        PROVE  LET taken == Taken(outcome.entries) IN
                 /\ Len(got.details) = Len(taken)
                 /\ \A i \in 1..Len(taken) :
                      /\ got.details[i].type = taken[i].type
                      /\ WellFormedText(taken[i].text) => Carries(Unpadded(taken[i].text), got.details[i].value)
    <3> DEFINE entries == outcome.entries
    <3>1. entries \in call.foreign /\ got.details = parse_wire_details(entries)
      BY <2>1, <2>4 DEF EntriesAre
    <3>2. entries \in Seq([type : Text, text : Seq(Char)])
      BY <2>1, <3>1, MetadataAssumption, Zenon
    <3> HIDE DEF entries
    <3> QED
      BY <3>1, <3>2, EntriesRead DEF entries, Taken
  <2> QED
    BY <2>1, <2>2, <2>3, <2>4, Zenon DEF DetailsArrive
<1> QED
  BY <1>1, EntriesAreCorrect, WellTyped, PTL DEF Sound
=============================================================================
