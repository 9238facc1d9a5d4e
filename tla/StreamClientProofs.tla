------------------------- MODULE StreamClientProofs -------------------------
(***************************************************************************)
(* Proofs about StreamClient for response bodies of any length, cut into   *)
(* chunks of any sizes.                                                    *)
(***************************************************************************)
EXTENDS StreamClient, EncodingProofs

-----------------------------------------------------------------------------
(* The bytes of the wire.                                                   *)

\* Ends has the value its recursion says: it starts at 0 and grows by the bytes of
\* every frame (protocol::frame).
LEMMA EndsAddUp ==
  ASSUME NEW w \in Seq(Frame)
  PROVE  /\ Ends(w)[0] = 0
         /\ \A i \in 0..Len(w) : Ends(w)[i] \in Nat
         /\ \A i \in 1..Len(w) : Ends(w)[i] = Ends(w)[i - 1] + FrameBytes(w[i])
<1>1. \A i \in 1..Len(w) : FrameBytes(w[i]) \in Nat
  <2>1. \A f \in Frame : FrameBytes(f) \in Nat
    BY DEF FrameBytes, HeaderBytes, Frame
  <2> QED
    BY <2>1
<1>2. PICK n \in Nat : n = Len(w)
  OBVIOUS
<1> DEFINE f == [i \in 1..n |-> FrameBytes(w[i])]
<1>3. PICK e \in [0..n -> Nat] : e[0] = 0 /\ \A i \in 1..n : e[i] = e[i - 1] + FrameBytes(w[i])
  <2>1. \A i \in 1..n : f[i] = FrameBytes(w[i]) /\ f[i] \in Nat
    BY <1>1, <1>2
  <2> HIDE DEF f
  <2>2. PICK e \in [0..n -> Nat] : e[0] = 0 /\ \A i \in 1..n : e[i] = e[i - 1] + f[i]
    BY <2>1, RunningTotals
  <2> QED
    BY <2>1, <2>2
<1>4. e = [i \in 0..n |-> IF i = 0 THEN 0 ELSE e[i - 1] + FrameBytes(w[i])]
  BY <1>3
<1>5. Ends(w) = [i \in 0..n |-> IF i = 0 THEN 0 ELSE Ends(w)[i - 1] + FrameBytes(w[i])]
  <2>1. \E d : d = [i \in 0..n |-> IF i = 0 THEN 0 ELSE d[i - 1] + FrameBytes(w[i])]
    BY <1>4, Zenon
  <2>2. Ends(w) = CHOOSE d : d = [i \in 0..n |-> IF i = 0 THEN 0 ELSE d[i - 1] + FrameBytes(w[i])]
    BY <1>2, Zenon DEF Ends
  <2> QED
    BY <2>1, <2>2, Zenon
<1>6. /\ Ends(w)[0] = 0
      /\ \A i \in 1..n : Ends(w)[i] = Ends(w)[i - 1] + FrameBytes(w[i])
  <2> DEFINE E == Ends(w)
  <2>1. E = [i \in 0..n |-> IF i = 0 THEN 0 ELSE E[i - 1] + FrameBytes(w[i])]
    BY <1>5, Zenon
  <2> HIDE DEF E
  <2>2. E[0] = 0 /\ \A i \in 1..n : E[i] = E[i - 1] + FrameBytes(w[i])
    BY <2>1
  <2> QED
    BY <2>2, Zenon DEF E
<1>7. \A i \in 0..n : Ends(w)[i] \in Nat
  <2> DEFINE T == {i \in Nat : i <= n => Ends(w)[i] \in Nat}
  <2>1. 0 \in T
    BY <1>6
  <2>2. \A i \in Nat : i \in T => i + 1 \in T
    <3> SUFFICES ASSUME NEW i \in Nat, i + 1 <= n, Ends(w)[i] \in Nat
                 PROVE  Ends(w)[i + 1] \in Nat
      OBVIOUS
    <3>1. i + 1 \in 1..n /\ FrameBytes(w[i + 1]) \in Nat
      BY <1>1, <1>2
    <3>2. Ends(w)[i + 1] = Ends(w)[i] + FrameBytes(w[i + 1])
      BY <1>6, <3>1
    <3> QED
      BY <3>1, <3>2
  <2>3. \A i \in Nat : i \in T
    <3> HIDE DEF T
    <3> QED
      BY <2>1, <2>2, InductionRule
  <2> QED
    BY <2>3
<1> QED
  BY <1>2, <1>6, <1>7

-----------------------------------------------------------------------------
(* Types.                                                                   *)

\* What recv returns: the number of a frame, or an error.
Result == [kind : {"some"}, frame : Nat] \cup [kind : {"none"}, err : Error]

\* Every verdict of an END frame is decoded to a code of the protocol
\* (decode_end_stream).
LEMMA DecodedIsCode ==
  ASSUME NEW v \in Verdict \cup {Nameless}
  PROVE  decode_end_stream(v) \in Code
<1>1. 0 \in Code /\ 2 \in Code
  BY DEF Code
<1>2. \A c \in Code : code_from_string(CodeNames[c + 1]) \in Code
  BY NameRoundTrip DEF code_to_string
<1>3. CASE v \in CodeName
  BY <1>1, <1>2, <1>3 DEF CodeName, decode_end_stream
<1>4. CASE v \in {NoError, Nameless}
  BY <1>1, <1>4 DEF decode_end_stream, NoError, Nameless
<1> QED
  BY <1>3, <1>4 DEF Verdict

\* The errors recv makes up are errors, and the outcome of an END frame is one as
\* well unless it is a success.
LEMMA ErrorsAre ==
  /\ NoErr \in Error
  /\ \A cause \in {"gzip", "link", "truncated", "missing"} : Local(cause) \in Error
  /\ \A c \in Code \ {0} : Server(c) \in Error
BY DEF Error, NoErr, Local, Server

\* The results a recv can return.
LEMMA ResultsAre ==
  /\ \A i \in Nat : Some(i) \in Result
  /\ \A e \in Error : None(e) \in Result
BY DEF Some, None, Result

\* The frame at the start of the buffer is a frame, and its END metadata too
\* counts at least the header (protocol::frame).
LEMMA FrameAtNext ==
  ASSUME wire \in Wires, next \in 1..(Len(wire) + 1), next <= Len(wire)
  PROVE  /\ wire[next] \in Frame
         /\ FrameBytes(wire[next]) \in Nat
         /\ next \in Nat
         /\ decode_end_stream(wire[next].verdict) \in Code
<1>1. wire \in Seq(Frame)
  BY StreamClientAssumption
<1>2. wire[next] \in Frame
  BY <1>1
<1>3. \A f \in Frame : FrameBytes(f) \in Nat /\ f.verdict \in Verdict \cup {Nameless}
  BY DEF Frame, FrameBytes, HeaderBytes
<1> QED
  BY <1>2, <1>3, DecodedIsCode

\* No step takes bytes the buffer does not have, or makes up another error.
LEMMA TypeStep ==
  ASSUME TypeOK, [Next]_vars
  PROVE  TypeOK'
<1> USE DEF TypeOK
<1>1. CASE UNCHANGED vars
  BY <1>1 DEF vars, linkVars, parseVars
<1>2. ASSUME NEW n \in ChunkSizes, Deliver(n)
      PROVE  TypeOK'
  BY <1>2, StreamClientAssumption DEF Deliver, parseVars
<1>3. CASE BodyEof \/ BodyError
  <2>1. pipe' \in Seq(Nat)
    BY <1>3 DEF BodyEof, BodyError, Broken
  <2> QED
    BY <1>3, <2>1 DEF BodyEof, BodyError, parseVars
<1>4. CASE Recv \/ CancelRecv \/ Starve
  BY <1>4 DEF Recv, CancelRecv, Starve, linkVars, parseVars
<1>5. CASE ReturnEnded
  <2>1. out' \in Seq(Result) /\ cpc' = "idle"
    BY <1>5, ResultsAre DEF ReturnEnded, Return, Result
  <2> QED
    BY <1>5, <2>1 DEF ReturnEnded, Result, linkVars, parseVars
<1>6. CASE ParseFrame
  <2> DEFINE f == wire[next]
  <2>1. next <= Len(wire) /\ acc >= FrameBytes(f)
    BY <1>6 DEF ParseFrame, HasFrame, FrameArrived
  <2>2. f \in Frame /\ FrameBytes(f) \in Nat /\ next \in Nat /\ decode_end_stream(f.verdict) \in Code
    BY <2>1, FrameAtNext
  <2>3. acc' \in Nat /\ next' \in 1..(Len(wire') + 1)
    BY <1>6, <2>1, <2>2 DEF ParseFrame
  <2>4. err' \in Error /\ ended' \in BOOLEAN /\ trailers' \in Nat
    <3> DEFINE code == decode_end_stream(f.verdict)
    <3>1. \/ err' = Local("gzip") /\ UNCHANGED <<ended, trailers>>
          \/ err' = err /\ UNCHANGED <<ended, trailers>>
          \/ /\ err' = IF code # 0 THEN Server(code) ELSE err
             /\ ended' = TRUE /\ trailers' \in {next, trailers, 0}
      BY <1>6 DEF ParseFrame, RefuseCorrupt
    <3>2. code \in Code
      BY <2>2
    <3> HIDE DEF f, code
    <3>3. err' \in Error
      BY <3>1, <3>2, ErrorsAre
    <3>4. trailers' \in Nat
      BY <2>2, <3>1
    <3>5. ended' \in BOOLEAN
      BY <3>1, Zenon
    <3> QED
      BY <3>3, <3>4, <3>5
  <2>5. out' \in Seq(Result) /\ cpc' = "idle"
    <3>1. \E r \in Result : out' = Append(out, r) /\ cpc' = "idle"
      BY <1>6, <2>2, <2>4, ResultsAre DEF ParseFrame, RefuseCorrupt, Return
    <3> QED
      BY <3>1 DEF Result
  <2> QED
    BY <1>6, <2>3, <2>4, <2>5 DEF ParseFrame, Result, linkVars
<1>7. CASE TakeChunk
  <2>1. Head(pipe) \in Nat /\ Tail(pipe) \in Seq(Nat)
    BY <1>7 DEF TakeChunk
  <2> QED
    BY <1>7, <2>1 DEF TakeChunk, linkVars, parseVars
<1>8. CASE TakeError \/ TakeEof
  <2>1. err' \in Error
    BY <1>8, ErrorsAre DEF TakeError, TakeEof, EofError
  <2>2. out' = Append(out, None(err')) /\ cpc' = "idle"
    BY <1>8 DEF TakeError, TakeEof, Return
  <2>3. out' \in Seq(Result)
    BY <2>1, <2>2, ResultsAre DEF Result
  <2>4. pipe' \in Seq(Nat)
    <3>1. CASE TakeError
      BY <3>1 DEF TakeError
    <3>2. CASE TakeEof
      BY <3>2 DEF TakeEof
    <3> QED
      BY <1>8, <3>1, <3>2
  <2> QED
    BY <1>8, <2>1, <2>2, <2>3, <2>4 DEF TakeError, TakeEof, Result, linkVars
<1> QED
  BY <1>1, <1>2, <1>3, <1>4, <1>5, <1>6, <1>7, <1>8 DEF Next, RecvStep

\* The buffer never gives out bytes it does not have, and the stream holds only
\* errors of the protocol, however the body is cut.
THEOREM TypeCorrect == Spec => []TypeOK
<1>1. Init => TypeOK
  <2> SUFFICES ASSUME Init PROVE TypeOK
    OBVIOUS
  <2>1. wire \in Seq(Frame)
    BY StreamClientAssumption DEF Init
  <2>2. next \in 1..(Len(wire) + 1)
    BY <2>1 DEF Init
  <2>3. pipe \in Seq(Nat) /\ out \in Seq([kind : {"some"}, frame : Nat] \cup [kind : {"none"}, err : Error])
    BY DEF Init
  <2> QED
    BY <2>2, <2>3, ErrorsAre DEF Init, TypeOK
<1>2. TypeOK /\ [Next]_vars => TypeOK'
  BY TypeStep
<1> QED
  BY <1>1, <1>2, PTL DEF Spec

-----------------------------------------------------------------------------
(* What a stream remembers.                                                 *)

\* An error, once there, is replaced by an error only: neither a clean END frame
\* behind it nor the end of the body clears last_error.
THEOREM ErrorKept == Spec => ErrorStays
<1>1. TypeOK /\ [Next]_vars => [err # NoErr => err' # NoErr]_vars
  <2> SUFFICES ASSUME TypeOK, Next, err # NoErr
               PROVE  err' # NoErr
    OBVIOUS
  <2>1. /\ \A cause \in {"gzip", "link", "truncated", "missing"} : Local(cause) # NoErr
        /\ \A c \in Code \ {0} : Server(c) # NoErr
    BY DEF Local, Server, NoErr
  <2>2. CASE ParseFrame
    <3>1. decode_end_stream(wire[next].verdict) \in Code
      BY <2>2, FrameAtNext DEF ParseFrame, HasFrame, TypeOK
    <3> QED
      BY <2>1, <2>2, <3>1 DEF ParseFrame, RefuseCorrupt
  <2>3. CASE TakeError \/ TakeEof
    BY <2>1, <2>3 DEF TakeError, TakeEof, EofError
  <2>4. CASE err' = err
    BY <2>4
  <2> QED
    BY <2>2, <2>3, <2>4
    DEF Next, RecvStep, Deliver, BodyEof, BodyError, Recv, CancelRecv, ReturnEnded, Starve,
        TakeChunk, parseVars
<1> QED
  BY <1>1, TypeCorrect, PTL DEF Spec, ErrorStays

\* The strengthening: a HyperStream that has its END frame waits for nothing.
Settled == bridge = "hyper" /\ ended => cpc # "await"

\* A HyperStream only repeats its outcome: `recv` looks at `ended` before it
\* looks at the buffer, and no waiting recv is left when the END frame is read.
THEOREM HyperStays == Spec => HyperOutcomeStays
<1>1. Init => Settled
  BY DEF Init, Settled
<1>2. TypeOK /\ Settled /\ [Next]_vars => Settled'
  BY DEF TypeOK, Settled, Next, RecvStep, Deliver, BodyEof, BodyError, Recv, CancelRecv, ReturnEnded,
         ParseFrame, RefuseCorrupt, Return, Starve, StopsHere, TakeChunk, TakeError, TakeEof,
         vars, linkVars, parseVars
<1>3. TypeOK /\ Settled /\ [Next]_vars =>
        [bridge = "hyper" /\ ended =>
           /\ UNCHANGED <<err, trailers>>
           /\ out' # out => Last(out') = None(err)]_vars
  <2> SUFFICES ASSUME TypeOK, Settled, Next, bridge = "hyper", ended
               PROVE  /\ UNCHANGED <<err, trailers>>
                      /\ out' # out => Last(out') = None(err)
    OBVIOUS
  <2>1. StopsHere /\ cpc # "await"
    BY DEF StopsHere, Settled
  <2>2. CASE ReturnEnded
    <3>1. out' = Append(out, None(err)) /\ UNCHANGED <<err, trailers>>
      BY <2>2 DEF ReturnEnded, Return, parseVars
    <3>2. out \in Seq(Result) /\ None(err) \in Result
      BY ResultsAre DEF TypeOK, Result
    <3> QED
      BY <3>1, <3>2 DEF Last
  <2>3. CASE UNCHANGED <<err, trailers, out>>
    BY <2>3
  <2> QED
    BY <2>1, <2>2, <2>3
    DEF Next, RecvStep, Deliver, BodyEof, BodyError, Recv, CancelRecv, ParseFrame, Starve,
        TakeChunk, TakeError, TakeEof, parseVars
<1> QED
  BY <1>1, <1>2, <1>3, TypeCorrect, PTL DEF Spec, HyperOutcomeStays

-----------------------------------------------------------------------------
(* What the caller has been given.                                          *)

\* Where a sequence of results has its Nones.
Nones(s) == {i \in 1..Len(s) : s[i].kind = "none"}

\* Min picks the least number of a set that has one.
LEMMA MinIs ==
  ASSUME NEW S \in SUBSET Nat, NEW m \in S, \A y \in S : m <= y
  PROVE  Min(S) = m
<1>1. Min(S) \in S /\ \A y \in S : Min(S) <= y
  BY DEF Min
<1>2. Min(S) \in Nat /\ m \in Nat
  BY <1>1
<1>3. Min(S) <= m /\ m <= Min(S)
  BY <1>1
<1> QED
  BY <1>2, <1>3

\* The first None of a sequence of results, when there is one.
LEMMA FirstOfNones ==
  ASSUME NEW s \in Seq(Result), Nones(s) # {}
  PROVE  /\ Min(Nones(s)) \in 1..Len(s)
         /\ s[Min(Nones(s))].kind = "none"
         /\ \A k \in 1..(Min(Nones(s)) - 1) : s[k].kind # "none"
<1>1. Nones(s) \in SUBSET Nat
  BY DEF Nones
<1>2. PICK m \in Nones(s) : \A y \in Nones(s) : m <= y
  BY <1>1, LeastNumber
<1>3. Min(Nones(s)) = m
  BY <1>1, <1>2, MinIs
<1>4. m \in 1..Len(s) /\ s[m].kind = "none"
  BY <1>2 DEF Nones
<1>5. \A k \in 1..(m - 1) : s[k].kind # "none"
  BY <1>2, <1>4 DEF Nones
<1> QED
  BY <1>3, <1>4, <1>5

\* One more result: the first None stays the first, and a None behind messages only
\* becomes it.
LEMMA NonesGrow ==
  ASSUME NEW s \in Seq(Result), NEW r \in Result
  PROVE  /\ Len(Append(s, r)) = Len(s) + 1
         /\ Append(s, r)[Len(s) + 1] = r
         /\ \A k \in 1..Len(s) : Append(s, r)[k] = s[k]
         /\ Nones(s) # {} =>
              Nones(Append(s, r)) # {} /\ Min(Nones(Append(s, r))) = Min(Nones(s))
         /\ Nones(s) = {} /\ r.kind # "none" => Nones(Append(s, r)) = {}
         /\ Nones(s) = {} /\ r.kind = "none" =>
              Nones(Append(s, r)) # {} /\ Min(Nones(Append(s, r))) = Len(s) + 1
<1> DEFINE S == Append(s, r)
<1>1. /\ Len(S) = Len(s) + 1 /\ Len(s) \in Nat
      /\ S[Len(s) + 1] = r
      /\ \A k \in 1..Len(s) : S[k] = s[k]
  OBVIOUS
<1> HIDE DEF S
<1>2. Nones(S) = Nones(s) \cup (IF r.kind = "none" THEN {Len(s) + 1} ELSE {})
  BY <1>1 DEF Nones
<1>3. Nones(S) \in SUBSET Nat
  BY DEF Nones
<1>4. ASSUME Nones(s) # {}
      PROVE  Nones(S) # {} /\ Min(Nones(S)) = Min(Nones(s))
  <2>1. Nones(s) \in SUBSET (1..Len(s))
    BY DEF Nones
  <2>2. PICK m \in Nones(s) : \A y \in Nones(s) : m <= y
    BY <1>4, <2>1, LeastNumber
  <2>3. m \in Nones(S) /\ \A y \in Nones(S) : m <= y
    BY <1>1, <1>2, <2>1, <2>2
  <2>4. Min(Nones(S)) = m
    BY <1>3, <2>3, MinIs
  <2>5. Min(Nones(s)) = m
    BY <2>1, <2>2, MinIs
  <2> QED
    BY <1>4, <1>2, <2>4, <2>5
<1>5. ASSUME Nones(s) = {}, r.kind = "none"
      PROVE  Nones(S) # {} /\ Min(Nones(S)) = Len(s) + 1
  <2>1. Nones(S) = {Len(s) + 1}
    BY <1>2, <1>5
  <2> QED
    BY <1>1, <2>1, MinIs
<1> QED
  BY <1>1, <1>2, <1>4, <1>5 DEF S

\* What Messages, Finished and FirstNone say of the results.
LEMMA MessagesAre ==
  ASSUME TypeOK
  PROVE  /\ Finished <=> Nones(out) # {}
         /\ Finished =>
              /\ Messages + 1 \in 1..Len(out) /\ Messages \in Nat
              /\ FirstNone = out[Messages + 1].err
              /\ out[Messages + 1].kind = "none"
              /\ Messages = Min(Nones(out)) - 1
              /\ \A k \in 1..Messages : out[k].kind # "none"
         /\ ~Finished => Messages = Len(out)
<1>1. Finished <=> Nones(out) # {}
  BY DEF Finished, Nones
<1>2. Finished => Messages = Min(Nones(out)) - 1
  BY <1>1 DEF Messages, SelectInSeq, Nones
<1>3. out \in Seq(Result)
  BY DEF TypeOK, Result
<1>4. Finished => /\ Min(Nones(out)) \in 1..Len(out)
                  /\ out[Min(Nones(out))].kind = "none"
                  /\ \A k \in 1..(Min(Nones(out)) - 1) : out[k].kind # "none"
  BY <1>1, <1>3, FirstOfNones
<1>5. Finished => Messages + 1 = Min(Nones(out)) /\ Messages \in Nat
  BY <1>2, <1>4
<1>6. ~Finished => Messages = Len(out)
  BY Zenon DEF Messages
<1> QED
  BY <1>1, <1>2, <1>4, <1>5, <1>6 DEF FirstNone

\* A recv returns r.
LEMMA Returned ==
  ASSUME TypeOK, NEW r \in Result, out' = Append(out, r)
  PROVE  /\ Finished => Finished' /\ Messages' = Messages /\ FirstNone' = FirstNone
         /\ ~Finished /\ r.kind # "none" => ~Finished' /\ Messages' = Messages + 1
         /\ ~Finished /\ r.kind = "none" => Finished' /\ Messages' = Messages /\ FirstNone' = r.err
<1>1. out \in Seq(Result)
  BY DEF TypeOK, Result
<1>2. Finished' <=> Nones(out') # {}
  BY DEF Finished, Nones
<1>3. /\ Finished' => Messages' = Min(Nones(out')) - 1
      /\ ~Finished' => Messages' = Len(out')
  BY <1>2 DEF Messages, SelectInSeq, Nones
<1>4. FirstNone' = out'[Messages' + 1].err
  BY DEF FirstNone
<1>5. CASE Finished
  <2>1. Finished' /\ Messages' = Messages
    BY <1>1, <1>2, <1>3, <1>5, NonesGrow, MessagesAre
  <2>2. out'[Messages + 1] = out[Messages + 1]
    BY <1>1, <1>5, NonesGrow, MessagesAre
  <2> QED
    BY <1>4, <1>5, <2>1, <2>2, MessagesAre
<1>6. CASE ~Finished /\ r.kind # "none"
  BY <1>1, <1>2, <1>3, <1>6, NonesGrow, MessagesAre
<1>7. CASE ~Finished /\ r.kind = "none"
  <2>1. Finished' /\ Messages' = Len(out) /\ Messages = Len(out)
    BY <1>1, <1>2, <1>3, <1>7, NonesGrow, MessagesAre
  <2> QED
    BY <1>1, <1>4, <1>7, <2>1, NonesGrow
<1> QED
  BY <1>5, <1>6, <1>7

\* A step that returns nothing changes nothing of what the caller has.
LEMMA NothingReturned ==
  ASSUME out' = out
  PROVE  (Finished' <=> Finished) /\ Messages' = Messages /\ FirstNone' = FirstNone
BY DEF Finished, Messages, FirstNone, SelectInSeq

-----------------------------------------------------------------------------
(* The order of the messages.                                               *)

\* The strengthening: until the first None the stream has parsed exactly what it
\* has returned, all of it messages, and has neither END frame nor error; whatever
\* it returns at any time are frames it has parsed.
OrderInv ==
  /\ InOrder
  /\ \A k \in 1..Len(out) : out[k].kind = "some" => out[k].frame < next
  /\ ~Finished =>
       /\ next = Len(out) + 1
       /\ ~ended /\ err = NoErr
       /\ \A k \in 1..Len(out) : out[k].kind = "some" /\ out[k].frame = k /\ Readable(wire[k])

\* A result is a message or an error (the type of recv).
LEMMA KindOfResult ==
  ASSUME TypeOK, NEW k \in 1..Len(out)
  PROVE  /\ out[k] \in Result
         /\ out[k].kind \in {"some", "none"}
         /\ out[k].kind = "some" => out[k].frame \in Nat
<1>1. out \in Seq(Result)
  BY DEF TypeOK, Result
<1>2. out[k] \in Result
  BY <1>1
<1> QED
  BY <1>2 DEF Result

\* A step of recv that returns a None: an error without a frame, what it has
\* stored, or the outcome or the error of the frame it parsed.
LEMMA OrderNone ==
  ASSUME TypeOK, OrderInv, NEW e \in Error, out' = Append(out, None(e)),
         next' \in Nat, next <= next', wire' = wire
  PROVE  OrderInv'
<1>1. None(e) \in Result /\ None(e).kind = "none" /\ out \in Seq(Result)
  BY ResultsAre DEF None, TypeOK, Result
<1>2. Finished' /\ Messages' = Messages
  BY <1>1, Returned
<1>3. /\ Len(out') = Len(out) + 1 /\ Len(out) \in Nat
      /\ out'[Len(out) + 1] = None(e)
      /\ \A k \in 1..Len(out) : out'[k] = out[k]
  BY <1>1, NonesGrow
<1>4. \A k \in 1..Len(out') : out'[k].kind = "some" => k \in 1..Len(out) /\ out'[k] = out[k]
  BY <1>1, <1>3
<1>5. Messages \in Nat /\ Messages <= Len(out)
  <2>1. CASE Finished
    BY <1>3, <2>1, MessagesAre
  <2>2. CASE ~Finished
    BY <1>3, <2>2, MessagesAre
  <2> QED
    BY <2>1, <2>2
<1>6. \A k \in 1..Messages : out'[k].frame = k
  BY <1>3, <1>5 DEF OrderInv, InOrder
<1>7. InOrder'
  <2>1. ASSUME NEW j \in 1..Len(out'), NEW k \in 1..Len(out'), j < k,
               out'[j].kind = "some", out'[k].kind = "some"
        PROVE  out'[j].frame < out'[k].frame
    <3>1. /\ j \in 1..Len(out) /\ out'[j] = out[j]
          /\ k \in 1..Len(out) /\ out'[k] = out[k]
      BY <1>4, <2>1
    <3>2. out[j].frame < out[k].frame
      BY <2>1, <3>1 DEF OrderInv, InOrder
    <3> QED
      BY <3>1, <3>2
  <2> QED
    BY <1>2, <1>6, <2>1 DEF InOrder
<1>8. ASSUME NEW k \in 1..Len(out'), out'[k].kind = "some"
      PROVE  out'[k].frame < next'
  <2>1. out[k].frame \in Nat /\ out[k].frame < next /\ out'[k] = out[k]
    BY <1>4, <1>8, KindOfResult DEF OrderInv
  <2>2. next \in Nat
    BY DEF TypeOK
  <2> QED
    BY <2>1, <2>2
<1> QED
  BY <1>2, <1>7, <1>8 DEF OrderInv

\* A step of recv that returns a message: the frame at the start of the buffer.
LEMMA OrderSome ==
  ASSUME TypeOK, OrderInv, out' = Append(out, Some(next)), next' = next + 1,
         UNCHANGED <<wire, ended, err>>, Readable(wire[next])
  PROVE  OrderInv'
<1>1. /\ Some(next) \in Result /\ Some(next).kind = "some" /\ Some(next).frame = next
      /\ out \in Seq(Result) /\ next \in Nat
  BY ResultsAre DEF Some, TypeOK, Result
<1>2. /\ Len(out') = Len(out) + 1 /\ Len(out) \in Nat
      /\ out'[Len(out) + 1] = Some(next)
      /\ \A k \in 1..Len(out) : out'[k] = out[k]
  BY <1>1, NonesGrow
<1>3. \A k \in 1..Len(out') : k \in 1..Len(out) \/ k = Len(out) + 1
  BY <1>2
<1>4. /\ Finished => Finished' /\ Messages' = Messages
      /\ ~Finished => ~Finished' /\ Messages' = Len(out) + 1
  BY <1>1, Returned, MessagesAre
<1>5. ASSUME NEW k \in 1..Len(out), out[k].kind = "some"
      PROVE  out[k].frame \in Nat /\ out[k].frame < next
  BY <1>5, KindOfResult DEF OrderInv
<1>6. \A k \in 1..Len(out') : out'[k].kind = "some" => out'[k].frame < next'
  <2> SUFFICES ASSUME NEW k \in 1..Len(out'), out'[k].kind = "some"
               PROVE  out'[k].frame < next + 1
    OBVIOUS
  <2>1. CASE k \in 1..Len(out)
    BY <1>1, <1>2, <1>5, <2>1
  <2>2. CASE k = Len(out) + 1
    BY <1>1, <1>2, <2>2
  <2> QED
    BY <1>3, <2>1, <2>2
<1>7. ASSUME ~Finished
      PROVE  /\ next' = Len(out') + 1
             /\ ~ended' /\ err' = NoErr
             /\ \A k \in 1..Len(out') :
                   out'[k].kind = "some" /\ out'[k].frame = k /\ Readable(wire'[k])
  <2>1. /\ next = Len(out) + 1 /\ ~ended /\ err = NoErr
        /\ \A k \in 1..Len(out) : out[k].kind = "some" /\ out[k].frame = k /\ Readable(wire[k])
    BY <1>7 DEF OrderInv
  <2>2. ASSUME NEW k \in 1..Len(out')
        PROVE  out'[k].kind = "some" /\ out'[k].frame = k /\ Readable(wire[k])
    <3>1. CASE k \in 1..Len(out)
      BY <1>2, <2>1, <3>1
    <3>2. CASE k = Len(out) + 1
      BY <1>1, <1>2, <2>1, <3>2
    <3> QED
      BY <1>3, <3>1, <3>2
  <2> QED
    BY <1>2, <2>1, <2>2
<1>8. \A k \in 1..Messages' : out'[k].frame = k
  <2>1. CASE Finished
    <3>1. Messages \in Nat /\ Messages <= Len(out)
      BY <1>2, <2>1, MessagesAre
    <3> QED
      BY <1>2, <1>4, <2>1, <3>1 DEF OrderInv, InOrder
  <2>2. CASE ~Finished
    BY <1>2, <1>4, <1>7, <2>2
  <2> QED
    BY <2>1, <2>2
<1>9. ASSUME NEW j \in 1..Len(out'), NEW k \in 1..Len(out'), j < k,
             out'[j].kind = "some", out'[k].kind = "some"
      PROVE  out'[j].frame < out'[k].frame
  <2>1. j \in 1..Len(out) /\ out'[j] = out[j]
    BY <1>2, <1>3, <1>9
  <2>2. CASE k \in 1..Len(out)
    BY <1>2, <1>9, <2>1, <2>2 DEF OrderInv, InOrder
  <2>3. CASE k = Len(out) + 1
    BY <1>1, <1>2, <1>5, <1>9, <2>1, <2>3
  <2> QED
    BY <1>3, <2>2, <2>3
<1>10. InOrder'
  BY <1>8, <1>9 DEF InOrder
<1> QED
  BY <1>4, <1>6, <1>7, <1>10 DEF OrderInv

\* What a step of the client does to what the caller sees.
LEMMA ClientStep ==
  ASSUME TypeOK, Next
  PROVE  /\ bridge' = bridge /\ wire' = wire
         /\ \/ UNCHANGED <<out, next, ended, err>>
            \/ ReturnEnded /\ out' = Append(out, None(err)) /\ UNCHANGED <<next, ended, err>>
            \/ /\ ParseFrame /\ wire[next].gz = "corrupt"
               /\ out' = Append(out, None(Local("gzip"))) /\ next' = next + 1
               /\ err' = Local("gzip") /\ ended' = ended
            \/ /\ ParseFrame /\ wire[next].gz # "corrupt" /\ wire[next].end
               /\ out' = Append(out, None(err')) /\ next' = next + 1
               /\ err' = IF decode_end_stream(wire[next].verdict) # 0
                           THEN Server(decode_end_stream(wire[next].verdict)) ELSE err
            \/ /\ ParseFrame /\ Readable(wire[next])
               /\ out' = Append(out, Some(next)) /\ next' = next + 1
               /\ UNCHANGED <<ended, err>>
            \/ /\ TakeError /\ out' = Append(out, None(Local("link")))
               /\ err' = Local("link") /\ UNCHANGED <<next, ended>>
            \/ /\ TakeEof /\ out' = Append(out, None(EofError))
               /\ err' = EofError /\ UNCHANGED <<next, ended>>
<1>1. CASE ParseFrame
  BY <1>1 DEF ParseFrame, RefuseCorrupt, Return, Readable
<1>2. CASE ReturnEnded
  BY <1>2 DEF ReturnEnded, Return, parseVars
<1>3. CASE TakeError \/ TakeEof
  BY <1>3 DEF TakeError, TakeEof, Return
<1>4. CASE \/ \E n \in ChunkSizes : Deliver(n)
           \/ BodyEof \/ BodyError \/ Recv \/ CancelRecv \/ Starve \/ TakeChunk
  BY <1>4 DEF Deliver, BodyEof, BodyError, Recv, CancelRecv, Starve, TakeChunk, parseVars
<1> QED
  BY <1>1, <1>2, <1>3, <1>4 DEF Next, RecvStep

\* A step that changes what the caller has adds one result.
LEMMA OneResult ==
  ASSUME TypeOK, TypeOK', Next, out' # out
  PROVE  \E r \in Result : out' = Append(out, r)
<1>1. /\ next \in Nat /\ err \in Error /\ err' \in Error
      /\ Local("gzip") \in Error /\ Local("link") \in Error
  BY ErrorsAre DEF TypeOK
<1>2. /\ Some(next) \in Result /\ None(err) \in Result /\ None(err') \in Result
      /\ None(Local("gzip")) \in Result /\ None(Local("link")) \in Result
  BY <1>1, ResultsAre
<1>3. TakeEof => err' = EofError
  BY DEF TakeEof
<1> QED
  BY <1>2, <1>3, ClientStep

\* Every step keeps OrderInv.
LEMMA OrderStep ==
  ASSUME TypeOK, TypeOK', OrderInv, [Next]_vars
  PROVE  OrderInv'
<1>1. CASE UNCHANGED <<wire, out, next, ended, err>>
  BY <1>1, NothingReturned DEF OrderInv, InOrder
<1>2. ASSUME NEW e \in Error, out' = Append(out, None(e)), next' \in {next, next + 1}, wire' = wire
      PROVE  OrderInv'
  <2>1. next' \in Nat /\ next <= next'
    BY <1>2 DEF TypeOK
  <2> QED
    BY <1>2, <2>1, OrderNone
<1>3. /\ err \in Error /\ err' \in Error
      /\ \A cause \in {"gzip", "link"} : Local(cause) \in Error
  BY ErrorsAre DEF TypeOK
<1>4. CASE Next
  BY <1>1, <1>2, <1>3, <1>4, ClientStep, OrderSome
<1>5. CASE UNCHANGED vars
  BY <1>1, <1>5 DEF vars, parseVars
<1> QED
  BY <1>4, <1>5

\* OrderInv holds.
LEMMA OrderInvCorrect == Spec => []OrderInv
<1>1. Init => OrderInv
  BY DEF Init, OrderInv, InOrder, Messages, Finished, SelectInSeq
<1>2. TypeOK /\ TypeOK' /\ OrderInv /\ [Next]_vars => OrderInv'
  BY OrderStep
<1> QED
  BY <1>1, <1>2, TypeCorrect, PTL DEF Spec

\* The caller is given the messages in order, up to the first None without a gap,
\* whatever the chunks, the dropped recvs and the errors.
THEOREM OrderKept == Spec => []InOrder
<1>1. OrderInv => InOrder
  BY DEF OrderInv
<1> QED
  BY <1>1, OrderInvCorrect, PTL

-----------------------------------------------------------------------------
(* The promise.                                                             *)

\* The number of leading messages of the wire exists.
LEMMA LeadIs ==
  ASSUME wire \in Seq(Frame)
  PROVE  /\ Lead \in 0..Len(wire)
         /\ \A i \in 1..Lead : Readable(wire[i])
         /\ Lead < Len(wire) => ~Readable(wire[Lead + 1])
<1> DEFINE IsLead(k) == /\ \A i \in 1..k : Readable(wire[i])
                        /\ k < Len(wire) => ~Readable(wire[k + 1])
           U == {i \in 1..Len(wire) : ~Readable(wire[i])}
<1>1. Len(wire) \in Nat
  OBVIOUS
<1>2. \E k \in 0..Len(wire) : IsLead(k)
  <2>1. CASE U = {}
    <3>1. IsLead(Len(wire)) /\ Len(wire) \in 0..Len(wire)
      BY <1>1, <2>1
    <3> QED
      BY <3>1
  <2>2. CASE U # {}
    <3>1. U \in SUBSET Nat
      OBVIOUS
    <3>2. PICK m \in U : \A y \in U : m <= y
      BY <2>2, <3>1, LeastNumber
    <3>3. m \in 1..Len(wire) /\ ~Readable(wire[m]) /\ \A i \in 1..(m - 1) : Readable(wire[i])
      BY <1>1, <3>2
    <3>4. IsLead(m - 1) /\ m - 1 \in 0..Len(wire)
      BY <1>1, <3>3
    <3> QED
      BY <3>4
  <2> QED
    BY <2>1, <2>2
<1>3. Lead = CHOOSE k \in 0..Len(wire) : IsLead(k)
  BY Zenon DEF Lead
<1> HIDE DEF IsLead
<1>4. Lead \in 0..Len(wire) /\ IsLead(Lead)
  BY <1>2, <1>3, Zenon
<1> QED
  BY <1>4 DEF IsLead

\* The wire does not change, and so neither does what the server offers.
LEMMA OfferIsFixed ==
  ASSUME wire' = wire
  PROVE  Lead' = Lead /\ (EndFollows' <=> EndFollows) /\ Ends(wire)' = Ends(wire)
BY Zenon DEF Lead, EndFollows, Readable, Ends, FrameBytes

\* As long as the caller has had no None, it has as many messages as the stream has
\* parsed; the next frame is one more of the leading messages, or the end of them.
LEMMA LeadAndNext ==
  ASSUME TypeOK, OrderInv, ~Finished, next <= Len(wire)
  PROVE  /\ Readable(wire[next]) => Len(out) < Lead
         /\ ~Readable(wire[next]) => Lead = Len(out) /\ Lead + 1 = next
<1>1. /\ wire \in Seq(Frame) /\ Len(wire) \in Nat /\ Len(out) \in Nat
      /\ Lead \in 0..Len(wire)
      /\ \A i \in 1..Lead : Readable(wire[i])
      /\ Lead < Len(wire) => ~Readable(wire[Lead + 1])
  BY StreamClientAssumption, LeadIs DEF TypeOK
<1>2. next = Len(out) + 1 /\ \A k \in 1..Len(out) : Readable(wire[k])
  BY DEF OrderInv
<1>3. Len(out) <= Lead
  <2> SUFFICES ASSUME Lead < Len(out) PROVE FALSE
    BY <1>1
  <2>1. Lead + 1 \in 1..Len(out) /\ Lead < Len(wire)
    BY <1>1, <1>2
  <2> QED
    BY <1>1, <1>2, <2>1
<1>4. ASSUME Lead = Len(out) PROVE ~Readable(wire[next]) /\ Lead + 1 = next
  BY <1>1, <1>2, <1>4
<1>5. ASSUME Len(out) < Lead PROVE Readable(wire[next])
  <2>1. next \in 1..Lead
    BY <1>1, <1>2, <1>5
  <2> QED
    BY <1>1, <2>1
<1> QED
  BY <1>1, <1>3, <1>4, <1>5

\* The caller of an open stream sees the initial state of a MessageStream.
LEMMA PromiseInit == Init => Promise!MSInit
<1> SUFFICES ASSUME Init PROVE Promise!MSInit
  OBVIOUS
<1>1. wire \in Seq(Frame) /\ Lead \in Nat
  BY StreamClientAssumption, LeadIs DEF Init
<1>2. EndFollows => decode_end_stream(wire[Lead + 1].verdict) \in Int
  <2> SUFFICES ASSUME EndFollows PROVE decode_end_stream(wire[Lead + 1].verdict) \in Int
    OBVIOUS
  <2>1. Lead + 1 \in 1..Len(wire)
    BY <1>1 DEF EndFollows
  <2>2. wire[Lead + 1] \in Frame
    BY <1>1, <2>1
  <2>3. wire[Lead + 1].verdict \in Verdict \cup {Nameless}
    BY <2>2 DEF Frame
  <2>4. \A c \in Code : c \in Int
    BY DEF Code
  <2> QED
    BY <2>3, <2>4, DecodedIsCode
<1>3. ~Finished /\ Messages = 0
  BY DEF Init, Finished, Messages
<1> DEFINE o == IF EndFollows THEN {decode_end_stream(wire[Lead + 1].verdict)} ELSE {}
<1>4. o \in SUBSET Int
  BY <1>2
<1> HIDE DEF o
<1>5. [messages |-> Lead, outcome |-> o] \in [messages : Nat, outcome : SUBSET Int]
  BY <1>1, <1>4
<1> QED
  BY <1>3, <1>5 DEF Promise!MSInit, o

\* Every step of the client is a step the promise allows, or none the caller sees.
LEMMA PromiseStep ==
  ASSUME TypeOK, TypeOK', OrderInv, [Next]_vars
  PROVE  [Promise!MSNext]_(Promise!msVars)
<1>1. wire' = wire
  <2>1. CASE Next
    BY <2>1, ClientStep
  <2>2. CASE UNCHANGED vars
    BY <2>2 DEF vars
  <2> QED
    BY <2>1, <2>2
<1>2. Lead' = Lead /\ (EndFollows' <=> EndFollows)
  BY <1>1, OfferIsFixed
<1> DEFINE Offer == [messages |-> Lead,
                     outcome  |-> IF EndFollows THEN {decode_end_stream(wire[Lead + 1].verdict)}
                                                ELSE {}]
<1>3. Offer' = Offer
  BY <1>1, <1>2, Zenon
<1>4. ASSUME Finished' <=> Finished, Messages' = Messages, FirstNone' = FirstNone
      PROVE  UNCHANGED Promise!msVars
  BY <1>3, <1>4, Zenon DEF Promise!msVars
<1>5. CASE out' = out
  BY <1>4, <1>5, NothingReturned
<1>6. CASE Finished /\ \E r \in Result : out' = Append(out, r)
  BY <1>4, <1>6, Returned
<1>7. ASSUME ~Finished, NEW e \in Error, out' = Append(out, None(e)), e.code = 13
      PROVE  Promise!Break
  <2>1. None(e) \in Result /\ None(e).kind = "none" /\ None(e).err = e
    BY <1>7, ResultsAre DEF None
  <2>2. Finished' /\ Messages' = Messages /\ FirstNone' = e
    BY <1>7, <2>1, Returned
  <2> QED
    BY <1>3, <1>7, <2>2 DEF Promise!Break, Promise!Internal
<1>8. ASSUME Next, ~Finished, out' # out
      PROVE  Promise!MSNext
  <2>1. /\ Len(out) \in Nat /\ next = Len(out) + 1 /\ ~ended /\ err = NoErr
        /\ Messages = Len(out)
    BY <1>8, MessagesAre DEF OrderInv, TypeOK
  <2>2. /\ \A cause \in {"gzip", "link", "truncated", "missing"} :
              Local(cause) \in Error /\ Local(cause).code = 13
        /\ \A c \in Code \ {0} : Server(c) \in Error /\ Server(c).code = c
        /\ NoErr \in Error /\ NoErr.code = 0
    BY ErrorsAre DEF Local, Server, NoErr
  <2>3. CASE \/ TakeError /\ out' = Append(out, None(Local("link")))
             \/ ParseFrame /\ out' = Append(out, None(Local("gzip")))
    BY <1>7, <1>8, <2>2, <2>3 DEF Promise!MSNext
  <2>4. CASE TakeEof /\ out' = Append(out, None(EofError))
    <3>1. EofError = Local("truncated") \/ EofError = Local("missing")
      BY <2>1 DEF EofError
    <3> QED
      BY <1>7, <1>8, <2>2, <2>4, <3>1 DEF Promise!MSNext
  <2>5. CASE /\ ParseFrame /\ wire[next].gz # "corrupt" /\ wire[next].end
             /\ out' = Append(out, None(err'))
             /\ err' = IF decode_end_stream(wire[next].verdict) # 0
                         THEN Server(decode_end_stream(wire[next].verdict)) ELSE err
    <3> DEFINE code == decode_end_stream(wire[next].verdict)
    <3>1. next <= Len(wire) /\ code \in Code /\ ~Readable(wire[next])
      BY <2>5, FrameAtNext DEF ParseFrame, HasFrame, Readable, TypeOK
    <3>2. Lead = Len(out) /\ Lead + 1 = next
      BY <1>8, <3>1, LeadAndNext
    <3>3. EndFollows
      BY <2>5, <3>1, <3>2 DEF EndFollows, TypeOK
    <3>4. err' \in Error /\ err'.code = code
      BY <2>1, <2>2, <2>5, <3>1
    <3>5. None(err') \in Result /\ None(err').kind = "none" /\ None(err').err = err'
      BY <3>4, ResultsAre DEF None
    <3>6. Finished' /\ Messages' = Messages /\ FirstNone' = err'
      BY <1>8, <2>5, <3>5, Returned
    <3>7. Offer.messages = Messages /\ Offer.outcome = {code}
      BY <2>1, <3>2, <3>3
    <3> HIDE DEF Offer, code
    <3>8. Promise!Finish
      BY <1>3, <1>8, <3>4, <3>6, <3>7 DEF Promise!Finish, Offer
    <3> QED
      BY <3>8 DEF Promise!MSNext
  <2>6. CASE ParseFrame /\ Readable(wire[next]) /\ out' = Append(out, Some(next))
    <3>1. Len(out) < Lead
      BY <1>8, <2>6, LeadAndNext DEF ParseFrame, HasFrame
    <3>2. Some(next) \in Result /\ Some(next).kind # "none"
      BY <2>1, ResultsAre DEF Some
    <3>3. ~Finished' /\ Messages' = Messages + 1
      BY <1>8, <2>6, <3>2, Returned
    <3>4. Offer.messages = Lead
      OBVIOUS
    <3>5. Promise!Message
      BY <1>3, <1>8, <2>1, <3>1, <3>3, <3>4 DEF Promise!Message
    <3> QED
      BY <3>5 DEF Promise!MSNext
  <2>7. ~ReturnEnded
    BY <2>1 DEF ReturnEnded, StopsHere
  <2> QED
    BY <1>8, <2>3, <2>4, <2>5, <2>6, <2>7, ClientStep
<1>9. ASSUME Next, out' # out
      PROVE  \E r \in Result : out' = Append(out, r)
  BY <1>9, OneResult
<1> QED
  BY <1>5, <1>6, <1>8, <1>9 DEF vars

\* The caller that loops until None sees a MessageStream: all of the server's
\* messages and its outcome, or a failure.
THEOREM PromiseKept == Spec => KeepsPromise
<1>1. TypeOK /\ TypeOK' /\ OrderInv /\ [Next]_vars => [Promise!MSNext]_(Promise!msVars)
  BY PromiseStep
<1> QED
  BY <1>1, PromiseInit, TypeCorrect, OrderInvCorrect, PTL DEF Spec, KeepsPromise, Promise!MSSpec
-----------------------------------------------------------------------------
(* The bytes under way.                                                     *)

\* The frames of a wire end one behind the other.
LEMMA EndsGrow ==
  ASSUME NEW w \in Seq(Frame), NEW i \in 0..Len(w), NEW j \in 0..Len(w), i <= j
  PROVE  Ends(w)[i] <= Ends(w)[j]
<1> DEFINE e == Ends(w)
<1>1. PICK n \in Nat : n = Len(w)
  OBVIOUS
<1>2. \A k \in 1..n : FrameBytes(w[k]) \in Nat
  <2>1. \A f \in Frame : FrameBytes(f) \in Nat
    BY DEF FrameBytes, HeaderBytes, Frame
  <2> QED
    BY <1>1, <2>1
<1>3. /\ \A k \in 0..n : e[k] \in Nat
      /\ \A k \in 1..n : e[k] = e[k - 1] + FrameBytes(w[k])
  BY <1>1, EndsAddUp, Zenon
<1>4. i \in 0..n /\ j \in 0..n
  BY <1>1
<1> HIDE DEF e
<1> DEFINE T == {d \in Nat : i + d <= n => e[i] <= e[i + d]}
<1>5. 0 \in T
  BY <1>3, <1>4
<1>6. ASSUME NEW d \in Nat, d \in T PROVE d + 1 \in T
  <2> SUFFICES ASSUME i + (d + 1) <= n PROVE e[i] <= e[i + (d + 1)]
    OBVIOUS
  <2>1. i + (d + 1) \in 1..n /\ i + d \in 0..n /\ (i + (d + 1)) - 1 = i + d
    BY <1>4
  <2>2. e[i] <= e[i + d]
    BY <1>4, <1>6, <2>1
  <2>3. e[i + (d + 1)] = e[i + d] + FrameBytes(w[i + (d + 1)])
    BY <1>3, <2>1
  <2> QED
    BY <1>2, <1>3, <1>4, <2>1, <2>2, <2>3
<1>7. \A d \in Nat : d \in T
  <2> HIDE DEF T
  <2> QED
    BY <1>5, <1>6, InductionRule
<1>8. j - i \in Nat /\ i + (j - i) = j
  BY <1>4
<1> QED
  BY <1>4, <1>7, <1>8 DEF e

\* The chunks of the pipe p bring the bytes from one count to another.
Ledger(p, from, to) ==
  \E g \in Seq(Nat) :
     /\ Len(g) = Len(p) + 1
     /\ g[1] = from /\ g[Len(p) + 1] = to
     /\ \A i \in 1..Len(p) : g[i + 1] = g[i] + p[i]

\* An empty pipe brings nothing.
LEMMA LedgerEmpty ==
  ASSUME NEW n \in Nat
  PROVE  /\ Ledger(<<>>, n, n)
         /\ \A from, to : Ledger(<<>>, from, to) => from = to
<1>1. /\ <<n>> \in Seq(Nat) /\ Len(<<n>>) = Len(<<>>) + 1
      /\ <<n>>[1] = n /\ <<n>>[Len(<<>>) + 1] = n
      /\ \A i \in 1..Len(<<>>) : <<n>>[i + 1] = <<n>>[i] + <<>>[i]
  OBVIOUS
<1>2. Ledger(<<>>, n, n)
  BY <1>1, Zenon DEF Ledger
<1>3. Len(<<>>) + 1 = 1
  OBVIOUS
<1> QED
  BY <1>2, <1>3, Zenon DEF Ledger

\* A chunk more at the end brings its bytes.
LEMMA LedgerAppend ==
  ASSUME NEW p \in Seq(Nat), NEW x \in Nat, NEW from, NEW to \in Nat, Ledger(p, from, to)
  PROVE  Ledger(Append(p, x), from, to + x)
<1>1. PICK g \in Seq(Nat) : /\ Len(g) = Len(p) + 1
                            /\ g[1] = from /\ g[Len(p) + 1] = to
                            /\ \A i \in 1..Len(p) : g[i + 1] = g[i] + p[i]
  BY DEF Ledger
<1> DEFINE G == Append(g, to + x)
           P == Append(p, x)
<1>2. /\ Len(p) \in Nat /\ Len(P) = Len(p) + 1
      /\ P[Len(p) + 1] = x /\ \A i \in 1..Len(p) : P[i] = p[i]
  OBVIOUS
<1>3. /\ G \in Seq(Nat) /\ Len(G) = Len(g) + 1
      /\ G[Len(g) + 1] = to + x /\ \A i \in 1..Len(g) : G[i] = g[i]
  OBVIOUS
<1> HIDE DEF G, P
<1>4. ASSUME NEW i \in 1..Len(P)
      PROVE  G[i + 1] = G[i] + P[i]
  <2>1. CASE i \in 1..Len(p)
    <3>1. i + 1 \in 1..Len(g) /\ i \in 1..Len(g)
      BY <1>1, <1>2, <2>1
    <3> QED
      BY <1>1, <1>2, <1>3, <2>1, <3>1
  <2>2. CASE i = Len(p) + 1
    <3>1. i \in 1..Len(g) /\ i = Len(g)
      BY <1>1, <1>2, <2>2
    <3> QED
      BY <1>1, <1>2, <1>3, <2>2, <3>1
  <2> QED
    BY <1>2, <2>1, <2>2
<1>5. Len(G) = Len(P) + 1 /\ G[1] = from /\ G[Len(P) + 1] = to + x
  <2>1. 1 \in 1..Len(g)
    BY <1>1, <1>2
  <2> QED
    BY <1>1, <1>2, <1>3, <2>1
<1> QED
  BY <1>3, <1>4, <1>5 DEF Ledger, P

\* The first chunk, taken, is not under way any more.
LEMMA LedgerTail ==
  ASSUME NEW p \in Seq(Nat), p # <<>>, NEW from, NEW to, Ledger(p, from, to)
  PROVE  Ledger(Tail(p), from + Head(p), to)
<1>1. PICK g \in Seq(Nat) : /\ Len(g) = Len(p) + 1
                            /\ g[1] = from /\ g[Len(p) + 1] = to
                            /\ \A i \in 1..Len(p) : g[i + 1] = g[i] + p[i]
  BY DEF Ledger
<1> DEFINE G == Tail(g)
           P == Tail(p)
<1>2. Len(p) \in Nat /\ 1 \in 1..Len(p)
  OBVIOUS
<1>3. /\ Len(P) = Len(p) - 1 /\ Head(p) = p[1]
      /\ \A i \in 1..Len(P) : P[i] = p[i + 1]
  OBVIOUS
<1>4. g # <<>>
  BY <1>1, <1>2
<1>5. /\ G \in Seq(Nat) /\ Len(G) = Len(g) - 1
      /\ \A i \in 1..Len(G) : G[i] = g[i + 1]
  BY <1>4
<1> HIDE DEF G, P
<1>6. ASSUME NEW i \in 1..Len(P)
      PROVE  G[i + 1] = G[i] + P[i]
  <2>1. i \in 1..Len(G) /\ i + 1 \in 1..Len(G) /\ i + 1 \in 1..Len(p)
    BY <1>1, <1>2, <1>3, <1>5
  <2> QED
    BY <1>1, <1>3, <1>5, <2>1
<1>7. Len(G) = Len(P) + 1 /\ G[1] = from + Head(p) /\ G[Len(P) + 1] = to
  <2>1. 1 \in 1..Len(G) /\ Len(P) + 1 \in 1..Len(G)
    BY <1>1, <1>2, <1>3, <1>5
  <2> QED
    BY <1>1, <1>2, <1>3, <1>5, <2>1
<1> QED
  BY <1>5, <1>6, <1>7 DEF Ledger, P
-----------------------------------------------------------------------------
(* No false alarm.                                                          *)

\* The strengthening: the parsed frames, the buffer and the chunks under way are
\* the bytes that left the server; a recv waits only for want of a whole frame;
\* and the alarms are sounded once the body is over.
BytesAddUp == Ledger(pipe, Ends(wire)[next - 1] + acc, sent)
Starved    == cpc = "await" => ~HasFrame
NoAlarmYet ==
  Finished /\ FirstNone.cause \in {"truncated", "missing"} =>
    link = "closed" /\ ~(EndFollows /\ sent >= EndBytes)

\* The end of the parsed frames, and of the next one, which the buffer starts with.
LEMMA EndOfParsed ==
  ASSUME TypeOK
  PROVE  /\ Ends(wire)[next - 1] \in Nat
         /\ next <= Len(wire) =>
              Ends(wire)[next] = Ends(wire)[next - 1] + FrameBytes(wire[next])
<1>1. wire \in Seq(Frame)
  BY StreamClientAssumption DEF TypeOK
<1>2. PICK n \in Nat : n = Len(wire)
  BY <1>1
<1>3. /\ \A k \in 0..n : Ends(wire)[k] \in Nat
      /\ \A k \in 1..n : Ends(wire)[k] = Ends(wire)[k - 1] + FrameBytes(wire[k])
  BY <1>1, <1>2, EndsAddUp, Zenon
<1>4. next \in 1..(n + 1)
  BY <1>2 DEF TypeOK
<1> QED
  BY <1>2, <1>3, <1>4

\* No byte is lost between the server and the buffer.
LEMMA BytesCorrect == Spec => []BytesAddUp
<1>1. Init => BytesAddUp
  <2> SUFFICES ASSUME Init PROVE BytesAddUp
    OBVIOUS
  <2>1. wire \in Seq(Frame) /\ pipe = <<>> /\ sent = 0 /\ acc = 0 /\ next - 1 = 0
    BY StreamClientAssumption DEF Init
  <2>2. Ends(wire)[next - 1] = 0
    BY <2>1, EndsAddUp, Zenon
  <2>3. Ends(wire)[next - 1] + acc = 0
    BY <2>1, <2>2
  <2>4. Ledger(<<>>, 0, 0)
    BY LedgerEmpty
  <2> QED
    BY <2>1, <2>3, <2>4, Zenon DEF BytesAddUp
<1>2. TypeOK /\ BytesAddUp /\ [Next]_vars => BytesAddUp'
  <2> SUFFICES ASSUME TypeOK, BytesAddUp, [Next]_vars
               PROVE  BytesAddUp'
    OBVIOUS
  <2> DEFINE from == Ends(wire)[next - 1] + acc
  <2>1. /\ Ledger(pipe, from, sent)
        /\ pipe \in Seq(Nat) /\ sent \in Nat /\ acc \in Nat /\ next \in Int
        /\ Ends(wire)[next - 1] \in Nat
    BY EndOfParsed DEF BytesAddUp, TypeOK
  <2>2. ASSUME NEW f, NEW p, NEW t, Ledger(p, f, t),
               wire' = wire, Ends(wire)[next' - 1] + acc' = f, pipe' = p, sent' = t
        PROVE  BytesAddUp'
    <3>1. Ends(wire)' = Ends(wire)
      BY <2>2, OfferIsFixed
    <3> QED
      BY <2>2, <3>1, Zenon DEF BytesAddUp
  <2>3. CASE UNCHANGED <<wire, pipe, acc, next, sent>>
    BY <2>1, <2>2, <2>3, Zenon
  <2>4. ASSUME NEW n \in ChunkSizes, Deliver(n)
        PROVE  BytesAddUp'
    <3>1. n \in Nat /\ sent' = sent + n /\ pipe' = Append(pipe, n)
          /\ UNCHANGED <<wire, acc, next>>
      BY <2>4, StreamClientAssumption DEF Deliver, parseVars
    <3>2. Ledger(Append(pipe, n), from, sent + n)
      BY <2>1, <3>1, LedgerAppend
    <3> QED
      BY <2>2, <3>1, <3>2, Zenon
  <2>5. CASE BodyError
    <3>1. Ledger(Append(pipe, 0), from, sent + 0) /\ sent + 0 = sent
      BY <2>1, LedgerAppend
    <3>2. UNCHANGED <<wire, acc, next, sent>> /\ pipe' = Append(pipe, 0)
      BY <2>5 DEF BodyError, Broken, parseVars
    <3> QED
      BY <2>2, <3>1, <3>2, Zenon
  <2>6. CASE TakeChunk \/ TakeError
    <3>1. pipe # <<>> /\ pipe' = Tail(pipe) /\ acc' = acc + Head(pipe)
          /\ UNCHANGED <<wire, next, sent>>
      <4>1. CASE TakeChunk
        BY <4>1 DEF TakeChunk, linkVars, parseVars
      <4>2. CASE TakeError
        BY <2>1, <4>2 DEF TakeError, Broken, linkVars
      <4> QED
        BY <2>6, <4>1, <4>2
    <3>2. Head(pipe) \in Nat
      BY <2>1, <3>1
    <3>3. Ledger(Tail(pipe), from + Head(pipe), sent)
      BY <2>1, <3>1, LedgerTail
    <3>4. Ends(wire)[next' - 1] + acc' = from + Head(pipe)
      <4> DEFINE b == Ends(wire)[next - 1]
      <4>1. Ends(wire)[next' - 1] = b /\ b \in Nat
        BY <2>1, <3>1
      <4> HIDE DEF b
      <4>2. Ends(wire)[next' - 1] + acc' = (b + acc) + Head(pipe)
        BY <2>1, <3>1, <3>2, <4>1
      <4> QED
        BY <4>2 DEF b
    <3> QED
      BY <2>2, <3>1, <3>3, <3>4, Zenon
  <2>7. CASE ParseFrame
    <3>1. next <= Len(wire) /\ acc' = acc - FrameBytes(wire[next]) /\ next' = next + 1
          /\ UNCHANGED <<wire, pipe, sent>>
      BY <2>7 DEF ParseFrame, HasFrame, linkVars
    <3>2. FrameBytes(wire[next]) \in Nat
      BY <3>1, FrameAtNext DEF TypeOK
    <3>3. Ends(wire)[next] = Ends(wire)[next - 1] + FrameBytes(wire[next])
      BY <3>1, EndOfParsed
    <3>4. next' - 1 = next
      BY <2>1, <3>1
    <3>5. Ends(wire)[next' - 1] + acc' = from
      BY <2>1, <3>1, <3>2, <3>3, <3>4
    <3> QED
      BY <2>1, <2>2, <3>1, <3>5, Zenon
  <2> QED
    BY <2>3, <2>4, <2>5, <2>6, <2>7
    DEF Next, RecvStep, BodyEof, Recv, CancelRecv, ReturnEnded, Starve, TakeEof, vars, linkVars,
        parseVars
<1> QED
  BY <1>1, <1>2, TypeCorrect, PTL DEF Spec

\* A recv that waits has less than the next frame in its buffer.
LEMMA StarvedCorrect == Spec => []Starved
<1>1. Init => Starved
  BY DEF Init, Starved
<1>2. TypeOK /\ Starved /\ [Next]_vars => Starved'
  BY DEF TypeOK, Starved, HasFrame, FrameArrived, FrameBytes, Next, RecvStep, Deliver, BodyEof,
         BodyError, Recv, CancelRecv, ReturnEnded, ParseFrame, RefuseCorrupt, Return, Starve,
         TakeChunk, TakeError, TakeEof, vars, linkVars, parseVars
<1> QED
  BY <1>1, <1>2, TypeCorrect, PTL DEF Spec

\* The END frame, where there is one, ends at some byte of the wire.
LEMMA EndBytesIs ==
  ASSUME TypeOK, EndFollows
  PROVE  EndBytes \in Nat
<1>1. wire \in Seq(Frame)
  BY StreamClientAssumption DEF TypeOK
<1>2. PICK n \in Nat : n = Len(wire)
  BY <1>1
<1>3. Lead + 1 \in 0..n
  BY <1>1, <1>2, LeadIs DEF EndFollows
<1>4. \A k \in 0..n : Ends(wire)[k] \in Nat
  BY <1>1, <1>2, EndsAddUp, Zenon
<1> QED
  BY <1>3, <1>4 DEF EndBytes

\* When the body is over before the first None, the END frame has not left the
\* server in full: what was sent stops inside the frame the buffer starts with.
LEMMA NothingBehindEof ==
  ASSUME TypeOK, OrderInv, BytesAddUp, Starved, TakeEof, ~Finished, EndFollows
  PROVE  sent < EndBytes
<1>1. /\ wire \in Seq(Frame) /\ pipe = <<>> /\ ~HasFrame
      /\ acc \in Nat /\ sent \in Nat /\ next = Len(out) + 1 /\ Len(out) \in Nat
  BY StreamClientAssumption DEF TypeOK, OrderInv, Starved, TakeEof
<1>2. PICK n \in Nat : n = Len(wire)
  BY <1>1
<1>3. Lead \in 0..n /\ Lead < n
  BY <1>1, <1>2, LeadIs DEF EndFollows
<1>4. next <= Lead + 1
  <2>1. CASE next <= Len(wire)
    BY <1>1, <1>3, <2>1, LeadAndNext
  <2>2. CASE next = Len(wire) + 1
    <3>1. Lead + 1 \in 1..Len(out)
      BY <1>1, <1>2, <1>3, <2>2
    <3>2. Readable(wire[Lead + 1])
      BY <3>1 DEF OrderInv
    <3>3. ~Readable(wire[Lead + 1])
      BY <1>1, <1>2, <1>3, LeadIs
    <3> QED
      BY <3>2, <3>3
  <2> QED
    BY <2>1, <2>2 DEF TypeOK
<1>5. next <= Len(wire) /\ next \in 0..Len(wire) /\ Lead + 1 \in 0..Len(wire)
  BY <1>1, <1>2, <1>3, <1>4
<1>6. Ends(wire)[next] <= Ends(wire)[Lead + 1]
  BY <1>1, <1>4, <1>5, EndsGrow
<1>7. sent = Ends(wire)[next - 1] + acc
  BY <1>1, LedgerEmpty, Zenon DEF BytesAddUp
<1>8. acc < FrameBytes(wire[next]) /\ FrameBytes(wire[next]) \in Nat
  BY <1>1, <1>5, FrameAtNext DEF HasFrame, FrameArrived, TypeOK
<1>9. /\ Ends(wire)[next - 1] \in Nat
      /\ Ends(wire)[next] = Ends(wire)[next - 1] + FrameBytes(wire[next])
  BY <1>5, EndOfParsed
<1>10. Ends(wire)[Lead + 1] \in Nat
  BY EndBytesIs DEF EndBytes
<1> QED
  BY <1>1, <1>6, <1>7, <1>8, <1>9, <1>10 DEF EndBytes
\* The alarms are sounded only once the body is over.
LEMMA NoAlarmYetCorrect == Spec => []NoAlarmYet
<1>1. Init => NoAlarmYet
  BY DEF Init, NoAlarmYet, Finished
<1>2. TypeOK /\ TypeOK' /\ OrderInv /\ BytesAddUp /\ Starved /\ NoAlarmYet /\ [Next]_vars
        => NoAlarmYet'
  <2> SUFFICES ASSUME TypeOK, TypeOK', OrderInv, BytesAddUp, Starved, NoAlarmYet, [Next]_vars
               PROVE  NoAlarmYet'
    OBVIOUS
  <2>1. CASE UNCHANGED vars
    <3>1. (Finished' <=> Finished) /\ FirstNone' = FirstNone
      BY <2>1, NothingReturned DEF vars
    <3>2. (EndFollows' <=> EndFollows) /\ EndBytes' = EndBytes /\ UNCHANGED <<link, sent>>
      BY <2>1, OfferIsFixed DEF EndBytes, vars, linkVars
    <3> QED
      BY <3>1, <3>2 DEF NoAlarmYet
  <2>2. ASSUME Next PROVE NoAlarmYet'
    <3>1. /\ wire' = wire /\ (EndFollows' <=> EndFollows) /\ EndBytes' = EndBytes
      BY <2>2, ClientStep, OfferIsFixed DEF EndBytes
    <3>2. link = "closed" => UNCHANGED <<link, sent>>
      BY <2>2
      DEF Next, RecvStep, Deliver, BodyEof, BodyError, Recv, CancelRecv, ReturnEnded, ParseFrame,
          Starve, TakeChunk, TakeError, TakeEof, linkVars
    <3>3. CASE Finished
      <4>1. FirstNone' = FirstNone
        <5>1. CASE out' = out
          BY <5>1, NothingReturned
        <5>2. ASSUME NEW r \in Result, out' = Append(out, r) PROVE FirstNone' = FirstNone
          BY <3>3, <5>2, Returned
        <5> QED
          BY <2>2, <5>1, <5>2, OneResult
      <4> QED
        BY <3>1, <3>2, <3>3, <4>1 DEF NoAlarmYet
    <3>4. CASE ~Finished /\ TakeEof
      <4>1. EndFollows => sent < EndBytes
        BY <3>4, NothingBehindEof
      <4>2. link = "closed"
        BY <3>4 DEF TakeEof
      <4>3. EndFollows => ~(sent >= EndBytes)
        <5>1. EndFollows => sent \in Nat /\ EndBytes \in Nat
          BY EndBytesIs DEF TypeOK
        <5> QED
          BY <4>1, <5>1
      <4> QED
        BY <3>1, <3>2, <4>2, <4>3 DEF NoAlarmYet
    <3>5. CASE ~Finished /\ ~TakeEof
      <4>1. ASSUME NEW e \in Error, out' = Append(out, None(e)),
                   e.cause \notin {"truncated", "missing"}
            PROVE  NoAlarmYet'
        <5>1. None(e) \in Result /\ None(e).kind = "none" /\ None(e).err = e
          BY ResultsAre DEF None
        <5>2. FirstNone' = e
          BY <3>5, <4>1, <5>1, Returned
        <5> QED
          BY <4>1, <5>2 DEF NoAlarmYet
      <4>2. ASSUME out' = Append(out, Some(next)) PROVE NoAlarmYet'
        <5>1. Some(next) \in Result /\ Some(next).kind # "none"
          BY ResultsAre DEF Some, TypeOK
        <5>2. ~Finished'
          BY <3>5, <4>2, <5>1, Returned
        <5> QED
          BY <5>2 DEF NoAlarmYet
      <4>3. ASSUME out' = out PROVE NoAlarmYet'
        <5>1. ~Finished'
          BY <3>5, <4>3, NothingReturned
        <5> QED
          BY <5>1 DEF NoAlarmYet
      <4>4. /\ err = NoErr /\ NoErr \in Error /\ NoErr.cause = "none"
            /\ \A cause \in {"gzip", "link"} :
                  Local(cause) \in Error /\ Local(cause).cause = cause
            /\ \A c \in Code \ {0} : Server(c) \in Error /\ Server(c).cause = "server"
        BY <3>5, ErrorsAre DEF OrderInv, NoErr, Local, Server
      <4>5. ParseFrame => decode_end_stream(wire[next].verdict) \in Code
        BY FrameAtNext DEF ParseFrame, HasFrame, TypeOK
      <4>6. CASE out' = Append(out, None(err))
        BY <4>1, <4>4, <4>6
      <4>7. CASE \/ out' = Append(out, None(Local("gzip")))
                 \/ out' = Append(out, None(Local("link")))
        BY <4>1, <4>4, <4>7
      <4>8. CASE /\ ParseFrame /\ out' = Append(out, None(err'))
                 /\ err' = IF decode_end_stream(wire[next].verdict) # 0
                             THEN Server(decode_end_stream(wire[next].verdict)) ELSE err
        <5>1. err' \in Error /\ err'.cause \notin {"truncated", "missing"}
          BY <4>4, <4>5, <4>8
        <5> QED
          BY <4>1, <4>8, <5>1
      <4> QED
        BY <2>2, <3>5, <4>2, <4>3, <4>6, <4>7, <4>8, ClientStep
    <3> QED
      BY <3>3, <3>4, <3>5
  <2> QED
    BY <2>1, <2>2
<1> QED
  BY <1>1, <1>2, TypeCorrect, OrderInvCorrect, BytesCorrect, StarvedCorrect, PTL DEF Spec

\* A stream whose END frame left the server whole before the body was over is
\* reported neither truncated nor as lacking its END frame.
THEOREM NoAlarm == Spec => []NoFalseAlarm
<1>1. NoAlarmYet => NoFalseAlarm
  BY DEF NoAlarmYet, NoFalseAlarm
<1> QED
  BY <1>1, NoAlarmYetCorrect, PTL
=============================================================================
