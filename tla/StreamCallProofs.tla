-------------------------- MODULE StreamCallProofs --------------------------
(***************************************************************************)
(* Proofs about StreamCall: for any scripts, chunks and number of messages *)
(* a call from handler to caller is a MessageStream of the handler's own.  *)
(***************************************************************************)
EXTENDS StreamCall, StreamServerProofs, FiniteSetTheorems

-----------------------------------------------------------------------------
(* The server of a call is a StreamServer.                                  *)

\* What a server does in a call is a step of StreamServer, and the rest of the call
\* leaves the server alone.
LEMMA ServerStep ==
  ASSUME CallNext
  PROVE  \/ Next /\ UNCHANGED <<script, dropped, clientVars>>
         \/ UNCHANGED vars
<1>1. Main \in Threads /\ 13 \in ErrCodes
  BY StreamServerAssumption, StreamCallAssumption
<1>2. ScriptStep => Next
  BY <1>1 DEF ScriptStep, Next
<1>3. ServerRuns => Next
  BY <1>1 DEF ServerRuns, Hangup, Next
<1>4. ServerDoes(ScriptStep) \/ ServerDoes(ServerRuns)
        => Next /\ UNCHANGED <<script, dropped, clientVars>>
  BY <1>2, <1>3 DEF ServerDoes
<1>5. ClientDoes(Receive) \/ ClientDoes(Transfer) \/ ClientDoes(LinkBreaks) \/ Drop
        => UNCHANGED vars
  BY DEF ClientDoes, Drop
<1> QED
  BY <1>4, <1>5 DEF CallNext

\* So all that is proved of StreamServer holds in a call.
LEMMA ServerOfCall == CallSpec => Spec
<1>1. CallInit => Init
  BY DEF CallInit
<1>2. [CallNext]_allVars => [Next]_vars
  BY ServerStep DEF allVars
<1> QED
  BY <1>1, <1>2, PTL DEF CallSpec, Spec

-----------------------------------------------------------------------------
(* What emit accepted against what is in the channel.                       *)

Accepted == Cardinality(accepted)

\* The channel holds one message for each one emit accepted, and behind them, once
\* the handler is done, its outcome.
Written ==
  /\ joins
  /\ hpc \in {"handler", "panicked"} => result = Pending
  /\ result.kind = "ok" => result.code = 0
  /\ IsFiniteSet(accepted)
  /\ \A m \in accepted : m.n \in 1..calls[Main]
  /\ epc[Main] # "idle" => calls[Main] > 0 /\ Current(Main) \notin accepted
  /\ Len(chan) = Accepted \/ Len(chan) = Accepted + 1
  /\ \A i \in 1..Accepted : chan[i].kind = "data"
  /\ Len(chan) = Accepted + 1 =>
       /\ hpc = "done"
       /\ chan[Accepted + 1].kind = "end"
       /\ chan[Accepted + 1].verdict = encode_end_stream(result.code)

ServerSound == TypeOK /\ Control /\ FlowInv /\ Written

\* One more message, accepted by emit and sent.
LEMMA WrittenEmit ==
  ASSUME TypeOK, Control, Written, EmitWrite(Main)
  PROVE  /\ Written'
         /\ UNCHANGED result /\ result = Pending
         /\ Accepted' = Accepted \/ Accepted' = Accepted + 1
<1>1. Main \in Threads
  BY StreamServerAssumption
<1>2. epc[Main] = "write" /\ Main \in live /\ hpc = "handler"
  BY <1>1 DEF EmitWrite, Control
<1>3. result = Pending /\ Len(chan) = Accepted
  BY <1>2 DEF Written
<1>4. IsFiniteSet(accepted) /\ Current(Main) \notin accepted
  BY <1>2 DEF Written
<1>5. Accepted \in Nat
  BY <1>4, FS_CardinalityType DEF Accepted
<1>6. UNCHANGED <<joins, hpc, result, calls>> /\ epc'[Main] = "idle"
  BY <1>1 DEF EmitWrite, callVars, handlerVars, TypeOK
<1>7. CASE accepted' = accepted /\ chan' = chan
  <2>1. Accepted' = Accepted
    BY <1>7 DEF Accepted
  <2> QED
    BY <1>3, <1>5, <1>6, <1>7, <2>1 DEF Written
<1>8. CASE accepted' = accepted \cup {Current(Main)}
           /\ \E gz \in BOOLEAN : chan' = Append(chan, Data(Current(Main), gz))
  <2>1. IsFiniteSet(accepted') /\ Accepted' = Accepted + 1
    BY <1>4, <1>8, FS_AddElement DEF Accepted
  <2>2. PICK gz \in BOOLEAN : chan' = Append(chan, Data(Current(Main), gz))
    BY <1>8
  <2>3. Data(Current(Main), gz) \in Frame /\ Data(Current(Main), gz).kind = "data"
    BY <1>1, DataInFrame DEF Current, TypeOK
  <2>4. /\ Len(chan') = Len(chan) + 1
        /\ \A i \in 1..Len(chan) : chan'[i] = chan[i]
        /\ chan'[Len(chan) + 1] = Data(Current(Main), gz)
    BY <2>2, <2>3 DEF TypeOK
  <2>5. \A i \in 1..Accepted' : chan'[i].kind = "data"
    BY <1>3, <1>5, <2>1, <2>3, <2>4 DEF Written
  <2>6. calls[Main] \in Nat /\ calls[Main] > 0
    BY <1>1, <1>2 DEF EmitWrite, TypeOK, Control, Written
  <2>7. \A m \in accepted' : m.n \in 1..calls'[Main]
    BY <1>6, <1>8, <2>6 DEF Written, Current
  <2> QED
    BY <1>3, <1>5, <1>6, <2>1, <2>4, <2>5, <2>7 DEF Written
<1> QED
  BY <1>3, <1>6, <1>7, <1>8 DEF EmitWrite, SendOk, Sent

\* The handler calls emit: its message is not accepted yet, and is a new one.
LEMMA WrittenBegin ==
  ASSUME TypeOK, Control, Written, EmitBegin(Main)
  PROVE  Written' /\ UNCHANGED <<result, accepted>>
<1>1. Main \in Threads
  BY StreamServerAssumption
<1>2. hpc = "handler" /\ ~ended
  BY <1>1 DEF EmitBegin, MayCall, Control
<1>3. /\ UNCHANGED <<joins, hpc, result, chan, accepted>>
      /\ calls[Main] \in Nat /\ calls'[Main] = calls[Main] + 1
  BY <1>1, <1>2 DEF EmitBegin, callVars, handlerVars, TypeOK
<1>4. \A m \in accepted : m.n \in 1..calls'[Main] /\ m.n # calls'[Main]
  BY <1>3 DEF Written
<1>5. calls'[Main] > 0 /\ Current(Main)' \notin accepted
  BY <1>3, <1>4 DEF Current
<1>6. Accepted' = Accepted
  BY <1>3 DEF Accepted
<1> QED
  BY <1>3, <1>4, <1>5, <1>6 DEF Written

\* handle writes the END frame behind all that was accepted, unless nobody receives.
LEMMA WrittenEnd ==
  ASSUME TypeOK, Control, Written, WriteEnd
  PROVE  Written' /\ UNCHANGED <<result, accepted>>
<1>1. UNCHANGED <<joins, result, epc, calls, accepted>> /\ hpc = "end" /\ hpc' = "done"
  BY DEF WriteEnd, callVars, handlerVars, emitVars
<1>2. Accepted' = Accepted /\ Current(Main)' = Current(Main)
  BY <1>1 DEF Accepted, Current
<1>3. Accepted \in Nat /\ Len(chan) = Accepted
  BY <1>1, FS_CardinalityType DEF Accepted, Written
<1>4. CASE chan' = chan
  BY <1>1, <1>2, <1>3, <1>4 DEF Written
<1>5. CASE chan' = chan \o EndFrames
  <2>1. result.kind \in {"ok", "err"}
    BY <1>1 DEF Control, TypeOK
  <2>2. EndFrames = <<End(result.code)>> /\ result.code \in Int
    BY <2>1 DEF EndFrames, Written, TypeOK
  <2>3. /\ End(result.code) \in Frame
        /\ End(result.code).kind = "end"
        /\ End(result.code).verdict = encode_end_stream(result.code)
    BY <2>2, EndInFrame
  <2>4. chan' = Append(chan, End(result.code))
    BY <1>5, <2>2, <2>3, AppendIsConcat DEF TypeOK
  <2>5. /\ Len(chan') = Len(chan) + 1
        /\ \A i \in 1..Len(chan) : chan'[i] = chan[i]
        /\ chan'[Len(chan) + 1] = End(result.code)
    BY <2>3, <2>4 DEF TypeOK
  <2>6. \A i \in 1..Accepted : chan'[i].kind = "data"
    BY <1>3, <2>5 DEF Written
  <2> QED
    BY <1>1, <1>2, <1>3, <2>3, <2>5, <2>6 DEF Written
<1> QED
  BY <1>1, <1>4, <1>5 DEF WriteEnd

\* The handler returns; from then on there is an outcome.
LEMMA WrittenReturn ==
  ASSUME TypeOK, Control, Written, NEW c \in Int,
         HandlerReturn(Success) \/ HandlerReturn(Failure(c))
  PROVE  /\ Written' /\ UNCHANGED accepted
         /\ result = Pending /\ result' # Pending
<1>1. /\ UNCHANGED <<joins, epc, calls, accepted, chan>>
      /\ hpc = "handler" /\ hpc' = "returned"
      /\ result' = Success \/ result' = Failure(c)
  BY DEF HandlerReturn, MayLeave, InHandler, callVars
<1>2. result'.kind \in {"ok", "err"} /\ (result'.kind = "ok" => result'.code = 0)
  BY <1>1 DEF Success, Failure
<1>3. result = Pending /\ result' # Pending
  BY <1>1, <1>2 DEF Written, Pending
<1>4. Accepted' = Accepted /\ Current(Main)' = Current(Main)
  BY <1>1 DEF Accepted, Current
<1>5. Accepted \in Nat /\ Len(chan) = Accepted
  BY <1>1, FS_CardinalityType DEF Accepted, Written
<1> QED
  BY <1>1, <1>2, <1>3, <1>4, <1>5 DEF Written

\* Nothing else in a call touches the channel, what was accepted or the result.
LEMMA WrittenQuiet ==
  ASSUME TypeOK, Written,
         UNCHANGED <<joins, result, calls, accepted, chan>>,
         hpc' = hpc \/ (hpc \notin {"handler", "done"} /\ hpc' \notin {"handler", "panicked"})
                   \/ (hpc = "handler" /\ hpc' = "panicked"),
         epc'[Main] # "idle" => epc[Main] # "idle"
  PROVE  Written'
<1>1. Accepted' = Accepted /\ Current(Main)' = Current(Main)
  BY DEF Accepted, Current
<1>2. Accepted \in Nat
  BY FS_CardinalityType DEF Accepted, Written
<1>3. Len(chan) = Accepted + 1 => hpc' = "done"
  BY DEF Written
<1>4. hpc' \in {"handler", "panicked"} => result' = Pending
  BY DEF Written
<1>5. epc'[Main] # "idle" => calls'[Main] > 0 /\ Current(Main)' \notin accepted'
  BY <1>1 DEF Written
<1> QED
  BY <1>1, <1>2, <1>3, <1>4, <1>5 DEF Written

\* What a step of a call changes of the offer: nothing, one more accepted message, or
\* the outcome; and then it is a step of the server.
OfferStep ==
  \/ UNCHANGED <<result, Accepted>>
  \/ /\ UNCHANGED <<result, script, dropped, clientVars>>
     /\ result = Pending
     /\ Accepted' = Accepted + 1
  \/ /\ UNCHANGED <<Accepted, script, dropped, clientVars>>
     /\ result = Pending /\ result' # Pending

\* The channel keeps up with what emit accepted, whatever happens in a call.
LEMMA WrittenStep ==
  ASSUME TypeOK, Control, Written, [CallNext]_allVars
  PROVE  Written' /\ OfferStep
<1>1. Main \in Threads /\ ErrCodes \subseteq Int
  BY StreamServerAssumption
<1>2. CASE UNCHANGED vars
  <2>1. UNCHANGED <<joins, hpc, result, epc, calls, accepted, chan>>
    BY <1>2 DEF vars, callVars, handlerVars, emitVars
  <2>2. Written'
    BY <2>1, WrittenQuiet
  <2> QED
    BY <2>1, <2>2 DEF OfferStep, Accepted
<1>3. CASE ServerDoes(ScriptStep)
  <2>1. UNCHANGED <<script, dropped, clientVars>>
    BY <1>3 DEF ServerDoes
  <2>2. CASE EmitBegin(Main)
    BY <2>2, WrittenBegin DEF OfferStep, Accepted
  <2>3. ASSUME NEW c \in Int, HandlerReturn(Success) \/ HandlerReturn(Failure(c))
        PROVE  Written' /\ OfferStep
    BY <2>1, <2>3, WrittenReturn DEF OfferStep, Accepted
  <2>4. CASE HandlerPanic
    <3>1. /\ UNCHANGED <<joins, result, epc, calls, accepted, chan>>
          /\ hpc = "handler" /\ hpc' = "panicked"
      BY <2>4 DEF HandlerPanic, MayLeave, InHandler, callVars, handlerVars
    <3>2. Written'
      BY <3>1, WrittenQuiet
    <3> QED
      BY <3>1, <3>2 DEF OfferStep, Accepted
  <2>5. 13 \in Int /\ 0 \in Int
    OBVIOUS
  <2> QED
    BY <1>1, <1>3, <2>2, <2>3, <2>4, <2>5 DEF ServerDoes, ScriptStep
<1>4. CASE ServerDoes(ServerRuns)
  <2>1. UNCHANGED <<script, dropped, clientVars>>
    BY <1>4 DEF ServerDoes
  <2>2. CASE EmitWrite(Main)
    BY <2>1, <2>2, WrittenEmit DEF OfferStep
  <2>3. CASE WriteEnd
    BY <2>3, WrittenEnd DEF OfferStep, Accepted
  <2>4. ASSUME \/ EmitSwap(Main) \/ EmitHeader(Main)
               \/ CheckApplied \/ ApplyHeaders \/ MarkEnded
               \/ AdapterStep \/ Disconnect
        PROVE  Written' /\ OfferStep
    <3>1. /\ UNCHANGED <<joins, result, calls, accepted, chan>>
          /\ \/ hpc' = hpc
             \/ hpc \notin {"handler", "done"} /\ hpc' \notin {"handler", "panicked"}
      BY <2>4 DEF EmitSwap, EmitHeader, CheckApplied, ApplyHeaders, MarkEnded, AdapterStep,
                  SelectFrame, SelectTaskDone, TakeHead, FlowFirst, FlowRest, CloseBody,
                  Disconnect, callVars, handlerVars, emitVars
    <3>2. epc'[Main] # "idle" => epc[Main] # "idle"
      BY <2>4 DEF EmitSwap, EmitHeader, CheckApplied, ApplyHeaders, MarkEnded, AdapterStep,
                  SelectFrame, SelectTaskDone, TakeHead, FlowFirst, FlowRest, CloseBody,
                  Disconnect, emitVars
    <3>3. Written'
      BY <3>1, <3>2, WrittenQuiet
    <3> QED
      BY <3>1, <3>3 DEF OfferStep, Accepted
  <2> QED
    BY <1>4, <2>2, <2>3, <2>4 DEF ServerDoes, ServerRuns, EmitStep, HandleStep, Hangup
<1>5. CallNext => \/ ServerDoes(ScriptStep) \/ ServerDoes(ServerRuns) \/ UNCHANGED vars
  BY DEF CallNext, ClientDoes, Drop
<1>6. UNCHANGED allVars => UNCHANGED vars
  BY DEF allVars
<1> QED
  BY <1>2, <1>3, <1>4, <1>5, <1>6

\* The server's part of a call.
LEMMA ServerOfCallSound == CallSpec => []ServerSound
<1>1. CallInit => Written
  <2>1. Cardinality({}) = 0 /\ IsFiniteSet({})
    BY FS_EmptySet
  <2> QED
    BY <2>1, StreamServerAssumption DEF CallInit, Init, Written, Accepted, Pending
<1>2. TypeOK /\ Control /\ Written /\ [CallNext]_allVars => Written'
  BY WrittenStep
<1> QED
  BY <1>1, <1>2, ServerOfCall, TypeCorrect, ControlCorrect, FlowInvCorrect, PTL
  DEF CallSpec, ServerSound

-----------------------------------------------------------------------------
(* What the caller has got.                                                 *)

Failures == [cause : {"none", "server", "link", "gzip", "truncated", "missing"}, code : Int]
Returns  == [kind : {"some"}, frame : Nat] \cup [kind : {"none"}, err : Failures]

\* Until the first None a caller has got a message for each frame that is parsed, and
\* there is neither END frame nor error; it gets none before the stream is open.
Delivered ==
  /\ out \in Seq(Returns)
  /\ ~Client!Finished => next = Len(out) + 1 /\ ~sawEnd /\ err = Client!NoErr
  /\ ~Opened /\ link = "open" => out = <<>>
  /\ apc \in {"select", "head"} => ~Opened

\* One more message: what Messages and Finished say before and after.
LEMMA GotMessage ==
  ASSUME Delivered, ~Client!Finished, NEW k \in Nat, out' = Append(out, Client!Some(k))
  PROVE  /\ out' \in Seq(Returns) /\ Len(out') = Len(out) + 1
         /\ ~Client!Finished'
         /\ Client!Messages = Len(out) /\ Client!Messages' = Len(out) + 1
<1>1. out \in Seq(Returns) /\ Client!Some(k) \in Returns /\ Client!Some(k).kind = "some"
  BY DEF Delivered, Returns, Client!Some
<1>2. /\ out' \in Seq(Returns) /\ Len(out') = Len(out) + 1
      /\ \A i \in 1..Len(out) : out'[i] = out[i]
      /\ out'[Len(out) + 1] = Client!Some(k)
  BY <1>1
<1>3. \A i \in 1..Len(out) : out[i].kind # "none"
  BY DEF Client!Finished
<1>4. \A i \in 1..Len(out') : out'[i].kind # "none"
  BY <1>1, <1>2, <1>3
<1>5. ~Client!Finished'
  BY <1>4 DEF Client!Finished
<1> QED
  BY <1>2, <1>5, Zenon DEF Client!Messages

\* The first None leaves the messages as they are.
LEMMA GotNone ==
  ASSUME Delivered, ~Client!Finished, NEW e \in Failures, out' = Append(out, Client!None(e))
  PROVE  /\ out' \in Seq(Returns)
         /\ Client!Finished'
         /\ Client!Messages = Len(out) /\ Client!Messages' = Len(out)
         /\ Client!FirstNone' = e
<1>1. /\ out \in Seq(Returns) /\ Len(out) \in Nat
      /\ Client!None(e) \in Returns /\ Client!None(e).kind = "none"
  BY DEF Delivered, Returns, Client!None
<1>2. /\ out' \in Seq(Returns) /\ Len(out') = Len(out) + 1
      /\ \A i \in 1..Len(out) : out'[i] = out[i]
      /\ out'[Len(out) + 1] = Client!None(e)
  BY <1>1
<1>3. \A i \in 1..Len(out) : out[i].kind # "none"
  BY DEF Client!Finished
<1>4. {i \in 1..Len(out') : out'[i].kind = "none"} = {Len(out) + 1}
  BY <1>1, <1>2, <1>3
<1>5. Client!Finished'
  BY <1>1, <1>2 DEF Client!Finished
<1>6. Client!Min({Len(out) + 1}) = Len(out) + 1
  BY <1>1 DEF Client!Min
<1>7. Client!Messages' = Client!Min({i \in 1..Len(out') : out'[i].kind = "none"}) - 1
  BY <1>4, <1>5 DEF Client!Messages, Client!SelectInSeq
<1>8. Client!Messages' = Len(out)
  <2>1. Client!Messages' = Client!Min({Len(out) + 1}) - 1
    BY <1>4, <1>7, Zenon
  <2> QED
    BY <1>1, <1>6, <2>1
<1>9. Client!FirstNone' = e
  BY <1>1, <1>2, <1>8 DEF Client!FirstNone, Client!None
<1>10. Client!Messages = Len(out)
  BY Zenon DEF Client!Messages
<1> QED
  BY <1>2, <1>5, <1>8, <1>9, <1>10

-----------------------------------------------------------------------------
(* The frames of the server in the hands of the client.                     *)

\* The outcome a caller is to get.
Told == IF result.code \in Code THEN result.code ELSE 2

\* A frame that went out is a message emit accepted, or the END frame behind all of
\* them, which carries the result of the handler.
LEMMA FrameOfServer ==
  ASSUME ServerSound, NEW k \in 1..Len(body)
  PROVE  /\ body[k].kind \in {"data", "end"}
         /\ body[k].kind = "data" => k <= Accepted
         /\ body[k].kind = "end" =>
              /\ k = Accepted + 1
              /\ result # Pending
              /\ Client!decode_end_stream(body[k].verdict) = Told
<1>1. TypeOK /\ Control /\ FlowInv /\ Written
  BY DEF ServerSound
<1>2. body[k] = chan[k] /\ k \in 1..Len(chan)
  BY <1>1 DEF FlowInv, BodyIsPrefix, TypeOK
<1>3. Accepted \in Nat
  BY <1>1, FS_CardinalityType DEF Accepted, Written
<1>4. CASE k <= Accepted
  BY <1>1, <1>2, <1>3, <1>4 DEF Written
<1>5. CASE k > Accepted
  <2>1. k = Accepted + 1 /\ Len(chan) = Accepted + 1
    BY <1>1, <1>2, <1>3, <1>5 DEF Written, TypeOK
  <2>2. /\ hpc = "done" /\ chan[k].kind = "end"
        /\ chan[k].verdict = encode_end_stream(result.code)
    BY <1>1, <2>1 DEF Written
  <2>3. result.code \in Int
    BY <1>1 DEF TypeOK
  <2>4. decode_end_stream(encode_end_stream(result.code)) = Told
    BY <2>3, EndRoundTrip DEF Told
  <2>5. Client!decode_end_stream(body[k].verdict) = decode_end_stream(body[k].verdict)
    BY Zenon DEF Client!decode_end_stream, decode_end_stream, Client!NoError, NoError,
       Client!Nameless, Nameless, Client!code_from_string, code_from_string,
       Client!CodeName, CodeName, Client!CodeNames, CodeNames, Client!Code, Code
  <2>6. result # Pending
    BY <1>1, <2>2 DEF Control, Pending
  <2> QED
    BY <1>2, <2>1, <2>2, <2>4, <2>5, <2>6
<1> QED
  BY <1>3, <1>4, <1>5

\* recv parses a frame ahead of the first None: a message emit accepted, or the END
\* frame, and then it has all of them.
LEMMA Parsed ==
  ASSUME ServerSound, Delivered, Opened, ~Client!Finished, UNCHANGED vars,
         Client!ParseFrame
  PROVE  /\ Delivered'
         /\ \/ /\ Client!Messages < Accepted
               /\ Client!Messages' = Client!Messages + 1 /\ ~Client!Finished'
            \/ /\ Client!Messages = Accepted
               /\ Client!Messages' = Client!Messages
               /\ result # Pending
               /\ Client!Finished' /\ (Client!FirstNone.code)' = Told
<1> DEFINE f == WireFrame(body[next])
           code == Client!decode_end_stream(f.verdict)
<1>1. next = Len(out) + 1 /\ ~sawEnd /\ err = Client!NoErr /\ Len(out) \in Nat
  BY DEF Delivered
<1>2. body \in Seq(Frame) /\ Len(body) \in Nat /\ Accepted \in Nat /\ result.code \in Int
  BY FS_CardinalityType DEF ServerSound, TypeOK, Accepted, Written
<1>3. next <= Len([i \in 1..Len(body) |-> WireFrame(body[i])])
  BY DEF Client!ParseFrame, Client!HasFrame
<1>4. Len([i \in 1..Len(body) |-> WireFrame(body[i])]) = Len(body)
  BY <1>2
<1>5. next \in 1..Len(body) /\ [i \in 1..Len(body) |-> WireFrame(body[i])][next] = f
  BY <1>1, <1>2, <1>3, <1>4
<1>6. /\ next' = next + 1 /\ link' = link
      /\ \/ f.gz = "corrupt"
         \/ /\ f.end
            /\ err' = IF code # 0 THEN Client!Server(code) ELSE err
            /\ out' = Append(out, Client!None(err'))
         \/ /\ ~f.end
            /\ out' = Append(out, Client!Some(next))
            /\ UNCHANGED <<sawEnd, err>>
  <2> HIDE DEF f, code
  <2> QED
    BY <1>5, Zenon DEF Client!ParseFrame, Client!Return, Client!linkVars, code
<1>7. /\ f.gz # "corrupt"
      /\ f.end = (body[next].kind = "end")
      /\ body[next].kind = "end" => f.verdict = body[next].verdict
  BY DEF WireFrame
<1>8. /\ UNCHANGED <<resp, apc>>
      /\ (Opened' <=> Opened)
  BY DEF vars, adapterVars, Opened
<1> HIDE DEF f, code
<1>9. CASE body[next].kind = "end"
  <2>1. next = Accepted + 1 /\ result # Pending /\ code = Told
    BY <1>5, <1>7, <1>9, FrameOfServer DEF code
  <2>2. Told \in Int
    BY <1>2 DEF Told
  <2>3. err' \in Failures /\ err'.code = Told
    <3>1. err' = IF Told # 0 THEN Client!Server(Told) ELSE Client!NoErr
      BY <1>1, <1>6, <1>7, <1>9, <2>1
    <3> QED
      BY <2>2, <3>1 DEF Failures, Client!Server, Client!NoErr
  <2>4. out' = Append(out, Client!None(err'))
    BY <1>6, <1>7, <1>9
  <2>5. /\ out' \in Seq(Returns) /\ Client!Finished'
        /\ Client!Messages = Len(out) /\ Client!Messages' = Len(out)
        /\ Client!FirstNone' = err'
    BY <2>3, <2>4, GotNone
  <2>6. Delivered'
    BY <1>6, <1>8, <2>5 DEF Delivered
  <2>7. Len(out) = Accepted
    <3>1. Len(out) \in Nat /\ Accepted \in Nat /\ Len(out) + 1 = Accepted + 1
      BY <1>1, <1>2, <2>1
    <3>2. \A n, m \in Nat : n + 1 = m + 1 => n = m
      OBVIOUS
    <3> QED
      BY <3>1, <3>2, Zenon
  <2> QED
    BY <2>1, <2>3, <2>5, <2>6, <2>7
<1>10. CASE body[next].kind = "data"
  <2>1. next <= Accepted
    BY <1>5, <1>10, FrameOfServer
  <2>2. out' = Append(out, Client!Some(next)) /\ UNCHANGED <<sawEnd, err>>
    BY <1>6, <1>7, <1>10
  <2>3. /\ out' \in Seq(Returns) /\ Len(out') = Len(out) + 1
        /\ ~Client!Finished'
        /\ Client!Messages = Len(out) /\ Client!Messages' = Len(out) + 1
    BY <1>1, <2>2, GotMessage
  <2>4. Delivered'
    BY <1>1, <1>6, <1>8, <2>2, <2>3 DEF Delivered
  <2> QED
    BY <1>1, <1>2, <2>1, <2>3, <2>4
<1> QED
  BY <1>5, <1>9, <1>10, FrameOfServer

-----------------------------------------------------------------------------
(* The refinement.                                                          *)

\* What a step does to what the caller has got: nothing; a message, when there is one
\* more than it has; the outcome, behind all messages; or a failure.
CallerStep ==
  \/ /\ Client!Messages' = Client!Messages /\ (Client!Finished' <=> Client!Finished)
     /\ Client!Finished => Client!FirstNone' = Client!FirstNone
  \/ /\ ~Client!Finished /\ UNCHANGED vars
     /\ \/ /\ Client!Messages < Accepted
           /\ Client!Messages' = Client!Messages + 1 /\ ~Client!Finished'
        \/ /\ Client!Messages = Accepted /\ Client!Messages' = Client!Messages
           /\ result # Pending
           /\ Client!Finished' /\ (Client!FirstNone.code)' = Told
        \/ /\ Client!Messages' = Client!Messages
           /\ Client!Finished' /\ (Client!FirstNone.code)' = 13

\* As long as no recv returns, the caller has what it has.
LEMMA SameResults ==
  ASSUME out' = out
  PROVE  /\ Client!Messages' = Client!Messages /\ (Client!Finished' <=> Client!Finished)
         /\ Client!FirstNone' = Client!FirstNone
BY DEF Client!Messages, Client!Finished, Client!FirstNone, Client!SelectInSeq

\* A step of recv: a message, an outcome or a failure, or none of them.
LEMMA ReceiveStep ==
  ASSUME ServerSound, Delivered, ClientDoes(Receive)
  PROVE  Delivered' /\ CallerStep
<1>1. /\ UNCHANGED vars /\ Opened /\ ~Client!Finished
      /\ Client!Recv \/ Client!RecvStep
  BY DEF ClientDoes, Receive, Looping
<1>2. Opened' /\ apc' \notin {"select", "head"}
  BY <1>1 DEF vars, adapterVars, Opened, Delivered
<1>3. ~sawEnd /\ out \in Seq(Returns)
  BY <1>1 DEF Delivered
<1>4. CASE Client!Recv \/ Client!Starve \/ Client!TakeChunk
  <2>1. UNCHANGED <<out, next, sawEnd, err, link>>
    BY <1>4 DEF Client!Recv, Client!Starve, Client!TakeChunk, Client!linkVars, Client!parseVars
  <2>2. CallerStep
    BY <2>1, SameResults DEF CallerStep
  <2>3. Client!Finished' <=> Client!Finished
    BY <2>1, SameResults
  <2>4. Delivered'
    <3>1. next' = Len(out') + 1 /\ ~sawEnd' /\ err' = Client!NoErr
      BY <1>1, <2>1 DEF Delivered
    <3> QED
      BY <1>2, <1>3, <2>1, <3>1 DEF Delivered
  <2> QED
    BY <2>2, <2>4
<1>5. CASE Client!ReturnEnded
  BY <1>3, <1>5 DEF Client!ReturnEnded, Client!StopsHere
<1>6. CASE Client!ParseFrame
  BY <1>1, <1>6, Parsed DEF CallerStep
<1>7. ASSUME NEW e \in Failures, e.code = 13, out' = Append(out, Client!None(e))
      PROVE  Delivered' /\ CallerStep
  <2>1. /\ out' \in Seq(Returns) /\ Client!Finished'
        /\ Client!Messages' = Client!Messages
        /\ Client!FirstNone' = e
    BY <1>1, <1>7, GotNone
  <2>2. Delivered'
    BY <1>2, <2>1 DEF Delivered
  <2>3. CallerStep
    BY <1>1, <1>7, <2>1 DEF CallerStep
  <2> QED
    BY <2>2, <2>3
<1>8. CASE Client!TakeError
  <2>1. Client!Local("link") \in Failures /\ Client!Local("link").code = 13
    BY DEF Failures, Client!Local
  <2> QED
    BY <1>7, <1>8, <2>1 DEF Client!TakeError, Client!Return
<1>9. CASE Client!TakeEof
  <2>1. \A cause \in {"truncated", "missing"} :
          Client!Local(cause) \in Failures /\ Client!Local(cause).code = 13
    BY DEF Failures, Client!Local
  <2>2. Client!EofError \in {Client!Local("truncated"), Client!Local("missing")}
    BY <1>3 DEF Client!EofError
  <2>3. out' = Append(out, Client!None(Client!EofError))
    BY <1>9 DEF Client!TakeEof, Client!Return
  <2> QED
    BY <1>7, <2>1, <2>2, <2>3
<1> QED
  BY <1>1, <1>4, <1>5, <1>6, <1>8, <1>9 DEF Client!RecvStep

\* The connection breaks: a caller that waits for the stream to open gets the error.
LEMMA BreakStep ==
  ASSUME Delivered, ClientDoes(LinkBreaks)
  PROVE  Delivered' /\ CallerStep
<1>1. UNCHANGED vars /\ LinkBreaks
  BY DEF ClientDoes
<1>2. (Opened' <=> Opened) /\ apc' = apc
  BY <1>1 DEF vars, adapterVars, Opened
<1>3. link = "open" /\ link' = "closed" /\ UNCHANGED <<next, sawEnd, err>>
  BY <1>1 DEF LinkBreaks, Client!BodyError, Client!parseVars
<1>4. CASE out' = out
  <2>1. CallerStep
    BY <1>4, SameResults DEF CallerStep
  <2>2. Client!Finished' <=> Client!Finished
    BY <1>4, SameResults
  <2> QED
    BY <1>2, <1>3, <1>4, <2>1, <2>2 DEF Delivered
<1>5. CASE ~Opened /\ ~dropped /\ out' = <<Client!None(Client!Local("link"))>>
  <2>1. out = <<>>
    BY <1>3, <1>5 DEF Delivered
  <2>2. ~Client!Finished
    BY <2>1 DEF Client!Finished
  <2>3. Client!Local("link") \in Failures /\ Client!Local("link").code = 13
    BY DEF Failures, Client!Local
  <2>4. out' = Append(out, Client!None(Client!Local("link")))
    BY <1>5, <2>1
  <2>5. /\ out' \in Seq(Returns) /\ Client!Finished'
        /\ Client!Messages' = Client!Messages
        /\ Client!FirstNone' = Client!Local("link")
    BY <2>2, <2>3, <2>4, GotNone
  <2>6. Delivered'
    BY <1>2, <1>3, <2>5 DEF Delivered
  <2>7. CallerStep
    BY <1>1, <2>2, <2>3, <2>5 DEF CallerStep
  <2> QED
    BY <2>6, <2>7
<1> QED
  BY <1>1, <1>4, <1>5 DEF LinkBreaks, Client!BodyError

\* What the others do leaves the results alone.
LEMMA OtherStep ==
  ASSUME TypeOK, Delivered,
         UNCHANGED <<out, next, sawEnd, err>>, link' = link \/ link' = "closed",
         UNCHANGED vars \/ Next
  PROVE  Delivered' /\ CallerStep
<1>1. CallerStep
  BY SameResults DEF CallerStep
<1>2. Client!Finished' <=> Client!Finished
  BY SameResults
<1>3. /\ Opened => Opened'
      /\ apc' \in {"select", "head"} => apc \in {"select", "head"} /\ (Opened' <=> Opened)
  <2>1. CASE UNCHANGED <<resp, apc>>
    BY <2>1 DEF Opened
  <2>2. CASE UNCHANGED resp /\ apc' \notin {"select", "head"}
    BY <2>2 DEF Opened
  <2>3. CASE apc = "select" /\ apc' = "head" /\ UNCHANGED resp
    BY <2>3 DEF Opened
  <2>4. CASE TakeHead
    BY <2>4 DEF TakeHead, Delivered
  <2>5. UNCHANGED vars => UNCHANGED <<resp, apc>>
    BY DEF vars, adapterVars
  <2>6. AdapterStep \/ Disconnect =>
          \/ UNCHANGED <<resp, apc>>
          \/ UNCHANGED resp /\ apc' \notin {"select", "head"}
          \/ apc = "select" /\ apc' = "head" /\ UNCHANGED resp
          \/ TakeHead
    BY DEF AdapterStep, SelectFrame, SelectTaskDone, FlowFirst, FlowRest, CloseBody, Disconnect
  <2>7. Next => AdapterStep \/ Disconnect \/ UNCHANGED <<resp, apc>>
    BY DEF Next, EmitStep, HandleStep, EmitBegin, EmitSwap, EmitHeader, EmitWrite, DropEmit,
           SetHeader, HandlerReturn, HandlerPanic, CheckApplied, ApplyHeaders, MarkEnded,
           WriteEnd, adapterVars
  <2> QED
    BY <2>1, <2>2, <2>3, <2>4, <2>5, <2>6, <2>7
<1> QED
  BY <1>1, <1>2, <1>3 DEF Delivered

\* What each step of a call does to what the caller has got.
LEMMA DeliveredStep ==
  ASSUME ServerSound, Delivered, [CallNext]_allVars
  PROVE  Delivered' /\ CallerStep
<1>1. TypeOK
  BY DEF ServerSound
<1>2. CASE (Next \/ UNCHANGED vars) /\ UNCHANGED <<script, dropped, clientVars>>
  <2>1. UNCHANGED <<out, next, sawEnd, err, link>>
    BY <1>2 DEF clientVars, recvVars
  <2> QED
    BY <1>1, <1>2, <2>1, OtherStep
<1>3. CASE UNCHANGED allVars
  <2>1. UNCHANGED <<out, next, sawEnd, err, link>> /\ UNCHANGED vars
    BY <1>3 DEF allVars, clientVars, recvVars
  <2> QED
    BY <1>1, <2>1, OtherStep
<1>4. CASE ClientDoes(Transfer)
  <2>1. UNCHANGED vars /\ Transfer
    BY <1>4 DEF ClientDoes
  <2>2. UNCHANGED <<out, next, sawEnd, err>> /\ (link' = link \/ link' = "closed")
    BY <2>1 DEF Transfer, Arrive, Eof, Client!Deliver, Client!BodyEof, Client!parseVars, recvVars
  <2> QED
    BY <1>1, <2>1, <2>2, OtherStep
<1>5. CASE Drop
  <2>1. UNCHANGED <<out, next, sawEnd, err>> /\ (link' = link \/ link' = "closed")
        /\ UNCHANGED vars
    BY <1>5 DEF Drop
  <2> QED
    BY <1>1, <2>1, OtherStep
<1> QED
  BY <1>2, <1>3, <1>4, <1>5, ReceiveStep, BreakStep, ServerStep DEF CallNext, ServerDoes

\* The caller of a call has got what Delivered says.
LEMMA DeliveredCorrect == CallSpec => []Delivered
<1>1. CallInit => Delivered
  <2> SUFFICES ASSUME CallInit PROVE Delivered
    OBVIOUS
  <2>1. out = <<>> /\ next = 1 /\ sawEnd = FALSE /\ err = Client!NoErr
    BY DEF CallInit, Client!Init
  <2>2. ~Opened
    BY DEF CallInit, Init, Opened, NoResponse
  <2> QED
    BY <2>1, <2>2 DEF Delivered
<1>2. ServerSound /\ Delivered /\ [CallNext]_allVars => Delivered'
  BY DeliveredStep
<1> QED
  BY <1>1, <1>2, ServerOfCallSound, PTL DEF CallSpec

\* A step of a call is a step of the abstract stream, or none.
LEMMA CallIsStream ==
  ASSUME ServerSound, ServerSound', Delivered, [CallNext]_allVars
  PROVE  [EndToEnd!MSNext]_(EndToEnd!msVars)
<1> DEFINE of == [messages |-> Accepted,
                  outcome  |-> IF result = Pending THEN {} ELSE {Told}]
           got == Client!Messages
           end == IF Client!Finished THEN {Client!FirstNone.code} ELSE {}
<1>1. OfferStep /\ CallerStep
  BY WrittenStep, DeliveredStep DEF ServerSound
<1>2. /\ Accepted \in Nat /\ Accepted' \in Nat
      /\ Told' \in Int
  <2>1. Written /\ Written' /\ TypeOK'
    BY DEF ServerSound
  <2>2. Accepted \in Nat
    BY <2>1, FS_CardinalityType DEF Accepted, Written
  <2>3. Accepted' \in Nat
    BY <2>1, FS_CardinalityType DEF Accepted, Written
  <2>4. Told' \in Int
    BY <2>1 DEF TypeOK, Told
  <2> QED
    BY <2>2, <2>3, <2>4
<1>3. of' \in [messages : Nat, outcome : SUBSET Int]
  BY <1>2
<1>4. UNCHANGED clientVars => UNCHANGED <<got, end>>
  BY SameResults DEF clientVars, recvVars
<1>5. UNCHANGED vars => UNCHANGED of
  BY DEF vars, handlerVars, emitVars, Accepted, Told
<1>6. /\ EndToEnd!MSNext <=>
           EndToEnd!Provide \/ EndToEnd!Message \/ EndToEnd!Finish \/ EndToEnd!Break
      /\ UNCHANGED <<of, got, end>> => UNCHANGED EndToEnd!msVars
  BY DEF EndToEnd!MSNext, EndToEnd!msVars, Accepted, Told
<1>7. CASE /\ UNCHANGED clientVars
           /\ result = Pending
           /\ \/ UNCHANGED result /\ Accepted' = Accepted + 1
              \/ UNCHANGED Accepted /\ result' # Pending
  <2>1. of.outcome = {} /\ of.messages = Accepted
    BY <1>7
  <2>2. \/ of'.messages = of.messages + 1 /\ of'.outcome = {}
        \/ of'.messages = of.messages /\ of'.outcome # {}
    BY <1>7
  <2>3. UNCHANGED <<got, end>>
    BY <1>4, <1>7
  <2>4. EndToEnd!Provide
    BY <1>3, <2>1, <2>2, <2>3 DEF EndToEnd!Provide, Accepted, Told
  <2> QED
    BY <1>6, <2>4
<1>8. CASE UNCHANGED vars /\ ~Client!Finished
  <2>1. UNCHANGED of /\ end = {}
    BY <1>5, <1>8
  <2>2. CASE Client!Messages < Accepted /\ got' = got + 1 /\ ~Client!Finished'
    <3>1. EndToEnd!Message
      BY <2>1, <2>2 DEF EndToEnd!Message, Accepted, Told
    <3> QED
      BY <1>6, <3>1
  <2>3. CASE /\ Client!Messages = Accepted /\ UNCHANGED got
             /\ result # Pending
             /\ Client!Finished' /\ (Client!FirstNone.code)' = Told
    <3>1. end' = {Told} /\ of.outcome = {Told} /\ of.messages = got
      BY <2>3
    <3>2. EndToEnd!Finish
      BY <2>1, <2>3, <3>1 DEF EndToEnd!Finish, Accepted, Told
    <3> QED
      BY <1>6, <3>2
  <2>4. CASE UNCHANGED got /\ Client!Finished' /\ (Client!FirstNone.code)' = 13
    <3>1. EndToEnd!Break
      BY <2>1, <2>4 DEF EndToEnd!Break, EndToEnd!Internal, Accepted, Told
    <3> QED
      BY <1>6, <3>1
  <2>5. CASE /\ UNCHANGED got /\ (Client!Finished' <=> Client!Finished)
    <3>1. UNCHANGED end
      BY <1>8, <2>5
    <3> QED
      BY <1>6, <2>1, <2>5, <3>1
  <2> QED
    BY <1>1, <1>8, <2>2, <2>3, <2>4, <2>5 DEF CallerStep
<1>9. CASE /\ UNCHANGED <<result, Accepted, got>> /\ (Client!Finished' <=> Client!Finished)
           /\ Client!Finished => Client!FirstNone' = Client!FirstNone
  <2>1. UNCHANGED of /\ UNCHANGED end
    BY <1>9 DEF Told
  <2> QED
    BY <1>6, <1>9, <2>1
<1> QED
  BY <1>1, <1>7, <1>8, <1>9 DEF OfferStep, CallerStep

\* From end to end a caller sees a MessageStream of the handler's own: all messages
\* that emit accepted, in order, ahead of the handler's result; and an error when the
\* handler panics, the connection breaks or a message is refused.
THEOREM HandlerReaches == CallSpec => HandlerReachesCaller
<1>1. CallInit => EndToEnd!MSInit
  <2> SUFFICES ASSUME CallInit PROVE EndToEnd!MSInit
    OBVIOUS
  <2>1. accepted = {} /\ result = Pending /\ out = <<>>
    BY DEF CallInit, Init, Client!Init
  <2>2. Cardinality(accepted) = 0
    BY <2>1, FS_EmptySet
  <2>3. ~Client!Finished /\ Len(out) = 0
    BY <2>1 DEF Client!Finished
  <2>4. Client!Messages = 0
    BY <2>3, Zenon DEF Client!Messages
  <2> QED
    BY <2>1, <2>2, <2>3, <2>4 DEF EndToEnd!MSInit
<1>2. ServerSound /\ ServerSound' /\ Delivered /\ [CallNext]_allVars
        => [EndToEnd!MSNext]_(EndToEnd!msVars)
  BY CallIsStream
<1> QED
  BY <1>1, <1>2, ServerOfCallSound, DeliveredCorrect, PTL
  DEF CallSpec, HandlerReachesCaller, EndToEnd!MSSpec
=============================================================================
