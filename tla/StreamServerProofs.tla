------------------------- MODULE StreamServerProofs -------------------------
(***************************************************************************)
(* Proofs about StreamServer for any set of threads, any number of emits   *)
(* and any error codes.                                                    *)
(***************************************************************************)
EXTENDS StreamServer, EncodingProofs, SequenceTheorems

-----------------------------------------------------------------------------
(* Frames.                                                                  *)

\* A frame emit writes is a data frame.
LEMMA DataInFrame ==
  ASSUME NEW t \in Threads, NEW n \in Nat, NEW gz \in BOOLEAN
  PROVE  /\ Data([by |-> t, n |-> n], gz) \in Frame
         /\ Data([by |-> t, n |-> n], gz).kind = "data"
BY DEF Data, Frame, DataFrame

\* An END frame names a code of the protocol, whatever i32 the error carried, and
\* the client decodes it (encode_end_stream_meta, decode_end_stream).
LEMMA EndInFrame ==
  ASSUME NEW c \in Int
  PROVE  /\ End(c) \in Frame
         /\ End(c).kind = "end"
         /\ End(c).verdict = encode_end_stream(c)
BY EndRoundTrip DEF End, Frame, EndFrame

\* handle writes one END frame.
LEMMA OneEndFrame ==
  ASSUME result \in [kind : {"pending", "ok", "err"}, code : Int]
  PROVE  \E c \in Int : /\ EndFrames = <<End(c)>>
                        /\ c = IF result.kind = "err" THEN result.code ELSE 0
BY DEF EndFrames

\* The writer adds nothing to the channel, or one frame: a message of a thread
\* that is inside emit, or, once, the END frame of handle.
LEMMA ChanStep ==
  ASSUME TypeOK, Next
  PROVE  \/ chan' = chan
         \/ \E t \in Threads, gz \in BOOLEAN :
               /\ EmitWrite(t)
               /\ Receiving
               /\ chan' = Append(chan, Data(Current(t), gz))
         \/ \E c \in Int :
               /\ WriteEnd
               /\ c = IF result.kind = "err" THEN result.code ELSE 0
               /\ chan' = Append(chan, End(c))
<1>1. ASSUME NEW t \in Threads, EmitWrite(t)
      PROVE  \/ chan' = chan
             \/ \E gz \in BOOLEAN : Receiving /\ chan' = Append(chan, Data(Current(t), gz))
  BY <1>1 DEF EmitWrite, Sent, TypeOK
<1>2. ASSUME WriteEnd
      PROVE  \/ chan' = chan
             \/ \E c \in Int : /\ c = IF result.kind = "err" THEN result.code ELSE 0
                               /\ chan' = Append(chan, End(c))
  <2>1. PICK c \in Int : /\ EndFrames = <<End(c)>>
                         /\ c = IF result.kind = "err" THEN result.code ELSE 0
    BY OneEndFrame DEF TypeOK
  <2>2. End(c) \in Frame /\ chan \in Seq(Frame)
    BY EndInFrame DEF TypeOK
  <2>3. chan \o <<End(c)>> = Append(chan, End(c))
    BY <2>2, AppendIsConcat
  <2> QED
    BY <1>2, <2>1, <2>3 DEF WriteEnd
<1>3. ASSUME NEW t \in Threads, EmitBegin(t) \/ EmitSwap(t) \/ EmitHeader(t) \/ DropEmit(t)
      PROVE  chan' = chan
  BY <1>3 DEF EmitBegin, EmitSwap, EmitHeader, DropEmit
<1>4. ASSUME \/ \E t \in Threads, h \in HandlerHeaders : SetHeader(t, h)
             \/ HandlerReturn(Success)
             \/ \E c \in ErrCodes : HandlerReturn(Failure(c))
             \/ HandlerPanic \/ CheckApplied \/ ApplyHeaders \/ MarkEnded
      PROVE  chan' = chan
  BY <1>4 DEF SetHeader, HandlerReturn, HandlerPanic, CheckApplied, ApplyHeaders, MarkEnded
<1>5. ASSUME AdapterStep \/ Disconnect
      PROVE  chan' = chan
  BY <1>5 DEF AdapterStep, SelectFrame, SelectTaskDone, TakeHead, FlowFirst, FlowRest,
              CloseBody, Disconnect
<1> QED
  BY <1>1, <1>2, <1>3, <1>4, <1>5 DEF Next, EmitStep, HandleStep

-----------------------------------------------------------------------------
(* Types.                                                                   *)

\* What the code can put into its variables stays within TypeOK, whatever the
\* handler does.
THEOREM TypeCorrect == Spec => []TypeOK
<1>1. Init => TypeOK
  <2> SUFFICES ASSUME Init PROVE TypeOK
    OBVIOUS
  <2>1. Pending \in [kind : {"pending", "ok", "err"}, code : Int]
    BY DEF Pending
  <2>2. NoResponse \in [status : {0, 200, 500}, headers : SUBSET (HandlerHeaders \cup ServerHeaders)]
    BY DEF NoResponse
  <2>3. <<>> \in Seq(Frame) /\ Len(<<>>) = 0
    OBVIOUS
  <2>4. chan \in Seq(Frame) /\ taken \in 0..Len(chan)
    BY <2>3 DEF Init
  <2>5. first \in Seq(Frame) /\ Len(first) <= 1 /\ body \in Seq(Frame)
    BY <2>3 DEF Init
  <2>6. /\ result \in [kind : {"pending", "ok", "err"}, code : Int]
        /\ resp \in [status : {0, 200, 500}, headers : SUBSET (HandlerHeaders \cup ServerHeaders)]
    BY <2>1, <2>2 DEF Init
  <2>7. epc \in [Threads -> {"idle", "swap", "header", "write"}] /\ calls \in [Threads -> Nat]
    BY DEF Init
  <2> QED
    BY <2>4, <2>5, <2>6, <2>7 DEF Init, TypeOK
<1>2. TypeOK /\ [Next]_vars => TypeOK'
  <2> SUFFICES ASSUME TypeOK, [Next]_vars
               PROVE  TypeOK'
    OBVIOUS
  <2>1. CASE UNCHANGED vars
    BY <2>1 DEF vars, callVars, handlerVars, emitVars, flagVars, adapterVars, TypeOK
  <2>2. ASSUME NEW t \in Threads, EmitBegin(t)
        PROVE  TypeOK'
    <3>1. /\ calls' \in [Threads -> Nat]
          /\ epc' \in [Threads -> {"idle", "swap", "header", "write"}]
          /\ accepted' \subseteq Message
      <4>0. /\ calls \in [Threads -> Nat]
            /\ epc \in [Threads -> {"idle", "swap", "header", "write"}]
            /\ accepted \subseteq Message
        BY DEF TypeOK
      <4>1. calls[t] \in Nat /\ [by |-> t, n |-> calls[t] + 1] \in Message
        BY <4>0 DEF Message
      <4>2. calls' = [calls EXCEPT ![t] = calls[t] + 1]
        BY <2>2 DEF EmitBegin
      <4>3. epc' = epc \/ epc' = [epc EXCEPT ![t] = "swap"]
        BY <2>2 DEF EmitBegin
      <4>4. accepted' = accepted \/ accepted' = accepted \cup {[by |-> t, n |-> calls[t] + 1]}
        BY <2>2 DEF EmitBegin
      <4>5. calls' \in [Threads -> Nat]
        BY <4>0, <4>1, <4>2
      <4>6. epc' \in [Threads -> {"idle", "swap", "header", "write"}]
        BY <4>0, <4>3
      <4>7. accepted' \subseteq Message
        BY <4>0, <4>1, <4>4
      <4> QED
        BY <4>5, <4>6, <4>7
    <3>2. /\ UNCHANGED <<joins, gzip, hpc, result, recorded, live, ended, applied>>
          /\ UNCHANGED <<headers, chan, taken, first, apc, resp, body>>
      BY <2>2 DEF EmitBegin, callVars, handlerVars, flagVars, adapterVars
    <3> QED
      BY <3>1, <3>2 DEF TypeOK
  <2>3. ASSUME NEW t \in Threads, EmitSwap(t)
        PROVE  TypeOK'
    BY <2>3 DEF EmitSwap, TypeOK, callVars, handlerVars, adapterVars
  <2>4. ASSUME NEW t \in Threads, EmitHeader(t)
        PROVE  TypeOK'
    BY <2>4 DEF EmitHeader, MergedHeaders, BaseHeaders, ServerHeaders, TypeOK,
                callVars, handlerVars, flagVars, adapterVars
  <2>5. ASSUME NEW t \in Threads, EmitWrite(t)
        PROVE  TypeOK'
    <3>1. \A gz \in BOOLEAN : Data(Current(t), gz) \in Frame
      BY <2>5, DataInFrame DEF Current, TypeOK
    <3>2. chan' \in Seq(Frame) /\ Len(chan') >= Len(chan)
      BY <2>5, <3>1 DEF EmitWrite, Sent, TypeOK
    <3>3. accepted' \subseteq Message
      BY <2>5 DEF EmitWrite, Sent, Current, Message, TypeOK
    <3> QED
      BY <2>5, <3>2, <3>3 DEF EmitWrite, Sent, TypeOK, callVars, handlerVars, flagVars, adapterVars
  <2>6. ASSUME NEW t \in Threads, DropEmit(t)
        PROVE  TypeOK'
    BY <2>6 DEF DropEmit, TypeOK, callVars, handlerVars, flagVars, adapterVars
  <2>7. ASSUME NEW t \in Threads, NEW h \in HandlerHeaders, SetHeader(t, h)
        PROVE  TypeOK'
    BY <2>7 DEF SetHeader, TypeOK, callVars, emitVars, flagVars, adapterVars
  <2>8. ASSUME NEW r \in [kind : {"ok", "err"}, code : Int], HandlerReturn(r)
        PROVE  TypeOK'
    BY <2>8 DEF HandlerReturn, TypeOK, callVars, flagVars, adapterVars
  <2>9. CASE HandlerPanic
    BY <2>9 DEF HandlerPanic, TypeOK, callVars, handlerVars, flagVars, adapterVars
  <2>10. CASE CheckApplied
    BY <2>10 DEF CheckApplied, TypeOK, callVars, handlerVars, emitVars, flagVars, adapterVars
  <2>11. CASE ApplyHeaders
    BY <2>11 DEF ApplyHeaders, MergedHeaders, BaseHeaders, ServerHeaders, TypeOK,
                 callVars, handlerVars, emitVars, flagVars, adapterVars
  <2>12. CASE MarkEnded
    BY <2>12 DEF MarkEnded, TypeOK, callVars, handlerVars, emitVars, adapterVars
  <2>13. CASE WriteEnd
    <3>1. chan' \in Seq(Frame) /\ Len(chan') >= Len(chan)
      <4>1. PICK c \in Int : EndFrames = <<End(c)>>
        BY OneEndFrame DEF TypeOK
      <4> QED
        BY <2>13, <4>1, EndInFrame DEF WriteEnd, TypeOK
    <3> QED
      BY <2>13, <3>1 DEF WriteEnd, TypeOK, callVars, handlerVars, emitVars, flagVars, adapterVars
  <2>14. CASE SelectFrame
    BY <2>14 DEF SelectFrame, FrameReady, TypeOK, callVars, handlerVars, emitVars, flagVars
  <2>15. CASE SelectTaskDone
    BY <2>15 DEF SelectTaskDone, TypeOK, callVars, handlerVars, emitVars, flagVars
  <2>16. CASE TakeHead
    BY <2>16 DEF TakeHead, TypeOK, callVars, handlerVars, emitVars, flagVars
  <2>17. CASE FlowFirst
    BY <2>17 DEF FlowFirst, TypeOK, callVars, handlerVars, emitVars, flagVars
  <2>18. CASE FlowRest
    BY <2>18 DEF FlowRest, TypeOK, callVars, handlerVars, emitVars, flagVars
  <2>19. CASE CloseBody
    BY <2>19 DEF CloseBody, TypeOK, callVars, handlerVars, emitVars, flagVars
  <2>20. CASE Disconnect
    BY <2>20 DEF Disconnect, TypeOK, callVars, handlerVars, emitVars, flagVars
  <2>21. /\ Success \in [kind : {"ok", "err"}, code : Int]
         /\ \A c \in ErrCodes : Failure(c) \in [kind : {"ok", "err"}, code : Int]
    BY StreamServerAssumption DEF Success, Failure
  <2> QED
    BY <2>1, <2>2, <2>3, <2>4, <2>5, <2>6, <2>7, <2>8, <2>9, <2>10, <2>11, <2>12, <2>13,
       <2>14, <2>15, <2>16, <2>17, <2>18, <2>19, <2>20, <2>21
    DEF Next, EmitStep, HandleStep, AdapterStep
<1> QED
  BY <1>1, <1>2, PTL DEF Spec

-----------------------------------------------------------------------------
(* Who may still emit.                                                      *)

\* Threads inside emit own it; the handler's thread owns it no longer after
\* the handler, and nobody does when the handler waited for the others.
Control ==
  /\ \A t \in Threads : epc[t] # "idle" => t \in live
  /\ hpc # "handler" => Main \notin live
  /\ joins /\ hpc # "handler" => live = {}
  /\ hpc \in {"handler", "panicked"} <=> result.kind = "pending"
  /\ ended <=> hpc \in {"end", "done"}

\* The points of handle's code, the result it has there and `ended` go together.
LEMMA ControlCorrect == Spec => []Control
<1>1. Init => Control
  BY DEF Init, Control, Pending
<1>2. TypeOK /\ Control /\ [Next]_vars => Control'
  <2> SUFFICES ASSUME TypeOK, Control, [Next]_vars
               PROVE  Control'
    OBVIOUS
  <2> USE DEF Control, TypeOK
  <2>1. CASE UNCHANGED vars
    BY <2>1 DEF vars, callVars, handlerVars, emitVars, flagVars
  <2>2. ASSUME NEW t \in Threads, EmitBegin(t) \/ EmitStep(t) \/ DropEmit(t)
        PROVE  Control'
    BY <2>2 DEF EmitBegin, MayCall, EmitStep, EmitSwap, EmitHeader, EmitWrite, Sent, DropEmit,
                callVars, handlerVars, flagVars
  <2>3. ASSUME NEW r \in {Success} \cup {Failure(c) : c \in ErrCodes}, HandlerReturn(r)
        PROVE  Control'
    BY <2>3 DEF HandlerReturn, MayLeave, InHandler, Success, Failure, callVars, flagVars
  <2>4. CASE HandlerPanic
    BY <2>4 DEF HandlerPanic, MayLeave, InHandler, callVars, handlerVars, flagVars
  <2>5. ASSUME NEW t \in Threads, NEW h \in HandlerHeaders, SetHeader(t, h)
        PROVE  Control'
    BY <2>5 DEF SetHeader, callVars, emitVars, flagVars
  <2>6. CASE HandleStep
    BY <2>6 DEF HandleStep, CheckApplied, ApplyHeaders, MarkEnded, WriteEnd,
                callVars, handlerVars, emitVars, flagVars
  <2>7. CASE AdapterStep \/ Disconnect
    BY <2>7 DEF AdapterStep, SelectFrame, SelectTaskDone, TakeHead, FlowFirst, FlowRest,
                CloseBody, Disconnect, callVars, handlerVars, emitVars, flagVars
  <2> QED
    BY <2>1, <2>2, <2>3, <2>4, <2>5, <2>6, <2>7 DEF Next
<1> QED
  BY <1>1, <1>2, TypeCorrect, PTL DEF Spec

-----------------------------------------------------------------------------
(* The END frame.                                                           *)

\* The strengthening: there is no END frame before handle has written it, and
\* handle has written it while somebody still receives.
EndInv ==
  /\ (\E i \in 1..Len(chan) : chan[i].kind = "end") => hpc = "done"
  /\ hpc = "done" /\ Receiving => \E i \in 1..Len(chan) : chan[i].kind = "end"
  /\ EndIsLast
  /\ AtMostOneEnd
  /\ EndTellsResult

\* Whether the handler waits for its threads does not change.
LEMMA JoinsIsFixed == [Next]_vars => joins' = joins
BY DEF Next, EmitStep, HandleStep, AdapterStep, EmitBegin, EmitSwap, EmitHeader, EmitWrite, Sent,
       DropEmit, SetHeader, HandlerReturn, HandlerPanic, CheckApplied, ApplyHeaders, MarkEnded,
       WriteEnd, SelectFrame, SelectTaskDone, TakeHead, FlowFirst, FlowRest, CloseBody,
       Disconnect, callVars, vars

\* A step other than a write keeps EndInv.
LEMMA EndInvFrame ==
  ASSUME TypeOK, Control, EndInv, Next, chan' = chan
  PROVE  EndInv'
<1>1. joins' = joins
  BY JoinsIsFixed
<1>2. result' = result \/ hpc = "handler"
  BY DEF Next, EmitStep, HandleStep, AdapterStep, EmitBegin, EmitSwap, EmitHeader, EmitWrite, Sent,
         DropEmit, SetHeader, HandlerReturn, HandlerPanic, CheckApplied, ApplyHeaders, MarkEnded,
         WriteEnd, SelectFrame, SelectTaskDone, TakeHead, FlowFirst, FlowRest, CloseBody,
         Disconnect, handlerVars, MayLeave, InHandler
<1>3. hpc = "done" => hpc' = "done"
  BY DEF Next, EmitStep, HandleStep, AdapterStep, EmitBegin, EmitSwap, EmitHeader, EmitWrite, Sent,
         DropEmit, SetHeader, HandlerReturn, HandlerPanic, CheckApplied, ApplyHeaders, MarkEnded,
         WriteEnd, SelectFrame, SelectTaskDone, TakeHead, FlowFirst, FlowRest, CloseBody,
         Disconnect, MayLeave, InHandler
<1>4. Receiving' => Receiving
  BY DEF Next, EmitStep, HandleStep, AdapterStep, EmitBegin, EmitSwap, EmitHeader, EmitWrite, Sent,
         DropEmit, SetHeader, HandlerReturn, HandlerPanic, CheckApplied, ApplyHeaders, MarkEnded,
         WriteEnd, SelectFrame, SelectTaskDone, TakeHead, FlowFirst, FlowRest, CloseBody,
         Disconnect, adapterVars, Receiving
<1>5. hpc' = "done" /\ hpc # "done" => ~Receiving
  <2> SUFFICES ASSUME hpc' = "done", hpc # "done", Receiving
               PROVE  FALSE
    OBVIOUS
  <2>1. WriteEnd
    BY DEF Next, EmitStep, HandleStep, AdapterStep, EmitBegin, EmitSwap, EmitHeader, EmitWrite, Sent,
           DropEmit, SetHeader, HandlerReturn, HandlerPanic, CheckApplied, ApplyHeaders, MarkEnded,
           SelectFrame, SelectTaskDone, TakeHead, FlowFirst, FlowRest, CloseBody, Disconnect
  <2>2. PICK c \in Int : EndFrames = <<End(c)>>
    BY OneEndFrame DEF TypeOK
  <2>3. Len(chan \o <<End(c)>>) = Len(chan) + 1
    BY EndInFrame DEF TypeOK
  <2> QED
    BY <2>1, <2>2, <2>3 DEF WriteEnd, TypeOK
<1>6. (\E i \in 1..Len(chan) : chan[i].kind = "end") => result' = result /\ hpc' = "done"
  BY <1>2, <1>3 DEF EndInv
<1>7. EndIsLast' /\ AtMostOneEnd'
  BY <1>1 DEF EndInv, EndIsLast, AtMostOneEnd
<1>8. EndTellsResult'
  BY <1>6 DEF EndInv, EndTellsResult
<1>9. hpc' = "done" /\ Receiving' => \E i \in 1..Len(chan) : chan[i].kind = "end"
  BY <1>4, <1>5 DEF EndInv
<1> QED
  BY <1>6, <1>7, <1>8, <1>9 DEF EndInv

\* A message enters the channel: somebody owns emit, so under `joins` handle
\* has not come to its END frame yet.
LEMMA EndInvData ==
  ASSUME TypeOK, Control, EndInv,
         NEW t \in Threads, NEW gz \in BOOLEAN, EmitWrite(t), Receiving,
         chan' = Append(chan, Data(Current(t), gz))
  PROVE  EndInv'
<1> DEFINE f == Data(Current(t), gz)
<1>1. f \in Frame /\ f.kind = "data"
  BY DataInFrame DEF Current, TypeOK
<1>2. /\ Len(chan') = Len(chan) + 1
      /\ \A i \in 1..Len(chan) : chan'[i] = chan[i]
      /\ chan'[Len(chan) + 1] = f
      /\ Len(chan) \in Nat
  BY <1>1 DEF TypeOK
<1>3. joins' = joins /\ hpc' = hpc /\ result' = result /\ apc' = apc
  BY DEF EmitWrite, Sent, callVars, handlerVars, adapterVars
<1>4. \A i \in 1..Len(chan') :
         chan'[i].kind = "end" => i \in 1..Len(chan) /\ chan'[i] = chan[i]
  BY <1>1, <1>2
<1>5. joins => \A i \in 1..Len(chan) : chan[i].kind # "end"
  BY DEF EndInv, Control, EmitWrite, Sent
<1>6. (\E i \in 1..Len(chan') : chan'[i].kind = "end") => hpc' = "done"
  BY <1>3, <1>4 DEF EndInv
<1>7. hpc' = "done" /\ Receiving' => \E i \in 1..Len(chan') : chan'[i].kind = "end"
  BY <1>2, <1>3 DEF EndInv, Receiving
<1>8. EndIsLast'
  BY <1>3, <1>4, <1>5 DEF EndIsLast
<1>9. AtMostOneEnd'
  BY <1>4 DEF AtMostOneEnd, EndInv
<1>10. EndTellsResult'
  BY <1>3, <1>4 DEF EndTellsResult, EndInv
<1> QED
  BY <1>6, <1>7, <1>8, <1>9, <1>10 DEF EndInv

\* handle writes its END frame.
LEMMA EndInvEnd ==
  ASSUME TypeOK, Control, EndInv, WriteEnd,
         NEW c \in Int, c = (IF result.kind = "err" THEN result.code ELSE 0),
         chan' = Append(chan, End(c))
  PROVE  EndInv'
<1>1. End(c) \in Frame /\ End(c).kind = "end" /\ End(c).verdict = encode_end_stream(c)
  BY EndInFrame
<1>2. /\ Len(chan') = Len(chan) + 1
      /\ \A i \in 1..Len(chan) : chan'[i] = chan[i]
      /\ chan'[Len(chan) + 1] = End(c)
      /\ Len(chan) \in Nat
  BY <1>1 DEF TypeOK
<1>3. joins' = joins /\ hpc' = "done" /\ result' = result
  BY DEF WriteEnd, callVars, handlerVars
<1>4. \A i \in 1..Len(chan) : chan[i].kind # "end"
  BY DEF EndInv, WriteEnd
<1>5. \A i \in 1..Len(chan') : chan'[i].kind = "end" <=> i = Len(chan')
  BY <1>1, <1>2, <1>4
<1>6. EndIsLast' /\ AtMostOneEnd'
  BY <1>5 DEF EndIsLast, AtMostOneEnd
<1>7. EndTellsResult'
  <2>1. result.kind = "ok" => chan'[Len(chan')].verdict = NoError
    BY <1>1, <1>2 DEF encode_end_stream
  <2>2. result.kind = "err" /\ result.code # 0 =>
          decode_end_stream(chan'[Len(chan')].verdict) = IF result.code \in Code THEN result.code ELSE 2
    BY <1>1, <1>2, EndRoundTrip
  <2> QED
    BY <1>3, <1>5, <2>1, <2>2 DEF EndTellsResult
<1>8. \E i \in 1..Len(chan') : chan'[i].kind = "end"
  BY <1>2, <1>5
<1> QED
  BY <1>3, <1>6, <1>7, <1>8 DEF EndInv

\* EndInv, the strengthening behind the three theorems on the END frame, holds.
LEMMA EndInvCorrect == Spec => []EndInv
<1>1. Init => EndInv
  BY DEF Init, EndInv, EndIsLast, AtMostOneEnd, EndTellsResult
<1>2. TypeOK /\ Control /\ EndInv /\ [Next]_vars => EndInv'
  <2> SUFFICES ASSUME TypeOK, Control, EndInv, [Next]_vars
               PROVE  EndInv'
    OBVIOUS
  <2>1. CASE UNCHANGED vars
    BY <2>1 DEF vars, callVars, handlerVars, adapterVars, EndInv, EndIsLast, AtMostOneEnd,
                EndTellsResult, Receiving
  <2>2. CASE Next
    BY <2>2, ChanStep, EndInvFrame, EndInvData, EndInvEnd
  <2> QED
    BY <2>1, <2>2
<1> QED
  BY <1>1, <1>2, TypeCorrect, ControlCorrect, PTL DEF Spec

\* When the handler's threads gave emit up before it returned, the END frame
\* is the last of the stream, whatever their number and their interleaving.
THEOREM EndLast == Spec => []EndIsLast
<1>1. EndInv => EndIsLast
  BY DEF EndInv
<1> QED
  BY <1>1, EndInvCorrect, PTL

\* handle ends a stream once, even when emit outlives the handler.
THEOREM EndOnce == Spec => []AtMostOneEnd
<1>1. EndInv => AtMostOneEnd
  BY DEF EndInv
<1> QED
  BY <1>1, EndInvCorrect, PTL

\* The client decodes from the END frame what the handler returned.
THEOREM EndTells == Spec => []EndTellsResult
<1>1. EndInv => EndTellsResult
  BY DEF EndInv
<1> QED
  BY <1>1, EndInvCorrect, PTL

-----------------------------------------------------------------------------
(* The response body.                                                       *)

\* Frames once written stay where they are.
LEMMA ChanGrows ==
  ASSUME TypeOK, Next
  PROVE  /\ Len(chan) \in Nat /\ Len(chan') \in Nat
         /\ Len(chan) <= Len(chan')
         /\ \A i \in 1..Len(chan) : chan'[i] = chan[i]
<1>1. CASE chan' = chan
  BY <1>1 DEF TypeOK
<1>2. ASSUME NEW f \in Frame, chan' = Append(chan, f)
      PROVE  /\ Len(chan) \in Nat /\ Len(chan') = Len(chan) + 1
             /\ \A i \in 1..Len(chan) : chan'[i] = chan[i]
  BY <1>2 DEF TypeOK
<1>3. ASSUME NEW t \in Threads, NEW gz \in BOOLEAN
      PROVE  Data(Current(t), gz) \in Frame
  BY DataInFrame DEF Current, TypeOK
<1> QED
  BY <1>1, <1>2, <1>3, ChanStep, EndInFrame

\* The strengthening: `taken` counts what went out and the frame hyper_serve
\* waited for, which is the last one taken.
FlowInv ==
  /\ taken = Len(body) + Len(first)
  /\ BodyIsPrefix
  /\ first # <<>> => first[1] = chan[taken]
  /\ apc = "select" => first = <<>>

\* A sequence of one element at most is empty or a singleton (hyper_serve's
\* `first`).
LEMMA OneFrame ==
  ASSUME NEW s \in Seq(Frame), s # <<>>, Len(s) <= 1
  PROVE  Len(s) = 1
<1>1. Len(s) \in Nat \ {0}
  BY EmptySeq
<1>2. \A n \in Nat \ {0} : n <= 1 => n = 1
  OBVIOUS
<1> QED
  BY <1>1, <1>2, Zenon

\* FlowInv holds: body, `first` and the rest of the channel make up the channel.
LEMMA FlowInvCorrect == Spec => []FlowInv
<1>1. Init => FlowInv
  BY DEF Init, FlowInv, BodyIsPrefix
<1>2. TypeOK /\ FlowInv /\ [Next]_vars => FlowInv'
  <2> SUFFICES ASSUME TypeOK, FlowInv, [Next]_vars
               PROVE  FlowInv'
    OBVIOUS
  <2> USE DEF FlowInv, BodyIsPrefix
  <2>0. CASE UNCHANGED vars
    BY <2>0 DEF vars, adapterVars
  <2>1. CASE Next /\ UNCHANGED adapterVars
    <3>1. 1..Len(body) \subseteq 1..Len(chan) /\ (first # <<>> => taken \in 1..Len(chan))
      BY DEF TypeOK
    <3> QED
      BY <2>1, <3>1, ChanGrows DEF adapterVars, TypeOK
  <2>2. CASE SelectFrame
    <3>1. first' = <<chan[taken']>> /\ taken' = taken + 1 /\ Len(first') = 1 /\ Len(first) = 0
      BY <2>2 DEF SelectFrame, TypeOK
    <3> QED
      BY <2>2, <3>1 DEF SelectFrame, TypeOK
  <2>3. CASE SelectTaskDone \/ TakeHead \/ CloseBody \/ Disconnect
    BY <2>3 DEF SelectTaskDone, TakeHead, CloseBody, Disconnect, TypeOK
  <2>4. CASE FlowFirst
    <3>1. Len(first) = 1 /\ first[1] = chan[taken] /\ taken = Len(body) + 1
      <4>1. first # <<>>
        BY <2>4 DEF FlowFirst
      <4>2. first \in Seq(Frame) /\ Len(first) <= 1
        BY DEF TypeOK
      <4>3. Len(first) = 1
        BY <4>1, <4>2, OneFrame
      <4>4. first[1] = chan[taken] /\ taken = Len(body) + Len(first)
        BY <4>1
      <4> QED
        BY <4>3, <4>4
    <3>2. /\ Len(body') = Len(body) + 1
          /\ \A i \in 1..Len(body) : body'[i] = body[i]
          /\ body'[Len(body) + 1] = first[1]
      <4>1. body \in Seq(Frame) /\ first \in Seq(Frame) /\ Len(body) \in Nat
        BY DEF TypeOK
      <4>2. body' = body \o first
        BY <2>4 DEF FlowFirst
      <4>3. /\ Len(body \o first) = Len(body) + Len(first)
            /\ \A i \in 1..Len(body) + Len(first) :
                 (body \o first)[i] = IF i <= Len(body) THEN body[i] ELSE first[i - Len(body)]
        BY <4>1, ConcatProperties, Zenon
      <4>4. Len(body) + 1 - Len(body) = 1 /\ Len(body) + 1 \in 1..Len(body) + 1
        BY <4>1
      <4> QED
        BY <3>1, <4>1, <4>2, <4>3, <4>4
    <3>3. Len(first') = 0 /\ taken' = taken /\ chan' = chan /\ apc' = "body" /\ first' = <<>>
      BY <2>4 DEF FlowFirst
    <3>4. Len(body) \in Nat /\ taken <= Len(chan)
      BY DEF TypeOK
    <3>5. \A i \in 1..Len(body') : body'[i] = chan'[i]
      <4> SUFFICES ASSUME NEW i \in 1..Len(body')
                   PROVE  body'[i] = chan[i]
        BY <3>3
      <4>1. CASE i \in 1..Len(body)
        BY <3>2, <4>1
      <4>2. CASE i = Len(body) + 1
        BY <3>1, <3>2, <4>2
      <4> QED
        BY <3>2, <3>4, <4>1, <4>2
    <3> QED
      BY <3>1, <3>2, <3>3, <3>4, <3>5
  <2>5. CASE FlowRest
    <3>1. first = <<>> /\ Len(first) = 0 /\ taken = Len(body) /\ taken < Len(chan)
      BY <2>5 DEF FlowRest, FirstIsOut, TypeOK
    <3>2. chan[taken + 1] \in Frame
      BY <3>1 DEF TypeOK
    <3>3. /\ Len(body') = Len(body) + 1
          /\ \A i \in 1..Len(body) : body'[i] = body[i]
          /\ body'[Len(body) + 1] = chan[taken + 1]
      BY <2>5, <3>2 DEF FlowRest, TypeOK
    <3>4. first' = first /\ taken' = taken + 1 /\ chan' = chan /\ apc' = "body"
      BY <2>5 DEF FlowRest
    <3>5. Len(body) \in Nat /\ Len(chan) \in Nat
      BY DEF TypeOK
    <3>6. \A i \in 1..Len(body') : body'[i] = chan'[i]
      <4> SUFFICES ASSUME NEW i \in 1..Len(body')
                   PROVE  body'[i] = chan[i]
        BY <3>4
      <4>1. CASE i \in 1..Len(body)
        BY <3>3, <4>1
      <4>2. CASE i = Len(body) + 1
        BY <3>1, <3>3, <4>2
      <4> QED
        BY <3>3, <3>5, <4>1, <4>2
    <3>7. taken' = Len(body') + Len(first') /\ Len(body') <= Len(chan')
      BY <3>1, <3>3, <3>4, <3>5
    <3>8. first' = <<>>
      BY <3>1, <3>4
    <3> QED
      BY <3>6, <3>7, <3>8
  <2>6. ASSUME NEW t \in Threads, EmitBegin(t) \/ EmitStep(t) \/ DropEmit(t)
        PROVE  UNCHANGED adapterVars
    BY <2>6 DEF EmitBegin, EmitStep, EmitSwap, EmitHeader, EmitWrite, Sent, DropEmit
  <2>7. ASSUME \/ \E t \in Threads, h \in HandlerHeaders : SetHeader(t, h)
               \/ HandlerReturn(Success) \/ \E c \in ErrCodes : HandlerReturn(Failure(c))
               \/ HandlerPanic \/ HandleStep
        PROVE  UNCHANGED adapterVars
    BY <2>7 DEF SetHeader, HandlerReturn, HandlerPanic, HandleStep, CheckApplied, ApplyHeaders,
                MarkEnded, WriteEnd
  <2> HIDE DEF FlowInv
  <2>8. Next => UNCHANGED adapterVars \/ AdapterStep \/ Disconnect
    BY <2>6, <2>7 DEF Next
  <2> QED
    BY <2>0, <2>1, <2>2, <2>3, <2>4, <2>5, <2>8 DEF AdapterStep
<1> QED
  BY <1>1, <1>2, TypeCorrect, PTL DEF Spec

\* The client is sent a prefix of what was written, frame by frame.
THEOREM BodyPrefix == Spec => []BodyIsPrefix
<1>1. FlowInv => BodyIsPrefix
  BY DEF FlowInv
<1> QED
  BY <1>1, FlowInvCorrect, PTL

\* A body that ends is everything that was written, and it has the END frame
\* exactly when handle came to its end.
THEOREM EofTells == Spec => []EofTellsOutcome
<1>1. Init => EofTellsOutcome
  BY DEF Init, EofTellsOutcome
<1>2. TypeOK /\ FlowInv /\ EndInv /\ EofTellsOutcome /\ [Next]_vars => EofTellsOutcome'
  <2> SUFFICES ASSUME TypeOK, FlowInv, EndInv, EofTellsOutcome, [Next]_vars, apc' = "eof"
               PROVE  EofTellsOutcome'
    BY DEF EofTellsOutcome
  <2>1. CASE apc = "eof"
    <3>1. ~Receiving
      BY <2>1 DEF Receiving
    <3>2. chan' = chan /\ body' = body /\ hpc' = hpc
      <4>1. CASE UNCHANGED vars
        BY <4>1 DEF vars, adapterVars
      <4>2. CASE Next
        <5>1. hpc \in {"done", "panicked"}
          BY <2>1 DEF EofTellsOutcome
        <5> QED
          BY <2>1, <3>1, <4>2, <5>1
          DEF Next, EmitStep, HandleStep, AdapterStep, EmitBegin, EmitSwap, EmitHeader, EmitWrite, Sent,
              DropEmit, SetHeader, HandlerReturn, HandlerPanic, CheckApplied, ApplyHeaders,
              MarkEnded, WriteEnd, SelectFrame, SelectTaskDone, TakeHead, FlowFirst, FlowRest,
              CloseBody, Disconnect, adapterVars, MayLeave, InHandler
      <4> QED
        BY <4>1, <4>2
    <3> QED
      BY <2>1, <3>2 DEF EofTellsOutcome
  <2>2. CASE apc # "eof"
    <3>1. CloseBody
      BY <2>2 DEF Next, EmitStep, HandleStep, AdapterStep, EmitBegin, EmitSwap, EmitHeader,
              EmitWrite, Sent, DropEmit, SetHeader, HandlerReturn, HandlerPanic, CheckApplied,
              ApplyHeaders, MarkEnded, WriteEnd, SelectFrame, SelectTaskDone, TakeHead, FlowFirst,
              FlowRest, Disconnect, adapterVars, vars
    <3>2. /\ first = <<>> /\ taken = Len(chan) /\ apc = "body"
          /\ hpc \in {"done", "panicked"}
          /\ chan' = chan /\ body' = body /\ hpc' = hpc
      BY <3>1 DEF CloseBody, SenderLeft
    <3>3. Len(body) = Len(chan)
      BY <3>2 DEF FlowInv, TypeOK
    <3>4. body \in Seq(Frame) /\ chan \in Seq(Frame)
      BY DEF TypeOK
    <3>5. \A i \in 1..Len(body) : body[i] = chan[i]
      BY DEF FlowInv, BodyIsPrefix
    <3>6. body = chan
      BY <3>3, <3>4, <3>5, SeqEqual
    <3>7. hpc = "done" <=> \E i \in 1..Len(chan) : chan[i].kind = "end"
      BY <3>2 DEF EndInv, Receiving
    <3> QED
      BY <3>2, <3>6, <3>7 DEF EofTellsOutcome
  <2> QED
    BY <2>1, <2>2
<1> QED
  BY <1>1, <1>2, TypeCorrect, FlowInvCorrect, EndInvCorrect, PTL DEF Spec

-----------------------------------------------------------------------------
(* What emit promised.                                                      *)

\* A thread whose emit returned Ok, under a handler that waits for it, finds its
\* message on the wire and ahead of the END frame.
THEOREM AcceptedWritten == Spec => []AcceptedIsWritten
<1>1. Init => AcceptedIsWritten
  BY DEF Init, AcceptedIsWritten
<1>2. TypeOK /\ Control /\ EndInv /\ AcceptedIsWritten /\ [Next]_vars => AcceptedIsWritten'
  <2> SUFFICES ASSUME TypeOK, Control, EndInv, AcceptedIsWritten, [Next]_vars, joins,
                      NEW m \in accepted'
               PROVE  \E i \in 1..Len(chan') :
                         /\ chan'[i].kind = "data"
                         /\ MessageOf(chan'[i]) = m
                         /\ \A j \in 1..i : chan'[j].kind # "end"
    BY JoinsIsFixed DEF AcceptedIsWritten, MessageOf
  <2>1. CASE m \in accepted
    <3>1. PICK i \in 1..Len(chan) : /\ chan[i].kind = "data"
                                    /\ MessageOf(chan[i]) = m
                                    /\ \A j \in 1..i : chan[j].kind # "end"
      BY <2>1 DEF AcceptedIsWritten
    <3>2. /\ Len(chan) \in Nat /\ Len(chan') \in Nat /\ Len(chan) <= Len(chan')
          /\ \A j \in 1..Len(chan) : chan'[j] = chan[j]
      <4>1. CASE UNCHANGED vars
        BY <4>1 DEF vars, TypeOK
      <4>2. CASE Next
        BY <4>2, ChanGrows
      <4> QED
        BY <4>1, <4>2
    <3>3. i \in 1..Len(chan') /\ \A j \in 1..i : j \in 1..Len(chan)
      BY <3>2
    <3> QED
      BY <3>1, <3>2, <3>3
  <2>2. CASE m \notin accepted
    <3>1. \A t \in Threads : ~(MayCall(t) /\ ended)
      BY DEF MayCall, Control
    <3>2. PICK t \in Threads : EmitWrite(t) /\ m = Current(t) /\ Receiving
      BY <2>2, <3>1
      DEF Next, EmitStep, HandleStep, AdapterStep, EmitBegin, EmitSwap, EmitHeader, EmitWrite, Sent,
          SendOk, DropEmit, SetHeader, HandlerReturn, HandlerPanic, CheckApplied, ApplyHeaders,
          MarkEnded, WriteEnd, SelectFrame, SelectTaskDone, TakeHead, FlowFirst, FlowRest,
          CloseBody, Disconnect, emitVars, vars
    <3>3. PICK gz \in BOOLEAN : chan' = Append(chan, Data(m, gz))
      BY <3>2 DEF EmitWrite, Sent, TypeOK
    <3>4. Data(m, gz) \in Frame /\ Data(m, gz).kind = "data"
      BY <3>2, DataInFrame DEF Current, TypeOK
    <3>5. MessageOf(Data(m, gz)) = m
      BY <3>2 DEF MessageOf, Data, Current
    <3>6. \A i \in 1..Len(chan) : chan[i].kind # "end"
      BY <3>2 DEF EndInv, Control, EmitWrite, Sent
    <3>7. /\ Len(chan') = Len(chan) + 1 /\ Len(chan) \in Nat
          /\ \A i \in 1..Len(chan) : chan'[i] = chan[i]
          /\ chan'[Len(chan) + 1] = Data(m, gz)
      BY <3>3, <3>4 DEF TypeOK
    <3>8. \A j \in 1..Len(chan) + 1 : chan'[j].kind # "end"
      BY <3>4, <3>6, <3>7
    <3>9. Len(chan) + 1 \in 1..Len(chan')
      BY <3>7
    <3> QED
      BY <3>4, <3>5, <3>7, <3>8, <3>9
  <2> QED
    BY <2>1, <2>2
<1> QED
  BY <1>1, <1>2, TypeCorrect, ControlCorrect, EndInvCorrect, PTL DEF Spec

-----------------------------------------------------------------------------
(* The messages of one thread.                                              *)

\* The strengthening: the messages of a thread in the channel are calls it has
\* begun, and none is the call it is in.
OrderInv ==
  /\ \A i \in 1..Len(chan) : chan[i].kind = "data" =>
        /\ chan[i].by \in Threads
        /\ chan[i].n <= calls[chan[i].by]
        /\ epc[chan[i].by] # "idle" => chan[i].n < calls[chan[i].by]
  /\ ThreadOrder

\* A thread's calls are counted up, from outside emit, and emit is left only by
\* the write.
LEMMA CallsCounted ==
  ASSUME TypeOK, [Next]_vars, NEW t \in Threads
  PROVE  /\ calls' \in [Threads -> Nat] /\ calls[t] <= calls'[t]
         /\ epc'[t] # "idle" => epc[t] # "idle" \/ calls[t] < calls'[t]
<1>1. CASE \E u \in Threads : EmitBegin(u)
  BY <1>1 DEF EmitBegin, MayCall, TypeOK
<1>2. CASE \E u \in Threads : EmitStep(u)
  BY <1>2 DEF EmitStep, EmitSwap, EmitHeader, EmitWrite, TypeOK
<1>3. CASE UNCHANGED <<calls, epc>>
  BY <1>3 DEF TypeOK
<1> QED
  BY <1>1, <1>2, <1>3
  DEF Next, HandleStep, AdapterStep, DropEmit, SetHeader, HandlerReturn, HandlerPanic,
      CheckApplied, ApplyHeaders, MarkEnded, WriteEnd, SelectFrame, SelectTaskDone, TakeHead,
      FlowFirst, FlowRest, CloseBody, Disconnect, emitVars, vars

\* Every thread's messages are in the channel in the order of its calls, once.
THEOREM OrderKept == Spec => []ThreadOrder
<1>1. Init => OrderInv
  BY DEF Init, OrderInv, ThreadOrder
<1>2. TypeOK /\ OrderInv /\ [Next]_vars => OrderInv'
  <2> SUFFICES ASSUME TypeOK, OrderInv, [Next]_vars PROVE OrderInv'
    OBVIOUS
  <2>1. CASE chan' = chan
    <3>1. ThreadOrder'
      BY <2>1 DEF OrderInv, ThreadOrder
    <3>2. ASSUME NEW i \in 1..Len(chan), chan[i].kind = "data"
          PROVE  /\ chan[i].by \in Threads
                 /\ chan[i].n <= calls'[chan[i].by]
                 /\ epc'[chan[i].by] # "idle" => chan[i].n < calls'[chan[i].by]
      <4>1. chan[i] \in Frame
        BY DEF TypeOK
      <4>2. chan[i].by \in Threads /\ chan[i].n \in Nat
        BY <3>2, <4>1 DEF Frame, DataFrame, EndFrame
      <4>3. PICK t \in Threads : t = chan[i].by
        BY <4>2
      <4>4. /\ calls'[t] \in Nat /\ calls[t] \in Nat /\ calls[t] <= calls'[t]
            /\ epc'[t] # "idle" => epc[t] # "idle" \/ calls[t] < calls'[t]
        BY CallsCounted DEF TypeOK
      <4>5. chan[i].n <= calls[t] /\ (epc[t] # "idle" => chan[i].n < calls[t])
        BY <3>2, <4>3 DEF OrderInv
      <4>6. chan[i].n <= calls'[t] /\ (epc'[t] # "idle" => chan[i].n < calls'[t])
        BY <4>2, <4>4, <4>5
      <4> QED
        BY <4>3, <4>6
    <3> QED
      BY <2>1, <3>1, <3>2 DEF OrderInv
  <2>2. ASSUME NEW t \in Threads, NEW gz \in BOOLEAN, EmitWrite(t),
               chan' = Append(chan, Data(Current(t), gz))
        PROVE  OrderInv'
    <3>1. /\ Len(chan') = Len(chan) + 1 /\ Len(chan) \in Nat
          /\ \A i \in 1..Len(chan) : chan'[i] = chan[i] /\ chan[i] \in Frame
          /\ chan'[Len(chan) + 1] = Data(Current(t), gz)
      BY <2>2, DataInFrame DEF TypeOK, Current
    <3>2. Data(Current(t), gz).by = t /\ Data(Current(t), gz).n = calls[t]
      BY DEF Data, Current
    <3>3. /\ calls' = calls /\ epc[t] # "idle" /\ epc'[t] = "idle"
          /\ \A u \in Threads : epc'[u] # "idle" => epc[u] # "idle"
      BY <2>2 DEF EmitWrite, TypeOK
    <3>4. \A i \in 1..Len(chan) : chan[i].kind = "data" =>
             chan[i].by \in Threads /\ chan[i].n \in Nat
      BY <3>1 DEF Frame, DataFrame, EndFrame
    <3>5. ASSUME NEW i \in 1..Len(chan), chan[i].kind = "data"
          PROVE  /\ chan[i].by \in Threads
                 /\ chan[i].n <= calls[chan[i].by]
                 /\ epc'[chan[i].by] # "idle" => chan[i].n < calls[chan[i].by]
                 /\ chan[i].by = t => chan[i].n < calls[t]
      BY <3>3, <3>4, <3>5 DEF OrderInv
    <3>6. \A i \in 1..Len(chan') : i \in 1..Len(chan) \/ i = Len(chan) + 1
      BY <3>1
    <3>7. ThreadOrder'
      <4> SUFFICES ASSUME NEW i \in 1..Len(chan'), NEW j \in 1..Len(chan'), i < j,
                          chan'[i].kind = "data", chan'[j].kind = "data", chan'[i].by = chan'[j].by
                   PROVE  chan'[i].n < chan'[j].n
        BY DEF ThreadOrder
      <4>1. i \in 1..Len(chan) /\ chan'[i] = chan[i]
        BY <3>1, <3>6
      <4>2. CASE j \in 1..Len(chan)
        BY <3>1, <4>1, <4>2 DEF OrderInv, ThreadOrder
      <4>3. CASE j = Len(chan) + 1
        BY <3>1, <3>2, <3>5, <4>1, <4>3
      <4> QED
        BY <3>6, <4>2, <4>3
    <3>8. ASSUME NEW i \in 1..Len(chan'), chan'[i].kind = "data"
          PROVE  /\ chan'[i].by \in Threads
                 /\ chan'[i].n <= calls[chan'[i].by]
                 /\ epc'[chan'[i].by] # "idle" => chan'[i].n < calls[chan'[i].by]
      <4>1. CASE i \in 1..Len(chan)
        BY <3>1, <3>5, <3>8, <4>1
      <4>2. CASE i = Len(chan) + 1
        <5>1. calls[t] \in Nat
          BY DEF TypeOK
        <5> QED
          BY <3>1, <3>2, <3>3, <4>2, <5>1
      <4> QED
        BY <3>6, <4>1, <4>2
    <3> QED
      BY <3>3, <3>7, <3>8 DEF OrderInv
  <2>3. ASSUME NEW c \in Int, WriteEnd, chan' = Append(chan, End(c))
        PROVE  OrderInv'
    <3>1. /\ Len(chan') = Len(chan) + 1 /\ Len(chan) \in Nat
          /\ \A i \in 1..Len(chan) : chan'[i] = chan[i]
          /\ chan'[Len(chan) + 1].kind = "end"
      BY <2>3, EndInFrame DEF TypeOK, End
    <3>2. calls' = calls /\ epc' = epc
      BY <2>3 DEF WriteEnd, emitVars
    <3> QED
      BY <3>1, <3>2 DEF OrderInv, ThreadOrder
  <2>4. CASE Next
    BY <2>1, <2>2, <2>3, <2>4, ChanStep
  <2> QED
    BY <2>1, <2>4 DEF vars
<1> QED
  BY <1>1, <1>2, TypeCorrect, PTL DEF OrderInv, Spec

-----------------------------------------------------------------------------
(* The response headers of a handler that emits from its own thread.        *)

\* The strengthening, whatever the threads do: only a thread that has called
\* emit is inside it, frames are compressed for a request that accepts gzip only,
\* and hyper_serve stops waiting when there is a frame or the task is over.
EntryInv ==
  /\ \A t \in Threads : epc[t] # "idle" => calls[t] > 0
  /\ \A i \in 1..Len(chan) : chan[i].kind = "data" /\ chan[i].gz => gzip
  /\ chan = <<>> /\ apc \in {"head", "body"} => hpc \in {"done", "panicked"}
  /\ apc \in {"select", "head"} => body = <<>>

\* The strengthening for Main alone: `applied` means that Main is on its way to
\* the first frame, the headers wait in the writer from the moment somebody may
\* write that frame until hyper_serve takes them, and are in the response then.
HeadInv ==
  OnlyMainEmits =>
    /\ chan = <<>> /\ Receiving /\ applied => epc[Main] \in {"header", "write"}
    /\ chan = <<>> /\ Receiving /\ (epc[Main] = "write" \/ hpc \in {"finish", "end"})
         => BaseHeaders \cup recorded[Main] \subseteq headers
    /\ chan # <<>> /\ apc \in {"select", "head"} => BaseHeaders \subseteq headers
    /\ (chan # <<>> /\ apc = "body") \/ body # <<>> =>
         resp.status = 200 /\ BaseHeaders \subseteq resp.headers

\* A frame is added at the end of what is there (ChannelWriter::write_frame).
LEMMA AppendGrows ==
  ASSUME chan \in Seq(Frame), NEW f \in Frame, chan' = Append(chan, f)
  PROVE  /\ chan' # <<>> /\ Len(chan') = Len(chan) + 1 /\ Len(chan) \in Nat
         /\ \A i \in 1..Len(chan) : chan'[i] = chan[i]
         /\ chan'[Len(chan) + 1] = f
OBVIOUS

\* Nobody writes a frame into an empty channel behind hyper_serve's back, and a
\* message is compressed only when the request accepts it.
LEMMA EntryCorrect == Spec => []EntryInv
<1>1. Init => EntryInv
  BY DEF Init, EntryInv
<1>2. TypeOK /\ Control /\ FlowInv /\ EntryInv /\ [Next]_vars => EntryInv'
  <2> SUFFICES ASSUME TypeOK, Control, FlowInv, EntryInv, [Next]_vars
               PROVE  EntryInv'
    OBVIOUS
  <2> USE DEF EntryInv
  <2>1. CASE UNCHANGED vars
    BY <2>1 DEF vars, callVars, emitVars, adapterVars
  <2>2. ASSUME NEW t \in Threads, EmitWrite(t)
        PROVE  EntryInv'
    <3>1. PICK big \in BOOLEAN :
             chan' = IF Receiving THEN Append(chan, Data(Current(t), gzip /\ big)) ELSE chan
      BY <2>2 DEF EmitWrite, Sent
    <3>2. /\ Data(Current(t), gzip /\ big) \in Frame
          /\ Data(Current(t), gzip /\ big).gz = (gzip /\ big)
      BY DataInFrame DEF Current, Data, TypeOK
    <3>3. \A i \in 1..Len(chan') : chan'[i].kind = "data" /\ chan'[i].gz => gzip
      <4>1. CASE Receiving
        BY <3>1, <3>2, <4>1, AppendGrows DEF TypeOK
      <4>2. CASE ~Receiving
        BY <3>1, <4>2
      <4> QED
        BY <4>1, <4>2
    <3>4. chan' = <<>> => chan = <<>>
      BY <3>1, <3>2, AppendGrows DEF TypeOK
    <3> QED
      BY <2>2, <3>3, <3>4 DEF EmitWrite, callVars, adapterVars, TypeOK
  <2>3. CASE WriteEnd
    <3>1. PICK c \in Int : EndFrames = <<End(c)>>
      BY OneEndFrame DEF TypeOK
    <3>2. End(c) \in Frame /\ End(c).kind = "end"
      BY EndInFrame
    <3>3. chan' = chan \/ chan' = Append(chan, End(c))
      BY <2>3, <3>1, <3>2, AppendIsConcat DEF WriteEnd, TypeOK
    <3>4. \A i \in 1..Len(chan') : chan'[i].kind = "data" /\ chan'[i].gz => gzip
      <4>1. CASE chan' = chan
        BY <4>1
      <4>2. CASE chan' = Append(chan, End(c))
        <5>1. \A i \in 1..Len(chan') : i \in 1..Len(chan) \/ i = Len(chan) + 1
          BY <3>2, <4>2, AppendGrows DEF TypeOK
        <5> QED
          BY <3>2, <4>2, <5>1, AppendGrows DEF TypeOK
      <4> QED
        BY <3>3, <4>1, <4>2
    <3>5. chan' = <<>> => chan = <<>>
      BY <3>2, <3>3, AppendGrows DEF TypeOK
    <3>6. UNCHANGED <<gzip, epc, calls, apc, body>> /\ hpc' = "done"
      BY <2>3 DEF WriteEnd, callVars, emitVars, adapterVars
    <3> QED
      BY <3>4, <3>5, <3>6
  <2>4. ASSUME NEW t \in Threads, EmitBegin(t) \/ EmitSwap(t) \/ EmitHeader(t) \/ DropEmit(t)
        PROVE  EntryInv'
    <3>1. calls[t] \in Nat /\ UNCHANGED <<gzip, hpc, chan, apc, body>>
      BY <2>4 DEF EmitBegin, EmitSwap, EmitHeader, DropEmit, callVars, adapterVars, TypeOK
    <3>2. \A u \in Threads : epc'[u] # "idle" => calls'[u] > 0
      <4>1. CASE EmitBegin(t)
        <5>1. /\ calls'[t] = calls[t] + 1
              /\ \A u \in Threads \ {t} : calls'[u] = calls[u] /\ epc'[u] = epc[u]
          BY <4>1 DEF EmitBegin, TypeOK
        <5> QED
          BY <3>1, <5>1
      <4>2. CASE EmitSwap(t) \/ EmitHeader(t) \/ DropEmit(t)
        BY <4>2 DEF EmitSwap, EmitHeader, DropEmit, TypeOK
      <4> QED
        BY <2>4, <4>1, <4>2
    <3> QED
      BY <3>1, <3>2
  <2>5. ASSUME \/ \E t \in Threads, h \in HandlerHeaders : SetHeader(t, h)
               \/ HandlerReturn(Success) \/ \E c \in ErrCodes : HandlerReturn(Failure(c))
               \/ HandlerPanic \/ CheckApplied \/ ApplyHeaders \/ MarkEnded
        PROVE  EntryInv'
    BY <2>5 DEF SetHeader, HandlerReturn, HandlerPanic, MayLeave, InHandler, CheckApplied,
                ApplyHeaders, MarkEnded, callVars, emitVars, adapterVars
  <2>6. CASE SelectFrame
    BY <2>6 DEF SelectFrame, FrameReady, callVars, emitVars, TypeOK
  <2>7. CASE SelectTaskDone \/ TakeHead \/ CloseBody \/ Disconnect
    BY <2>7 DEF SelectTaskDone, TaskDone, TakeHead, CloseBody, Disconnect, callVars, emitVars
  <2>8. CASE FlowFirst \/ FlowRest
    BY <2>8 DEF FlowFirst, FlowRest, callVars, emitVars
  <2> QED
    BY <2>1, <2>2, <2>3, <2>4, <2>5, <2>6, <2>7, <2>8 DEF Next, EmitStep, HandleStep, AdapterStep
<1> QED
  BY <1>1, <1>2, TypeCorrect, ControlCorrect, FlowInvCorrect, PTL DEF Spec

\* The headers stay ahead of the frames at every step.
LEMMA HeadStep ==
  ASSUME TypeOK, Control, FlowInv, EntryInv, HeadInv, [Next]_vars, OnlyMainEmits'
  PROVE  HeadInv'
<1>1. OnlyMainEmits
  BY CallsCounted DEF OnlyMainEmits, TypeOK
<1>2. Main \in Threads /\ \A t \in Threads : epc[t] # "idle" => t = Main
  BY <1>1, StreamServerAssumption DEF OnlyMainEmits, EntryInv
<1> USE <1>1, <1>2 DEF HeadInv
<1>3. hpc # "handler" => epc[Main] = "idle"
  BY DEF Control
<1>4. CASE UNCHANGED vars
  BY <1>4 DEF vars, callVars, handlerVars, emitVars, flagVars, adapterVars, Receiving, BaseHeaders
<1>5. ASSUME NEW t \in Threads, EmitBegin(t) \/ DropEmit(t)
      PROVE  HeadInv'
  BY <1>5 DEF EmitBegin, DropEmit, MayCall, callVars, handlerVars, flagVars, adapterVars,
              Receiving, BaseHeaders, TypeOK
<1>6. ASSUME NEW t \in Threads, EmitSwap(t)
      PROVE  HeadInv'
  BY <1>3, <1>6 DEF EmitSwap, callVars, handlerVars, adapterVars, Receiving, BaseHeaders, TypeOK
<1>7. ASSUME NEW t \in Threads, EmitHeader(t)
      PROVE  HeadInv'
  BY <1>3, <1>7 DEF EmitHeader, MergedHeaders, callVars, handlerVars, flagVars, adapterVars,
                    Receiving, BaseHeaders, TypeOK
<1>8. ASSUME NEW t \in Threads, EmitWrite(t)
      PROVE  HeadInv'
  <2>1. t = Main /\ hpc = "handler"
    BY <1>3, <1>8 DEF EmitWrite
  <2>2. CASE Receiving
    <3>1. chan' # <<>>
      <4>1. PICK gz \in BOOLEAN : chan' = Append(chan, Data(Current(t), gz))
        BY <1>8, <2>2 DEF EmitWrite, Sent, TypeOK
      <4>2. Data(Current(t), gz) \in Frame
        BY DataInFrame DEF Current, TypeOK
      <4> QED
        BY <4>1, <4>2, AppendGrows DEF TypeOK
    <3>2. BaseHeaders \subseteq headers \/ apc = "body"
      BY <1>8, <2>2 DEF EmitWrite, Receiving
    <3>3. chan = <<>> => apc # "body"
      BY <2>1 DEF EntryInv
    <3> QED
      BY <1>8, <3>1, <3>2, <3>3 DEF EmitWrite, callVars, handlerVars, flagVars, adapterVars,
                                    BaseHeaders, Receiving
  <2>3. CASE ~Receiving
    BY <1>8, <2>3 DEF EmitWrite, callVars, handlerVars, flagVars, adapterVars, BaseHeaders, Receiving
  <2> QED
    BY <2>2, <2>3
<1>9. ASSUME NEW t \in Threads, NEW h \in HandlerHeaders, SetHeader(t, h)
      PROVE  HeadInv'
  BY <1>9 DEF SetHeader, InHandler, callVars, emitVars, flagVars, adapterVars, Receiving, BaseHeaders
<1>10. ASSUME HandlerReturn(Success) \/ (\E c \in ErrCodes : HandlerReturn(Failure(c))) \/ HandlerPanic
       PROVE  HeadInv'
  BY <1>10 DEF HandlerReturn, HandlerPanic, callVars, handlerVars, flagVars, adapterVars,
               Receiving, BaseHeaders
<1>11. CASE CheckApplied \/ ApplyHeaders \/ MarkEnded
  BY <1>3, <1>11 DEF CheckApplied, ApplyHeaders, MarkEnded, MergedHeaders, callVars, handlerVars,
                     emitVars, flagVars, adapterVars, Receiving, BaseHeaders
<1>12. CASE WriteEnd
  <2>1. hpc = "end" /\ hpc' = "done" /\ (chan = <<>> => apc # "body")
    BY <1>12 DEF WriteEnd, EntryInv
  <2>2. chan' = <<>> => chan = <<>> /\ ~Receiving
    <3>1. PICK c \in Int : EndFrames = <<End(c)>>
      BY OneEndFrame DEF TypeOK
    <3> QED
      BY <1>12, <3>1, EndInFrame DEF WriteEnd, TypeOK
  <2>3. ~Receiving => chan' = chan
    BY <1>12 DEF WriteEnd
  <2> QED
    BY <1>3, <1>12, <2>1, <2>2, <2>3 DEF WriteEnd, callVars, handlerVars, emitVars, flagVars,
                                   adapterVars, Receiving, BaseHeaders
<1>13. CASE SelectFrame
  BY <1>13 DEF SelectFrame, callVars, handlerVars, emitVars, flagVars, Receiving, BaseHeaders
<1>14. CASE SelectTaskDone
  BY <1>14 DEF SelectTaskDone, callVars, handlerVars, emitVars, flagVars, Receiving, BaseHeaders
<1>15. CASE TakeHead
  BY <1>3, <1>15 DEF TakeHead, EntryInv, callVars, handlerVars, emitVars, flagVars, Receiving,
                     BaseHeaders, TypeOK
<1>16. CASE FlowFirst \/ FlowRest
  <2>1. chan # <<>> /\ apc = "body"
    <3>1. CASE FlowFirst
      <4>1. Len(first) = 1 /\ taken = Len(body) + Len(first)
        BY <3>1, OneFrame DEF FlowFirst, FlowInv, TypeOK
      <4> QED
        BY <3>1, <4>1 DEF FlowFirst, TypeOK
    <3>2. CASE FlowRest
      BY <3>2 DEF FlowRest, TypeOK
    <3> QED
      BY <1>16, <3>1, <3>2
  <2> QED
    BY <1>16, <2>1 DEF FlowFirst, FlowRest, callVars, handlerVars, emitVars, flagVars, Receiving,
                       BaseHeaders
<1>17. CASE CloseBody \/ Disconnect
  BY <1>17 DEF CloseBody, Disconnect, callVars, handlerVars, emitVars, flagVars, Receiving, BaseHeaders
<1> QED
  BY <1>4, <1>5, <1>6, <1>7, <1>8, <1>9, <1>10, <1>11, <1>12, <1>13, <1>14, <1>15, <1>16, <1>17
  DEF Next, EmitStep, HandleStep, AdapterStep

\* HeadInv, the strengthening behind the two theorems on the headers, holds.
LEMMA HeadInvCorrect == Spec => []HeadInv
<1>1. Init => HeadInv
  BY StreamServerAssumption DEF Init, HeadInv, Receiving
<1>2. TypeOK /\ Control /\ FlowInv /\ EntryInv /\ HeadInv /\ [Next]_vars => HeadInv'
  BY HeadStep DEF HeadInv
<1> QED
  BY <1>1, <1>2, TypeCorrect, ControlCorrect, FlowInvCorrect, EntryCorrect, PTL DEF Spec

\* A response with a body says 200 and what its body is, however the select! of
\* hyper_serve interleaves with the first emit and with the end of the task.
THEOREM HeadFits == Spec => []HeadFitsBody
<1>1. TypeOK /\ FlowInv /\ EntryInv /\ HeadInv => HeadFitsBody
  <2> SUFFICES ASSUME TypeOK, FlowInv, EntryInv, HeadInv, OnlyMainEmits, body # <<>>
               PROVE  /\ resp.status = 200
                      /\ "content-type" \in resp.headers
                      /\ (\E i \in 1..Len(body) : body[i].kind = "data" /\ body[i].gz)
                           => "connect-content-encoding" \in resp.headers
    BY DEF HeadFitsBody
  <2>1. resp.status = 200 /\ BaseHeaders \subseteq resp.headers
    BY DEF HeadInv
  <2>2. (\E i \in 1..Len(body) : body[i].kind = "data" /\ body[i].gz) => gzip
    <3>1. \A i \in 1..Len(body) : i \in 1..Len(chan) /\ body[i] = chan[i]
      BY DEF FlowInv, BodyIsPrefix, TypeOK
    <3> QED
      BY <3>1 DEF EntryInv
  <2> QED
    BY <2>1, <2>2 DEF BaseHeaders
<1> QED
  BY <1>1, TypeCorrect, FlowInvCorrect, EntryCorrect, HeadInvCorrect, PTL

\* The first frame finds the headers in the writer, with everything the handler's
\* own thread has recorded: whoever puts it there, emit or the END frame of handle.
THEOREM HeadersFirst == Spec => HeadersBeforeFrame
<1>1. TypeOK /\ EntryInv /\ HeadInv /\ [Next]_vars =>
        [OnlyMainEmits /\ chan = <<>> /\ chan' # <<>> =>
           BaseHeaders \cup recorded[Main] \subseteq headers]_vars
  <2> SUFFICES ASSUME TypeOK, EntryInv, HeadInv, Next, OnlyMainEmits, chan = <<>>, chan' # <<>>
               PROVE  BaseHeaders \cup recorded[Main] \subseteq headers
    BY DEF vars
  <2>1. CASE \E t \in Threads : EmitWrite(t) /\ Receiving
    <3>1. epc[Main] = "write"
      BY <2>1, StreamServerAssumption DEF EmitWrite, OnlyMainEmits, EntryInv
    <3> QED
      BY <2>1, <3>1 DEF HeadInv
  <2>2. CASE WriteEnd
    BY <2>2 DEF WriteEnd, HeadInv
  <2> QED
    BY <2>1, <2>2, ChanStep
<1> QED
  BY <1>1, TypeCorrect, EntryCorrect, HeadInvCorrect, PTL DEF Spec, HeadersBeforeFrame
=============================================================================
