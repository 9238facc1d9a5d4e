---------------------------- MODULE StreamServer ----------------------------
(***************************************************************************)
(* The server side of one accepted server-stream call: the stream arm of   *)
(* dispatch::handle from the `w.status(200)` on, the `emit` closure it     *)
(* gives to the handler, the ChannelWriter and the hyper_serve adapter     *)
(* that turns the channel into the live response body.                     *)
(*                                                                         *)
(* Four kinds of processes interleave:                                     *)
(*   - the handler, which calls `emit` from the threads in Threads (the    *)
(*     closure is Fn + Send + Sync, so it may share it or move it away);   *)
(*   - handle's own code after the handler has returned;                   *)
(*   - hyper_serve and the body stream it returns;                         *)
(*   - the client, which may disconnect at any time.                       *)
(* An access to an atomic, to the header mutex or to the channel is a step *)
(* of its own.                                                             *)
(***************************************************************************)
EXTENDS Codes, FiniteSets, Functions

CONSTANTS
  Threads,    \* the threads the handler calls emit from
  Main,       \* the thread that runs the handler itself
  MaxEmits,   \* bound: calls of emit each thread makes
  MaxSets,    \* bound: calls of set_header all threads make
  ErrCodes    \* the codes of the errors the handler may return

ASSUME StreamServerAssumption ==
  /\ Main \in Threads
  /\ MaxEmits \in [Threads -> Nat]
  /\ MaxSets \in Nat
  /\ ErrCodes \subseteq Int

VARIABLES
  joins,      \* whether the handler waits, before it returns, until emit is given up
  gzip,       \* wants_gzip: the request accepts gzip
  hpc,        \* control point of dispatch::handle
  result,     \* what the handler returned
  recorded,   \* headers_internal, told apart by the thread that recorded them
  epc,        \* control point of each thread inside emit
  calls,      \* number of emit calls each thread has begun
  accepted,   \* messages whose emit call returned Ok
  live,       \* threads that still own (a share of) the emit closure
  ended,      \* AtomicBool `ended`
  applied,    \* AtomicBool `applied`
  headers,    \* ChannelWriter.headers
  chan,       \* every frame sent into the channel, in order
  taken,      \* number of frames taken out of the channel
  first,      \* hyper_serve's `first`: <<>> or the first frame
  apc,        \* control point of hyper_serve and of the body stream
  resp,       \* status and headers of the HTTP response
  body        \* frames that went out in the HTTP response body

callVars    == <<joins, gzip>>
handlerVars == <<result, recorded>>
emitVars    == <<epc, calls, accepted, live>>
flagVars    == <<ended, applied>>
adapterVars == <<taken, first, apc, resp, body>>
vars == <<callVars, hpc, handlerVars, emitVars, flagVars, headers, chan, adapterVars>>

-----------------------------------------------------------------------------
(* Data.  A message is the n-th one emitted by a thread.  Header sets are   *)
(* sets of names: the two the server adds, and two a handler may record,    *)
(* one whose value http accepts and one whose value it refuses.             *)

Message == [by : Threads, n : Nat]

DataFrame == [kind : {"data"}, by : Threads, n : Nat, gz : BOOLEAN]
EndFrame  == [kind : {"end"}, verdict : Verdict]
Frame     == DataFrame \cup EndFrame

Data(m, gz) == [kind |-> "data", by |-> m.by, n |-> m.n, gz |-> gz]
End(code)   == [kind |-> "end", verdict |-> encode_end_stream(code)]
MessageOf(f) == [by |-> f.by, n |-> f.n]

HandlerHeaders == {"custom", "malformed"}
ServerHeaders  == {"content-type", "connect-content-encoding"}

\* What goes into ResponseWriter::header: the server's headers, which depend on
\* the request, merged with those the handler has recorded so far, from any thread.
BaseHeaders == {"content-type"} \cup (IF gzip THEN {"connect-content-encoding"} ELSE {})
DropRecorded   == BaseHeaders
MergedHeaders  == BaseHeaders \cup UNION {recorded[t] : t \in Threads}

NoResponse == [status |-> 0, headers |-> {}]
Pending    == [kind |-> "pending", code |-> 0]
Success    == [kind |-> "ok", code |-> 0]
Failure(c) == [kind |-> "err", code |-> c]

\* The message the call that thread t is in (or made last) carries.
Current(t) == [by |-> t, n |-> calls[t]]

\* The receiver lives as long as hyper_serve and the body stream do.
Receiving == apc \in {"select", "head", "body"}

\* Some sender is left: the adapter's own, handle's, or one inside emit.  (The
\* two before it: a body that ends without waiting for handle, and an adapter
\* that keeps its own writer.)
SenderLeftInEmit == apc \in {"select", "head"} \/ live # {}
SenderNeverDropped == TRUE
SenderLeft ==
  \/ apc \in {"select", "head"}
  \/ hpc \notin {"done", "panicked"}
  \/ live # {}

-----------------------------------------------------------------------------
Init ==
  /\ joins \in BOOLEAN
  /\ gzip \in BOOLEAN
  /\ hpc = "handler"
  /\ result = Pending
  /\ recorded = [t \in Threads |-> {}]
  /\ epc = [t \in Threads |-> "idle"]
  /\ calls = [t \in Threads |-> 0]
  /\ accepted = {}
  /\ live = Threads
  /\ ended = FALSE
  /\ applied = FALSE
  /\ headers = {}
  /\ chan = <<>>
  /\ taken = 0
  /\ first = <<>>
  /\ apc = "select"
  /\ resp = NoResponse
  /\ body = <<>>

-----------------------------------------------------------------------------
(* The emit closure, called by thread t.                                    *)

\* A thread can call emit while it owns it; Main only inside the handler.
MayCall(t) ==
  /\ t \in live
  /\ epc[t] = "idle"
  /\ calls[t] < MaxEmits[t]
  /\ t = Main => hpc = "handler"

\* When `ended` is set the closure returns Ok without writing.
EmitBegin(t) ==
  /\ MayCall(t)
  /\ calls' = [calls EXCEPT ![t] = @ + 1]
  /\ \/ /\ ended
        /\ accepted' = accepted \cup {[by |-> t, n |-> calls[t] + 1]}
        /\ UNCHANGED epc
     \/ /\ ~ended
        /\ epc' = [epc EXCEPT ![t] = "swap"]
        /\ UNCHANGED accepted
  /\ UNCHANGED <<callVars, hpc, handlerVars, live, flagVars, headers, chan, adapterVars>>

\* The thread that flips `applied` is the one that sets the headers.
EmitSwap(t) ==
  /\ epc[t] = "swap"
  /\ applied' = TRUE
  /\ epc' = [epc EXCEPT ![t] = IF applied THEN "write" ELSE "header"]
  /\ UNCHANGED <<callVars, hpc, handlerVars, calls, accepted, live, ended, headers, chan, adapterVars>>

EmitHeader(t) ==
  /\ epc[t] = "header"
  /\ headers' = MergedHeaders
  /\ epc' = [epc EXCEPT ![t] = "write"]
  /\ UNCHANGED <<callVars, hpc, handlerVars, calls, accepted, live, flagVars, chan, adapterVars>>

\* A large message is compressed when the request accepts gzip.  A send into
\* a channel without receiver is an error, and emit returns it.  (Before each of
\* the two: a send that is repeated, and an error that is ignored.)
SentTwice(f) == chan \o <<f, f>>
Sent(f)      == Append(chan, f)

SendErrorIgnored == TRUE
SendOk == Receiving

EmitWrite(t) ==
  /\ epc[t] = "write"
  /\ epc' = [epc EXCEPT ![t] = "idle"]
  /\ accepted' = IF SendOk THEN accepted \cup {Current(t)} ELSE accepted
  /\ \E big \in BOOLEAN :
       chan' = IF Receiving THEN Sent(Data(Current(t), gzip /\ big)) ELSE chan
  /\ UNCHANGED <<callVars, hpc, handlerVars, calls, live, flagVars, headers, adapterVars>>

\* A thread gives its share of emit up.
DropEmit(t) ==
  /\ t \in live
  /\ epc[t] = "idle"
  /\ live' = live \ {t}
  /\ UNCHANGED <<callVars, hpc, handlerVars, epc, calls, accepted, flagVars, headers, chan, adapterVars>>

-----------------------------------------------------------------------------
(* The handler and what handle does after it.                               *)

InHandler == hpc = "handler" /\ epc[Main] = "idle"
MayLeave  == InHandler /\ (joins => live \subseteq {Main})

Recordings == {r \in Threads \X HandlerHeaders : r[2] \in recorded[r[1]]}

\* HandlerContext::set_header.  The context is Clone over shared maps, so a thread
\* may keep one of its own, also when emit is given up and the handler is over.
SetHeader(t, h) ==
  /\ epc[t] = "idle"
  /\ t = Main => InHandler
  /\ h \notin recorded[t]
  /\ Cardinality(Recordings) < MaxSets
  /\ recorded' = [recorded EXCEPT ![t] = @ \cup {h}]
  /\ UNCHANGED <<callVars, hpc, result, emitVars, flagVars, headers, chan, adapterVars>>

HandlerReturn(r) ==
  /\ MayLeave
  /\ result' = r
  /\ live' = live \ {Main}
  /\ hpc' = "returned"
  /\ UNCHANGED <<callVars, recorded, epc, calls, accepted, flagVars, headers, chan, adapterVars>>

\* A panic unwinds handle: the task ends, its writer and emit are dropped.
HandlerPanic ==
  /\ MayLeave
  /\ live' = live \ {Main}
  /\ hpc' = "panicked"
  /\ UNCHANGED <<callVars, handlerVars, epc, calls, accepted, flagVars, headers, chan, adapterVars>>

\* "Ensure headers are set even for an empty successful stream."
CheckApplied ==
  /\ hpc = "returned"
  /\ hpc' = IF applied THEN "finish" ELSE "header"
  /\ UNCHANGED <<callVars, handlerVars, emitVars, flagVars, headers, chan, adapterVars>>

ApplyHeaders ==
  /\ hpc = "header"
  /\ headers' = MergedHeaders
  /\ hpc' = "finish"
  /\ UNCHANGED <<callVars, handlerVars, emitVars, flagVars, chan, adapterVars>>

\* Nobody else writes `ended`, so its load never finds it set here.
MarkEnded ==
  /\ hpc = "finish"
  /\ ended' = TRUE
  /\ hpc' = "end"
  /\ UNCHANGED <<callVars, handlerVars, emitVars, applied, headers, chan, adapterVars>>

\* The END frames handle writes, and the bugs they are checked against: a
\* failure reported as success, the `return` after the error END forgotten, a
\* code the protocol does not have left without a name.
EndAlwaysClean == <<End(0)>>
EndTwice == IF result.kind = "err" THEN <<End(result.code), End(0)>> ELSE <<End(0)>>
EndNameless ==
  <<[kind |-> "end",
     verdict |-> IF result.code \in Code THEN encode_end_stream(result.code) ELSE Nameless]>>
EndFrames == IF result.kind = "err" THEN <<End(result.code)>> ELSE <<End(0)>>

WriteEnd ==
  /\ hpc = "end"
  /\ chan' = IF Receiving THEN chan \o EndFrames ELSE chan
  /\ hpc' = "done"
  /\ UNCHANGED <<callVars, handlerVars, emitVars, flagVars, headers, adapterVars>>

-----------------------------------------------------------------------------
(* hyper_serve and the response body.                                       *)

\* The select! between the first frame and the end of the task: when both
\* are ready either branch may be chosen.  (The two before it: a response
\* that waits for the whole call, and one that waits for nothing.)
FrameBuffered == taken < Len(chan) /\ hpc \in {"done", "panicked"}
FrameReady    == taken < Len(chan)
TaskNotAwaited == TRUE
TaskDone      == hpc \in {"done", "panicked"}

SelectFrame ==
  /\ apc = "select"
  /\ FrameReady
  /\ first' = <<chan[taken + 1]>>
  /\ taken' = taken + 1
  /\ apc' = "head"
  /\ UNCHANGED <<callVars, hpc, handlerVars, emitVars, flagVars, headers, chan, resp, body>>

SelectTaskDone ==
  /\ apc = "select"
  /\ TaskDone
  /\ apc' = "head"
  /\ UNCHANGED <<callVars, hpc, handlerVars, emitVars, flagVars, headers, chan, taken, first, resp, body>>

\* Take the headers and build the response.  A header value that http
\* refuses fails the builder: an empty 500, and the receiver is dropped.
TakeHead ==
  /\ apc = "head"
  /\ headers' = {}
  /\ IF "malformed" \in headers
       THEN /\ resp' = [status |-> 500, headers |-> {}]
            /\ apc' = "failed"
       ELSE /\ resp' = [status |-> 200, headers |-> headers]
            /\ apc' = "body"
  /\ UNCHANGED <<callVars, hpc, handlerVars, emitVars, flagVars, chan, taken, first, body>>

\* The body is `first` followed by the rest of the channel.
FlowFirst ==
  /\ apc = "body"
  /\ first # <<>>
  /\ body' = body \o first
  /\ first' = <<>>
  /\ UNCHANGED <<callVars, hpc, handlerVars, emitVars, flagVars, headers, chan, taken, apc, resp>>

RestBeforeFirst == TRUE
FirstIsOut      == first = <<>>

FlowRest ==
  /\ apc = "body"
  /\ FirstIsOut
  /\ taken < Len(chan)
  /\ body' = Append(body, chan[taken + 1])
  /\ taken' = taken + 1
  /\ UNCHANGED <<callVars, hpc, handlerVars, emitVars, flagVars, headers, chan, first, apc, resp>>

CloseBody ==
  /\ apc = "body"
  /\ first = <<>>
  /\ taken = Len(chan)
  /\ ~SenderLeft
  /\ apc' = "eof"
  /\ UNCHANGED <<callVars, hpc, handlerVars, emitVars, flagVars, headers, chan, taken, first, resp, body>>

\* The client goes away: hyper drops the service future, which waits in the
\* select!, or the body.
Disconnect ==
  /\ apc \in {"select", "body"}
  /\ apc' = "gone"
  /\ UNCHANGED <<callVars, hpc, handlerVars, emitVars, flagVars, headers, chan, taken, first, resp, body>>

-----------------------------------------------------------------------------
EmitStep(t) == EmitSwap(t) \/ EmitHeader(t) \/ EmitWrite(t)

HandleStep == CheckApplied \/ ApplyHeaders \/ MarkEnded \/ WriteEnd

AdapterStep ==
  \/ SelectFrame \/ SelectTaskDone \/ TakeHead
  \/ FlowFirst \/ FlowRest \/ CloseBody

Next ==
  \/ \E t \in Threads : EmitBegin(t) \/ EmitStep(t) \/ DropEmit(t)
  \/ \E t \in Threads, h \in HandlerHeaders : SetHeader(t, h)
  \/ HandlerReturn(Success)
  \/ \E c \in ErrCodes : HandlerReturn(Failure(c))
  \/ HandlerPanic
  \/ HandleStep
  \/ AdapterStep
  \/ Disconnect

\* A thread inside emit runs on, and handle after the handler: neither waits for
\* anybody.  The connection's task is polled when it is ready and the handler is
\* over; while the handler runs it may wait for the worker the handler blocks
\* (the handler is a synchronous call in a task, server.rs:96; see Service).  When
\* (and whether) the handler emits, returns or panics, and when a thread drops
\* emit, is up to the application.
Fairness ==
  /\ \A t \in Threads : WF_vars(EmitStep(t))
  /\ WF_vars(HandleStep)
  /\ WF_vars(hpc # "handler" /\ AdapterStep)

Spec == Init /\ [][Next]_vars

FairSpec == Spec /\ Fairness
-----------------------------------------------------------------------------
(* Properties.                                                              *)

\* Every variable holds a value the code could hold; in particular an END
\* frame on the wire names a code of the protocol, whatever i32 the handler's
\* error carried.
TypeOK ==
  /\ joins \in BOOLEAN /\ gzip \in BOOLEAN
  /\ hpc \in {"handler", "returned", "header", "finish", "end", "done", "panicked"}
  /\ result \in [kind : {"pending", "ok", "err"}, code : Int]
  /\ recorded \in [Threads -> SUBSET HandlerHeaders]
  /\ epc \in [Threads -> {"idle", "swap", "header", "write"}]
  /\ calls \in [Threads -> Nat]
  /\ accepted \subseteq Message
  /\ live \subseteq Threads
  /\ ended \in BOOLEAN /\ applied \in BOOLEAN
  /\ headers \subseteq HandlerHeaders \cup ServerHeaders
  /\ chan \in Seq(Frame)
  /\ taken \in 0..Len(chan)
  /\ first \in Seq(Frame) /\ Len(first) <= 1
  /\ apc \in {"select", "head", "body", "eof", "gone", "failed"}
  /\ resp \in [status : {0, 200, 500}, headers : SUBSET (HandlerHeaders \cup ServerHeaders)]
  /\ body \in Seq(Frame)

\* The response body is, at any time, a prefix of what was written: the frame
\* hyper_serve waited for is neither lost, nor sent twice, nor overtaken by
\* the frames behind it (server.rs:121-122).
BodyIsPrefix ==
  /\ Len(body) <= Len(chan)
  /\ \A i \in 1..Len(body) : body[i] = chan[i]

\* Nothing follows the END frame, and so there is one at most, when the
\* handler's threads have given emit up before it returns (the `ended` flag of
\* dispatch.rs:160,186-189 and the early return at 192).
EndIsLast ==
  joins => \A i \in 1..Len(chan) : chan[i].kind = "end" => i = Len(chan)

\* There is one END frame at most even when emit outlives the handler.
AtMostOneEnd ==
  \A i, j \in 1..Len(chan) : chan[i].kind = "end" /\ chan[j].kind = "end" => i = j

\* The END frame tells the client what the handler returned: a failure with
\* a code other than 0 is an error of that code (or "unknown" for a code the
\* protocol does not have), and success is a clean end (dispatch.rs:190-194).
EndTellsResult ==
  \A i \in 1..Len(chan) : chan[i].kind = "end" =>
     /\ result.kind = "ok" => chan[i].verdict = NoError
     /\ result.kind = "err" /\ result.code # 0 =>
          decode_end_stream(chan[i].verdict) = IF result.code \in Code THEN result.code ELSE 2

\* A message whose emit returned Ok is on the wire, ahead of the END frame,
\* unless the handler let emit outlive it (dispatch.rs:160-162 then swallows
\* the message, write_frame fails when nobody receives any more).
AcceptedIsWritten ==
  joins => \A m \in accepted :
     \E i \in 1..Len(chan) :
        /\ chan[i].kind = "data"
        /\ MessageOf(chan[i]) = m
        /\ \A j \in 1..i : chan[j].kind # "end"

\* The messages of one thread keep their order, and none is there twice, however
\* the threads interleave between the load of `ended` and the send.
ThreadOrder ==
  \A i, j \in 1..Len(chan) :
     i < j /\ chan[i].kind = "data" /\ chan[j].kind = "data" /\ chan[i].by = chan[j].by
        => chan[i].n < chan[j].n

OnlyMainEmits == \A t \in Threads \ {Main} : calls[t] = 0

\* When the first frame enters the channel the response headers are in the
\* writer, with everything the handler's own thread recorded before it
\* (dispatch.rs:53, 163-170), for a handler that emits from that thread.  (A
\* header another thread records while emit is between header() and write_frame
\* is lost.)
HeadersBeforeFrame ==
  [][OnlyMainEmits /\ chan = <<>> /\ chan' # <<>> =>
       BaseHeaders \cup recorded[Main] \subseteq headers]_vars

\* A response that carries frames says what they are: its status is 200, it
\* has the content type, and the stream encoding when frames are compressed;
\* hyper_serve reads them only once they are set (server.rs:100-119), for a
\* handler that emits from its own thread.
HeadFitsBody ==
  OnlyMainEmits /\ body # <<>> =>
     /\ resp.status = 200
     /\ "content-type" \in resp.headers
     /\ (\E i \in 1..Len(body) : body[i].kind = "data" /\ body[i].gz)
          => "connect-content-encoding" \in resp.headers

\* A body that ends is complete, and the client can tell a call that ran to
\* its end from one whose handler panicked: the END frame is there exactly
\* when handle wrote it (server.rs:96-112, the drop of every sender).
EofTellsOutcome ==
  apc = "eof" =>
     /\ body = chan
     /\ hpc \in {"done", "panicked"}
     /\ hpc = "done" <=> \E i \in 1..Len(body) : body[i].kind = "end"

\* A free worker polls the connection's task also while the handler runs: the
\* handler does not block a worker that task waits for, or the task can be stolen.
Polled == WF_vars(AdapterStep)

\* "Frames reach the client as they are produced" (server.rs:5-8): time and again
\* every frame written so far has gone out, whether or not the handler ever emits
\* again or returns, where the connection's task is polled meanwhile; on any
\* runtime when the handler is over.  (Without either a frame may stay where it
\* is: see FramesFlow in Service.)
Incremental ==
  Polled \/ <>(hpc # "handler") => []<>(body = chan \/ apc \in {"gone", "failed"})

\* Once the handler is over, also by a panic, and emit is given up, the
\* response is over as well (the senders are dropped, server.rs:112).
BodyEnds ==
  (hpc # "handler" /\ live = {}) ~> apc \in {"eof", "gone", "failed"}

-----------------------------------------------------------------------------
(* What the repository says and the code does not keep.                     *)

\* dispatch.rs:52-55: header() is "called before the first `write_frame`".
HeaderCalledFirst ==
  [][chan = <<>> /\ chan' # <<>> => "content-type" \in headers]_vars

\* bridge_reqwest.rs:200-203: "every server-stream" terminates "with an END frame".
EndTerminates ==
  \A i \in 1..Len(chan) : chan[i].kind = "end" => i = Len(chan)

\* dispatch.rs:145-146: "failures ride the END frame".
FailureRidesEnd ==
  \A i \in 1..Len(chan) :
     chan[i].kind = "end" /\ result.kind = "err" => decode_end_stream(chan[i].verdict) # 0
=============================================================================
