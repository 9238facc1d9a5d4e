---------------------------- MODULE StreamClient ----------------------------
(***************************************************************************)
(* The client side of a server-stream: HyperStream and ReqwestStream.      *)
(*                                                                         *)
(* A task moves the response body, in chunks cut anywhere, towards the     *)
(* caller (reqwest: the spawned pump and its channel; hyper: the           *)
(* connection task and the body's own channel), until the body ends or     *)
(* breaks.  `recv` collects the chunks and cuts frames out of them.  The   *)
(* caller may drop a `recv` that waits.                                    *)
(*                                                                         *)
(* Bytes are counted, not spelled out: the buffer is the stretch of the    *)
(* wire that starts at frame `next` and is `acc` bytes long.               *)
(***************************************************************************)
EXTENDS Codes, SequencesExt

CONSTANTS
  Wires,      \* the sequences of frames a server sends
  ChunkSizes, \* bound: the sizes of chunks
  MaxPipe,    \* bound: chunks under way
  MaxCalls    \* bound: recv calls that return

HeaderBytes == 5

Frame == [end : BOOLEAN, gz : {"no", "ok", "corrupt"}, len : Nat,
          verdict : Verdict \cup {Nameless}, meta : BOOLEAN]

ASSUME StreamClientAssumption ==
  /\ Wires \subseteq Seq(Frame)
  /\ ChunkSizes \subseteq Nat \ {0}
  /\ MaxPipe \in Nat
  /\ MaxCalls \in Nat

VARIABLES
  bridge,     \* which of the two bridges
  wire,       \* the frames of the response body
  sent,       \* bytes of it that left the server
  link,       \* whether the body can still bring bytes
  pipe,       \* chunks (and at last an error) recv has not taken
  acc,        \* bytes taken and not parsed
  next,       \* the frame the buffer starts with
  cpc,        \* control point of recv
  ended, err, trailers,
  out         \* what the recv calls returned, in order

linkVars   == <<sent, link>>
parseVars  == <<next, ended, err, trailers>>
vars == <<bridge, wire, linkVars, pipe, acc, parseVars, cpc, out>>

FrameBytes(f) == HeaderBytes + f.len

\* Where each frame of the wire w ends: the bytes of the first i frames.
Ends(w) ==
  LET e[i \in 0..Len(w)] == IF i = 0 THEN 0 ELSE e[i - 1] + FrameBytes(w[i]) IN e
WireBytes == Ends(wire)[Len(wire)]

\* Items of the pipe: the size of a chunk, or 0 for the error that ends it.
Broken == 0

NoErr         == [cause |-> "none", code |-> 0]
Local(cause)  == [cause |-> cause, code |-> 13]
Server(code)  == [cause |-> "server", code |-> code]

Some(i) == [kind |-> "some", frame |-> i]
None(e) == [kind |-> "none", err |-> e]

Init ==
  /\ bridge \in {"hyper", "reqwest"}
  /\ wire \in Wires
  /\ sent = 0
  /\ link = "open"
  /\ pipe = <<>>
  /\ acc = 0
  /\ next = 1
  /\ cpc = "idle"
  /\ ended = FALSE
  /\ err = NoErr
  /\ trailers = 0
  /\ out = <<>>

-----------------------------------------------------------------------------
(* The body on its way.                                                     *)

Deliver(n) ==
  /\ link = "open"
  /\ Len(pipe) < MaxPipe
  /\ sent + n <= WireBytes
  /\ sent' = sent + n
  /\ pipe' = Append(pipe, n)
  /\ UNCHANGED <<bridge, wire, link, acc, parseVars, cpc, out>>

\* The body ends, be it that the server is done or that it went away.
BodyEof ==
  /\ link = "open"
  /\ link' = "closed"
  /\ UNCHANGED <<bridge, wire, sent, pipe, acc, parseVars, cpc, out>>

\* The transport fails: an error is the last item.
BodyError ==
  /\ link = "open"
  /\ Len(pipe) < MaxPipe
  /\ link' = "closed"
  /\ pipe' = Append(pipe, Broken)
  /\ UNCHANGED <<bridge, wire, sent, acc, parseVars, cpc, out>>

-----------------------------------------------------------------------------
(* recv.                                                                    *)

Return(r) == cpc' = "idle" /\ out' = Append(out, r)

Recv ==
  /\ cpc = "idle"
  /\ Len(out) < MaxCalls
  /\ cpc' = "parse"
  /\ UNCHANGED <<bridge, wire, linkVars, pipe, acc, parseVars, out>>

\* HyperStream looks at `ended` first; ReqwestStream does not.
NeverStops == FALSE
StopsHere == bridge = "hyper" /\ ended

ReturnEnded ==
  /\ cpc = "parse"
  /\ StopsHere
  /\ Return(None(err))
  /\ UNCHANGED <<bridge, wire, linkVars, pipe, acc, parseVars>>

\* The buffer holds a whole frame.  (Before it: a test of the header alone, and
\* one that is off by one.)
HeaderArrived == acc >= HeaderBytes
MoreArrived   == acc > FrameBytes(wire[next])
FrameArrived  == acc >= FrameBytes(wire[next])
HasFrame == next <= Len(wire) /\ FrameArrived

\* A corrupt gzip payload is an error.  (Before it: the version that goes on.)
SkipCorrupt   == UNCHANGED <<err, cpc, out>>
RefuseCorrupt == err' = Local("gzip") /\ Return(None(err'))

\* A frame is cut out of the buffer: unless it is corrupt, an END frame ends the
\* stream and sets the error it carries, anything else is a message.
ParseFrame ==
  /\ cpc = "parse"
  /\ ~StopsHere
  /\ HasFrame
  /\ acc' = acc - FrameBytes(wire[next])
  /\ next' = next + 1
  /\ LET f == wire[next]
         code == decode_end_stream(f.verdict) IN
       \/ /\ f.gz = "corrupt"
          /\ RefuseCorrupt
          /\ UNCHANGED <<ended, trailers>>
       \/ /\ f.gz # "corrupt" /\ f.end
          /\ ended' = TRUE
          /\ trailers' = IF f.meta THEN next ELSE IF bridge = "hyper" THEN trailers ELSE 0
          /\ err' = IF code # 0 THEN Server(code) ELSE err
          /\ Return(None(err'))
       \/ /\ f.gz # "corrupt" /\ ~f.end
          /\ Return(Some(next))
          /\ UNCHANGED <<ended, err, trailers>>
  /\ UNCHANGED <<bridge, wire, linkVars, pipe>>

Starve ==
  /\ cpc = "parse"
  /\ ~StopsHere
  /\ ~HasFrame
  /\ cpc' = "await"
  /\ UNCHANGED <<bridge, wire, linkVars, pipe, acc, parseVars, out>>

TakeChunk ==
  /\ cpc = "await"
  /\ pipe # <<>> /\ Head(pipe) # Broken
  /\ pipe' = Tail(pipe)
  /\ acc' = acc + Head(pipe)
  /\ cpc' = "parse"
  /\ UNCHANGED <<bridge, wire, linkVars, parseVars, out>>

TakeError ==
  /\ cpc = "await"
  /\ pipe # <<>> /\ Head(pipe) = Broken
  /\ pipe' = Tail(pipe)
  /\ err' = Local("link")
  /\ Return(None(err'))
  /\ UNCHANGED <<bridge, wire, linkVars, acc, next, ended, trailers>>

\* The error recv finds when the body is over: truncation, a missing END frame,
\* or none.  (Before it: versions that forget about the END frame, and about the
\* error the stream has already.)
EofIsCleanEnd == IF acc > 0 THEN Local("truncated") ELSE err
EofForgets ==
  IF acc > 0 THEN Local("truncated") ELSE IF ~ended THEN Local("missing") ELSE NoErr
EofError ==
  IF acc > 0 THEN Local("truncated") ELSE IF ~ended THEN Local("missing") ELSE err

TakeEof ==
  /\ cpc = "await"
  /\ pipe = <<>> /\ link = "closed"
  /\ err' = EofError
  /\ Return(None(err'))
  /\ UNCHANGED <<bridge, wire, linkVars, pipe, acc, next, ended, trailers>>

\* The caller drops a recv that waits; what it collected stays in the stream.
CancelRecv ==
  /\ cpc = "await"
  /\ cpc' = "idle"
  /\ UNCHANGED <<bridge, wire, linkVars, pipe, acc, parseVars, out>>

-----------------------------------------------------------------------------
RecvStep == ReturnEnded \/ ParseFrame \/ Starve \/ TakeChunk \/ TakeError \/ TakeEof

Next ==
  \/ \E n \in ChunkSizes : Deliver(n)
  \/ BodyEof \/ BodyError
  \/ Recv \/ CancelRecv
  \/ RecvStep

\* A recv that can go on does; whether bytes come, and whether the caller
\* calls recv again, is up to others.
Spec == Init /\ [][Next]_vars
FairSpec == Spec /\ WF_vars(RecvStep)
-----------------------------------------------------------------------------
(* Properties.                                                              *)

Error == [cause : {"none"}, code : {0}]
         \cup [cause : {"gzip", "link", "truncated", "missing"}, code : {13}]
         \cup [cause : {"server"}, code : Code \ {0}]

\* Every variable holds a value the code could hold; the buffer never gives
\* out bytes it does not have.
TypeOK ==
  /\ bridge \in {"hyper", "reqwest"}
  /\ wire \in Wires
  /\ sent \in Nat
  /\ link \in {"open", "closed"}
  /\ pipe \in Seq(Nat)
  /\ acc \in Nat
  /\ next \in 1..(Len(wire) + 1)
  /\ cpc \in {"idle", "parse", "await"}
  /\ ended \in BOOLEAN
  /\ err \in Error
  /\ trailers \in Nat
  /\ out \in Seq([kind : {"some"}, frame : Nat] \cup [kind : {"none"}, err : Error])

\* The results up to the first None: what a caller that loops until None sees.
Finished  == \E k \in 1..Len(out) : out[k].kind = "none"
Messages  == IF Finished THEN SelectInSeq(out, LAMBDA r : r.kind = "none") - 1 ELSE Len(out)
FirstNone == out[Messages + 1].err

\* The leading frames of the wire that are readable messages, and the bytes up
\* to and including the frame behind them.
Readable(f) == ~f.end /\ f.gz # "corrupt"
Lead ==
  CHOOSE k \in 0..Len(wire) :
     /\ \A i \in 1..k : Readable(wire[i])
     /\ k < Len(wire) => ~Readable(wire[k + 1])
EndFollows == Lead < Len(wire) /\ wire[Lead + 1].gz # "corrupt"
EndBytes   == Ends(wire)[Lead + 1]

\* However the body is cut into chunks, and whichever waiting recv the caller
\* drops, the caller gets the messages in order: up to the first None without
\* a gap, later (a caller that goes on) without repetition.
InOrder ==
  /\ \A k \in 1..Messages : out[k].frame = k
  /\ \A j, k \in 1..Len(out) :
        j < k /\ out[j].kind = "some" /\ out[k].kind = "some" => out[j].frame < out[k].frame

\* A stream whose END frame arrived is not reported truncated, nor as lacking it
\* (fault matrix F2/M8, bridge_reqwest.rs:199-209).
NoFalseAlarm ==
  Finished /\ FirstNone.cause \in {"truncated", "missing"} => ~(EndFollows /\ sent >= EndBytes)

\* After the END frame a HyperStream only repeats its outcome: no message, no
\* other error, no other trailers (bridge_hyper.rs:162).
HyperOutcomeStays ==
  [][bridge = "hyper" /\ ended =>
       /\ UNCHANGED <<err, trailers>>
       /\ out' # out => Last(out') = None(err)]_vars

\* last_error never goes back to "no error", whatever is read after it.
ErrorStays == [][err # NoErr => err' # NoErr]_vars

\* A recv returns once the bytes of the next frame are under way, however they
\* are split, or the body is over: no partial chunk leaves it waiting (fault
\* matrix F5, bridge_hyper.rs:163-165).
RecvReturns ==
  (cpc # "idle" /\ (\/ link = "closed"
                    \/ /\ next <= Len(wire)
                       /\ acc + FoldLeft(+, 0, pipe) >= FrameBytes(wire[next])))
    ~> cpc = "idle"

\* The caller that loops until None sees a MessageStream: it takes the server's
\* outcome for the stream's only when it has all of the server's messages, and
\* a body that stops anywhere else is a failure.
Promise ==
  INSTANCE MessageStream WITH
    offer   <- [messages |-> Lead,
                outcome  |-> IF EndFollows THEN {decode_end_stream(wire[Lead + 1].verdict)}
                                           ELSE {}],
    count   <- Messages,
    outcome <- IF Finished THEN {FirstNone.code} ELSE {}

KeepsPromise == Promise!MSSpec

-----------------------------------------------------------------------------
(* What the repository says and the code does not keep.                     *)

\* protocol.rs:67: "None at end": after the END frame recv returns None.
NoneAtEnd == [][ended /\ out' # out => Last(out').kind = "none"]_vars
=============================================================================
