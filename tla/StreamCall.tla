----------------------------- MODULE StreamCall -----------------------------
(***************************************************************************)
(* A server-stream call from end to end: a handler of the conformance      *)
(* servers under StreamServer, the response body as the wire of a          *)
(* StreamClient, and a caller that calls recv until it gets None and may   *)
(* drop the stream.  The connection may break; only hyper's stream closes  *)
(* it when dropped, reqwest's leaves its pump behind, which reads on.      *)
(***************************************************************************)
EXTENDS StreamServer

CONSTANTS
  Scripts,    \* what handlers do
  ChunkSizes, \* bound: see StreamClient
  MaxPipe,    \* bound: see StreamClient
  MaxCalls    \* bound: see StreamClient

\* A handler emits some messages; it stops at the first one that is refused, when
\* it passes the error of emit on, or ignores that; then it ends with its result.
Script == [emits : Nat, strict : BOOLEAN, result : {"ok", "err", "panic"}]

\* Handlers may pass the error of emit on.
ASSUME StreamCallAssumption ==
  /\ Scripts \subseteq Script
  /\ 13 \in ErrCodes
  /\ ChunkSizes \subseteq Nat \ {0}
  /\ MaxPipe \in Nat /\ MaxCalls \in Nat

VARIABLES
  script,     \* the handler's script
  dropped,    \* whether the caller has dropped the stream, or the future that opens it
  bridge, sent, link, pipe, acc, next, cpc, sawEnd, err, trailers, out    \* see StreamClient

\* A frame of the server as the client sees it.
WireFrame(f) ==
  [end     |-> f.kind = "end",
   gz      |-> IF f.kind = "data" /\ f.gz THEN "ok" ELSE "no",
   len     |-> 1,
   verdict |-> IF f.kind = "end" THEN f.verdict ELSE NoError,
   meta    |-> FALSE]

WireFrames ==
  [end : BOOLEAN, gz : {"no", "ok"}, len : {1}, verdict : Verdict, meta : {FALSE}]

Client ==
  INSTANCE StreamClient WITH
    Wires <- Seq(WireFrames), ended <- sawEnd,
    wire  <- [i \in 1..Len(body) |-> WireFrame(body[i])]

recvVars   == <<acc, next, cpc, sawEnd, err, trailers, out>>
clientVars == <<bridge, sent, link, pipe, recvVars>>
allVars    == <<vars, script, dropped, clientVars>>

\* Neither bridge asks for gzip, and these handlers emit from their own thread.
CallInit ==
  /\ Init
  /\ joins /\ ~gzip
  /\ Client!Init
  /\ script \in Scripts
  /\ dropped = FALSE

-----------------------------------------------------------------------------
(* The server.                                                              *)

Rejected == Cardinality(accepted) < calls[Main]
Emitting == calls[Main] < script.emits /\ ~(script.strict /\ Rejected)

\* What the handler does next.
ScriptStep ==
  \/ Emitting /\ EmitBegin(Main)
  \/ ~Emitting /\ script.strict /\ Rejected /\ HandlerReturn(Failure(13))
  \/ ~Emitting /\ ~(script.strict /\ Rejected)
       /\ \/ script.result = "ok" /\ HandlerReturn(Success)
          \/ script.result = "err" /\ \E c \in ErrCodes : HandlerReturn(Failure(c))
          \/ script.result = "panic" /\ HandlerPanic

ServerDoes(Step) == Step /\ UNCHANGED <<script, dropped, clientVars>>

\* hyper learns that the connection is gone.
Hangup == link = "closed" /\ Disconnect

-----------------------------------------------------------------------------
(* The client and the connection.                                           *)

Opened  == resp.status = 200
Looping == Opened /\ ~dropped /\ ~Client!Finished

ClientDoes(Step) == UNCHANGED <<vars, script, dropped>> /\ Step

Receive == Looping /\ (Client!Recv \/ Client!RecvStep)

\* The pump goes on when nobody reads what it reads.  (Before it: a version whose
\* send waits for the receiver.)
NeverDrains == FALSE
Drains      == dropped

Arrive(n) ==
  \/ ~dropped /\ Client!Deliver(n)
  \/ /\ Drains /\ link = "open"
     /\ sent + n <= Client!WireBytes
     /\ sent' = sent + n
     /\ UNCHANGED <<bridge, link, pipe, recvVars>>

\* The body ends for the client when it has ended for the server.
Eof == apc = "eof" /\ sent = Client!WireBytes /\ Client!BodyEof

\* The connection breaks: an error of open_stream, or one for recv.
LinkBreaks ==
  \/ Opened /\ ~dropped /\ Client!BodyError
  \/ /\ ~Opened \/ dropped
     /\ link = "open"
     /\ link' = "closed"
     /\ out' = IF dropped THEN out ELSE <<Client!None(Client!Local("link"))>>
     /\ UNCHANGED <<bridge, sent, pipe, acc, next, cpc, sawEnd, err, trailers>>

\* The caller drops the stream, or gives up opening it.  The pump of reqwest, once
\* spawned, owns the body.
Drop ==
  /\ ~dropped
  /\ dropped' = TRUE
  /\ link' = IF bridge = "reqwest" /\ Opened THEN link ELSE "closed"
  /\ pipe' = <<>>
  /\ cpc' = "idle"
  /\ UNCHANGED <<vars, script, bridge, sent, acc, next, sawEnd, err, trailers, out>>

-----------------------------------------------------------------------------
ServerRuns == EmitStep(Main) \/ HandleStep \/ AdapterStep \/ Hangup
Transfer   == (\E n \in ChunkSizes : Arrive(n)) \/ Eof

CallNext ==
  \/ ServerDoes(ScriptStep)
  \/ ServerDoes(ServerRuns)
  \/ ClientDoes(Receive)
  \/ ClientDoes(Transfer)
  \/ ClientDoes(LinkBreaks)
  \/ Drop

\* The client's runtime polls what is ready, bytes that were sent arrive, and the
\* caller calls recv again.  The server's polls the connection's task once the
\* handler is over, see Fairness in StreamServer.  The handler may take for ever,
\* and the connection need not break.
CallSpec ==
  /\ CallInit /\ [][CallNext]_allVars
  /\ WF_allVars(ServerDoes(EmitStep(Main)))
  /\ WF_allVars(ServerDoes(HandleStep))
  /\ WF_allVars(ServerDoes(hpc # "handler" /\ AdapterStep))
  /\ WF_allVars(ServerDoes(hpc # "handler" /\ Hangup))
  /\ WF_allVars(ClientDoes(Receive))
  /\ WF_allVars(ClientDoes(Transfer))

-----------------------------------------------------------------------------
(* Properties.                                                              *)

\* From end to end a caller sees a MessageStream of the handler's own: the messages
\* emit accepted, in order and all of them ahead of the result the handler
\* returned (a code the protocol does not have is "unknown"); a panic, a broken
\* connection or a refused message is an error.
EndToEnd ==
  INSTANCE MessageStream WITH
    offer   <- [messages |-> Cardinality(accepted),
                outcome  |-> IF result = Pending THEN {}
                             ELSE {IF result.code \in Code THEN result.code ELSE 2}],
    count   <- Client!Messages,
    outcome <- IF Client!Finished THEN {Client!FirstNone.code} ELSE {}

HandlerReachesCaller == EndToEnd!MSSpec

\* The connection's task is polled also while the handler runs, see Polled.
CallPolled == WF_allVars(ServerDoes(AdapterStep))

\* Every message emit accepted reaches a caller that keeps receiving: even if the
\* handler then waits for ever, where the connection's task is polled meanwhile
\* (server.rs:5-8; tests/stream_timing.rs), and on any runtime when the handler
\* ends.
PromptDelivery ==
  CallPolled \/ <>(hpc # "handler") =>
    \A i \in 1..MaxEmits[Main] :
      Cardinality(accepted) >= i ~> Client!Messages >= i \/ dropped \/ Client!Finished

\* A caller that loops until None gets there, once the handler has returned or
\* panicked or the connection is broken.
OutcomeArrives == (hpc # "handler" \/ link = "closed") ~> Client!Finished \/ dropped

\* When a stream is dropped and the handler is over, nothing stays behind: not the
\* pump of reqwest (bridge_reqwest.rs:147-154, which reads to the end of a body
\* nobody wants), not the body of the server.
NothingStays ==
  (dropped /\ hpc # "handler")
    ~> link = "closed" /\ ~Receiving /\ hpc \in {"done", "panicked"}
=============================================================================
