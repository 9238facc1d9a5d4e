------------------------------ MODULE Service ------------------------------
(***************************************************************************)
(* The conformance servers at work: the accept loop on the main thread,    *)
(* and for each connection (one call) a task that runs hyper_serve and the *)
(* task it spawns for dispatch::handle, both on the workers of the tokio   *)
(* runtime.  Handlers are synchronous: one that sleeps keeps its worker.   *)
(*                                                                         *)
(* A task made runnable by a worker goes into the worker's slot, which is  *)
(* run next, and moves a task that is there into the queue; whether other  *)
(* workers take a task out of a slot depends on the version of tokio.      *)
(***************************************************************************)
EXTENDS Integers, Sequences, FiniteSets, Functions

CONSTANTS
  Workers,    \* the worker threads
  Calls,      \* the calls
  Workloads,  \* what the calls ask for: functions from Calls to plans
  MaxInt,     \* the largest i32
  NoTask

\* The library leaves the handlers to the application, so those of both servers
\* are put behind either accept loop.
\*
\* What a call asks for: Sleep with `millis` and a timeout header (0 for none), a
\* stream of frames with a pause ahead of each, or an answer at once; the code
\* that comes back; or nothing.  The handler may block for ever in its sleep, and the
\* caller may race the call with with_deadline.
Plan == [method : {"Sleep", "ServerStream", "reply", "none"}, millis : (-MaxInt - 1)..MaxInt, timeout : Nat,
         frames : Nat, code : 0..16, hangs : BOOLEAN, deadline : BOOLEAN]

ASSUME ServiceAssumption ==
  /\ IsFiniteSet(Workers) /\ Workers # {}
  /\ MaxInt \in Nat
  /\ Workloads \subseteq [Calls -> Plan]
  /\ NoTask \notin [call : Calls, part : {"conn", "handle"}]

VARIABLES
  plan,       \* what each call asks for
  official,   \* whose accept loop runs, the official conformance server's or the other's
  stealing,   \* whether a task in a slot can be stolen
  listener,   \* "up" until the accept loop ends
  running,    \* the task each worker polls
  slot,       \* the task each worker runs next
  queue,      \* the tasks any worker may run
  conn,       \* state of each connection
  hpc,        \* state of each handler
  left,       \* what the handler has still to do
  emitted,    \* frames in the channel of the response
  flushed,    \* frames written to the connection
  told        \* what the caller was told

givenVars  == <<plan, official, stealing>>
schedVars  == <<running, slot, queue>>
answerVars == <<emitted, flushed, told>>
vars == <<givenVars, listener, schedVars, conn, hpc, left, answerVars>>

Conn(c)   == [call |-> c, part |-> "conn"]
Handle(c) == [call |-> c, part |-> "handle"]
Task      == [call : Calls, part : {"conn", "handle"}]

Pending        == [kind |-> "pending", code |-> 0]
Answer(code)   == [kind |-> "answer", code |-> code]
Transport      == [kind |-> "transport", code |-> 13]
LocalDeadline  == [kind |-> "deadline", code |-> 4]
Waits(c)       == told[c] = Pending

-----------------------------------------------------------------------------
(* Handlers.                                                                *)

\* Sleep reads the timeout as an i32: a value beyond is no timeout.  (Before it: a
\* conversion that wraps.)
WrappedTimeout(p) == p.timeout % (2 * (MaxInt + 1))
ParsedTimeout(p)  == IF p.timeout > MaxInt THEN 0 ELSE p.timeout

TooLong(p) == ParsedTimeout(p) > 0 /\ ParsedTimeout(p) < p.millis

Pause(p) == IF p.millis > 0 THEN <<"sleep">> ELSE <<>>

Work(p) ==
  CASE p.method = "Sleep" -> IF TooLong(p) THEN <<"sleep">> ELSE Pause(p)
    [] p.method = "ServerStream" ->
         LET work[n \in 0..p.frames] ==
               IF n = 0 THEN <<>> ELSE Pause(p) \o <<"emit">> \o work[n - 1]
         IN  work[p.frames]
    [] p.method \in {"reply", "none"} -> <<>>

ResultCode(p) == IF p.method = "Sleep" THEN IF TooLong(p) THEN 4 ELSE 0 ELSE p.code

-----------------------------------------------------------------------------
Init ==
  /\ plan \in Workloads
  /\ official \in BOOLEAN
  /\ stealing \in BOOLEAN
  /\ listener = "up"
  /\ running = [w \in Workers |-> NoTask]
  /\ slot = [w \in Workers |-> NoTask]
  /\ queue = {}
  /\ conn = [c \in Calls |-> "none"]
  /\ hpc = [c \in Calls |-> "none"]
  /\ left = [c \in Calls |-> Work(plan[c])]
  /\ emitted = [c \in Calls |-> 0]
  /\ flushed = [c \in Calls |-> 0]
  /\ told = [c \in Calls |-> Pending]

-----------------------------------------------------------------------------
(* The runtime.                                                             *)

Scheduled(t) == t \in queue \cup Range(slot) \cup Range(running)

\* Worker w wakes task t, or spawns it.
Schedule(w, t) ==
  /\ slot' = [slot EXCEPT ![w] = t]
  /\ queue' = IF slot[w] = NoTask THEN queue ELSE queue \cup {slot[w]}

WakeFrom(w, t) == IF Scheduled(t) THEN UNCHANGED <<slot, queue>> ELSE Schedule(w, t)

\* The main thread or the I/O driver wakes task t.  (The driver may also use the
\* slot of the idle worker it runs on, which that worker empties next.)
WakeFromOutside(t) == queue' = IF Scheduled(t) THEN queue ELSE queue \cup {t}

Free(w) == running[w] = NoTask /\ listener = "up"

SlotEmpty(w) == slot[w] = NoTask

RunSlot(w) ==
  /\ Free(w) /\ slot[w] # NoTask
  /\ running' = [running EXCEPT ![w] = slot[w]]
  /\ slot' = [slot EXCEPT ![w] = NoTask]
  /\ UNCHANGED <<givenVars, listener, queue, conn, hpc, left, answerVars>>

\* A worker that ran its slot often enough moves the task into the queue.
SlotToQueue(w) ==
  /\ Free(w) /\ slot[w] # NoTask
  /\ queue' = queue \cup {slot[w]}
  /\ slot' = [slot EXCEPT ![w] = NoTask]
  /\ UNCHANGED <<givenVars, listener, running, conn, hpc, left, answerVars>>

RunQueued(w) ==
  /\ Free(w) /\ SlotEmpty(w)
  /\ \E t \in queue :
       /\ running' = [running EXCEPT ![w] = t]
       /\ queue' = queue \ {t}
  /\ UNCHANGED <<givenVars, listener, slot, conn, hpc, left, answerVars>>

StealSlot(w) ==
  /\ stealing /\ Free(w) /\ SlotEmpty(w)
  /\ \E v \in Workers :
       /\ running[v] # NoTask /\ slot[v] # NoTask
       /\ running' = [running EXCEPT ![w] = slot[v]]
       /\ slot' = [slot EXCEPT ![v] = NoTask]
  /\ UNCHANGED <<givenVars, listener, queue, conn, hpc, left, answerVars>>

-----------------------------------------------------------------------------
(* Connections: accept, and hyper_serve.                                    *)

Connect(c) ==
  /\ conn[c] = "none" /\ Waits(c) /\ plan[c].method # "none"
  /\ IF listener = "up"
       THEN conn' = [conn EXCEPT ![c] = "backlog"] /\ UNCHANGED told
       ELSE told' = [told EXCEPT ![c] = Transport] /\ UNCHANGED conn
  /\ UNCHANGED <<givenVars, listener, schedVars, hpc, left, emitted, flushed>>

Accept(c) ==
  /\ listener = "up" /\ conn[c] = "backlog"
  /\ conn' = [conn EXCEPT ![c] = "accepted"]
  /\ WakeFromOutside(Conn(c))
  /\ UNCHANGED <<givenVars, listener, running, slot, hpc, left, answerVars>>

\* accept fails: the official server tries again, the other one's main returns and
\* drops the runtime.
AcceptFails ==
  /\ listener = "up" /\ ~official
  /\ listener' = "down"
  /\ UNCHANGED <<givenVars, schedVars, conn, hpc, left, answerVars>>

\* Then every connection goes, once its task is not being polled.
ConnectionLost(c) ==
  /\ listener = "down"
  /\ conn[c] \in {"backlog", "accepted", "waiting"}
  /\ Conn(c) \notin Range(running)
  /\ conn' = [conn EXCEPT ![c] = "closed"]
  /\ told' = [told EXCEPT ![c] = IF Waits(c) THEN Transport ELSE @]
  /\ UNCHANGED <<givenVars, listener, schedVars, hpc, left, emitted, flushed>>

Yields(w) == running' = [running EXCEPT ![w] = NoTask]

\* The connection's task spawns the handle task and waits for its frames.
Serve(w, c) ==
  /\ running[w] = Conn(c) /\ conn[c] = "accepted" /\ Waits(c)
  /\ conn' = [conn EXCEPT ![c] = "waiting"]
  /\ hpc' = [hpc EXCEPT ![c] = "ready"]
  /\ Schedule(w, Handle(c))
  /\ Yields(w)
  /\ UNCHANGED <<givenVars, listener, left, answerVars>>

TaskOver(c)  == hpc[c] = "over"

Flush(w, c) ==
  /\ running[w] = Conn(c) /\ conn[c] = "waiting" /\ Waits(c)
  /\ flushed' = [flushed EXCEPT ![c] = emitted[c]]
  /\ IF TaskOver(c)
       THEN /\ conn' = [conn EXCEPT ![c] = "answered"]
            /\ told' = [told EXCEPT ![c] = Answer(ResultCode(plan[c]))]
       ELSE UNCHANGED <<conn, told>>
  /\ Yields(w)
  /\ UNCHANGED <<givenVars, listener, slot, queue, hpc, left, emitted>>

\* The caller is gone: the task ends, the channel has no receiver any more.
Abandon(w, c) ==
  /\ running[w] = Conn(c) /\ ~Waits(c)
  /\ conn' = [conn EXCEPT ![c] = "closed"]
  /\ Yields(w)
  /\ UNCHANGED <<givenVars, listener, slot, queue, hpc, left, answerVars>>

\* with_deadline drops the call and with it the connection.
Timeout(c) ==
  /\ plan[c].deadline /\ Waits(c) /\ conn[c] # "none"
  /\ told' = [told EXCEPT ![c] = LocalDeadline]
  /\ IF conn[c] = "backlog" THEN UNCHANGED queue ELSE WakeFromOutside(Conn(c))
  /\ UNCHANGED <<givenVars, listener, running, slot, conn, hpc, left, emitted, flushed>>

-----------------------------------------------------------------------------
(* The handle task.                                                         *)

Runs(w, c) == running[w] = Handle(c) /\ hpc[c] \in {"ready", "awake"}

\* The task at the other end of the channel a handler writes to.  (Before it: a
\* version in which all calls share one channel.)
SharedReceiver(c) == Conn(CHOOSE d \in Calls : conn[d] = "waiting")
Receiver(c)       == Conn(c)

\* A frame goes into the channel and wakes the connection's task; a refused one
\* ends the handler of the official server.  (Before it: one that tries again.)
TryAgain(c)     == left[c]
AfterRefusal(c) == <<>>

Emit(w, c) ==
  /\ Runs(w, c) /\ left[c] # <<>> /\ Head(left[c]) = "emit"
  /\ IF conn[c] = "waiting"
       THEN /\ emitted' = [emitted EXCEPT ![c] = @ + 1]
            /\ left' = [left EXCEPT ![c] = Tail(@)]
            /\ WakeFrom(w, Receiver(c))
       ELSE /\ left' = [left EXCEPT ![c] = AfterRefusal(c)]
            /\ UNCHANGED <<emitted, slot, queue>>
  /\ UNCHANGED <<givenVars, listener, running, conn, hpc, flushed, told>>

FallAsleep(w, c) ==
  /\ Runs(w, c) /\ left[c] # <<>> /\ Head(left[c]) = "sleep"
  /\ hpc' = [hpc EXCEPT ![c] = "asleep"]
  /\ left' = [left EXCEPT ![c] = Tail(@)]
  /\ UNCHANGED <<givenVars, listener, schedVars, conn, answerVars>>

WakeUp(c) ==
  /\ hpc[c] = "asleep"
  /\ hpc' = [hpc EXCEPT ![c] = "awake"]
  /\ UNCHANGED <<givenVars, listener, schedVars, conn, left, answerVars>>

\* The handler returns, handle writes its reply, error or END frame.
Finish(w, c) ==
  /\ Runs(w, c) /\ left[c] = <<>>
  /\ hpc' = [hpc EXCEPT ![c] = "over"]
  /\ IF conn[c] = "waiting"
       THEN emitted' = [emitted EXCEPT ![c] = @ + 1] /\ WakeFrom(w, Receiver(c))
       ELSE UNCHANGED <<emitted, slot, queue>>
  /\ Yields(w)
  /\ UNCHANGED <<givenVars, listener, conn, left, flushed, told>>

-----------------------------------------------------------------------------
Take(w) == RunSlot(w) \/ SlotToQueue(w) \/ RunQueued(w) \/ StealSlot(w)

Poll(w) ==
  \E c \in Calls :
    Serve(w, c) \/ Flush(w, c) \/ Abandon(w, c) \/ Emit(w, c) \/ FallAsleep(w, c) \/ Finish(w, c)

Next ==
  \/ \E w \in Workers : Take(w) \/ Poll(w)
  \/ \E c \in Calls : Connect(c) \/ Accept(c) \/ ConnectionLost(c) \/ Timeout(c) \/ WakeUp(c)
  \/ AcceptFails

\* Threads run, sleeps end but for those that hang, timers fire.
Fairness ==
  /\ \A w \in Workers : WF_vars(Take(w)) /\ WF_vars(Poll(w))
  /\ \A c \in Calls :
       /\ WF_vars(Accept(c)) /\ WF_vars(ConnectionLost(c)) /\ WF_vars(Timeout(c))
       /\ WF_vars(~plan[c].hangs /\ WakeUp(c))

Spec == Init /\ [][Next]_vars /\ Fairness
-----------------------------------------------------------------------------
(* Properties.                                                              *)

\* A caller of Sleep is told "deadline exceeded" by the server exactly when its
\* timeout is shorter than the sleep, whatever of the u64 values a client can put
\* into the header it is (conformance_server.rs:140-149); other calls
\* are told what their handler returned.
ToldTheTruth ==
  \A c \in Calls : told[c].kind = "answer" =>
    LET p == plan[c] IN
      told[c].code = IF p.method # "Sleep" THEN p.code
                     ELSE IF 0 < p.timeout /\ p.timeout < p.millis THEN 4 ELSE 0

\* Behind a handler that blocks its worker nothing waits but the task of its own
\* connection: no other call is held up in a slot.
OnlyOwnAnswerWaits ==
  \A w \in Workers, c \in Calls :
    running[w] = Handle(c) => slot[w] \in {NoTask, Conn(c)}

Hanging == {c \in Calls : plan[c].hangs}


\* Every worker comes back in the end, unless its handler hangs: also from calls
\* whose callers have given up and when the accept loop has ended (nothing
\* stops a handler then, server.rs:96-98).
WorkersComeBack ==
  <>[](\A w \in Workers : \/ running[w] = NoTask
                          \/ plan[running[w].call].hangs)

-----------------------------------------------------------------------------
(* What the repository says and the code does not keep.                     *)

\* server.rs:8: "Frames therefore reach the client as they are produced - never
\* buffered."
FramesFlow ==
  \A c \in Calls : \A i \in 1..3 :
    emitted[c] >= i ~> flushed[c] >= i \/ conn[c] # "waiting" \/ ~Waits(c)
=============================================================================
