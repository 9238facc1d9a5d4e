--------------------------- MODULE ServiceProofs ---------------------------
(* Proofs about Service: what waits behind a handler, and what callers are  *)
(* told, for any number of workers and calls.                               *)
EXTENDS Service, TLAPS

\* Where a worker may be pointed at, and what a caller may have been told.
Entry == [call : Calls, part : {"conn", "handle"}] \cup {NoTask}
Told  == [kind : {"pending", "answer", "transport", "deadline"}, code : 0..16]

ServiceType ==
  /\ plan \in [Calls -> Plan]
  /\ running \in [Workers -> Entry]
  /\ slot \in [Workers -> Entry]
  /\ queue \subseteq Task
  /\ told \in [Calls -> Told]

\* Tasks are told apart by their call and their part.
LEMMA TaskFacts ==
  ASSUME NEW c \in Calls, NEW d \in Calls
  PROVE  /\ Conn(c) \in Task /\ Handle(c) \in Task
         /\ Conn(c) # NoTask /\ Handle(c) # NoTask
         /\ Conn(c) # Handle(d)
         /\ Handle(c) = Handle(d) => c = d
<1>1. Conn(c).part = "conn" /\ Handle(d).part = "handle" /\ Handle(c).call = c /\ Handle(d).call = d
  BY DEF Conn, Handle
<1>2. Conn(c) \in Task /\ Handle(c) \in Task
  BY DEF Conn, Handle, Task
<1> QED
  BY <1>1, <1>2, ServiceAssumption DEF Task

\* What a worker does to slots when it wakes a task touches its own slot only.
LEMMA WakeFromOwnSlot ==
  ASSUME ServiceType, NEW w \in Workers, NEW t \in Task, WakeFrom(w, t)
  PROVE  /\ slot' \in [Workers -> Entry] /\ queue' \subseteq Task
         /\ slot'[w] \in {slot[w], t}
         /\ \A v \in Workers \ {w} : slot'[v] = slot[v]
<1>1. CASE Scheduled(t)
  BY <1>1 DEF WakeFrom, ServiceType
<1>2. CASE ~Scheduled(t)
  <2>1. Schedule(w, t)
    BY <1>2 DEF WakeFrom
  <2>2. t \in Entry /\ slot[w] \in Entry
    BY DEF Entry, Task, ServiceType
  <2>3. queue' \subseteq Task
    BY <2>1, <2>2 DEF Schedule, ServiceType, Entry, Task
  <2> QED
    BY <2>1, <2>2, <2>3 DEF Schedule, ServiceType
<1> QED
  BY <1>1, <1>2

\* A task a worker wakes into an idle or its own slot.
LEMMA ScheduleOwnSlot ==
  ASSUME ServiceType, NEW w \in Workers, NEW t \in Task, Schedule(w, t)
  PROVE  /\ slot' = [slot EXCEPT ![w] = t]
         /\ slot' \in [Workers -> Entry] /\ queue' \subseteq Task
<1>1. t \in Entry /\ slot[w] \in Entry
  BY DEF Entry, Task, ServiceType
<1> QED
  BY <1>1 DEF Schedule, ServiceType, Entry, Task

\* Sleep's answer is "deadline exceeded" exactly if the timeout is the shorter of
\* the two: a timeout beyond i32 is longer than any sleep.
LEMMA ResultIsTrue ==
  ASSUME NEW p \in Plan
  PROVE  /\ ResultCode(p) \in 0..16
         /\ ResultCode(p) = IF p.method # "Sleep" THEN p.code
                            ELSE IF 0 < p.timeout /\ p.timeout < p.millis THEN 4 ELSE 0
<1>1. p.millis \in Int /\ p.millis <= MaxInt /\ p.timeout \in Nat /\ p.code \in 0..16 /\ MaxInt \in Nat
  BY ServiceAssumption DEF Plan
<1>2. TooLong(p) <=> 0 < p.timeout /\ p.timeout < p.millis
  BY <1>1 DEF TooLong, ParsedTimeout
<1> QED
  BY <1>1, <1>2 DEF ResultCode

-----------------------------------------------------------------------------
(* The steps.                                                               *)

\* Every step keeps the types.
LEMMA ServiceTypeStep ==
  ASSUME ServiceType, [Next]_vars
  PROVE  ServiceType'
<1> USE DEF ServiceType
<1>1. ASSUME NEW w \in Workers, Take(w)
      PROVE  ServiceType'
  <2>1. CASE RunSlot(w)
    BY <2>1 DEF RunSlot, Entry, givenVars, answerVars
  <2>2. CASE SlotToQueue(w)
    <3>1. slot[w] \in Task
      BY <2>2 DEF SlotToQueue, Entry, Task
    <3> QED
      BY <2>2, <3>1 DEF SlotToQueue, Entry, givenVars, answerVars
  <2>3. CASE RunQueued(w)
    <3>1. PICK t \in queue : running' = [running EXCEPT ![w] = t] /\ queue' = queue \ {t}
      BY <2>3 DEF RunQueued
    <3>2. t \in Entry
      BY DEF Entry, Task
    <3> QED
      BY <2>3, <3>1, <3>2 DEF RunQueued, givenVars, answerVars
  <2>4. CASE StealSlot(w)
    BY <2>4 DEF StealSlot, Entry, givenVars, answerVars
  <2> QED
    BY <1>1, <2>1, <2>2, <2>3, <2>4 DEF Take
<1>2. ASSUME NEW w \in Workers, NEW c \in Calls, Serve(w, c)
      PROVE  ServiceType'
  <2>1. Handle(c) \in Task
    BY TaskFacts
  <2>2. slot' \in [Workers -> Entry] /\ queue' \subseteq Task
    BY <1>2, <2>1, ScheduleOwnSlot DEF Serve
  <2> QED
    BY <1>2, <2>2 DEF Serve, Yields, Entry, givenVars, answerVars
<1>3. ASSUME NEW w \in Workers, NEW c \in Calls, Flush(w, c)
      PROVE  ServiceType'
  <2>1. plan[c] \in Plan /\ ResultCode(plan[c]) \in 0..16
    BY ResultIsTrue
  <2>2. Answer(ResultCode(plan[c])) \in Told
    BY <2>1 DEF Answer, Told
  <2>3. told' \in [Calls -> Told]
    BY <1>3, <2>2 DEF Flush
  <2> QED
    BY <1>3, <2>3 DEF Flush, Yields, Entry, givenVars
<1>4. ASSUME NEW w \in Workers, NEW c \in Calls, Emit(w, c) \/ Finish(w, c)
      PROVE  ServiceType'
  <2>1. Receiver(c) \in Task
    BY TaskFacts DEF Receiver
  <2>2. slot' \in [Workers -> Entry] /\ queue' \subseteq Task
    BY <1>4, <2>1, WakeFromOwnSlot DEF Emit, Finish
  <2> QED
    BY <1>4, <2>2 DEF Emit, Finish, Yields, Entry, givenVars
<1>5. ASSUME NEW w \in Workers, NEW c \in Calls, Abandon(w, c) \/ FallAsleep(w, c)
      PROVE  ServiceType'
  BY <1>5 DEF Abandon, FallAsleep, Yields, Entry, givenVars, schedVars, answerVars
<1>6. ASSUME NEW c \in Calls, Connect(c) \/ ConnectionLost(c)
      PROVE  ServiceType'
  <2>1. Transport \in Told
    BY DEF Transport, Told
  <2> QED
    BY <1>6, <2>1 DEF Connect, ConnectionLost, givenVars, schedVars
<1>7. ASSUME NEW c \in Calls, Accept(c) \/ Timeout(c)
      PROVE  ServiceType'
  <2>1. Conn(c) \in Task
    BY TaskFacts
  <2>2. LocalDeadline \in Told
    BY DEF LocalDeadline, Told
  <2> QED
    BY <1>7, <2>1, <2>2 DEF Accept, Timeout, WakeFromOutside, givenVars, answerVars
<1>8. ASSUME NEW c \in Calls, WakeUp(c)
      PROVE  ServiceType'
  BY <1>8 DEF WakeUp, givenVars, schedVars, answerVars
<1>9. CASE AcceptFails
  BY <1>9 DEF AcceptFails, givenVars, schedVars, answerVars
<1>10. CASE UNCHANGED vars
  BY <1>10 DEF vars, givenVars, schedVars, answerVars
<1> QED
  BY <1>1, <1>2, <1>3, <1>4, <1>5, <1>6, <1>7, <1>8, <1>9, <1>10 DEF Next, Poll

\* No step puts another task behind a handler: a worker takes a handler up with
\* its slot empty, and what a handler wakes is its own connection.
LEMMA OwnAnswerStep ==
  ASSUME ServiceType, OnlyOwnAnswerWaits, [Next]_vars
  PROVE  OnlyOwnAnswerWaits'
<1> SUFFICES ASSUME NEW v \in Workers, NEW d \in Calls, running'[v] = Handle(d)
             PROVE  slot'[v] \in {NoTask, Conn(d)}
  BY DEF OnlyOwnAnswerWaits
<1> USE DEF ServiceType
<1>0. running[v] = Handle(d) => slot[v] \in {NoTask, Conn(d)}
  BY DEF OnlyOwnAnswerWaits
<1>1. Handle(d) # NoTask
  BY TaskFacts
<1>2. ASSUME NEW w \in Workers, Take(w)
      PROVE  slot'[v] \in {NoTask, Conn(d)}
  <2>1. CASE RunSlot(w)
    BY <1>0, <2>1 DEF RunSlot
  <2>2. CASE SlotToQueue(w)
    BY <1>0, <2>2 DEF SlotToQueue
  <2>3. CASE RunQueued(w)
    BY <1>0, <2>3 DEF RunQueued, SlotEmpty
  <2>4. CASE StealSlot(w)
    BY <1>0, <2>4 DEF StealSlot, SlotEmpty
  <2> QED
    BY <1>2, <2>1, <2>2, <2>3, <2>4 DEF Take
<1>3. ASSUME NEW w \in Workers, NEW c \in Calls, Serve(w, c)
      PROVE  slot'[v] \in {NoTask, Conn(d)}
  <2>1. slot' = [slot EXCEPT ![w] = Handle(c)]
    BY <1>3 DEF Serve, Schedule
  <2>2. v # w
    BY <1>1, <1>3 DEF Serve, Yields
  <2> QED
    BY <1>0, <1>3, <2>1, <2>2 DEF Serve, Yields
<1>4. ASSUME NEW w \in Workers, NEW c \in Calls, Emit(w, c) \/ Finish(w, c)
      PROVE  slot'[v] \in {NoTask, Conn(d)}
  <2>1. Receiver(c) = Conn(c) /\ Receiver(c) \in Task
    BY TaskFacts DEF Receiver
  <2>2. running[w] = Handle(c)
    BY <1>4 DEF Emit, Finish, Runs
  <2>3. /\ slot'[w] \in {slot[w], Conn(c)}
        /\ \A u \in Workers \ {w} : slot'[u] = slot[u]
    BY <1>4, <2>1, WakeFromOwnSlot DEF Emit, Finish
  <2>4. CASE v = w
    <3>1. Emit(w, c) /\ running' = running
      BY <1>1, <1>4, <2>4 DEF Finish, Yields, Emit
    <3>2. c = d
      BY <2>2, <2>4, <3>1, TaskFacts
    <3> QED
      BY <1>0, <2>2, <2>3, <2>4, <3>2
  <2>5. CASE v # w
    BY <1>0, <1>4, <2>3, <2>5 DEF Emit, Finish, Yields
  <2> QED
    BY <2>4, <2>5
<1>5. ASSUME NEW w \in Workers, NEW c \in Calls, Flush(w, c) \/ Abandon(w, c) \/ FallAsleep(w, c)
      PROVE  slot'[v] \in {NoTask, Conn(d)}
  BY <1>0, <1>1, <1>5 DEF Flush, Abandon, FallAsleep, Yields, schedVars
<1>6. ASSUME NEW c \in Calls,
             Connect(c) \/ Accept(c) \/ ConnectionLost(c) \/ Timeout(c) \/ WakeUp(c)
      PROVE  slot'[v] \in {NoTask, Conn(d)}
  BY <1>0, <1>6 DEF Connect, Accept, ConnectionLost, Timeout, WakeUp, schedVars
<1>7. CASE AcceptFails \/ UNCHANGED vars
  BY <1>0, <1>7 DEF AcceptFails, vars, schedVars
<1> QED
  BY <1>2, <1>3, <1>4, <1>5, <1>6, <1>7 DEF Next, Poll

\* Only a connection whose handler is over tells an answer, and it is the
\* handler's.
LEMMA TruthStep ==
  ASSUME ServiceType, ToldTheTruth, [Next]_vars
  PROVE  ToldTheTruth'
<1> SUFFICES ASSUME NEW d \in Calls, told'[d].kind = "answer"
             PROVE  told'[d].code =
                      IF plan'[d].method # "Sleep" THEN plan'[d].code
                      ELSE IF 0 < plan'[d].timeout /\ plan'[d].timeout < plan'[d].millis THEN 4 ELSE 0
  BY DEF ToldTheTruth
<1> USE DEF ServiceType
<1>1. plan' = plan
  BY DEF Next, Take, Poll, RunSlot, SlotToQueue, RunQueued, StealSlot, Serve, Flush, Abandon, Emit,
         FallAsleep, Finish, Connect, Accept, ConnectionLost, Timeout, WakeUp, AcceptFails, vars, givenVars
<1>2. \/ told'[d] = told[d]
      \/ told'[d] = Answer(ResultCode(plan[d]))
  <2>1. Transport.kind # "answer" /\ LocalDeadline.kind # "answer"
    BY DEF Transport, LocalDeadline
  <2>2. ASSUME NEW w \in Workers, NEW c \in Calls, Flush(w, c)
        PROVE  told'[d] = told[d] \/ told'[d] = Answer(ResultCode(plan[d]))
    BY <2>2 DEF Flush
  <2>3. ASSUME NEW c \in Calls, Connect(c) \/ ConnectionLost(c) \/ Timeout(c)
        PROVE  told'[d] = told[d]
    BY <2>1, <2>3 DEF Connect, ConnectionLost, Timeout
  <2>4. ASSUME NEW w \in Workers, NEW c \in Calls,
               Take(w) \/ Serve(w, c) \/ Abandon(w, c) \/ Emit(w, c) \/ FallAsleep(w, c) \/ Finish(w, c)
        PROVE  told' = told
    BY <2>4 DEF Take, RunSlot, SlotToQueue, RunQueued, StealSlot, Serve, Abandon, Emit, FallAsleep,
                Finish, answerVars
  <2>5. ASSUME NEW c \in Calls, Accept(c) \/ WakeUp(c)
        PROVE  told' = told
    BY <2>5 DEF Accept, WakeUp, answerVars
  <2>6. CASE AcceptFails \/ UNCHANGED vars
    BY <2>6 DEF AcceptFails, vars, answerVars
  <2> QED
    BY <2>2, <2>3, <2>4, <2>5, <2>6 DEF Next, Poll
<1>3. CASE told'[d] = told[d]
  BY <1>1, <1>3 DEF ToldTheTruth
<1>4. CASE told'[d] = Answer(ResultCode(plan[d]))
  <2>1. told'[d].code = ResultCode(plan[d]) /\ plan[d] \in Plan
    BY <1>4 DEF Answer
  <2> QED
    BY <1>1, <2>1, ResultIsTrue
<1> QED
  BY <1>2, <1>3, <1>4

-----------------------------------------------------------------------------
(* The theorems.                                                            *)

\* The inductive invariant of Service, and the two safety properties of it.
ServiceInv == ServiceType /\ OnlyOwnAnswerWaits /\ ToldTheTruth

\* The invariant holds for any workers, calls, plans and width of integers.
THEOREM ServiceCorrect == Spec => []ServiceInv
<1>1. Init => ServiceInv
  <2> SUFFICES ASSUME Init PROVE ServiceInv
    OBVIOUS
  <2>1. Pending \in Told /\ Pending.kind # "answer"
    BY DEF Pending, Told
  <2>2. ServiceType
    BY <2>1, ServiceAssumption DEF Init, ServiceType, Entry
  <2>3. OnlyOwnAnswerWaits
    BY DEF Init, OnlyOwnAnswerWaits
  <2>4. ToldTheTruth
    BY <2>1 DEF Init, ToldTheTruth
  <2> QED
    BY <2>2, <2>3, <2>4 DEF ServiceInv
<1>2. ServiceInv /\ [Next]_vars => ServiceInv'
  BY ServiceTypeStep, OwnAnswerStep, TruthStep DEF ServiceInv
<1> QED
  BY <1>1, <1>2, PTL DEF Spec

\* Behind a handler that blocks its worker, only its own connection's task can be
\* held up (server.rs:96, the runtime's slots).
THEOREM NobodyElseWaits == Spec => []OnlyOwnAnswerWaits
<1>1. ServiceInv => OnlyOwnAnswerWaits
  BY DEF ServiceInv
<1> QED
  BY <1>1, ServiceCorrect, PTL

\* A caller of Sleep is told of a deadline exactly when its timeout is the shorter,
\* whatever the width of the integers (conformance_server.rs:136-149).
THEOREM AnswersAreTrue == Spec => []ToldTheTruth
<1>1. ServiceInv => ToldTheTruth
  BY DEF ServiceInv
<1> QED
  BY <1>1, ServiceCorrect, PTL
=============================================================================
