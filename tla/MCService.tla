----------------------------- MODULE MCService -----------------------------
(* Service with two workers and a few calls.                               *)
EXTENDS Service

CONSTANTS v, w, x, y, z

\* An i32 is four bits wide here.
Quick(code) ==
  [method |-> "reply", millis |-> 0, timeout |-> 0, frames |-> 0, code |-> code,
   hangs |-> FALSE, deadline |-> FALSE]
Nothing == [Quick(0) EXCEPT !.method = "none"]
Sleep(millis, timeout) ==
  [Quick(0) EXCEPT !.method = "Sleep", !.millis = millis, !.timeout = timeout]
Stream(frames, millis, code) ==
  [Quick(code) EXCEPT !.method = "ServerStream", !.frames = frames, !.millis = millis]
Hangs(p) == [p EXCEPT !.hangs = TRUE]
Raced(p) == [p EXCEPT !.deadline = TRUE]

\* Every timeout against every sleep, also those beyond the width, on two calls.
Sleeps == { Sleep(m, t) : m \in {-1, 0, 2, 7}, t \in {0, 1, 2, 7, 8, 17, 33} }

Three(p, q, r) == [c \in {x, y, z} |-> CASE c = x -> p [] c = y -> q [] c = z -> r]

MCWorkloads ==
  { Three(p, Nothing, Nothing) : p \in Sleeps }
  \cup { Three(Hangs(Sleep(7, 0)), p, Nothing) : p \in {Stream(2, 5, 5), Raced(Stream(2, 0, 0))} }
  \cup { Three(Hangs(Sleep(7, 0)), Quick(3), p) : p \in {Sleep(2, 1), Raced(Hangs(Sleep(7, 0)))} }

StreamAlone == { [c \in {x} |-> Hangs(Stream(2, 5, 0))] }
=============================================================================
