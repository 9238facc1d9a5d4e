---------------------------- MODULE MCStreamCall ----------------------------
(* StreamCall with the handlers of the conformance servers on short streams. *)
EXTENDS StreamCall

CONSTANT main

OneThread == {main}
Thrice    == [t \in OneThread |-> 3]

\* Count and BigStream, CountTrailer; StreamFail; the official ServerStream, which
\* ends at a refused message; and a handler that panics.
MCScripts ==
  { [emits |-> 2, strict |-> FALSE, result |-> "ok"],
    [emits |-> 3, strict |-> FALSE, result |-> "err"],
    [emits |-> 0, strict |-> FALSE, result |-> "err"],
    [emits |-> 3, strict |-> TRUE,  result |-> "ok"],
    [emits |-> 0, strict |-> TRUE,  result |-> "ok"],
    [emits |-> 1, strict |-> TRUE,  result |-> "err"],
    [emits |-> 2, strict |-> FALSE, result |-> "panic"] }
=============================================================================
