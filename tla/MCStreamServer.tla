--------------------------- MODULE MCStreamServer ---------------------------
(* StreamServer on small sets of threads and error codes.                  *)
EXTENDS StreamServer

CONSTANTS main, worker

OneThread  == {main}
TwoThreads == {main, worker}

\* The main thread emits twice, a worker once; or each of them once.
MainTwice == [t \in TwoThreads |-> IF t = main THEN 2 ELSE 1]
EachOnce  == [t \in TwoThreads |-> 1]
MainOnce  == [t \in OneThread |-> 1]

\* A code the protocol has, and one it has not.
UsualCodes == {13, 99}
AnyCode    == {0, 13}
=============================================================================
