--------------------------- MODULE MCStreamClient ---------------------------
(* StreamClient on short response bodies.                                  *)
EXTENDS StreamClient

Plain(len)   == [end |-> FALSE, gz |-> "no", len |-> len, verdict |-> NoError, meta |-> FALSE]
Gzip(len)    == [Plain(len) EXCEPT !.gz = "ok"]
Corrupt(len) == [Plain(len) EXCEPT !.gz = "corrupt"]
End(verdict, meta) ==
  [end |-> TRUE, gz |-> "no", len |-> 2, verdict |-> verdict, meta |-> meta]

\* Complete streams; streams without END frame; a corrupt message and a corrupt
\* END frame; frames behind the END frame, as emit can leave them there.
MCWires ==
  { <<Plain(2), Gzip(1), End(NoError, TRUE)>>,
    <<Plain(0), End("aborted", TRUE)>>,
    <<End(Nameless, FALSE)>>,
    <<End("ok", FALSE)>>,
    <<Plain(1), Plain(0)>>,
    <<>>,
    <<Plain(1), Corrupt(1), Plain(0), End(NoError, FALSE)>>,
    <<Plain(0), [End(NoError, FALSE) EXCEPT !.gz = "corrupt"]>>,
    <<Plain(0), End("aborted", TRUE), Plain(1)>>,
    <<End(NoError, TRUE), End("aborted", FALSE)>> }
=============================================================================
