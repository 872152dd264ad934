---------------------------- MODULE MCStreamPump ----------------------------
\* Instances of StreamPump for TLC.
EXTENDS StreamPump

\* A null row and a row that does not parse among rows that are sent.
MixedColumns == {<<"ok", "null", "ok", "ok">>, <<"ok", "bad", "ok">>, <<"null", "bad">>}
=============================================================================
