--------------------------- MODULE MCBatchRunner ---------------------------
\* Instances of BatchRunner for TLC.
EXTENDS BatchRunner

CONSTANTS long1, long2, short

\* Rows of two groups interleaved, with a null and rows of their own; one
\* group larger than the window; and nothing to send.
MixedColumns == {<<long1, long2, Null, long1, short>>, <<NoPrompt, long2, long1, long2>>,
                 <<long1, long1, long1, long1>>, <<Null, Null>>}
=============================================================================
