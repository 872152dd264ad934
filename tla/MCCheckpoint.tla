---------------------------- MODULE MCCheckpoint ----------------------------
\* Instances of Checkpoint for TLC.
EXTENDS Checkpoint, TLC

CONSTANTS a, b, c, f1, f2

\* One column, resumed: a row twice, a null, and two chunks.
ResumeJobs ==
    {[fp |-> f1, rows |-> <<a, Null, b, a, c>>, retry |-> retry, strict |-> FALSE] :
        retry \in BOOLEAN}

\* Columns that share a row, for runs that overlap; one run has drifted to
\* another configuration and one insists that there is no drift.
OverlapJobs ==
    {[fp |-> f1, rows |-> <<a, b, a>>, retry |-> TRUE, strict |-> FALSE],
     [fp |-> f1, rows |-> <<b, a>>, retry |-> FALSE, strict |-> TRUE],
     [fp |-> f2, rows |-> <<a>>, retry |-> TRUE, strict |-> FALSE]}

\* A single column of two rows.
PairJobs == {[fp |-> f1, rows |-> <<a, b>>, retry |-> TRUE, strict |-> FALSE]}

RunSymmetry == Permutations(Runs)
=============================================================================
