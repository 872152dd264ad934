-------------------------- MODULE MCResponseCache --------------------------
\* Instances of ResponseCache for TLC.
EXTENDS ResponseCache, TLC

CONSTANTS k1, k2

E(k, n, ts) == [k |-> k, n |-> n, ts |-> ts, text |-> "answer"]

\* Nothing, or an answer the batch may find fresh or expired.
LeftDirectories == {<<>>, "old" :> {E(k1, 0, 0)}}

\* A cache read with a shorter ttl than it is pruned with, by a batch whose
\* failures read as answers and by one whose failures do not.
BothPaths == {[keys |-> {k1, k2}, ttl |-> 0, warming |-> TRUE],
              [keys |-> {k1}, ttl |-> 0, warming |-> FALSE]}

ActorSymmetry == Permutations(Batches) \cup Permutations(Pruners)
=============================================================================
