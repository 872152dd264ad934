------------------------- MODULE MCPersistentIndex -------------------------
\* Instances of PersistentIndex for TLC.
EXTENDS PersistentIndex

CONSTANTS a, b

P(id, v) == [id |-> id, v |-> v]

\* Single upserts, a batch that names an id twice, and an empty one.
SmallBatches == {<<P(a, 0)>>, <<P(b, 1)>>, <<P(b, 0), P(a, 1), P(b, 1)>>, <<>>}

\* Compaction at the second staged point or the second tombstone; and none
\* but by hand, so that staged points and tombstones pile up.
BothParams ==
    {[auto_compact |-> auto, ef_search |-> 3, staged_min |-> 1, tombstone_min |-> 1, ratio |-> 50] :
        auto \in BOOLEAN}
=============================================================================
