---------------------------- MODULE MCStoreMeta ----------------------------
\* Instances of StoreMeta for TLC.
EXTENDS StoreMeta, TLC

\* Writers are interchangeable: MetaInit and MetaNext treat them alike.
WriterSymmetry == Permutations(Writers)
=============================================================================
