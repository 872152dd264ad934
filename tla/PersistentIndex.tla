-------------------------- MODULE PersistentIndex --------------------------
(***************************************************************************)
(* src/index.rs: the updatable index behind HnswIndex.                     *)
(*                                                                         *)
(* An immutable graph `main`, a brute-force `staged` buffer and a set of   *)
(* `tombstones`, all over internal ids that are never given twice.  A      *)
(* point is an internal id and its vector; `vec` gives the vectors of the  *)
(* points that exist in main or staged.  The order of points inside main   *)
(* and staged is left out: a query depends on it only among points at the  *)
(* same distance.                                                          *)
(***************************************************************************)
EXTENDS Integers, Sequences, FiniteSets

CONSTANTS
    Ids,        \* external ids
    Vectors,    \* directions of vectors, as angles of a half circle
    Batches,    \* what build and add are given: sequences of (id, vector) pairs
    Params,     \* the IndexParams an index may have
    MaxId,      \* bound: internal ids given out (2^32 in the code)
    NoIndex     \* no index in memory, no file on disk

Pair == [id : Ids, v : Vectors]

\* The ratios of the two compaction thresholds are one, given in percent.
IndexParams == [auto_compact : BOOLEAN, ef_search : Nat,
                staged_min : Nat, tombstone_min : Nat, ratio : Nat]

PartialMaps(D, R) == UNION {[S -> R] : S \in SUBSET D}
Points == 0 .. MaxId - 1

\* PersistentIndex, without the dimension and the space.
Indexes ==
    [params : Params, main : SUBSET Points, staged : SUBSET Points, tombstones : SUBSET Points,
     vec : PartialMaps(Points, Vectors),
     id_to_internal : PartialMaps(Ids, Points), internal_to_id : PartialMaps(Points, Ids),
     next : 0 .. MaxId]

ASSUME PersistentIndexAssumption ==
    /\ Vectors \subseteq Int
    /\ Batches \subseteq Seq(Pair)
    /\ Params \subseteq IndexParams
    /\ \A p \in Params : \A value \in BOOLEAN : [p EXCEPT !.auto_compact = value] \in Params
    /\ MaxId \in Nat
    /\ NoIndex \notin Indexes \cup PartialMaps(Ids, Vectors)

VARIABLES
    index,   \* the index in memory
    file     \* the saved file

vars == <<index, file>>

MaxOf(m, n) == IF m > n THEN m ELSE n

IsIndex(x) == x \in Indexes /\ DOMAIN x.vec = x.main \cup x.staged

Init == index = NoIndex /\ file = NoIndex
-----------------------------------------------------------------------------
(***************************************************************************)
(* A batch of pairs, in order: the last pair of an id wins.                *)
(***************************************************************************)
IdsOf(b) == {b[n].id : n \in DOMAIN b}
FirstOf(b, id) == CHOOSE n \in DOMAIN b :
                     b[n].id = id /\ \A m \in DOMAIN b : b[m].id = id => n <= m

\* Mutant: the first pair of an id wins.
EarliestOf(b, id) == FirstOf(b, id)
LastOf(b, id) == CHOOSE n \in DOMAIN b :
                     b[n].id = id /\ \A m \in DOMAIN b : b[m].id = id => m <= n
\* build numbers the ids by first occurrence.
Rank(b, id) == Cardinality({j \in IdsOf(b) : FirstOf(b, j) < FirstOf(b, id)})

Built(b, params) ==
    LET number == [id \in IdsOf(b) |-> Rank(b, id)]
        points == {number[id] : id \in IdsOf(b)}
        owner == [p \in points |-> CHOOSE id \in IdsOf(b) : number[id] = p]
    IN [params |-> params, main |-> points, staged |-> {}, tombstones |-> {},
        vec |-> [p \in points |-> b[LastOf(b, owner[p])].v],
        id_to_internal |-> number, internal_to_id |-> owner,
        next |-> Cardinality(points)]

\* add stages every pair under a number of its own and tombstones the number
\* its id had before, in the index or earlier in the batch.
Added(x, b) ==
    LET Number(n) == x.next + n - 1
        new == {Number(n) : n \in DOMAIN b}
        Pos(p) == p - x.next + 1
    IN [x EXCEPT
          !.staged = @ \cup new,
          !.tombstones = @ \cup {x.id_to_internal[id] : id \in IdsOf(b) \cap DOMAIN x.id_to_internal}
                           \cup {Number(n) : n \in {m \in DOMAIN b : m # LastOf(b, b[m].id)}},
          !.vec = [p \in DOMAIN @ \cup new |-> IF p \in new THEN b[Pos(p)].v ELSE @[p]],
          !.id_to_internal = [id \in DOMAIN @ \cup IdsOf(b) |->
                                IF id \in IdsOf(b) THEN Number(LastOf(b, id)) ELSE @[id]],
          !.internal_to_id = [p \in DOMAIN @ \cup new |-> IF p \in new THEN b[Pos(p)].id ELSE @[p]],
          !.next = @ + Len(b)]

\* Mutant: the point of a removed id is not tombstoned.
RemovedSoftly(x, S) ==
    LET gone == {x.id_to_internal[id] : id \in S \cap DOMAIN x.id_to_internal}
    IN [x EXCEPT
          !.id_to_internal = [id \in DOMAIN @ \ S |-> @[id]],
          !.internal_to_id = [p \in DOMAIN @ \ gone |-> @[p]]]

Removed(x, S) ==
    LET gone == {x.id_to_internal[id] : id \in S \cap DOMAIN x.id_to_internal}
    IN [x EXCEPT
          !.tombstones = @ \cup gone,
          !.id_to_internal = [id \in DOMAIN @ \ S |-> @[id]],
          !.internal_to_id = [p \in DOMAIN @ \ gone |-> @[p]]]

LiveOf(x) == {x.id_to_internal[id] : id \in DOMAIN x.id_to_internal}

\* compact: what is live, by id_to_internal alone, becomes the new graph.
Compacted(x) ==
    LET kept == (x.main \cup x.staged) \cap LiveOf(x)
    IN [x EXCEPT
          !.main = kept, !.staged = {}, !.tombstones = {},
          !.vec = [p \in kept |-> @[p]],
          !.internal_to_id = [p \in DOMAIN @ \cap LiveOf(x) |-> @[p]]]

\* should_compact
Threshold(x, min) == MaxOf(min, (Cardinality(x.main) * x.params.ratio) \div 100)
ShouldCompact(x) ==
    \/ Cardinality(x.staged) > Threshold(x, x.params.staged_min)
    \/ Cardinality(x.tombstones) > Threshold(x, x.params.tombstone_min)

AutoCompacted(x) == IF x.params.auto_compact /\ ShouldCompact(x) THEN Compacted(x) ELSE x
-----------------------------------------------------------------------------
(***************************************************************************)
(* Operations                                                              *)
(***************************************************************************)
\* build([]) is an error, as is a vector of another dimension anywhere.
Build(b) ==
    /\ index = NoIndex
    /\ b # <<>>
    /\ Len(b) <= MaxId
    /\ \E params \in Params : index' = Built(b, params)
    /\ UNCHANGED file

Add(b) ==
    /\ index # NoIndex
    /\ index.next + Len(b) <= MaxId
    /\ index' = AutoCompacted(Added(index, b))
    /\ UNCHANGED file

\* Ids that are not in the index, and second mentions, are skipped.
Remove(S) ==
    /\ index # NoIndex
    /\ index' = AutoCompacted(Removed(index, S))
    /\ UNCHANGED file

Compact ==
    /\ index # NoIndex
    /\ index' = Compacted(index)
    /\ UNCHANGED file

SetAutoCompact(value) ==
    /\ index # NoIndex
    /\ index' = [index EXCEPT !.params.auto_compact = value]
    /\ UNCHANGED file

\* A temporary file, then rename: a crash before the rename leaves the old file.
Save ==
    /\ index # NoIndex
    /\ file' = index
    /\ UNCHANGED index

Load ==
    /\ index = NoIndex /\ file # NoIndex
    /\ index' = file
    /\ UNCHANGED file

\* The process ends, with or without having saved.
Crash ==
    /\ index # NoIndex
    /\ index' = NoIndex
    /\ UNCHANGED file

Next ==
    \/ \E b \in Batches : Build(b) \/ Add(b)
    \/ \E S \in SUBSET Ids : Remove(S)
    \/ \E value \in BOOLEAN : SetAutoCompact(value)
    \/ Compact \/ Save \/ Load \/ Crash

Spec == Init /\ [][Next]_vars
-----------------------------------------------------------------------------
(***************************************************************************)
(* query_one                                                               *)
(***************************************************************************)
\* Cosine distance grows with the angle between the directions.
Distance(x, q, p) == IF x.vec[p] > q THEN x.vec[p] - q ELSE q - x.vec[p]

\* The sets of k points of P that can come first when P is sorted by distance
\* from q: points at the same distance come in any order.
Nearest(x, q, P, k) ==
    {R \in SUBSET P :
        /\ Cardinality(R) = (IF k < Cardinality(P) THEN k ELSE Cardinality(P))
        /\ \A p \in R, o \in P \ R : Distance(x, q, p) <= Distance(x, q, o)}

\* Mutant: no over-fetch.
FetchJustK(x, k) == k

\* k_main: how many of main's nearest the search takes.
Fetch(x, k) ==
    LET over == k + Cardinality(x.tombstones)
        ef == MaxOf(x.params.ef_search, 1)
    IN IF over < ef THEN over ELSE ef

\* The sets of external ids a query can answer.
Answers(x, q, k) ==
    UNION {LET candidates == (M \ x.tombstones) \cup (x.staged \ x.tombstones) IN
           {{x.internal_to_id[p] : p \in R \cap DOMAIN x.internal_to_id} :
                R \in Nearest(x, q, candidates, k)} :
           M \in Nearest(x, q, x.main, Fetch(x, k))}
-----------------------------------------------------------------------------
(***************************************************************************)
(* Properties                                                              *)
(***************************************************************************)
\* What the user sees as the index: the vector of each id.
MapOf(x) == [id \in DOMAIN x.id_to_internal |-> x.vec[x.id_to_internal[id]]]

\* The four structures agree: every number has its vector, the points that are
\* there and not tombstoned are exactly the current points of the ids, and each
\* leads back to its id.
StructuresAgree ==
    index # NoIndex =>
        /\ IsIndex(index)
        /\ (index.main \cup index.staged) \ index.tombstones = LiveOf(index)
        /\ index.main \cap index.staged = {}
        /\ \A id \in DOMAIN index.id_to_internal :
              LET p == index.id_to_internal[id] IN
              p \in DOMAIN index.internal_to_id /\ index.internal_to_id[p] = id

\* As long as the over-fetch is within ef_search, tombstones and staging cost
\* no answer: a query returns the k nearest of the ids in the index, or all
\* of them if they are fewer (query_one).  The search of the graph itself is
\* taken to be exact.
QueryIsExact ==
    index # NoIndex =>
        \A q \in Vectors, k \in 1 .. index.params.ef_search - Cardinality(index.tombstones) :
            \A answer \in Answers(index, q, k) :
                \E R \in Nearest(index, q, LiveOf(index), k) :
                    answer = {id \in DOMAIN index.id_to_internal :
                                index.id_to_internal[id] \in R}

Map == INSTANCE IndexMap WITH
           Closed <- NoIndex,
           map <- IF index = NoIndex THEN NoIndex ELSE MapOf(index),
           saved <- IF file = NoIndex THEN NoIndex ELSE MapOf(file)

\* What a batch says of each id it names.
Content(b) ==
    [id \in IdsOf(b) |->
        CHOOSE v \in Vectors : \E n \in DOMAIN b :
            /\ b[n] = [id |-> id, v |-> v]
            /\ \A m \in DOMAIN b : m > n => b[m].id # id]

\* Each call does to the map from ids to vectors what its user asked for, and
\* compaction, in whatever call it happens, changes nothing the user sees;
\* what is loaded is what was saved.
ImplementsMap ==
    /\ Map!Init
    /\ [][/\ \A b \in Batches : /\ Build(b) => Map!Create(Content(b))
                                /\ Add(b) => Map!Put(Content(b))
          /\ \A S \in SUBSET Ids : Remove(S) => Map!Delete(S)
          /\ Compact \/ (\E value \in BOOLEAN : SetAutoCompact(value)) => Map!Put([id \in {} |-> 0])
          /\ Save => Map!Save
          /\ Load => Map!Load
          /\ Crash => Map!Crash]_vars
=============================================================================
