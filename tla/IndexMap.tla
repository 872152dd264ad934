------------------------------ MODULE IndexMap ------------------------------
(***************************************************************************)
(* What an HnswIndex promises its user: a map from ids to vectors that can *)
(* be written to one file and read back.                                   *)
(***************************************************************************)
CONSTANTS Ids, Vectors, Closed

VARIABLES
    map,    \* Closed, or the vectors of the ids that are in the index
    saved   \* Closed, or the map that is in the file

Maps == UNION {[S -> Vectors] : S \in SUBSET Ids}

Init == map = Closed /\ saved = Closed

Create(m) == map = Closed /\ map' = m /\ UNCHANGED saved

\* An upsert: the ids of m take their new vector, the others keep theirs.
Put(m) ==
    /\ map # Closed
    /\ map' = [id \in DOMAIN map \cup DOMAIN m |-> IF id \in DOMAIN m THEN m[id] ELSE map[id]]
    /\ UNCHANGED saved

Delete(S) ==
    /\ map # Closed
    /\ map' = [id \in DOMAIN map \ S |-> map[id]]
    /\ UNCHANGED saved

Save == map # Closed /\ saved' = map /\ UNCHANGED map

Load == map = Closed /\ saved # Closed /\ map' = saved /\ UNCHANGED saved

Crash == map' = Closed /\ UNCHANGED saved

Next ==
    \/ \E m \in Maps : (m # [id \in {} |-> 0] /\ Create(m)) \/ Put(m)
    \/ \E S \in SUBSET Ids : Delete(S)
    \/ Save \/ Load \/ Crash

Spec == Init /\ [][Next]_<<map, saved>>
=============================================================================
