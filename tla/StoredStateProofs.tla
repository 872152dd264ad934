------------------------- MODULE StoredStateProofs -------------------------
(***************************************************************************)
(* What two stores keep on disk.  PersistentIndex: the structures of an    *)
(* index agree after every sequence of calls, crashes and loads, the index *)
(* is the map its user thinks it is, and queries within ef_search are      *)
(* exact.  StoreMeta: the checkpoint store's meta.json is one a            *)
(* construction that finished wrote, and is torn only by overlapping ones. *)
(***************************************************************************)
EXTENDS PersistentIndex, StoreMeta, FiniteSetTheorems, FunctionTheorems,
        WellFoundedInduction, TLAPS
-----------------------------------------------------------------------------
(***************************************************************************)
(* The inductive invariant: StructuresAgree, and no number in use that has *)
(* not been given out yet.                                                 *)
(***************************************************************************)
LeadsBack(x) ==
    \A id \in DOMAIN x.id_to_internal :
        /\ x.id_to_internal[id] \in DOMAIN x.internal_to_id
        /\ x.internal_to_id[x.id_to_internal[id]] = id

Fits(x) ==
    /\ IsIndex(x)
    /\ (x.main \cup x.staged) \ x.tombstones = LiveOf(x)
    /\ x.main \cap x.staged = {}
    /\ LeadsBack(x)
    /\ \A p \in x.main \cup x.staged \cup x.tombstones : p < x.next

IndexInv == (index # NoIndex => Fits(index)) /\ (file # NoIndex => Fits(file))
-----------------------------------------------------------------------------
(***************************************************************************)
(* Partial maps and batches.                                               *)
(***************************************************************************)
LEMMA IsPartialMap ==
    ASSUME NEW D, NEW R, NEW S \in SUBSET D, NEW f \in [S -> R]
    PROVE  f \in PartialMaps(D, R)
BY DEF PartialMaps

LEMMA PartialMapIs ==
    ASSUME NEW D, NEW R, NEW f \in PartialMaps(D, R)
    PROVE  DOMAIN f \subseteq D /\ f \in [DOMAIN f -> R]
BY DEF PartialMaps

LEMMA IndexFields ==
    ASSUME NEW x \in Indexes
    PROVE  /\ x.params \in Params /\ x.next \in Nat /\ x.next <= MaxId
           /\ x.main \subseteq Points /\ x.staged \subseteq Points /\ x.tombstones \subseteq Points
           /\ DOMAIN x.vec \subseteq Points /\ x.vec \in [DOMAIN x.vec -> Vectors]
           /\ DOMAIN x.id_to_internal \subseteq Ids
           /\ x.id_to_internal \in [DOMAIN x.id_to_internal -> Points]
           /\ DOMAIN x.internal_to_id \subseteq Points
           /\ x.internal_to_id \in [DOMAIN x.internal_to_id -> Ids]
BY PartialMapIs, PersistentIndexAssumption DEF Indexes

\* A nonempty set of natural numbers has a least element, and below a bound a
\* greatest.
LEMMA LeastOf ==
    ASSUME NEW S \in SUBSET Nat, S # {}
    PROVE  \E m \in S : \A n \in S : m <= n
<1>1. PICK m \in S : \A n \in S : ~(<<n, m>> \in OpToRel(<, Nat))
    BY WFMin, NatLessThanWellFounded
<1>2. \A n \in S : ~(n < m)
    BY <1>1 DEF OpToRel
<1>3. ASSUME NEW n \in S
      PROVE  m <= n
    BY <1>2, m \in Nat, n \in Nat
<1> QED
    BY <1>3

LEMMA GreatestOf ==
    ASSUME NEW S \in SUBSET Nat, S # {}, NEW b \in Nat, \A n \in S : n <= b
    PROVE  \E m \in S : \A n \in S : n <= m
<1> DEFINE T == {n \in 0..b : b - n \in S}
<1>1. T \in SUBSET Nat /\ T # {}
  <2>1. PICK n \in S : TRUE
    OBVIOUS
  <2>2. b - n \in 0..b /\ b - (b - n) = n
    BY <2>1
  <2>3. b - n \in T
    BY <2>1, <2>2
  <2>4. \A t \in T : t \in Nat
    OBVIOUS
  <2> HIDE DEF T
  <2> QED
    BY <2>3, <2>4
<1>2. PICK t \in T : \A u \in T : t <= u
    BY <1>1, LeastOf
<1>3. \A n \in S : b - n \in T
  <2> TAKE n \in S
  <2>1. b - n \in 0..b /\ b - (b - n) = n
    OBVIOUS
  <2> QED
    BY <2>1
<1>4. \A n \in S : n <= b - t
  <2> TAKE n \in S
  <2>1. t <= b - n
    <3> HIDE DEF T
    <3> QED
      BY ONLY <1>2, <1>3, n \in S
  <2>2. t \in Nat /\ n \in Nat
    BY <1>1
  <2> HIDE DEF T
  <2>3. n <= b - t
    BY ONLY <2>1, <2>2, b \in Nat
  <2> QED
    BY <2>3
<1> QED
    BY <1>2, <1>4

LEMMA BatchIs ==
    ASSUME NEW b \in Batches
    PROVE  /\ Len(b) \in Nat /\ DOMAIN b = 1 .. Len(b)
           /\ \A n \in DOMAIN b : b[n].id \in Ids /\ b[n].v \in Vectors
           /\ \A n \in DOMAIN b : b[n] = [id |-> b[n].id, v |-> b[n].v]
           /\ IdsOf(b) \subseteq Ids
<1>1. b \in Seq(Pair)
    BY PersistentIndexAssumption
<1>2. Len(b) \in Nat /\ DOMAIN b = 1 .. Len(b) /\ \A n \in DOMAIN b : b[n] \in Pair
    BY <1>1
<1> QED
    BY <1>2 DEF Pair, IdsOf

\* Every id of a batch has a last pair, and a first.
LEMMA LastPair ==
    ASSUME NEW b \in Batches, NEW id \in IdsOf(b)
    PROVE  /\ LastOf(b, id) \in DOMAIN b /\ b[LastOf(b, id)].id = id
           /\ \A m \in DOMAIN b : b[m].id = id => m <= LastOf(b, id)
<1> DEFINE Of == {n \in DOMAIN b : b[n].id = id}
<1>1. Of \in SUBSET Nat /\ Of # {} /\ Len(b) \in Nat /\ \A n \in Of : n <= Len(b)
    BY BatchIs DEF IdsOf
<1>2. \E m \in Of : \A n \in Of : n <= m
  <2> HIDE DEF Of
  <2> QED
    BY <1>1, GreatestOf
<1>3. \E n \in DOMAIN b : b[n].id = id /\ \A m \in DOMAIN b : b[m].id = id => m <= n
    BY <1>2
<1> QED
    BY <1>3 DEF LastOf

LEMMA FirstPair ==
    ASSUME NEW b \in Batches, NEW id \in IdsOf(b)
    PROVE  FirstOf(b, id) \in DOMAIN b /\ b[FirstOf(b, id)].id = id
<1> DEFINE Of == {n \in DOMAIN b : b[n].id = id}
<1>1. Of \in SUBSET Nat /\ Of # {}
    BY BatchIs DEF IdsOf
<1>2. \E m \in Of : \A n \in Of : m <= n
  <2> HIDE DEF Of
  <2> QED
    BY <1>1, LeastOf
<1>3. \E n \in DOMAIN b : b[n].id = id /\ \A m \in DOMAIN b : b[m].id = id => n <= m
    BY <1>2
<1> QED
    BY <1>3 DEF FirstOf

\* What a batch says of an id is what its last pair says.
LEMMA ContentIs ==
    ASSUME NEW b \in Batches
    PROVE  Content(b) = [id \in IdsOf(b) |-> b[LastOf(b, id)].v]
<1> SUFFICES ASSUME NEW id \in IdsOf(b)
             PROVE  (CHOOSE v \in Vectors : \E n \in DOMAIN b :
                        /\ b[n] = [id |-> id, v |-> v]
                        /\ \A m \in DOMAIN b : m > n => b[m].id # id) = b[LastOf(b, id)].v
    BY DEF Content
<1> DEFINE Says(v) == \E n \in DOMAIN b : /\ b[n] = [id |-> id, v |-> v]
                                          /\ \A m \in DOMAIN b : m > n => b[m].id # id
           last == LastOf(b, id)
<1>1. /\ last \in DOMAIN b /\ b[last].id = id
      /\ \A m \in DOMAIN b : b[m].id = id => m <= last
    BY LastPair
<1>2. b[last] = [id |-> id, v |-> b[last].v] /\ b[last].v \in Vectors
    BY <1>1, BatchIs
<1>3. DOMAIN b \subseteq Nat
    BY BatchIs
<1>4. \A m \in DOMAIN b : m > last => b[m].id # id
    BY <1>1, <1>3
<1>5. Says(b[last].v)
    BY <1>1, <1>2, <1>4
<1>6. ASSUME NEW v \in Vectors, Says(v)
      PROVE  v = b[last].v
  <2>1. PICK n \in DOMAIN b : /\ b[n] = [id |-> id, v |-> v]
                              /\ \A m \in DOMAIN b : m > n => b[m].id # id
    BY <1>6
  <2>2. b[n].id = id /\ b[n].v = v
    BY <2>1
  <2>3. n <= last /\ ~(last > n)
    BY <1>1, <2>1, <2>2
  <2>4. n = last
    BY <2>3, <1>1, <1>3
  <2> QED
    BY <2>2, <2>4
<1> HIDE DEF Says, last
<1>7. (CHOOSE v \in Vectors : Says(v)) = b[last].v
    BY <1>2, <1>5, <1>6
<1> QED
    BY <1>7 DEF Says, last
-----------------------------------------------------------------------------
(***************************************************************************)
(* remove and compact.                                                     *)
(***************************************************************************)
\* Different ids have different points, since each leads back to its id.
LEMMA PointsDiffer ==
    ASSUME NEW x, LeadsBack(x), NEW i \in DOMAIN x.id_to_internal, NEW j \in DOMAIN x.id_to_internal,
           x.id_to_internal[i] = x.id_to_internal[j]
    PROVE  i = j
BY DEF LeadsBack

LEMMA RemovedFits ==
    ASSUME NEW x, Fits(x), NEW S \in SUBSET Ids
    PROVE  /\ Fits(Removed(x, S))
           /\ MapOf(Removed(x, S)) = [id \in DOMAIN MapOf(x) \ S |-> MapOf(x)[id]]
<1> DEFINE gone == {x.id_to_internal[id] : id \in S \cap DOMAIN x.id_to_internal}
           y == Removed(x, S)
<1>1. x \in Indexes /\ DOMAIN x.vec = x.main \cup x.staged /\ LeadsBack(x)
    BY DEF Fits, IsIndex
<1>2. /\ y.params = x.params /\ y.main = x.main /\ y.staged = x.staged
      /\ y.vec = x.vec /\ y.next = x.next
      /\ y.tombstones = x.tombstones \cup gone
      /\ y.id_to_internal = [id \in DOMAIN x.id_to_internal \ S |-> x.id_to_internal[id]]
      /\ y.internal_to_id = [p \in DOMAIN x.internal_to_id \ gone |-> x.internal_to_id[p]]
      /\ y = [params |-> y.params, main |-> y.main, staged |-> y.staged,
             tombstones |-> y.tombstones, vec |-> y.vec, id_to_internal |-> y.id_to_internal,
             internal_to_id |-> y.internal_to_id, next |-> y.next]
  <2> DEFINE ids == [id \in DOMAIN x.id_to_internal \ S |-> x.id_to_internal[id]]
             owners == [p \in DOMAIN x.internal_to_id \ gone |-> x.internal_to_id[p]]
             dead == x.tombstones \cup gone
  <2>1. y = [x EXCEPT !.tombstones = dead, !.id_to_internal = ids, !.internal_to_id = owners]
    BY DEF Removed
  <2> HIDE DEF y, ids, owners, dead
  <2>2. /\ y.params = x.params /\ y.main = x.main /\ y.staged = x.staged
        /\ y.vec = x.vec /\ y.next = x.next
        /\ y.tombstones = dead /\ y.id_to_internal = ids /\ y.internal_to_id = owners
        /\ y = [params |-> y.params, main |-> y.main, staged |-> y.staged,
               tombstones |-> y.tombstones, vec |-> y.vec, id_to_internal |-> y.id_to_internal,
               internal_to_id |-> y.internal_to_id, next |-> y.next]
    BY <1>1, <2>1 DEF Indexes
  <2> QED
    BY <2>2 DEF ids, owners, dead
<1>3. gone \subseteq LiveOf(x) /\ LiveOf(x) \subseteq x.main \cup x.staged
    BY DEF LiveOf, Fits
<1> HIDE DEF y, gone
<1>4. gone \subseteq Points
    BY <1>1, <1>3, IndexFields
<1>5. y.id_to_internal \in PartialMaps(Ids, Points)
  <2>1. y.id_to_internal \in [DOMAIN x.id_to_internal \ S -> Points]
    BY <1>1, <1>2, IndexFields
  <2> QED
    BY <2>1, <1>1, IndexFields, IsPartialMap
<1>6. y.internal_to_id \in PartialMaps(Points, Ids)
  <2>1. y.internal_to_id \in [DOMAIN x.internal_to_id \ gone -> Ids]
    BY <1>1, <1>2, IndexFields
  <2> QED
    BY <2>1, <1>1, IndexFields, IsPartialMap
<1>7. y \in Indexes
    BY <1>1, <1>2, <1>4, <1>5, <1>6 DEF Indexes
<1>8. ASSUME NEW id \in DOMAIN x.id_to_internal
      PROVE  x.id_to_internal[id] \in gone <=> id \in S
    BY <1>1, PointsDiffer DEF gone
<1>9. LiveOf(y) = LiveOf(x) \ gone
    BY <1>2, <1>8 DEF LiveOf
<1>10. LeadsBack(y)
    BY <1>1, <1>2, <1>8 DEF LeadsBack
<1>11. Fits(y)
    BY <1>1, <1>2, <1>3, <1>7, <1>9, <1>10 DEF Fits, IsIndex
<1>12. MapOf(y) = [id \in DOMAIN MapOf(x) \ S |-> MapOf(x)[id]]
    BY <1>2 DEF MapOf
<1> QED
    BY <1>11, <1>12 DEF y

LEMMA CompactedFits ==
    ASSUME NEW x, Fits(x)
    PROVE  Fits(Compacted(x)) /\ MapOf(Compacted(x)) = MapOf(x)
<1> DEFINE kept == (x.main \cup x.staged) \cap LiveOf(x)
           y == Compacted(x)
<1>1. x \in Indexes /\ DOMAIN x.vec = x.main \cup x.staged /\ LeadsBack(x)
    BY DEF Fits, IsIndex
<1>2. LiveOf(x) \subseteq x.main \cup x.staged /\ kept = LiveOf(x)
    BY DEF Fits
<1>3. /\ y.params = x.params /\ y.main = kept /\ y.staged = {} /\ y.tombstones = {}
      /\ y.vec = [p \in kept |-> x.vec[p]]
      /\ y.id_to_internal = x.id_to_internal /\ y.next = x.next
      /\ y.internal_to_id = [p \in DOMAIN x.internal_to_id \cap LiveOf(x) |-> x.internal_to_id[p]]
      /\ y = [params |-> y.params, main |-> y.main, staged |-> y.staged,
             tombstones |-> y.tombstones, vec |-> y.vec, id_to_internal |-> y.id_to_internal,
             internal_to_id |-> y.internal_to_id, next |-> y.next]
  <2> DEFINE vec == [p \in kept |-> x.vec[p]]
             owners == [p \in DOMAIN x.internal_to_id \cap LiveOf(x) |-> x.internal_to_id[p]]
  <2>1. y = [x EXCEPT !.main = kept, !.staged = {}, !.tombstones = {},
                      !.vec = vec, !.internal_to_id = owners]
    BY DEF Compacted
  <2> HIDE DEF y, vec, owners, kept
  <2>2. /\ y.params = x.params /\ y.main = kept /\ y.staged = {} /\ y.tombstones = {}
        /\ y.vec = vec /\ y.id_to_internal = x.id_to_internal /\ y.next = x.next
        /\ y.internal_to_id = owners
        /\ y = [params |-> y.params, main |-> y.main, staged |-> y.staged,
               tombstones |-> y.tombstones, vec |-> y.vec, id_to_internal |-> y.id_to_internal,
               internal_to_id |-> y.internal_to_id, next |-> y.next]
    BY <1>1, <2>1 DEF Indexes
  <2> QED
    BY <2>2 DEF vec, owners
<1> HIDE DEF y, kept
<1>4. kept \subseteq Points /\ kept \subseteq DOMAIN x.vec
    BY <1>1, <1>2, IndexFields
<1>5. y.vec \in PartialMaps(Points, Vectors)
  <2>1. y.vec \in [kept -> Vectors]
    BY <1>1, <1>3, <1>4, IndexFields
  <2> QED
    BY <2>1, <1>4, IsPartialMap
<1>6. y.internal_to_id \in PartialMaps(Points, Ids)
  <2>1. y.internal_to_id \in [DOMAIN x.internal_to_id \cap LiveOf(x) -> Ids]
    BY <1>1, <1>3, IndexFields
  <2> QED
    BY <2>1, <1>1, IndexFields, IsPartialMap
<1>7. y \in Indexes
    BY <1>1, <1>3, <1>4, <1>5, <1>6 DEF Indexes
<1>8. LiveOf(y) = kept
    BY <1>2, <1>3 DEF LiveOf
<1>9. \A id \in DOMAIN x.id_to_internal : x.id_to_internal[id] \in LiveOf(x)
    BY DEF LiveOf
<1>10. LeadsBack(y)
    BY <1>1, <1>3, <1>9 DEF LeadsBack
<1>11. \A p \in kept : p < x.next
    BY <1>2 DEF Fits
<1>12. Fits(y)
    BY <1>3, <1>7, <1>8, <1>10, <1>11 DEF Fits, IsIndex
<1>13. MapOf(y) = MapOf(x)
    BY <1>2, <1>3, <1>9 DEF MapOf
<1> QED
    BY <1>12, <1>13 DEF y

LEMMA AutoCompactedFits ==
    ASSUME NEW x, Fits(x)
    PROVE  Fits(AutoCompacted(x)) /\ MapOf(AutoCompacted(x)) = MapOf(x)
BY CompactedFits DEF AutoCompacted

LEMMA SetAutoCompactFits ==
    ASSUME NEW x, Fits(x), NEW value \in BOOLEAN
    PROVE  LET y == [x EXCEPT !.params.auto_compact = value]
           IN Fits(y) /\ MapOf(y) = MapOf(x)
<1> DEFINE p == [x.params EXCEPT !.auto_compact = value]
           y == [x EXCEPT !.params = p]
<1>1. x \in Indexes /\ DOMAIN x.vec = x.main \cup x.staged /\ x.params \in Params
    BY IndexFields DEF Fits, IsIndex
<1>2. p \in Params
    BY <1>1, PersistentIndexAssumption
<1> HIDE DEF p
<1>3. /\ y \in Indexes /\ y.main = x.main /\ y.staged = x.staged /\ y.tombstones = x.tombstones
      /\ y.vec = x.vec /\ y.id_to_internal = x.id_to_internal
      /\ y.internal_to_id = x.internal_to_id /\ y.next = x.next
    BY <1>1, <1>2 DEF Indexes
<1> HIDE DEF y
<1>4. Fits(y) /\ MapOf(y) = MapOf(x)
    BY <1>1, <1>3 DEF Fits, IsIndex, LeadsBack, LiveOf, MapOf
<1> QED
    BY <1>4 DEF y, p
-----------------------------------------------------------------------------
(***************************************************************************)
(* add.                                                                    *)
(***************************************************************************)
LEMMA AddedFits ==
    ASSUME NEW x, Fits(x), NEW b \in Batches, x.next + Len(b) <= MaxId
    PROVE  /\ Fits(Added(x, b))
           /\ MapOf(Added(x, b)) = [id \in DOMAIN MapOf(x) \cup IdsOf(b) |->
                  IF id \in IdsOf(b) THEN Content(b)[id] ELSE MapOf(x)[id]]
<1> DEFINE Number(n) == x.next + n - 1
           Pos(p) == p - x.next + 1
           new == {Number(n) : n \in DOMAIN b}
           named == {x.id_to_internal[id] : id \in IdsOf(b) \cap DOMAIN x.id_to_internal}
           dup == {Number(n) : n \in {m \in DOMAIN b : m # LastOf(b, b[m].id)}}
           vec == [p \in DOMAIN x.vec \cup new |-> IF p \in new THEN b[Pos(p)].v ELSE x.vec[p]]
           ids == [id \in DOMAIN x.id_to_internal \cup IdsOf(b) |->
                      IF id \in IdsOf(b) THEN Number(LastOf(b, id)) ELSE x.id_to_internal[id]]
           owners == [p \in DOMAIN x.internal_to_id \cup new |->
                         IF p \in new THEN b[Pos(p)].id ELSE x.internal_to_id[p]]
           next == x.next + Len(b)
           y == [params |-> x.params, main |-> x.main, staged |-> x.staged \cup new,
                 tombstones |-> x.tombstones \cup named \cup dup, vec |-> vec,
                 id_to_internal |-> ids, internal_to_id |-> owners, next |-> next]
<1>1. /\ x \in Indexes /\ DOMAIN x.vec = x.main \cup x.staged /\ LeadsBack(x)
      /\ \A p \in x.main \cup x.staged \cup x.tombstones : p < x.next
      /\ LiveOf(x) = (x.main \cup x.staged) \ x.tombstones
    BY DEF Fits, IsIndex
<1>2. Added(x, b) = y
  <2>1. Added(x, b) = [x EXCEPT
            !.staged = x.staged \cup new, !.tombstones = x.tombstones \cup named \cup dup,
            !.vec = vec, !.id_to_internal = ids, !.internal_to_id = owners, !.next = next]
    BY DEF Added
  <2> HIDE DEF vec, ids, owners, next, new, named, dup
  <2> QED
    BY <1>1, <2>1 DEF Indexes
<1>3. /\ x.next \in Nat /\ Len(b) \in Nat /\ DOMAIN b = 1 .. Len(b)
      /\ next \in 0 .. MaxId /\ MaxId \in Nat
    BY <1>1, IndexFields, BatchIs, PersistentIndexAssumption
<1>4. \A n \in DOMAIN b : /\ Number(n) \in Points /\ Number(n) >= x.next /\ Number(n) < next
                          /\ Pos(Number(n)) = n
    BY <1>3 DEF Points
<1>5. /\ new \subseteq Points /\ dup \subseteq new
      /\ \A p \in new : p \in Nat /\ p >= x.next /\ p < next
    BY <1>3, <1>4 DEF Points
<1>6. \A id \in IdsOf(b) : /\ LastOf(b, id) \in DOMAIN b /\ b[LastOf(b, id)].id = id
                           /\ Number(LastOf(b, id)) \in new
    BY LastPair
<1>7. \A p \in DOMAIN x.vec \cup x.tombstones : p \in Nat /\ p < x.next /\ p \notin new
  <2>1. \A p \in DOMAIN x.vec \cup x.tombstones : p \in Nat /\ p < x.next
    BY <1>1, IndexFields DEF Points
  <2> HIDE DEF new
  <2> QED
    BY <2>1, <1>3, <1>5
<1>8. named \subseteq LiveOf(x) /\ LiveOf(x) \subseteq DOMAIN x.vec
    BY <1>1 DEF LiveOf
<1>9. vec \in PartialMaps(Points, Vectors)
  <2>1. \A p \in new : b[Pos(p)].v \in Vectors
    BY <1>4, BatchIs
  <2>2. \A p \in DOMAIN x.vec : x.vec[p] \in Vectors
    BY <1>1, IndexFields
  <2> HIDE DEF new, Pos
  <2>3. vec \in [DOMAIN x.vec \cup new -> Vectors]
    BY <2>1, <2>2
  <2> QED
    BY <2>3, <1>1, <1>5, IndexFields, IsPartialMap
<1>10. ids \in PartialMaps(Ids, Points)
  <2>1. \A id \in IdsOf(b) : Number(LastOf(b, id)) \in Points
    BY <1>4, <1>6
  <2>2. \A id \in DOMAIN x.id_to_internal : x.id_to_internal[id] \in Points
    BY <1>1, IndexFields
  <2> HIDE DEF Number
  <2>3. ids \in [DOMAIN x.id_to_internal \cup IdsOf(b) -> Points]
    BY <2>1, <2>2
  <2> QED
    BY <2>3, <1>1, BatchIs, IndexFields, IsPartialMap
<1>11. owners \in PartialMaps(Points, Ids)
  <2>1. \A p \in new : b[Pos(p)].id \in Ids
    BY <1>4, BatchIs
  <2>2. \A p \in DOMAIN x.internal_to_id : x.internal_to_id[p] \in Ids
    BY <1>1, IndexFields
  <2> HIDE DEF new, Pos
  <2>3. owners \in [DOMAIN x.internal_to_id \cup new -> Ids]
    BY <2>1, <2>2
  <2> QED
    BY <2>3, <1>1, <1>5, IndexFields, IsPartialMap
<1>12. y \in Indexes
  <2>1. /\ x.params \in Params /\ x.main \subseteq Points /\ x.staged \cup new \subseteq Points
        /\ x.tombstones \cup named \cup dup \subseteq Points
    BY <1>1, <1>5, <1>8, IndexFields
  <2> HIDE DEF vec, ids, owners, next, new, named, dup
  <2> QED
    BY <2>1, <1>3, <1>9, <1>10, <1>11 DEF Indexes
<1>13. LiveOf(y) = {x.id_to_internal[id] : id \in DOMAIN x.id_to_internal \ IdsOf(b)}
                   \cup {Number(LastOf(b, id)) : id \in IdsOf(b)}
    BY DEF LiveOf
<1>14. LiveOf(x) \ named = {x.id_to_internal[id] : id \in DOMAIN x.id_to_internal \ IdsOf(b)}
    BY <1>1, PointsDiffer DEF LiveOf
<1>15. new \ dup = {Number(LastOf(b, id)) : id \in IdsOf(b)}
  <2>1. ASSUME NEW n \in DOMAIN b, Number(n) \notin dup
        PROVE  n = LastOf(b, b[n].id) /\ b[n].id \in IdsOf(b)
    BY <2>1 DEF IdsOf
  <2>2. ASSUME NEW id \in IdsOf(b), Number(LastOf(b, id)) \in dup
        PROVE  FALSE
    <3>1. PICK m \in DOMAIN b : m # LastOf(b, b[m].id) /\ Number(m) = Number(LastOf(b, id))
      BY <2>2
    <3>2. m = LastOf(b, id)
      BY <3>1, <1>4, <1>6
    <3> QED
      BY <3>1, <3>2, <1>6
  <2> HIDE DEF Number, dup
  <2> QED
    BY <2>1, <2>2, <1>6
<1>16. (y.main \cup y.staged) \ y.tombstones = LiveOf(y)
  <2> HIDE DEF new, named, dup, vec, ids, owners, next, Number
  <2>1. (y.main \cup y.staged) \ y.tombstones = (LiveOf(x) \ named) \cup (new \ dup)
    BY <1>1, <1>5, <1>7, <1>8
  <2> QED
    BY <2>1, <1>13, <1>14, <1>15
<1>17. LeadsBack(y)
  <2>1. ASSUME NEW id \in IdsOf(b)
        PROVE  ids[id] \in DOMAIN owners /\ owners[ids[id]] = id
    BY <1>4, <1>6
  <2>2. ASSUME NEW id \in DOMAIN x.id_to_internal \ IdsOf(b)
        PROVE  ids[id] \in DOMAIN owners /\ owners[ids[id]] = id
    <3>1. ids[id] = x.id_to_internal[id] /\ x.id_to_internal[id] \in LiveOf(x)
      BY DEF LiveOf
    <3>2. x.id_to_internal[id] \notin new
      BY <3>1, <1>7, <1>8
    <3>3. x.id_to_internal[id] \in DOMAIN x.internal_to_id
          /\ x.internal_to_id[x.id_to_internal[id]] = id
      BY <1>1 DEF LeadsBack
    <3> HIDE DEF new, ids
    <3> QED
      BY <3>1, <3>2, <3>3
  <2>3. DOMAIN ids = DOMAIN x.id_to_internal \cup IdsOf(b)
    OBVIOUS
  <2> HIDE DEF ids, owners
  <2> QED
    BY <2>1, <2>2, <2>3 DEF LeadsBack
<1>18. Fits(y)
  <2>1. \A p \in y.main \cup y.staged \cup y.tombstones : p < y.next
    <3> HIDE DEF new, named, dup, vec, ids, owners
    <3> QED
      BY <1>1, <1>3, <1>5, <1>7, <1>8
  <2>2. DOMAIN y.vec = y.main \cup y.staged
    <3> HIDE DEF new, named, dup, ids, owners, next
    <3> QED
      BY <1>1
  <2>3. y.main \cap y.staged = {}
    <3>1. x.main \cap x.staged = {}
      BY DEF Fits
    <3> HIDE DEF new, named, dup, vec, ids, owners, next
    <3> QED
      BY <3>1, <1>1, <1>7
  <2> HIDE DEF y
  <2> QED
    BY <2>1, <2>2, <2>3, <1>12, <1>16, <1>17 DEF Fits, IsIndex
<1>19. ASSUME NEW id \in IdsOf(b)
       PROVE  vec[ids[id]] = Content(b)[id]
  <2>1. ids[id] = Number(LastOf(b, id)) /\ ids[id] \in new /\ Pos(ids[id]) = LastOf(b, id)
    BY <1>4, <1>6
  <2>2. vec[ids[id]] = b[LastOf(b, id)].v
    BY <2>1
  <2> QED
    BY <2>2, ContentIs
<1>20. ASSUME NEW id \in DOMAIN x.id_to_internal \ IdsOf(b)
       PROVE  vec[ids[id]] = x.vec[x.id_to_internal[id]]
  <2>1. ids[id] = x.id_to_internal[id] /\ x.id_to_internal[id] \in LiveOf(x)
    BY DEF LiveOf
  <2>2. ids[id] \in DOMAIN x.vec /\ ids[id] \notin new
    BY <2>1, <1>7, <1>8
  <2> HIDE DEF new, ids
  <2> QED
    BY <2>1, <2>2
<1>21. MapOf(y) = [id \in DOMAIN MapOf(x) \cup IdsOf(b) |->
                      IF id \in IdsOf(b) THEN Content(b)[id] ELSE MapOf(x)[id]]
  <2>1. /\ MapOf(y) = [id \in DOMAIN ids |-> vec[ids[id]]]
        /\ DOMAIN ids = DOMAIN x.id_to_internal \cup IdsOf(b)
    BY DEF MapOf
  <2>2. /\ DOMAIN MapOf(x) = DOMAIN x.id_to_internal
        /\ \A id \in DOMAIN x.id_to_internal : MapOf(x)[id] = x.vec[x.id_to_internal[id]]
    BY DEF MapOf
  <2> HIDE DEF y, vec, ids
  <2> QED
    BY <2>1, <2>2, <1>19, <1>20
<1> HIDE DEF y
<1> QED
    BY <1>2, <1>18, <1>21
-----------------------------------------------------------------------------
(***************************************************************************)
(* build.                                                                  *)
(***************************************************************************)
\* The ids of a batch are ranked from 0, each with a rank of its own.
LEMMA Ranks ==
    ASSUME NEW b \in Batches
    PROVE  /\ IsFiniteSet(IdsOf(b)) /\ Cardinality(IdsOf(b)) \in Nat
           /\ Cardinality(IdsOf(b)) <= Len(b)
           /\ \A id \in IdsOf(b) : Rank(b, id) \in Nat /\ Rank(b, id) < Cardinality(IdsOf(b))
           /\ \A i, j \in IdsOf(b) : Rank(b, i) = Rank(b, j) => i = j
<1> DEFINE Below(id) == {j \in IdsOf(b) : FirstOf(b, j) < FirstOf(b, id)}
           name == [n \in DOMAIN b |-> b[n].id]
<1>1. Len(b) \in Nat /\ DOMAIN b = 1 .. Len(b)
    BY BatchIs
<1>2. IsFiniteSet(DOMAIN b) /\ Cardinality(DOMAIN b) = Len(b)
  <2>1. /\ IsFiniteSet(1 .. Len(b))
        /\ Cardinality(1 .. Len(b)) = IF 1 > Len(b) THEN 0 ELSE Len(b) - 1 + 1
    BY <1>1, FS_Interval
  <2> QED
    BY <1>1, <2>1
<1>3. name \in Surjection(DOMAIN b, IdsOf(b))
    BY DEF Surjection, IdsOf
<1>4. IsFiniteSet(IdsOf(b)) /\ Cardinality(IdsOf(b)) <= Len(b)
  <2> HIDE DEF name
  <2> QED
    BY <1>2, <1>3, FS_Surjection
<1>5. Cardinality(IdsOf(b)) \in Nat
    BY <1>4, FS_CardinalityType
<1>6. \A id \in IdsOf(b) : FirstOf(b, id) \in Nat /\ b[FirstOf(b, id)].id = id
    BY <1>1, FirstPair
<1>7. ASSUME NEW S \in SUBSET IdsOf(b), NEW id \in S, NEW T \in SUBSET (S \ {id})
      PROVE  Cardinality(T) \in Nat /\ Cardinality(S) \in Nat /\ Cardinality(T) < Cardinality(S)
  <2>1. IsFiniteSet(S) /\ Cardinality(S) \in Nat
    BY <1>4, FS_Subset, FS_CardinalityType
  <2>2. IsFiniteSet(S \ {id}) /\ Cardinality(S \ {id}) = Cardinality(S) - 1
    BY <2>1, FS_RemoveElement
  <2>3. IsFiniteSet(T) /\ Cardinality(T) <= Cardinality(S \ {id}) /\ Cardinality(T) \in Nat
    BY <2>2, FS_Subset, FS_CardinalityType
  <2> QED
    BY <2>1, <2>2, <2>3
<1>8. \A id \in IdsOf(b) : Rank(b, id) = Cardinality(Below(id))
    BY DEF Rank
<1>9. ASSUME NEW id \in IdsOf(b)
      PROVE  Rank(b, id) \in Nat /\ Rank(b, id) < Cardinality(IdsOf(b))
  <2>1. Below(id) \in SUBSET (IdsOf(b) \ {id})
    BY <1>6
  <2> HIDE DEF Below
  <2> QED
    BY <2>1, <1>7, <1>8
<1>10. ASSUME NEW i \in IdsOf(b), NEW j \in IdsOf(b), FirstOf(b, i) < FirstOf(b, j)
       PROVE  Rank(b, i) < Rank(b, j)
  <2>1. i \in Below(j) /\ Below(j) \in SUBSET IdsOf(b) /\ Below(i) \in SUBSET (Below(j) \ {i})
    BY <1>6, <1>10
  <2> HIDE DEF Below
  <2> QED
    BY <2>1, <1>7, <1>8
<1>11. ASSUME NEW i \in IdsOf(b), NEW j \in IdsOf(b), Rank(b, i) = Rank(b, j)
       PROVE  i = j
  <2>1. ~(FirstOf(b, i) < FirstOf(b, j)) /\ ~(FirstOf(b, j) < FirstOf(b, i))
    BY <1>9, <1>10, <1>11
  <2> QED
    BY <2>1, <1>6
<1> QED
    BY <1>4, <1>5, <1>9, <1>11

LEMMA BuiltFits ==
    ASSUME NEW b \in Batches, Len(b) <= MaxId, NEW params \in Params
    PROVE  Fits(Built(b, params)) /\ MapOf(Built(b, params)) = Content(b)
<1> DEFINE number == [id \in IdsOf(b) |-> Rank(b, id)]
           points == {number[id] : id \in IdsOf(b)}
           owner == [p \in points |-> CHOOSE id \in IdsOf(b) : number[id] = p]
           vec == [p \in points |-> b[LastOf(b, owner[p])].v]
           next == Cardinality(points)
           y == [params |-> params, main |-> points, staged |-> {}, tombstones |-> {},
                 vec |-> vec, id_to_internal |-> number, internal_to_id |-> owner, next |-> next]
<1>1. Built(b, params) = y
    BY DEF Built
<1>2. /\ IsFiniteSet(IdsOf(b)) /\ Cardinality(IdsOf(b)) \in Nat /\ Cardinality(IdsOf(b)) <= Len(b)
      /\ \A id \in IdsOf(b) : number[id] \in Nat /\ number[id] < Cardinality(IdsOf(b))
      /\ \A i, j \in IdsOf(b) : number[i] = number[j] => i = j
    BY Ranks
<1>3. number \in Injection(IdsOf(b), points) /\ number \in Surjection(IdsOf(b), points)
  <2>1. number \in [IdsOf(b) -> points] /\ DOMAIN number = IdsOf(b)
    OBVIOUS
  <2>2. \A p \in points : \E id \in IdsOf(b) : number[id] = p
    OBVIOUS
  <2> HIDE DEF number, points
  <2>3. IsInjective(number)
    BY <1>2, <2>1 DEF IsInjective
  <2> QED
    BY <2>1, <2>2, <2>3 DEF Injection, Surjection
<1>4. next = Cardinality(IdsOf(b))
  <2> HIDE DEF number, points
  <2> QED
    BY <1>2, <1>3, FS_Surjection
<1>5. Len(b) \in Nat /\ MaxId \in Nat /\ next \in 0 .. MaxId
    BY <1>2, <1>4, BatchIs, PersistentIndexAssumption
<1>6. points \subseteq Points /\ \A p \in points : p < next
  <2> HIDE DEF next, number
  <2>1. \A id \in IdsOf(b) : number[id] \in Nat /\ number[id] < next /\ next <= MaxId
    BY <1>2, <1>4, <1>5
  <2>2. \A id \in IdsOf(b) : number[id] \in 0 .. MaxId - 1
    BY <2>1, <1>5
  <2> QED
    BY <2>1, <2>2 DEF Points
<1>7. \A id \in IdsOf(b) : number[id] \in points /\ owner[number[id]] = id
  <2> TAKE id \in IdsOf(b)
  <2>1. number[id] \in points
    OBVIOUS
  <2>2. owner[number[id]] = CHOOSE i \in IdsOf(b) : number[i] = number[id]
    BY <2>1
  <2> HIDE DEF number, points, owner
  <2>3. (CHOOSE i \in IdsOf(b) : number[i] = number[id]) = id
    BY <1>2
  <2> QED
    BY <2>1, <2>2, <2>3
<1>8. \A p \in points : owner[p] \in IdsOf(b)
  <2> TAKE p \in points
  <2>1. PICK id \in IdsOf(b) : p = number[id]
    OBVIOUS
  <2> HIDE DEF number, points, owner
  <2> QED
    BY <2>1, <1>7
<1>9. owner \in PartialMaps(Points, Ids) /\ DOMAIN owner = points
  <2>1. owner \in [points -> Ids]
    <3>1. owner = [p \in points |-> owner[p]]
      OBVIOUS
    <3> HIDE DEF owner, points
    <3> QED
      BY <3>1, <1>8, BatchIs
  <2> HIDE DEF owner, points
  <2> QED
    BY <2>1, <1>6, IsPartialMap
<1>10. vec \in PartialMaps(Points, Vectors) /\ DOMAIN vec = points
  <2>1. \A p \in points : b[LastOf(b, owner[p])].v \in Vectors
    <3> HIDE DEF owner, points
    <3> QED
      BY <1>8, LastPair, BatchIs
  <2> HIDE DEF owner, points
  <2>2. vec \in [points -> Vectors]
    BY <2>1
  <2> QED
    BY <2>2, <1>6, IsPartialMap
<1>11. number \in PartialMaps(Ids, Points) /\ DOMAIN number = IdsOf(b)
  <2>1. number \in [IdsOf(b) -> Points]
    BY <1>6
  <2> HIDE DEF number
  <2> QED
    BY <2>1, BatchIs, IsPartialMap
<1>12. \A id \in IdsOf(b) : vec[number[id]] = Content(b)[id]
  <2> TAKE id \in IdsOf(b)
  <2>1. vec[number[id]] = b[LastOf(b, owner[number[id]])].v
    BY <1>7
  <2> HIDE DEF vec, number, owner, points
  <2> QED
    BY <2>1, <1>7, ContentIs
<1>13. LiveOf(y) = points
    BY DEF LiveOf
<1> HIDE DEF number, points, owner, vec, next
<1>14. y \in Indexes
    BY <1>5, <1>6, <1>9, <1>10, <1>11 DEF Indexes
<1>15. LeadsBack(y)
    BY <1>7, <1>9, <1>11 DEF LeadsBack
<1>16. Fits(y)
    BY <1>6, <1>10, <1>13, <1>14, <1>15 DEF Fits, IsIndex
<1>17. MapOf(y) = Content(b)
    BY <1>11, <1>12, ContentIs DEF MapOf
<1> QED
    BY <1>1, <1>16, <1>17
-----------------------------------------------------------------------------
(***************************************************************************)
(* query_one.                                                              *)
(***************************************************************************)
LEMMA SetsAreFinite ==
    ASSUME NEW x, Fits(x), NEW S \in SUBSET (x.main \cup x.staged \cup x.tombstones)
    PROVE  IsFiniteSet(S) /\ Cardinality(S) \in Nat
<1>1. S \subseteq Points
  <2>1. x \in Indexes
    BY DEF Fits, IsIndex
  <2> QED
    BY <2>1, IndexFields
<1>2. IsFiniteSet(Points)
  <2>1. 0 \in Int /\ MaxId - 1 \in Int
    BY PersistentIndexAssumption
  <2> QED
    BY <2>1, FS_Interval DEF Points
<1>3. IsFiniteSet(S)
    BY <1>1, <1>2, FS_Subset
<1> QED
    BY <1>3, FS_CardinalityType

LEMMA DistanceIsInt ==
    ASSUME NEW x, Fits(x), NEW q \in Vectors, NEW p \in x.main \cup x.staged
    PROVE  Distance(x, q, p) \in Int
<1>1. x \in Indexes /\ p \in DOMAIN x.vec
    BY DEF Fits, IsIndex
<1>2. x.vec[p] \in Int /\ q \in Int
    BY <1>1, IndexFields, PersistentIndexAssumption
<1> QED
    BY <1>2 DEF Distance

\* Within ef_search, main is asked for k points more than can be tombstoned.
LEMMA FetchIs ==
    ASSUME NEW x, Fits(x), NEW k \in Nat, k + Cardinality(x.tombstones) <= x.params.ef_search
    PROVE  Fetch(x, k) = k + Cardinality(x.tombstones)
<1>1. x.params.ef_search \in Nat
  <2>1. x.params \in IndexParams
    BY IndexFields, PersistentIndexAssumption DEF Fits, IsIndex
  <2> QED
    BY <2>1 DEF IndexParams
<1>2. Cardinality(x.tombstones) \in Nat
    BY SetsAreFinite
<1> QED
    BY <1>1, <1>2 DEF Fetch, MaxOf

\* What main returns hides no live point that would have come before one that
\* is answered: either main returns all it has, or k live points that are no
\* farther than any it holds back.
LEMMA CandidatesSuffice ==
    ASSUME NEW x, Fits(x), NEW q \in Vectors, NEW k \in Nat,
           k + Cardinality(x.tombstones) <= x.params.ef_search,
           NEW M \in Nearest(x, q, x.main, Fetch(x, k)),
           NEW R \in Nearest(x, q, (M \ x.tombstones) \cup (x.staged \ x.tombstones), k)
    PROVE  R \in Nearest(x, q, LiveOf(x), k)
<1> DEFINE live == M \ x.tombstones
           candidates == live \cup (x.staged \ x.tombstones)
           D(p) == Distance(x, q, p)
<1>1. /\ M \subseteq x.main
      /\ Cardinality(M) = (IF Fetch(x, k) < Cardinality(x.main) THEN Fetch(x, k)
                                                                 ELSE Cardinality(x.main))
      /\ \A p \in M, o \in x.main \ M : D(p) <= D(o)
    BY DEF Nearest
<1>2. /\ R \subseteq candidates
      /\ Cardinality(R) = (IF k < Cardinality(candidates) THEN k ELSE Cardinality(candidates))
      /\ \A p \in R, o \in candidates \ R : D(p) <= D(o)
    BY DEF Nearest
<1>3. LiveOf(x) = (x.main \cup x.staged) \ x.tombstones /\ x.main \cap x.staged = {}
    BY DEF Fits
<1>4. /\ candidates \subseteq LiveOf(x) /\ live \subseteq candidates
      /\ live \subseteq x.main /\ candidates \subseteq x.main \cup x.staged
      /\ LiveOf(x) \subseteq x.main \cup x.staged
    BY <1>1, <1>3
<1>5. CASE M = x.main
  <2>1. candidates = LiveOf(x)
    BY <1>3, <1>5
  <2> QED
    BY <2>1
<1>6. CASE M # x.main
  <2>1. /\ IsFiniteSet(x.main) /\ IsFiniteSet(M) /\ IsFiniteSet(live)
        /\ IsFiniteSet(x.tombstones)
        /\ IsFiniteSet(candidates) /\ IsFiniteSet(LiveOf(x)) /\ IsFiniteSet(R)
    <3> HIDE DEF live, candidates
    <3> QED
      BY SetsAreFinite, <1>1, <1>2, <1>4
  <2>2. /\ Cardinality(x.main) \in Nat /\ Cardinality(M) \in Nat /\ Cardinality(live) \in Nat
        /\ Cardinality(x.tombstones) \in Nat
        /\ Cardinality(candidates) \in Nat /\ Cardinality(LiveOf(x)) \in Nat
        /\ Cardinality(R) \in Nat
    <3> HIDE DEF live, candidates
    <3> QED
      BY <2>1, FS_CardinalityType
  <2>3. Cardinality(M) = k + Cardinality(x.tombstones)
    <3>1. Cardinality(M) # Cardinality(x.main)
      BY <1>1, <1>6, <2>1, FS_Subset
    <3> QED
      BY <3>1, <1>1, FetchIs
  <2>4. k <= Cardinality(live)
    <3>1. Cardinality(live) = Cardinality(M) - Cardinality(M \cap x.tombstones)
      BY <2>1, FS_Difference
    <3>2. /\ IsFiniteSet(M \cap x.tombstones)
          /\ Cardinality(M \cap x.tombstones) <= Cardinality(x.tombstones)
      BY <2>1, FS_Subset, M \cap x.tombstones \in SUBSET x.tombstones
    <3>3. Cardinality(M \cap x.tombstones) \in Nat
      BY <3>2, FS_CardinalityType
    <3> HIDE DEF live
    <3> QED
      BY <3>1, <3>2, <3>3, <2>2, <2>3
  <2>5. Cardinality(live) <= Cardinality(candidates) /\ Cardinality(candidates) <= Cardinality(LiveOf(x))
    <3> HIDE DEF live, candidates
    <3> QED
      BY <1>4, <2>1, FS_Subset
  <2> HIDE DEF live, candidates
  <2>6. /\ Cardinality(R) = k
        /\ k = (IF k < Cardinality(LiveOf(x)) THEN k ELSE Cardinality(LiveOf(x)))
    BY <1>2, <2>2, <2>4, <2>5
  <2>7. ASSUME NEW p \in R, NEW o \in LiveOf(x) \ R
        PROVE  D(p) <= D(o)
    <3>1. CASE o \in candidates
      BY <3>1, <1>2
    <3>2. CASE o \notin candidates /\ p \in M
      <4>1. o \in x.main \ M
        BY <3>2, <1>3 DEF candidates, live
      <4> QED
        BY <4>1, <3>2, <1>1
    <3>3. CASE o \notin candidates /\ p \notin M
      <4>1. o \in x.main \ M
        BY <3>3, <1>3 DEF candidates, live
      <4>2. PICK m \in live : m \notin R
        <5> SUFFICES ASSUME live \subseteq R
                     PROVE  FALSE
          OBVIOUS
        <5>1. live \in SUBSET (R \ {p})
          BY <3>3 DEF live
        <5>2. IsFiniteSet(R \ {p}) /\ Cardinality(R \ {p}) = k - 1
          BY <2>1, <2>6, FS_RemoveElement
        <5>3. Cardinality(live) <= k - 1
          BY <5>1, <5>2, FS_Subset
        <5> QED
          BY <5>3, <2>2, <2>4
      <4>3. D(p) <= D(m)
        BY <4>2, <1>2, <1>4
      <4>4. D(m) <= D(o)
        BY <4>1, <1>1, m \in M DEF live
      <4>5. /\ p \in x.main \cup x.staged /\ m \in x.main \cup x.staged
            /\ o \in x.main \cup x.staged
        BY <1>2, <1>4
      <4>6. D(p) \in Int /\ D(m) \in Int /\ D(o) \in Int
        BY <4>5, DistanceIsInt
      <4> HIDE DEF D
      <4> QED
        BY <4>3, <4>4, <4>6
    <3> QED
      BY <3>1, <3>2, <3>3
  <2>8. R \in SUBSET LiveOf(x)
    BY <1>2, <1>4
  <2> QED
    BY <2>6, <2>7, <2>8 DEF Nearest
<1> QED
    BY <1>5, <1>6

\* Live points lead back to the ids that own them, and to no other.
LEMMA OwnersAre ==
    ASSUME NEW x, Fits(x), NEW R \in SUBSET LiveOf(x)
    PROVE  {x.internal_to_id[p] : p \in R \cap DOMAIN x.internal_to_id}
               = {id \in DOMAIN x.id_to_internal : x.id_to_internal[id] \in R}
<1>1. \A p \in R : \E id \in DOMAIN x.id_to_internal : p = x.id_to_internal[id]
    BY DEF LiveOf
<1> QED
    BY <1>1 DEF Fits, LeadsBack

LEMMA AnswersAreExact ==
    ASSUME NEW x, Fits(x), NEW q \in Vectors, NEW k \in Nat,
           k + Cardinality(x.tombstones) <= x.params.ef_search,
           NEW answer \in Answers(x, q, k)
    PROVE  \E R \in Nearest(x, q, LiveOf(x), k) :
               answer = {id \in DOMAIN x.id_to_internal : x.id_to_internal[id] \in R}
<1>1. PICK M \in Nearest(x, q, x.main, Fetch(x, k)) :
          \E R \in Nearest(x, q, (M \ x.tombstones) \cup (x.staged \ x.tombstones), k) :
              answer = {x.internal_to_id[p] : p \in R \cap DOMAIN x.internal_to_id}
    BY DEF Answers
<1>2. PICK R \in Nearest(x, q, (M \ x.tombstones) \cup (x.staged \ x.tombstones), k) :
          answer = {x.internal_to_id[p] : p \in R \cap DOMAIN x.internal_to_id}
    BY <1>1
<1>3. R \in Nearest(x, q, LiveOf(x), k)
    BY CandidatesSuffice
<1>4. R \in SUBSET LiveOf(x)
    BY <1>3 DEF Nearest
<1> QED
    BY <1>2, <1>3, <1>4, OwnersAre
-----------------------------------------------------------------------------
(***************************************************************************)
(* The theorems.                                                           *)
(***************************************************************************)
LEMMA NoIndexIsNone ==
    ASSUME NEW x, Fits(x)
    PROVE  x # NoIndex /\ MapOf(x) # NoIndex
<1>1. x \in Indexes
    BY DEF Fits, IsIndex
<1>2. MapOf(x) \in [DOMAIN x.id_to_internal -> Vectors]
  <2>1. ASSUME NEW id \in DOMAIN x.id_to_internal
        PROVE  x.vec[x.id_to_internal[id]] \in Vectors
    <3>1. x.id_to_internal[id] \in DOMAIN x.vec
      BY DEF Fits, IsIndex, LiveOf
    <3> QED
      BY <3>1, <1>1, IndexFields
  <2> QED
    BY <2>1 DEF MapOf
<1>3. MapOf(x) \in PartialMaps(Ids, Vectors)
    BY <1>1, <1>2, IndexFields, IsPartialMap
<1> QED
    BY <1>1, <1>3, PersistentIndexAssumption

\* Each operation keeps the invariant and does to the map what it says.
LEMMA OperationsFit ==
    ASSUME IndexInv
    PROVE  /\ \A b \in Batches : Build(b) => Fits(index') /\ MapOf(index') = Content(b)
           /\ \A b \in Batches : Add(b) =>
                 /\ Fits(index')
                 /\ MapOf(index') = [id \in DOMAIN MapOf(index) \cup IdsOf(b) |->
                        IF id \in IdsOf(b) THEN Content(b)[id] ELSE MapOf(index)[id]]
           /\ \A S \in SUBSET Ids : Remove(S) =>
                 /\ Fits(index')
                 /\ MapOf(index') = [id \in DOMAIN MapOf(index) \ S |-> MapOf(index)[id]]
           /\ \A value \in BOOLEAN : SetAutoCompact(value) =>
                 Fits(index') /\ MapOf(index') = MapOf(index)
           /\ Compact => Fits(index') /\ MapOf(index') = MapOf(index)
<1>1. ASSUME NEW b \in Batches, Build(b)
      PROVE  Fits(index') /\ MapOf(index') = Content(b)
    BY <1>1, BuiltFits DEF Build
<1>2. ASSUME NEW b \in Batches, Add(b)
      PROVE  /\ Fits(index')
             /\ MapOf(index') = [id \in DOMAIN MapOf(index) \cup IdsOf(b) |->
                    IF id \in IdsOf(b) THEN Content(b)[id] ELSE MapOf(index)[id]]
  <2>1. Fits(index) /\ index.next + Len(b) <= MaxId /\ index' = AutoCompacted(Added(index, b))
    BY <1>2 DEF Add, IndexInv
  <2> DEFINE x == Added(index, b)
  <2>2. /\ Fits(x)
        /\ MapOf(x) = [id \in DOMAIN MapOf(index) \cup IdsOf(b) |->
               IF id \in IdsOf(b) THEN Content(b)[id] ELSE MapOf(index)[id]]
    BY <2>1, AddedFits
  <2>3. Fits(AutoCompacted(x)) /\ MapOf(AutoCompacted(x)) = MapOf(x)
    <3> HIDE DEF x
    <3> QED
      BY <2>2, AutoCompactedFits
  <2>4. index' = AutoCompacted(x)
    BY <2>1
  <2> HIDE DEF x
  <2>5. Fits(index')
    BY <2>3, <2>4
  <2>6. MapOf(index') = MapOf(x)
    BY <2>3, <2>4
  <2> QED
    BY <2>2, <2>5, <2>6
<1>3. ASSUME NEW S \in SUBSET Ids, Remove(S)
      PROVE  /\ Fits(index')
             /\ MapOf(index') = [id \in DOMAIN MapOf(index) \ S |-> MapOf(index)[id]]
  <2>1. Fits(index) /\ index' = AutoCompacted(Removed(index, S))
    BY <1>3 DEF Remove, IndexInv
  <2> QED
    BY <2>1, RemovedFits, AutoCompactedFits
<1>4. ASSUME NEW value \in BOOLEAN, SetAutoCompact(value)
      PROVE  Fits(index') /\ MapOf(index') = MapOf(index)
    BY <1>4, SetAutoCompactFits DEF SetAutoCompact, IndexInv
<1>5. ASSUME Compact
      PROVE  Fits(index') /\ MapOf(index') = MapOf(index)
    BY <1>5, CompactedFits DEF Compact, IndexInv
<1> QED
    BY <1>1, <1>2, <1>3, <1>4, <1>5

LEMMA IndexInvHolds == Spec => []IndexInv
<1>1. Init => IndexInv
    BY DEF Init, IndexInv
<1>2. IndexInv /\ [Next]_vars => IndexInv'
  <2> SUFFICES ASSUME IndexInv, [Next]_vars
               PROVE  IndexInv'
    OBVIOUS
  <2>1. CASE UNCHANGED vars
    BY <2>1 DEF IndexInv, vars
  <2>2. ASSUME NEW b \in Batches, Build(b) \/ Add(b)
        PROVE  IndexInv'
    BY <2>2, OperationsFit DEF IndexInv, Build, Add
  <2>3. ASSUME NEW S \in SUBSET Ids, Remove(S)
        PROVE  IndexInv'
    BY <2>3, OperationsFit DEF IndexInv, Remove
  <2>4. ASSUME NEW value \in BOOLEAN, SetAutoCompact(value)
        PROVE  IndexInv'
    BY <2>4, OperationsFit DEF IndexInv, SetAutoCompact
  <2>5. CASE Compact
    BY <2>5, OperationsFit DEF IndexInv, Compact
  <2>6. CASE Save \/ Load \/ Crash
    BY <2>6 DEF IndexInv, Save, Load, Crash
  <2> QED
    BY <2>1, <2>2, <2>3, <2>4, <2>5, <2>6 DEF Next
<1> QED
    BY <1>1, <1>2, PTL DEF Spec

\* Graph, staging buffer, tombstones and both id maps agree after every sequence
\* of builds, upserts, removals, compactions, saves, loads and crashes, for any
\* thresholds (StructuresAgree; PersistentIndex in src/index.rs).
THEOREM StructuresStayAgreed == Spec => []StructuresAgree
<1>1. IndexInv => StructuresAgree
    BY DEF IndexInv, Fits, LeadsBack, StructuresAgree
<1> QED
    BY <1>1, IndexInvHolds, PTL

\* As long as k and the tombstones together stay within ef_search, every query
\* answers k nearest ids of those in the index, however they are spread over
\* graph, staging buffer and tombstones (QueryIsExact; query_one).
THEOREM QueriesAreExact == Spec => []QueryIsExact
<1>1. IndexInv => QueryIsExact
  <2> SUFFICES ASSUME IndexInv, index # NoIndex, NEW q \in Vectors,
                      NEW k \in 1 .. index.params.ef_search - Cardinality(index.tombstones),
                      NEW answer \in Answers(index, q, k)
               PROVE  \E R \in Nearest(index, q, LiveOf(index), k) :
                          answer = {id \in DOMAIN index.id_to_internal :
                                       index.id_to_internal[id] \in R}
    BY DEF QueryIsExact
  <2>1. Fits(index)
    BY DEF IndexInv
  <2>2. Cardinality(index.tombstones) \in Nat
    BY <2>1, SetsAreFinite
  <2>3. index.params.ef_search \in Nat
    <3>1. index.params \in IndexParams
      BY <2>1, IndexFields, PersistentIndexAssumption DEF Fits, IsIndex
    <3> QED
      BY <3>1 DEF IndexParams
  <2>4. k \in Nat /\ k + Cardinality(index.tombstones) <= index.params.ef_search
    BY <2>2, <2>3
  <2> QED
    BY <2>1, <2>4, AnswersAreExact
<1> QED
    BY <1>1, IndexInvHolds, PTL

\* The index implements IndexMap: each call does to the map from ids to vectors
\* what its user asked for, and no compaction, in whatever call it happens, is
\* seen (ImplementsMap).
THEOREM IndexImplementsMap == Spec => ImplementsMap
<1> DEFINE Faithful ==
              /\ \A b \in Batches : /\ Build(b) => Map!Create(Content(b))
                                    /\ Add(b) => Map!Put(Content(b))
              /\ \A S \in SUBSET Ids : Remove(S) => Map!Delete(S)
              /\ Compact \/ (\E value \in BOOLEAN : SetAutoCompact(value)) => Map!Put([id \in {} |-> 0])
              /\ Save => Map!Save
              /\ Load => Map!Load
              /\ Crash => Map!Crash
<1>1. Init => Map!Init
    BY DEF Init, Map!Init
<1>2. IndexInv => Faithful
  <2> SUFFICES ASSUME IndexInv
               PROVE  Faithful
    OBVIOUS
  <2>1. ASSUME NEW b \in Batches, Build(b)
        PROVE  Map!Create(Content(b))
    BY <2>1, OperationsFit, NoIndexIsNone DEF Build, Map!Create
  <2>2. ASSUME NEW b \in Batches, Add(b)
        PROVE  Map!Put(Content(b))
    <3>1. /\ index # NoIndex /\ Fits(index) /\ Fits(index') /\ file' = file
          /\ MapOf(index') = [id \in DOMAIN MapOf(index) \cup IdsOf(b) |->
                IF id \in IdsOf(b) THEN Content(b)[id] ELSE MapOf(index)[id]]
      BY <2>2, OperationsFit DEF Add, IndexInv
    <3>2. DOMAIN Content(b) = IdsOf(b)
      BY ContentIs
    <3>3. index' # NoIndex /\ MapOf(index) # NoIndex
      BY <3>1, NoIndexIsNone
    <3> QED
      BY <3>1, <3>2, <3>3 DEF Map!Put
  <2>3. ASSUME NEW S \in SUBSET Ids, Remove(S)
        PROVE  Map!Delete(S)
    <3>1. /\ index # NoIndex /\ Fits(index) /\ Fits(index') /\ file' = file
          /\ MapOf(index') = [id \in DOMAIN MapOf(index) \ S |-> MapOf(index)[id]]
      BY <2>3, OperationsFit DEF Remove, IndexInv
    <3>2. index' # NoIndex /\ MapOf(index) # NoIndex
      BY <3>1, NoIndexIsNone
    <3> QED
      BY <3>1, <3>2 DEF Map!Delete
  <2>4. ASSUME Compact \/ (\E value \in BOOLEAN : SetAutoCompact(value))
        PROVE  Map!Put([id \in {} |-> 0])
    <3>1. /\ index # NoIndex /\ Fits(index) /\ Fits(index') /\ file' = file
          /\ MapOf(index') = MapOf(index)
      BY <2>4, OperationsFit DEF Compact, SetAutoCompact, IndexInv
    <3>2. index' # NoIndex /\ MapOf(index) # NoIndex
      BY <3>1, NoIndexIsNone
    <3>3. MapOf(index) = [id \in DOMAIN MapOf(index) |-> MapOf(index)[id]]
      BY DEF MapOf
    <3> QED
      BY <3>1, <3>2, <3>3 DEF Map!Put
  <2>5. ASSUME Save
        PROVE  Map!Save
    BY <2>5, NoIndexIsNone DEF Save, IndexInv, Map!Save
  <2>6. ASSUME Load
        PROVE  Map!Load
    BY <2>6, NoIndexIsNone DEF Load, IndexInv, Map!Load
  <2>7. ASSUME Crash
        PROVE  Map!Crash
    BY <2>7 DEF Crash, Map!Crash
  <2> QED
    BY <2>1, <2>2, <2>3, <2>4, <2>5, <2>6, <2>7
<1>3. Spec => Init /\ []IndexInv /\ [][Next]_vars
    BY IndexInvHolds DEF Spec
<1> QED
  <2>1. Spec => [][Faithful]_vars
    <3> HIDE DEF Faithful
    <3> QED
      BY <1>2, <1>3, PTL
  <2> QED
    BY <1>1, <1>3, <2>1 DEF ImplementsMap
-----------------------------------------------------------------------------

NotYet == {"idle", "check", "create"}

\* A writer that has not created its file has none, and the file that would
\* be new is behind no name.
FilesAreFresh ==
    \A w \in Writers :
        /\ pc[w] \in NotYet => fd[w] = NoFile /\ tmp # w /\ meta # w
        /\ pc[w] \in {"write", "replace"} => fd[w] # NoFile

NamesDiffer == tmp # NoFile => tmp # meta

SomeoneOpened == meta # NoFile => \E v \in Writers : pc[v] = "opened"

Holds(w, f) == fd[w] = f /\ pc[w] # "opened"

\* Who holds the temporary file: if it is torn, a writer that never finished
\* its text, or two of them; if not, one that has written.
TmpIsHeld ==
    tmp # NoFile =>
        IF content[tmp] = Unreadable
        THEN \/ \E w \in Writers : Holds(w, tmp) /\ pc[w] # "replace"
             \/ \E v, w \in Writers : v # w /\ Holds(v, tmp) /\ Holds(w, tmp)
        ELSE \E w \in Writers : Holds(w, tmp) /\ pc[w] # "write"

\* One construction at a time: what it reads is what the last one published,
\* and the temporary file is its own.
OneAtATime ==
    ~overlapped =>
        /\ \A v, w \in Active : v = w
        /\ \A w \in Writers :
              /\ pc[w] \in {"write", "replace"} => fd[w] = tmp
              /\ pc[w] = "write" => content[tmp] = Unreadable
              /\ pc[w] = "replace" => content[tmp] = want[w]
              /\ strict[w] /\ pc[w] \in {"create", "write", "replace"} /\ opened # NoFile
                    => opened = want[w]

MetaInv ==
    /\ TypeOK
    /\ FilesAreFresh
    /\ NamesDiffer
    /\ SomeoneOpened
    /\ TmpIsHeld
    /\ TornNeedsOverlap
    /\ OneAtATime
    /\ MetaIsLastOpened
-----------------------------------------------------------------------------
LEMMA InitInv == MetaInit => MetaInv
<1> SUFFICES ASSUME MetaInit
             PROVE  MetaInv
  OBVIOUS
<1>1. TypeOK
  BY DEF MetaInit, TypeOK
<1>2. FilesAreFresh /\ NamesDiffer /\ SomeoneOpened /\ TmpIsHeld /\ TornNeedsOverlap /\ MetaIsLastOpened
  BY StoreMetaAssumption DEF MetaInit, FilesAreFresh, NamesDiffer, SomeoneOpened, TmpIsHeld,
     TornNeedsOverlap, MetaIsLastOpened, NotYet
<1>3. OneAtATime
  BY DEF MetaInit, OneAtATime, Active, Busy
<1> QED BY <1>1, <1>2, <1>3 DEF MetaInv

\* The names that open the invariant.
LEMMA Unfold ==
    ASSUME MetaInv
    PROVE  /\ TypeOK /\ FilesAreFresh /\ NamesDiffer /\ SomeoneOpened
           /\ TmpIsHeld /\ TornNeedsOverlap /\ OneAtATime /\ MetaIsLastOpened
BY DEF MetaInv

\* A step that moves one writer on and leaves the files alone.
LEMMA GotoKeeps ==
    ASSUME MetaInv, NEW w \in Writers, NEW label \in {"check", "create", "refused", "failed", "crashed"},
           Goto(w, label), pc[w] # "opened",
           label \in NotYet => pc[w] \in NotYet,
           label = "failed" => tmp = NoFile,
           UNCHANGED <<want, strict, tmp, meta, content, fd, opened>>, overlapped' \in BOOLEAN
    PROVE  /\ TypeOK' /\ FilesAreFresh' /\ NamesDiffer' /\ SomeoneOpened' /\ TmpIsHeld' /\ TornNeedsOverlap'
<1>1. /\ pc' = [pc EXCEPT ![w] = label]
      /\ pc' \in [Writers -> {"idle"} \cup Busy \cup Ended]
      /\ \A v \in Writers : pc'[v] = (IF v = w THEN label ELSE pc[v])
  BY Unfold DEF Goto, TypeOK, Busy, Ended
<1>2. TypeOK'
  BY <1>1, Unfold DEF TypeOK
<1>3. FilesAreFresh' /\ NamesDiffer'
  BY <1>1, Unfold DEF FilesAreFresh, NamesDiffer, NotYet
<1>4. SomeoneOpened' /\ TornNeedsOverlap'
  BY <1>1, Unfold DEF SomeoneOpened, TornNeedsOverlap
<1>5. TmpIsHeld'
  BY <1>1, Unfold DEF TmpIsHeld, Holds, FilesAreFresh, NotYet
<1> QED BY <1>2, <1>3, <1>4, <1>5

LEMMA ConstructKeeps ==
    ASSUME MetaInv, NEW w \in Writers, Construct(w)
    PROVE  MetaInv'
<1>1. /\ Goto(w, "check") /\ pc[w] = "idle"
      /\ UNCHANGED <<want, strict, tmp, meta, content, fd, opened>>
      /\ overlapped' = (overlapped \/ Active # {}) /\ overlapped' \in BOOLEAN
  BY Unfold DEF Construct, TypeOK
<1>2. TypeOK' /\ FilesAreFresh' /\ NamesDiffer' /\ SomeoneOpened' /\ TmpIsHeld' /\ TornNeedsOverlap'
  BY <1>1, GotoKeeps DEF NotYet
<1>3. OneAtATime' /\ MetaIsLastOpened'
  <2>1. ~overlapped' => ~overlapped /\ \A v \in Writers : pc[v] \notin Busy
    BY <1>1 DEF Active
  <2>2. \A v \in Writers : pc'[v] = (IF v = w THEN "check" ELSE pc[v])
    BY <1>1, Unfold DEF Goto, TypeOK
  <2>3. OneAtATime'
    BY <1>1, <2>1, <2>2, Unfold DEF OneAtATime, Active, Busy
  <2>4. MetaIsLastOpened'
    BY <1>1, <2>1, Unfold DEF MetaIsLastOpened
  <2> QED BY <2>3, <2>4
<1> QED BY <1>2, <1>3 DEF MetaInv

LEMMA RefuseKeeps ==
    ASSUME MetaInv, NEW w \in Writers, Refuse(w) \/ ReplaceFails(w) \/ CrashIn(w)
    PROVE  MetaInv'
<1>1. PICK label \in {"refused", "failed", "crashed"} :
         /\ Goto(w, label) /\ pc[w] \in Busy /\ (label = "failed" => tmp = NoFile)
         /\ UNCHANGED <<want, strict, tmp, meta, content, fd, opened, overlapped>>
  BY DEF Refuse, ReplaceFails, CrashIn, Busy
<1>2. TypeOK' /\ FilesAreFresh' /\ NamesDiffer' /\ SomeoneOpened' /\ TmpIsHeld' /\ TornNeedsOverlap'
  BY <1>1, GotoKeeps, Unfold DEF NotYet, Busy, TypeOK
<1>3. OneAtATime' /\ MetaIsLastOpened'
  <2>2. \A v \in Writers : pc'[v] = (IF v = w THEN label ELSE pc[v])
    BY <1>1, Unfold DEF Goto, TypeOK
  <2>3. OneAtATime'
    BY <1>1, <2>2, Unfold DEF OneAtATime, Active, Busy
  <2>4. MetaIsLastOpened'
    BY <1>1, Unfold DEF MetaIsLastOpened
  <2> QED BY <2>3, <2>4
<1> QED BY <1>2, <1>3 DEF MetaInv

LEMMA AcceptKeeps ==
    ASSUME MetaInv, NEW w \in Writers, Accept(w)
    PROVE  MetaInv'
<1>1. /\ Goto(w, "create") /\ pc[w] = "check" /\ ~(Mismatch(w) /\ strict[w])
      /\ UNCHANGED <<want, strict, tmp, meta, content, fd, opened, overlapped>>
  BY DEF Accept
<1>2. TypeOK' /\ FilesAreFresh' /\ NamesDiffer' /\ SomeoneOpened' /\ TmpIsHeld' /\ TornNeedsOverlap'
  BY <1>1, GotoKeeps, Unfold DEF NotYet, TypeOK
<1>3. ~overlapped /\ strict[w] /\ opened # NoFile => opened = want[w]
  BY <1>1, Unfold, StoreMetaAssumption DEF MetaIsLastOpened, Mismatch, TypeOK
<1>4. OneAtATime' /\ MetaIsLastOpened'
  <2>2. \A v \in Writers : pc'[v] = (IF v = w THEN "create" ELSE pc[v])
    BY <1>1, Unfold DEF Goto, TypeOK
  <2>3. OneAtATime'
    BY <1>1, <1>3, <2>2, Unfold DEF OneAtATime, Active, Busy
  <2>4. MetaIsLastOpened'
    BY <1>1, Unfold DEF MetaIsLastOpened
  <2> QED BY <2>3, <2>4
<1> QED BY <1>2, <1>4 DEF MetaInv

LEMMA CreateTmpKeeps ==
    ASSUME MetaInv, NEW w \in Writers, CreateTmp(w)
    PROVE  MetaInv'
<1> DEFINE mine == IF tmp = NoFile THEN w ELSE tmp
<1>1. /\ pc[w] = "create" /\ Goto(w, "write") /\ tmp' = mine
      /\ UNCHANGED <<want, strict, meta, opened, overlapped>>
      /\ mine \in Writers /\ mine # NoFile
  BY Unfold, StoreMetaAssumption DEF CreateTmp, TypeOK
<1>2. /\ \A v \in Writers : pc'[v] = (IF v = w THEN "write" ELSE pc[v])
      /\ \A v \in Writers : fd'[v] = (IF v = w THEN mine ELSE fd[v])
      /\ \A f \in Writers : content'[f] = (IF f = mine THEN Unreadable ELSE content[f])
  BY <1>1, Unfold DEF CreateTmp, Goto, TypeOK
<1>3. TypeOK'
  <2>1. pc' \in [Writers -> {"idle"} \cup Busy \cup Ended]
    BY <1>1, Unfold DEF Goto, TypeOK, Busy
  <2>2. fd' \in [Writers -> Writers \cup {NoFile}]
    BY <1>1, Unfold DEF CreateTmp, TypeOK
  <2>3. content' \in [Writers -> Fingerprints \cup {Unreadable}]
    BY <1>1, Unfold DEF CreateTmp, TypeOK
  <2> QED BY <1>1, <2>1, <2>2, <2>3, Unfold DEF TypeOK
<1>4. meta # mine /\ (\A v \in Writers : v # w /\ pc[v] \in NotYet => v # mine)
  BY <1>1, Unfold, StoreMetaAssumption DEF FilesAreFresh, NamesDiffer, NotYet
<1> HIDE DEF mine
<1>5. FilesAreFresh' /\ NamesDiffer'
  BY <1>1, <1>2, <1>4, Unfold DEF FilesAreFresh, NamesDiffer, NotYet
<1>6. SomeoneOpened'
  BY <1>1, <1>2, Unfold DEF SomeoneOpened
<1>7. TmpIsHeld'
  BY <1>1, <1>2 DEF TmpIsHeld, Holds
<1>8. TornNeedsOverlap'
  <2> SUFFICES ASSUME meta # NoFile, content'[meta] = Unreadable
               PROVE  \E u, v \in Writers : /\ u # v
                                             /\ fd'[v] = meta /\ pc'[v] # "opened"
                                             /\ pc'[u] = "opened"
    BY <1>1 DEF TornNeedsOverlap
  <2>1. content[meta] = Unreadable
    BY <1>2, <1>4, Unfold DEF TypeOK
  <2>2. PICK u, v \in Writers : u # v /\ fd[v] = meta /\ pc[v] # "opened" /\ pc[u] = "opened"
    BY <2>1, Unfold DEF TornNeedsOverlap
  <2>3. v # w /\ u # w
    BY <1>1, <2>2, Unfold DEF FilesAreFresh, NotYet
  <2> QED BY <1>2, <2>2, <2>3
<1>9. OneAtATime' /\ MetaIsLastOpened'
  <2>1. OneAtATime'
    BY <1>1, <1>2, Unfold DEF OneAtATime, Active, Busy
  <2>2. MetaIsLastOpened'
    BY <1>1, <1>2, <1>4, Unfold DEF MetaIsLastOpened, TypeOK
  <2> QED BY <2>1, <2>2
<1> QED BY <1>3, <1>5, <1>6, <1>7, <1>8, <1>9 DEF MetaInv

LEMMA WriteTmpKeeps ==
    ASSUME MetaInv, NEW w \in Writers, WriteTmp(w)
    PROVE  MetaInv'
<1> DEFINE mine == fd[w]
<1>1. /\ pc[w] = "write" /\ Goto(w, "replace")
      /\ UNCHANGED <<want, strict, tmp, meta, fd, opened, overlapped>>
      /\ mine \in Writers /\ mine # NoFile
  BY Unfold DEF WriteTmp, TypeOK, FilesAreFresh
<1>2. PICK text \in {want[w]} \cup (IF content[mine] = Unreadable THEN {} ELSE {Unreadable}) :
         content' = [content EXCEPT ![mine] = text]
  BY DEF WriteTmp
<1>3. /\ text \in Fingerprints \cup {Unreadable}
      /\ text = Unreadable => content[mine] # Unreadable
      /\ content[mine] = Unreadable => text = want[w]
      /\ want[w] # Unreadable
      /\ \A v \in Writers : pc'[v] = (IF v = w THEN "replace" ELSE pc[v])
      /\ \A f \in Writers : content'[f] = (IF f = mine THEN text ELSE content[f])
  BY <1>1, <1>2, Unfold, StoreMetaAssumption DEF Goto, TypeOK
<1>4. TypeOK'
  <2>1. pc' \in [Writers -> {"idle"} \cup Busy \cup Ended]
    BY <1>1, Unfold DEF Goto, TypeOK, Busy
  <2>2. content' \in [Writers -> Fingerprints \cup {Unreadable}]
    BY <1>1, <1>2, <1>3, Unfold DEF TypeOK
  <2> QED BY <1>1, <2>1, <2>2, Unfold DEF TypeOK
<1>5. FilesAreFresh' /\ NamesDiffer' /\ SomeoneOpened'
  BY <1>1, <1>3, Unfold DEF FilesAreFresh, NamesDiffer, SomeoneOpened, NotYet
<1> HIDE DEF mine
<1>6. TmpIsHeld'
  <2> SUFFICES ASSUME tmp # NoFile
               PROVE  IF content'[tmp] = Unreadable
                      THEN \/ \E u \in Writers : Holds(u, tmp)' /\ pc'[u] # "replace"
                           \/ \E u, v \in Writers : u # v /\ Holds(u, tmp)' /\ Holds(v, tmp)'
                      ELSE \E u \in Writers : Holds(u, tmp)' /\ pc'[u] # "write"
    BY <1>1 DEF TmpIsHeld
  <2>1. tmp \in Writers
    BY Unfold DEF TypeOK
  <2>2. CASE tmp # mine
    <3>1. content'[tmp] = content[tmp]
      BY <1>3, <2>1, <2>2
    <3>2. \A u \in Writers : Holds(u, tmp) => u # w /\ Holds(u, tmp)' /\ pc'[u] = pc[u]
      BY <1>1, <1>3, <2>2 DEF Holds, mine
    <3> QED BY <3>1, <3>2, Unfold DEF TmpIsHeld
  <2>3. CASE tmp = mine
    <3>1. Holds(w, tmp)' /\ pc'[w] # "write"
      BY <1>1, <1>3, <2>3 DEF Holds, mine
    <3>2. CASE text # Unreadable
      BY <1>3, <2>1, <2>3, <3>1, <3>2
    <3>3. CASE text = Unreadable
      <4>1. PICK v \in Writers : Holds(v, tmp) /\ pc[v] # "write"
        BY <1>3, <2>3, <3>3, Unfold DEF TmpIsHeld
      <4>2. v # w /\ Holds(v, tmp)'
        BY <1>1, <1>3, <4>1 DEF Holds
      <4> QED BY <1>3, <2>1, <2>3, <3>1, <3>3, <4>2
    <3> QED BY <3>2, <3>3
  <2> QED BY <2>2, <2>3
<1>7. TornNeedsOverlap'
  <2> SUFFICES ASSUME meta # NoFile, content'[meta] = Unreadable
               PROVE  \E u, v \in Writers : /\ u # v
                                             /\ fd[v] = meta /\ pc'[v] # "opened"
                                             /\ pc'[u] = "opened"
    BY <1>1 DEF TornNeedsOverlap
  <2>1. meta \in Writers
    BY Unfold DEF TypeOK
  <2>2. CASE meta = mine
    <3>1. PICK u \in Writers : pc[u] = "opened"
      BY Unfold DEF SomeoneOpened
    <3> QED BY <1>1, <1>3, <2>2, <3>1 DEF mine
  <2>3. CASE meta # mine
    <3>1. content[meta] = Unreadable
      BY <1>3, <2>1, <2>3
    <3>2. PICK u, v \in Writers : u # v /\ fd[v] = meta /\ pc[v] # "opened" /\ pc[u] = "opened"
      BY <3>1, Unfold DEF TornNeedsOverlap
    <3> QED BY <1>1, <1>3, <3>2
  <2> QED BY <2>2, <2>3
<1>8. OneAtATime' /\ MetaIsLastOpened'
  <2>1. OneAtATime'
    BY <1>1, <1>3, Unfold DEF OneAtATime, Active, Busy, mine
  <2>2. MetaIsLastOpened'
    <3>1. ~overlapped => meta # mine
      BY <1>1, Unfold DEF OneAtATime, NamesDiffer, mine
    <3> QED BY <1>1, <1>3, <3>1, Unfold DEF MetaIsLastOpened, TypeOK
  <2> QED BY <2>1, <2>2
<1> QED BY <1>4, <1>5, <1>6, <1>7, <1>8 DEF MetaInv

LEMMA ReplaceMetaKeeps ==
    ASSUME MetaInv, NEW w \in Writers, ReplaceMeta(w)
    PROVE  MetaInv'
<1>1. /\ pc[w] = "replace" /\ Goto(w, "opened") /\ tmp # NoFile
      /\ meta' = tmp /\ tmp' = NoFile /\ opened' = want[w]
      /\ UNCHANGED <<want, strict, content, fd, overlapped>>
      /\ tmp \in Writers
  BY Unfold DEF ReplaceMeta, TypeOK
<1>2. \A v \in Writers : pc'[v] = (IF v = w THEN "opened" ELSE pc[v])
  BY <1>1, Unfold DEF Goto, TypeOK
<1>3. TypeOK'
  <2>1. pc' \in [Writers -> {"idle"} \cup Busy \cup Ended]
    BY <1>1, Unfold DEF Goto, TypeOK, Ended
  <2> QED BY <1>1, <2>1, Unfold DEF TypeOK
<1>4. FilesAreFresh' /\ NamesDiffer' /\ SomeoneOpened' /\ TmpIsHeld'
  BY <1>1, <1>2, Unfold, StoreMetaAssumption
     DEF FilesAreFresh, NamesDiffer, SomeoneOpened, TmpIsHeld, NotYet
<1>5. TornNeedsOverlap'
  <2> SUFFICES ASSUME content[tmp] = Unreadable
               PROVE  \E u, v \in Writers : /\ u # v
                                             /\ fd[v] = tmp /\ pc'[v] # "opened"
                                             /\ pc'[u] = "opened"
    BY <1>1 DEF TornNeedsOverlap
  <2>1. PICK v \in Writers : v # w /\ Holds(v, tmp)
    BY <1>1, Unfold DEF TmpIsHeld
  <2> QED BY <1>2, <2>1 DEF Holds
<1>6. OneAtATime' /\ MetaIsLastOpened'
  <2>1. OneAtATime'
    BY <1>1, <1>2, Unfold DEF OneAtATime, Active, Busy
  <2>2. MetaIsLastOpened'
    BY <1>1, <1>2, Unfold DEF OneAtATime, MetaIsLastOpened
  <2> QED BY <2>1, <2>2
<1> QED BY <1>3, <1>4, <1>5, <1>6 DEF MetaInv

LEMMA StepKeeps == MetaInv /\ [MetaNext]_metaVars => MetaInv'
<1> SUFFICES ASSUME MetaInv, [MetaNext]_metaVars
             PROVE  MetaInv'
  OBVIOUS
<1>1. CASE MetaNext
  BY <1>1, ConstructKeeps, RefuseKeeps, AcceptKeeps, CreateTmpKeeps, WriteTmpKeeps, ReplaceMetaKeeps
     DEF MetaNext
<1>2. CASE UNCHANGED metaVars
  BY <1>2 DEF metaVars, MetaInv, TypeOK, FilesAreFresh, NamesDiffer, SomeoneOpened, TmpIsHeld, Holds,
     TornNeedsOverlap, OneAtATime, MetaIsLastOpened, Active
<1> QED BY <1>1, <1>2

LEMMA MetaInvariant == MetaSpec => []MetaInv
BY InitInv, StepKeeps, PTL DEF MetaSpec
-----------------------------------------------------------------------------
(***************************************************************************)
(* The theorems                                                            *)
(***************************************************************************)
\* While constructions do not overlap, _meta.json holds the fingerprint of the
\* last one that finished, wherever the others crashed.
THEOREM MetaStaysLastOpened == MetaSpec => []MetaIsLastOpened
<1>1. MetaInv => MetaIsLastOpened
  BY DEF MetaInv
<1> QED BY <1>1, MetaInvariant, PTL

\* However many constructions overlap and crash, it takes one that finished and
\* another that did not to leave a torn _meta.json.
THEOREM TornTakesTwo == MetaSpec => []TornNeedsOverlap
<1>1. MetaInv => TornNeedsOverlap
  BY DEF MetaInv
<1> QED BY <1>1, MetaInvariant, PTL

\* A strict construction that overlaps no other never moves a store to another
\* configuration.
THEOREM StrictIsStrict == MetaSpec => StrictNeverRebrands
<1>1. MetaInv /\ [MetaNext]_metaVars =>
        [\A w \in Writers :
            (~overlapped /\ strict[w] /\ pc[w] = "replace" /\ pc'[w] = "opened" /\ opened # NoFile)
              => opened = want[w]]_metaVars
  BY DEF MetaInv, OneAtATime
<1> QED BY <1>1, MetaInvariant, PTL DEF MetaSpec, StrictNeverRebrands
=============================================================================
