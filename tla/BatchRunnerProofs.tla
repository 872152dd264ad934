-------------------------- MODULE BatchRunnerProofs --------------------------
(***************************************************************************)
(* An inference call makes one request for each row that is not null and   *)
(* shows in every row what became of its own, and it asks for nobody who   *)
(* shares a prefix before the first reply: for every column, set of        *)
(* prompts, strategy and window.                                           *)
(***************************************************************************)
EXTENDS BatchRunner, FiniteSetTheorems, FunctionTheorems, TLAPS
-----------------------------------------------------------------------------
(***************************************************************************)
(* The inductive invariant.  Neither of the two properties is inductive:   *)
(* both take that a row is in one place at a time, in a group still to be  *)
(* sent, in the group in hand or among the results, and what each of the   *)
(* places says of the row's request.                                       *)
(***************************************************************************)
Results == {Null} \cup [row : Rows, text : {"answer", "error"}]
SlotStates == {"waiting", "sent"} \cup Outcomes

OneToOne(f) == \A p, q \in DOMAIN f : f[p] = f[q] => p = q

\* What grouping gives, whatever the column: each row that is not null once, and
\* in a group that is warmed rows that share a prefix.
GroupsPartition ==
    /\ \A g \in Groups : g \in Seq(Indices) /\ OneToOne(g)
    /\ \A g, h \in Groups : \A p \in DOMAIN g, q \in DOMAIN h : g[p] = h[q] => g = h
    /\ \A n \in Indices : \E g \in Groups : \E p \in DOMAIN g : g[p] = n
    /\ call.caching # "off" =>
          \A g \in Groups : \A p, q \in DOMAIN g :
              p # q => SharePrefix(Live[g[p]], Live[g[q]])

Typed ==
    /\ column \in Columns
    /\ call \in [schema : BOOLEAN, caching : Strategies, setting : Settings]
    /\ groups \subseteq Groups
    /\ group = <<>> \/ group \in Groups \ groups
    /\ slots \in [DOMAIN group -> SlotStates]
    /\ collected \in Seq(Indices \X Results)
    /\ asked \in [Rows -> Nat]
    /\ became \in [Rows -> Outcomes \cup {"nothing"}]

Pending(n) == \E g \in groups : \E p \in DOMAIN g : g[p] = n
InHand(n) == \E p \in DOMAIN group : group[p] = n
Collected(n) == \E j \in DOMAIN collected : collected[j][1] = n

\* Every index is in one place.
Placed ==
    /\ \A n \in Indices : Pending(n) \/ InHand(n) \/ Collected(n)
    /\ \A n \in Indices : Collected(n) => ~Pending(n) /\ ~InHand(n)
    /\ \A j, k \in DOMAIN collected : collected[j][1] = collected[k][1] => j = k

State(i, requests, outcome) == asked[i] = requests /\ became[i] = outcome
Untouched(i) == State(i, 0, "nothing")

SlotTrue(p) ==
    LET i == Live[group[p]]
    IN CASE slots[p] = "waiting" -> Untouched(i)
         [] slots[p] = "sent"    -> State(i, 1, "nothing")
         [] OTHER                -> State(i, 1, slots[p])

CollectedTrue(j) ==
    LET i == Live[collected[j][1]]
    IN /\ asked[i] = 1 /\ became[i] \in Outcomes
       /\ collected[j][2] \in Promise!Shows(i, became[i])

\* Where an index is tells what became of its row.
RowsTrue ==
    /\ \A i \in Rows : column[i] = Null => Untouched(i)
    /\ \A n \in Indices : Pending(n) => Untouched(Live[n])
    /\ \A p \in DOMAIN group : SlotTrue(p)
    /\ \A j \in DOMAIN collected : CollectedTrue(j)

Warmed == Warming => \A p \in DOMAIN slots : slots[p] # "waiting" => p = 1 \/ Over(1)

BatchInv == Typed /\ Placed /\ RowsTrue /\ Warmed
-----------------------------------------------------------------------------
(***************************************************************************)
(* Sorted numbers the elements of a set, each once.                        *)
(***************************************************************************)
LEMMA SortedEnumerates ==
    ASSUME NEW S \in SUBSET Nat, IsFiniteSet(S)
    PROVE  /\ Cardinality(S) \in Nat
           /\ Sorted(S) \in [1 .. Cardinality(S) -> S]
           /\ Sorted(S) \in Seq(S)
           /\ OneToOne(Sorted(S))
           /\ \A i \in S : \E n \in DOMAIN Sorted(S) : Sorted(S)[n] = i
<1> DEFINE Below(i) == {j \in S : j < i}
           place == [i \in S |-> Cardinality(Below(i)) + 1]
           size == Cardinality(S)
<1>1. size \in Nat
    BY FS_CardinalityType
<1>2. ASSUME NEW i \in S
      PROVE  IsFiniteSet(Below(i)) /\ Cardinality(Below(i)) \in Nat /\ Cardinality(Below(i)) < size
  <2>1. Below(i) \in SUBSET (S \ {i})
    OBVIOUS
  <2>2. IsFiniteSet(S \ {i}) /\ Cardinality(S \ {i}) = size - 1
    BY FS_RemoveElement
  <2> HIDE DEF Below, size
  <2>3. IsFiniteSet(Below(i)) /\ Cardinality(Below(i)) <= size - 1
    BY <2>1, <2>2, FS_Subset
  <2> QED
    BY <1>1, <2>3, FS_CardinalityType
<1>3. ASSUME NEW i \in S, NEW j \in S, i < j
      PROVE  Cardinality(Below(i)) < Cardinality(Below(j))
  <2>1. i \in Int /\ j \in Int /\ \A k \in S : k \in Int
    OBVIOUS
  <2>2. \A k \in S : k < i => k < j /\ k # i
    BY <1>3, <2>1
  <2>3. Below(i) \in SUBSET (Below(j) \ {i}) /\ i \in Below(j)
    BY <1>3, <2>2
  <2> HIDE DEF Below
  <2>4. IsFiniteSet(Below(j) \ {i}) /\ Cardinality(Below(j) \ {i}) = Cardinality(Below(j)) - 1
    BY <1>2, <2>3, FS_RemoveElement
  <2>5. Cardinality(Below(i)) <= Cardinality(Below(j)) - 1
    BY <2>3, <2>4, FS_Subset
  <2> QED
    BY <1>2, <2>5
<1>4. \A i \in S : place[i] \in 1 .. size
  <2> TAKE i \in S
  <2>1. place[i] = Cardinality(Below(i)) + 1
    OBVIOUS
  <2> HIDE DEF place, Below, size
  <2> QED
    BY <1>1, <1>2, <2>1
<1>5. \A i, j \in S : place[i] = place[j] => i = j
  <2> SUFFICES ASSUME NEW i \in S, NEW j \in S, place[i] = place[j]
               PROVE  i = j
    OBVIOUS
  <2>1. place[i] = Cardinality(Below(i)) + 1 /\ place[j] = Cardinality(Below(j)) + 1
    OBVIOUS
  <2> HIDE DEF place, Below
  <2>2. Cardinality(Below(i)) = Cardinality(Below(j))
    <3>1. Cardinality(Below(i)) \in Nat /\ Cardinality(Below(j)) \in Nat
      BY <1>2
    <3>2. Cardinality(Below(i)) + 1 = Cardinality(Below(j)) + 1
      BY <2>1
    <3> QED
      BY <3>1, <3>2
  <2>3. ~(i < j) /\ ~(j < i)
    BY <1>2, <1>3, <2>2
  <2>4. i \in Int /\ j \in Int
    OBVIOUS
  <2> QED
    BY <2>3, <2>4
<1>6. \A n \in 1 .. size : \E i \in S : place[i] = n
  <2> DEFINE taken == {place[i] : i \in S}
  <2>1. place \in Injection(S, taken) /\ place \in Surjection(S, taken)
    BY <1>5 DEF Injection, IsInjective, Surjection
  <2> HIDE DEF place
  <2>2. IsFiniteSet(taken) /\ Cardinality(taken) = size
    <3> HIDE DEF taken
    <3> QED
      BY <2>1, FS_Surjection
  <2>3. IsFiniteSet(1 .. size) /\ Cardinality(1 .. size) = size
    BY <1>1, FS_Interval
  <2>4. taken \in SUBSET (1 .. size)
    BY <1>4
  <2>5. taken = 1 .. size
    <3> HIDE DEF taken, size
    <3> QED
      BY <2>2, <2>3, <2>4, FS_Subset
  <2> QED
    BY <2>5
<1>7. \A n \in 1 .. size : Sorted(S)[n] \in S /\ place[Sorted(S)[n]] = n
  <2> TAKE n \in 1 .. size
  <2>1. PICK i \in S : place[i] = n
    BY <1>6
  <2>2. Cardinality(Below(i)) = n - 1
    <3>1. place[i] = Cardinality(Below(i)) + 1
      OBVIOUS
    <3> HIDE DEF place, Below
    <3> QED
      BY <1>2, <2>1, <3>1
  <2>3. Sorted(S)[n] = CHOOSE k \in S : Cardinality(Below(k)) = n - 1
    BY DEF Sorted
  <2>4. Sorted(S)[n] \in S /\ Cardinality(Below(Sorted(S)[n])) = n - 1
    <3> HIDE DEF Below
    <3> QED
      BY <2>2, <2>3
  <2>5. place[Sorted(S)[n]] = Cardinality(Below(Sorted(S)[n])) + 1
    BY <2>4
  <2> HIDE DEF place, Below
  <2> QED
    BY <1>1, <2>4, <2>5
<1>8. DOMAIN Sorted(S) = 1 .. size /\ Sorted(S) = [n \in 1 .. size |-> Sorted(S)[n]]
  <2> DEFINE Pick(n) == CHOOSE i \in S : Cardinality({j \in S : j < i}) = n - 1
  <2>1. Sorted(S) = [n \in 1 .. size |-> Pick(n)]
    BY DEF Sorted
  <2> HIDE DEF Pick
  <2> QED
    BY <2>1
<1> HIDE DEF place, size
<1>9. Sorted(S) \in [1 .. size -> S]
    BY <1>7, <1>8
<1>10. \A i \in S : \E n \in DOMAIN Sorted(S) : Sorted(S)[n] = i
    BY <1>4, <1>5, <1>7, <1>8
<1>11. OneToOne(Sorted(S))
    BY <1>7, <1>8 DEF OneToOne
<1>12. Sorted(S) \in Seq(S)
    BY <1>1, <1>9
<1> QED
    BY <1>1, <1>9, <1>10, <1>11, <1>12 DEF size
-----------------------------------------------------------------------------
(***************************************************************************)
(* Rows, indices and groups.                                               *)
(***************************************************************************)
LEMMA RowsAre ==
    ASSUME column \in Columns
    PROVE  Len(column) \in Nat /\ Rows = 1 .. Len(column) /\ IsFiniteSet(Rows)
<1>1. Len(column) \in Nat /\ Rows = 1 .. Len(column)
    BY BatchRunnerAssumption DEF Rows
<1> QED
    BY <1>1, FS_Interval

LEMMA LiveIs ==
    ASSUME column \in Columns
    PROVE  /\ \E size \in Nat : Indices = 1 .. size
           /\ \A n \in Indices : Live[n] \in Rows /\ column[Live[n]] # Null
           /\ \A n, m \in Indices : Live[n] = Live[m] => n = m
           /\ \A i \in Rows : column[i] # Null => \E n \in Indices : Live[n] = i
<1> DEFINE S == {i \in Rows : column[i] # Null}
<1>1. S \in SUBSET Nat /\ S \in SUBSET Rows
    BY RowsAre
<1>2. IsFiniteSet(S)
  <2> HIDE DEF S
  <2> QED
    BY <1>1, RowsAre, FS_Subset
<1>3. Live = Sorted(S)
    BY DEF Live
<1>4. /\ Cardinality(S) \in Nat /\ Live \in [1 .. Cardinality(S) -> S] /\ OneToOne(Live)
      /\ \A i \in S : \E n \in DOMAIN Live : Live[n] = i
  <2> HIDE DEF S
  <2> QED
    BY <1>1, <1>2, <1>3, SortedEnumerates
<1>5. \A n \in Indices : Live[n] \in S
    BY <1>4 DEF Indices
<1> QED
    BY <1>4, <1>5 DEF Indices, OneToOne

\* The column and the call never change, and with them what follows from them.
LEMMA GivenOnce ==
    ASSUME column' = column, call' = call
    PROVE  /\ Rows' = Rows /\ Live' = Live /\ Indices' = Indices /\ Groups' = Groups
           /\ Results' = Results
           /\ \A i, outcome : Promise!Shows(i, outcome)' = Promise!Shows(i, outcome)
BY DEF Rows, Live, Indices, Groups, Whole, Group, PromptOf, Results, Promise!Shows, Promise!Text

LEMMA GroupIs ==
    ASSUME column \in Columns, call.caching = "system_prompt", NEW n \in Indices
    PROVE  /\ Group(n) \in Seq(Indices) /\ OneToOne(Group(n))
           /\ \E p \in DOMAIN Group(n) : Group(n)[p] = n
           /\ \A p \in DOMAIN Group(n) : Group(Group(n)[p]) = Group(n)
           /\ \A p, q \in DOMAIN Group(n) :
                 p # q => SharePrefix(Live[Group(n)[p]], Live[Group(n)[q]])
<1>1. CASE PromptOf(n) \in Cacheable
  <2> DEFINE S == {m \in Indices : PromptOf(m) = PromptOf(n)}
  <2>1. S \in SUBSET Indices /\ S \in SUBSET Nat /\ IsFiniteSet(Indices) /\ n \in S
    <3>1. PICK size \in Nat : Indices = 1 .. size
      BY LiveIs
    <3>2. IsFiniteSet(Indices)
      BY <3>1, FS_Interval
    <3> QED
      BY <3>1, <3>2
  <2>2. Group(n) = Sorted(S)
    BY <1>1 DEF Group
  <2>3. \A m \in S : Group(m) = Sorted(S)
    BY <1>1 DEF Group
  <2>4. /\ Cardinality(S) \in Nat /\ Sorted(S) \in [1 .. Cardinality(S) -> S] /\ OneToOne(Sorted(S)) /\ \A p \in DOMAIN Sorted(S) : Sorted(S)[p] \in S
        /\ \A i \in S : \E p \in DOMAIN Sorted(S) : Sorted(S)[p] = i
    <3> HIDE DEF S
    <3>1. IsFiniteSet(S)
      BY <2>1, FS_Subset
    <3> QED
      BY <2>1, <3>1, SortedEnumerates
  <2>5. Sorted(S) \in Seq(Indices)
    <3> HIDE DEF S
    <3>1. Sorted(S) \in [1 .. Cardinality(S) -> Indices]
      BY <2>1, <2>4
    <3> QED
      BY <2>4, <3>1
  <2>6. \A m, k \in S : SharePrefix(Live[m], Live[k])
    BY <1>1 DEF SharePrefix, PromptOf
  <2> HIDE DEF S
  <2> QED
    BY <2>1, <2>2, <2>3, <2>4, <2>5, <2>6
<1>2. CASE PromptOf(n) \notin Cacheable
  <2>1. Group(n) = <<n>>
    BY <1>2 DEF Group
  <2> QED
    BY <2>1 DEF OneToOne
<1> QED
    BY <1>1, <1>2

LEMMA GroupsAre ==
    ASSUME column \in Columns, call \in [schema : BOOLEAN, caching : Strategies, setting : Settings]
    PROVE  GroupsPartition
<1>1. CASE call.caching \in {"off", "schema"}
  <2>1. Groups = {Whole}
    BY <1>1 DEF Groups
  <2>2. PICK size \in Nat : Indices = 1 .. size
    BY LiveIs
  <2>3. Whole \in Seq(Indices) /\ DOMAIN Whole = Indices /\ \A n \in Indices : Whole[n] = n
    BY <2>2 DEF Whole
  <2>4. call.caching # "off" => \A n, m \in Indices : SharePrefix(Live[n], Live[m])
    BY <1>1, LiveIs DEF SharePrefix
  <2> QED
    BY <2>1, <2>3, <2>4 DEF GroupsPartition, OneToOne
<1>2. CASE call.caching = "none"
  <2>1. Groups = {<<n>> : n \in Indices}
    BY <1>2 DEF Groups
  <2>2. ASSUME NEW n \in Indices
        PROVE  /\ <<n>> \in Seq(Indices) /\ OneToOne(<<n>>) /\ DOMAIN <<n>> = {1} /\ <<n>>[1] = n
               /\ \E p \in DOMAIN <<n>> : <<n>>[p] = n
    BY DEF OneToOne
  <2>3. \A g \in Groups : \E n \in Indices : g = <<n>>
    BY <2>1
  <2>4. \A n \in Indices : <<n>> \in Groups
    BY <2>1
  <2> HIDE DEF Groups
  <2>5. ASSUME NEW g \in Groups
        PROVE  g \in Seq(Indices) /\ OneToOne(g) /\ DOMAIN g = {1} /\ g = <<g[1]>>
    <3>1. PICK n \in Indices : g = <<n>>
      BY <2>3
    <3>2. <<n>> \in Seq(Indices) /\ OneToOne(<<n>>) /\ DOMAIN <<n>> = {1} /\ <<n>>[1] = n
      BY <2>2
    <3> QED
      BY <3>1, <3>2
  <2>6. \A n \in Indices : \E g \in Groups : \E p \in DOMAIN g : g[p] = n
    BY <2>2, <2>4
  <2> QED
    BY <2>5, <2>6 DEF GroupsPartition
<1>3. CASE call.caching = "system_prompt"
  <2>1. Groups = {Group(n) : n \in Indices}
    BY <1>3 DEF Groups
  <2>2. ASSUME NEW n \in Indices, NEW m \in Indices,
               NEW p \in DOMAIN Group(n), NEW q \in DOMAIN Group(m), Group(n)[p] = Group(m)[q]
        PROVE  Group(n) = Group(m)
    BY <1>3, <2>2, GroupIs
  <2>3. \A g, h \in Groups : \A p \in DOMAIN g, q \in DOMAIN h : g[p] = h[q] => g = h
    BY <2>1, <2>2
  <2>4. \A g \in Groups : g \in Seq(Indices) /\ OneToOne(g)
    BY <1>3, <2>1, GroupIs
  <2>5. \A n \in Indices : \E g \in Groups : \E p \in DOMAIN g : g[p] = n
    BY <1>3, <2>1, GroupIs
  <2>6. \A g \in Groups : \A p, q \in DOMAIN g : p # q => SharePrefix(Live[g[p]], Live[g[q]])
    BY <1>3, <2>1, GroupIs
  <2> QED
    BY <2>3, <2>4, <2>5, <2>6 DEF GroupsPartition
<1> QED
    BY <1>1, <1>2, <1>3, BatchRunnerAssumption
-----------------------------------------------------------------------------
(***************************************************************************)
(* The steps.                                                              *)
(***************************************************************************)
\* What is in hand is nowhere else.
LEMMA InHandOnly ==
    ASSUME Typed, Placed, NEW p \in DOMAIN group
    PROVE  /\ group \in Groups /\ group \in Seq(Indices) /\ group[p] \in Indices
           /\ ~Pending(group[p]) /\ ~Collected(group[p])
           /\ \A q \in DOMAIN group : group[q] = group[p] => q = p
           /\ Live[group[p]] \in Rows /\ column[Live[group[p]]] # Null
           /\ \A m \in Indices : Live[m] = Live[group[p]] => m = group[p]
<1>1. GroupsPartition
    BY GroupsAre DEF Typed
<1>2. group \in Groups /\ group \notin groups /\ groups \subseteq Groups
    BY DEF Typed
<1>3. group \in Seq(Indices) /\ OneToOne(group)
    BY <1>1, <1>2 DEF GroupsPartition
<1>4. group[p] \in Indices
    BY <1>3
<1>5. ~Pending(group[p])
    BY <1>1, <1>2 DEF GroupsPartition, Pending
<1>6. ~Collected(group[p])
    BY <1>4 DEF Placed, InHand
<1>7. /\ Live[group[p]] \in Rows /\ column[Live[group[p]]] # Null
      /\ \A m \in Indices : Live[m] = Live[group[p]] => m = group[p]
    BY <1>4, LiveIs DEF Typed
<1> QED
    BY <1>2, <1>3, <1>4, <1>5, <1>6, <1>7 DEF OneToOne

LEMMA CollectedIs ==
    ASSUME Typed, NEW j \in DOMAIN collected
    PROVE  /\ collected[j][1] \in Indices /\ collected[j][2] \in Results
           /\ Live[collected[j][1]] \in Rows
<1>1. collected[j] \in Indices \X Results
    BY DEF Typed
<1> QED
    BY <1>1, LiveIs DEF Typed

\* A step that concerns the n-th row in hand alone.
LEMMA OneRowMoves ==
    ASSUME Typed, Placed, RowsTrue, NEW n \in DOMAIN group,
           column' = column, call' = call, groups' = groups, group' = group, collected' = collected,
           slots' \in [DOMAIN group -> SlotStates],
           \A p \in DOMAIN group \ {n} : slots'[p] = slots[p],
           asked' \in [Rows -> Nat], became' \in [Rows -> Outcomes \cup {"nothing"}],
           \A i \in Rows \ {Live[group[n]]} : asked'[i] = asked[i] /\ became'[i] = became[i],
           SlotTrue(n)'
    PROVE  Typed' /\ Placed' /\ RowsTrue'
<1>1. /\ Rows' = Rows /\ Live' = Live /\ Indices' = Indices /\ Groups' = Groups /\ Results' = Results
      /\ \A i, outcome : Promise!Shows(i, outcome)' = Promise!Shows(i, outcome)
    BY GivenOnce
<1>2. Typed'
    BY <1>1 DEF Typed, SlotStates, Outcomes
<1>3. Placed'
    BY <1>1 DEF Placed, Pending, InHand, Collected
<1>4. /\ ~Pending(group[n]) /\ ~Collected(group[n]) /\ group[n] \in Indices
      /\ \A q \in DOMAIN group : group[q] = group[n] => q = n
      /\ Live[group[n]] \in Rows /\ column[Live[group[n]]] # Null
      /\ \A m \in Indices : Live[m] = Live[group[n]] => m = group[n]
    BY InHandOnly
<1>5. \A i \in Rows : column[i] = Null => Untouched(i)'
    BY <1>4 DEF RowsTrue, Untouched, State
<1>6. \A m \in Indices : Pending(m) => Untouched(Live[m])'
  <2> TAKE m \in Indices
  <2>1. Live[m] \in Rows
    BY LiveIs DEF Typed
  <2> QED
    BY <1>1, <1>4, <2>1 DEF RowsTrue, Untouched, State
<1>7. ASSUME NEW p \in DOMAIN group
      PROVE  SlotTrue(p)'
  <2>1. CASE p = n
    BY <2>1
  <2>2. CASE p # n
    <3>1. group[p] \in Indices /\ Live[group[p]] \in Rows /\ Live[group[p]] # Live[group[n]]
      BY <1>4, <2>2, InHandOnly
    <3>2. SlotTrue(p)
      BY DEF RowsTrue
    <3> QED
      BY <1>1, <2>2, <3>1, <3>2 DEF SlotTrue, Untouched, State
  <2> QED
    BY <2>1, <2>2
<1>8. ASSUME NEW j \in DOMAIN collected
      PROVE  CollectedTrue(j)'
  <2>1. collected[j][1] \in Indices /\ Live[collected[j][1]] \in Rows
    BY CollectedIs
  <2>2. Live[collected[j][1]] # Live[group[n]]
    BY <1>4, <2>1 DEF Collected
  <2>3. CollectedTrue(j)
    BY DEF RowsTrue
  <2> QED
    BY <1>1, <2>1, <2>2, <2>3 DEF CollectedTrue, Outcomes
<1>9. \A m : Pending(m)' <=> Pending(m)
    BY DEF Pending
<1>10. RowsTrue'
    BY <1>1, <1>5, <1>6, <1>7, <1>8, <1>9 DEF RowsTrue
<1> QED
    BY <1>2, <1>3, <1>10

LEMMA SendStep ==
    ASSUME BatchInv, NEW n \in DOMAIN slots, Send(n)
    PROVE  BatchInv' /\ Promise!Ask(Live[group[n]])
<1> DEFINE i == Live[group[n]]
<1>1. Typed /\ Placed /\ RowsTrue /\ Warmed /\ DOMAIN slots = DOMAIN group /\ n \in DOMAIN group
    BY DEF BatchInv, Typed
<1>2. i \in Rows /\ column[i] # Null
    BY <1>1, InHandOnly
<1>3. SlotTrue(n) /\ slots[n] = "waiting"
    BY <1>1 DEF RowsTrue, Send
<1>4. asked[i] = 0 /\ became[i] = "nothing"
    BY <1>3 DEF SlotTrue, Untouched, State
<1>5. /\ slots' = [slots EXCEPT ![n] = "sent"]
      /\ asked' = [asked EXCEPT ![i] = @ + 1]
      /\ column' = column /\ call' = call /\ groups' = groups /\ group' = group
      /\ collected' = collected /\ out' = out /\ became' = became
    BY DEF Send
<1>6. Rows' = Rows /\ Live' = Live /\ Indices' = Indices
    BY <1>5, GivenOnce
<1> HIDE DEF i
<1>7. /\ slots \in [DOMAIN group -> SlotStates] /\ asked \in [Rows -> Nat]
      /\ became \in [Rows -> Outcomes \cup {"nothing"}]
    BY <1>1 DEF Typed
<1>8. /\ slots' \in [DOMAIN group -> SlotStates] /\ slots'[n] = "sent"
      /\ \A p \in DOMAIN group \ {n} : slots'[p] = slots[p]
    BY <1>1, <1>5, <1>7 DEF SlotStates
<1>9. /\ asked' \in [Rows -> Nat] /\ asked'[i] = 1 /\ asked' = [asked EXCEPT ![i] = 1]
      /\ \A k \in Rows \ {i} : asked'[k] = asked[k]
    BY <1>2, <1>4, <1>5, <1>7
<1>10. SlotTrue(n)'
    BY <1>4, <1>5, <1>6, <1>8, <1>9 DEF SlotTrue, State, i
<1>11. Typed' /\ Placed' /\ RowsTrue'
    BY <1>1, <1>5, <1>7, <1>8, <1>9, <1>10, OneRowMoves DEF i
<1>12. Warmed'
  <2> SUFFICES ASSUME Warming', NEW p \in DOMAIN group, slots'[p] # "waiting", p # 1
               PROVE  slots'[1] \in Outcomes
    BY <1>5, <1>8 DEF Warmed, Over
  <2>1. Warming
    BY <1>5 DEF Warming
  <2>2. n = 1 \/ slots[1] \in Outcomes
    BY <2>1 DEF Send, AfterFirst, Over
  <2>3. n # 1
    <3> SUFFICES ASSUME n = 1
                 PROVE  FALSE
      OBVIOUS
    <3>1. slots[p] # "waiting"
      BY <1>8
    <3>2. slots[1] \in Outcomes
      BY <1>1, <2>1, <3>1 DEF Warmed, Over
    <3> QED
      BY <1>3, <3>2 DEF Outcomes
  <2>4. 1 \in DOMAIN group
    <3>1. group \in Seq(Indices)
      BY <1>1, InHandOnly
    <3> QED
      BY <2>1, <3>1 DEF Warming
  <2> QED
    BY <1>8, <2>2, <2>3, <2>4
<1>13. Promise!Ask(i)
    BY <1>2, <1>4, <1>5, <1>9 DEF Promise!Ask
<1> QED
    BY <1>11, <1>12, <1>13 DEF BatchInv, i

LEMMA ReplyStep ==
    ASSUME BatchInv, NEW n \in DOMAIN slots, Reply(n)
    PROVE  BatchInv' /\ Promise!Reply(Live[group[n]])
<1> DEFINE i == Live[group[n]]
<1>1. Typed /\ Placed /\ RowsTrue /\ Warmed /\ DOMAIN slots = DOMAIN group /\ n \in DOMAIN group
    BY DEF BatchInv, Typed
<1>2. i \in Rows /\ column[i] # Null
    BY <1>1, InHandOnly
<1>3. SlotTrue(n) /\ slots[n] = "sent"
    BY <1>1 DEF RowsTrue, Reply
<1>4. asked[i] = 1 /\ became[i] = "nothing"
    BY <1>3 DEF SlotTrue, State
<1>5. PICK outcome \in Outcomes : /\ slots' = [slots EXCEPT ![n] = outcome]
                                  /\ became' = [became EXCEPT ![i] = outcome]
    BY DEF Reply
<1>6. /\ column' = column /\ call' = call /\ groups' = groups /\ group' = group
      /\ collected' = collected /\ out' = out /\ asked' = asked
    BY DEF Reply
<1>7. Rows' = Rows /\ Live' = Live /\ Indices' = Indices
    BY <1>6, GivenOnce
<1> HIDE DEF i
<1>8. /\ slots \in [DOMAIN group -> SlotStates] /\ asked \in [Rows -> Nat]
      /\ became \in [Rows -> Outcomes \cup {"nothing"}]
    BY <1>1 DEF Typed
<1>9. /\ slots' \in [DOMAIN group -> SlotStates] /\ slots'[n] = outcome
      /\ \A p \in DOMAIN group \ {n} : slots'[p] = slots[p]
    BY <1>1, <1>5, <1>8 DEF SlotStates
<1>10. /\ became' \in [Rows -> Outcomes \cup {"nothing"}] /\ became'[i] = outcome
       /\ \A k \in Rows \ {i} : became'[k] = became[k]
    BY <1>2, <1>5, <1>8
<1>11. SlotTrue(n)'
    BY <1>4, <1>6, <1>7, <1>9, <1>10 DEF SlotTrue, State, Outcomes, i
<1>12. Typed' /\ Placed' /\ RowsTrue'
    BY <1>1, <1>6, <1>8, <1>9, <1>10, <1>11, OneRowMoves DEF i
<1>13. Warmed'
  <2> SUFFICES ASSUME Warming', NEW p \in DOMAIN group, slots'[p] # "waiting", p # 1
               PROVE  slots'[1] \in Outcomes
    BY <1>6, <1>9 DEF Warmed, Over
  <2>1. Warming
    BY <1>6 DEF Warming
  <2>2. slots[p] # "waiting"
    BY <1>3, <1>9
  <2>3. slots[1] \in Outcomes
    BY <1>1, <2>1, <2>2 DEF Warmed, Over
  <2>4. 1 \in DOMAIN group
    <3>1. group \in Seq(Indices)
      BY <1>1, InHandOnly
    <3> QED
      BY <2>1, <3>1 DEF Warming
  <2> QED
    BY <1>9, <2>3, <2>4
<1>14. Promise!Reply(i)
    BY <1>4, <1>5, <1>6 DEF Promise!Reply, Outcomes, Promise!Outcomes
<1> QED
    BY <1>12, <1>13, <1>14 DEF BatchInv, i

LEMMA NextGroupStep ==
    ASSUME BatchInv, NextGroup
    PROVE  BatchInv'
<1>1. Typed /\ Placed /\ RowsTrue /\ group = <<>>
    BY DEF BatchInv, NextGroup
<1>2. PICK g \in groups : /\ groups' = groups \ {g} /\ group' = g
                          /\ slots' = [n \in DOMAIN g |-> "waiting"]
    BY DEF NextGroup
<1>3. /\ column' = column /\ call' = call /\ collected' = collected
      /\ asked' = asked /\ became' = became
    BY DEF NextGroup
<1>4. /\ Rows' = Rows /\ Live' = Live /\ Indices' = Indices /\ Groups' = Groups /\ Results' = Results
      /\ \A i, outcome : Promise!Shows(i, outcome)' = Promise!Shows(i, outcome)
    BY <1>3, GivenOnce
<1>5. Typed'
  <2>1. groups' \subseteq Groups /\ group' \in Groups \ groups'
    BY <1>1, <1>2 DEF Typed
  <2>2. slots' \in [DOMAIN group' -> SlotStates]
    BY <1>2 DEF SlotStates
  <2> QED
    BY <1>1, <1>3, <1>4, <2>1, <2>2 DEF Typed, SlotStates, Outcomes
<1>6. GroupsPartition
    BY <1>1, GroupsAre DEF Typed
<1>7. \A p \in DOMAIN g : Pending(g[p]) /\ g[p] \in Indices
  <2>1. g \in Seq(Indices)
    BY <1>1, <1>2, <1>6 DEF Typed, GroupsPartition
  <2> QED
    BY <2>1 DEF Pending
<1>8. \A n : Collected(n)' <=> Collected(n)
    BY <1>3 DEF Collected
<1>9. \A n \in Indices : Pending(n) => Pending(n)' \/ InHand(n)'
    BY <1>2 DEF Pending, InHand
<1>10. \A n \in Indices : Pending(n)' \/ InHand(n)' => Pending(n)
    BY <1>2 DEF Pending, InHand
<1>11. \A n \in Indices : ~InHand(n)
    BY <1>1 DEF InHand
<1>12. Placed'
    BY <1>1, <1>3, <1>4, <1>8, <1>9, <1>10, <1>11 DEF Placed
<1>13. \A i : Untouched(i)' <=> Untouched(i)
    BY <1>3 DEF Untouched, State
<1>14. \A p \in DOMAIN group' : SlotTrue(p)'
  <2> TAKE p \in DOMAIN group'
  <2>1. slots'[p] = "waiting" /\ group'[p] = g[p] /\ Untouched(Live[g[p]])
    BY <1>1, <1>2, <1>7 DEF RowsTrue
  <2> QED
    BY <1>4, <1>13, <2>1 DEF SlotTrue
<1>15. \A j \in DOMAIN collected : CollectedTrue(j)'
    BY <1>1, <1>3, <1>4 DEF RowsTrue, CollectedTrue, Outcomes
<1>16. RowsTrue'
    BY <1>1, <1>3, <1>4, <1>10, <1>13, <1>14, <1>15 DEF RowsTrue
<1>17. Warmed'
    BY <1>2 DEF Warmed
<1> QED
    BY <1>5, <1>12, <1>16, <1>17 DEF BatchInv

\* A result is one the promise allows for what became of the row.
LEMMA ResultShows ==
    ASSUME Typed, Placed, NEW p \in DOMAIN group, Over(p)
    PROVE  Result(p) \in Results /\ Result(p) \in Promise!Shows(Live[group[p]], slots[p])
<1>1. Live[group[p]] \in Rows
    BY InHandOnly
<1>2. slots[p] \in {"answered", "invalid", "failed"}
    BY DEF Over, Outcomes
<1> QED
    BY <1>1, <1>2 DEF Result, Results, Promise!Shows, Promise!Text, Warming

LEMMA CollectStep ==
    ASSUME BatchInv, Collect
    PROVE  BatchInv'
<1> DEFINE more == [n \in DOMAIN group |-> <<group[n], Result(n)>>]
           L == Len(collected)
<1>1. Typed /\ Placed /\ RowsTrue /\ group # <<>> /\ DOMAIN slots = DOMAIN group
    BY DEF BatchInv, Collect, Typed
<1>2. /\ collected' = collected \o more /\ group' = <<>> /\ slots' = <<>>
      /\ column' = column /\ call' = call /\ groups' = groups
      /\ asked' = asked /\ became' = became
    BY DEF Collect
<1>3. /\ Rows' = Rows /\ Live' = Live /\ Indices' = Indices /\ Groups' = Groups /\ Results' = Results
      /\ \A i, outcome : Promise!Shows(i, outcome)' = Promise!Shows(i, outcome)
    BY <1>2, GivenOnce
<1>4. \A n \in DOMAIN group : Over(n)
    BY <1>1 DEF Collect, AllOver
<1>5. group \in Seq(Indices) /\ OneToOne(group) /\ group \notin groups
    BY <1>1, GroupsAre DEF Typed, GroupsPartition
<1>6. /\ more \in Seq(Indices \X Results) /\ DOMAIN more = DOMAIN group
      /\ \A n \in DOMAIN group : more[n][1] = group[n] /\ more[n][2] = Result(n)
  <2>1. \A n \in DOMAIN group : <<group[n], Result(n)>> \in Indices \X Results
    BY <1>1, <1>4, <1>5, ResultShows
  <2>2. Len(group) \in Nat /\ DOMAIN group = 1 .. Len(group)
    BY <1>5
  <2>3. more \in [1 .. Len(group) -> Indices \X Results]
    BY <2>1, <2>2
  <2>4. \A n \in DOMAIN group : more[n][1] = group[n] /\ more[n][2] = Result(n)
    OBVIOUS
  <2> QED
    BY <2>2, <2>3, <2>4
<1> HIDE DEF more, L
<1>7. collected \in Seq(Indices \X Results)
    BY <1>1 DEF Typed
<1>8. /\ collected' \in Seq(Indices \X Results)
      /\ \A j \in DOMAIN collected : j \in DOMAIN collected' /\ collected'[j] = collected[j]
      /\ \A n \in DOMAIN group : L + n \in DOMAIN collected' /\ collected'[L + n] = more[n]
      /\ \A j \in DOMAIN collected' : \/ j \in DOMAIN collected
                                     \/ \E n \in DOMAIN group : j = L + n
  <2>1. L \in Nat /\ DOMAIN collected = 1 .. L
    BY <1>7 DEF L
  <2>2. Len(more) \in Nat /\ DOMAIN group = 1 .. Len(more)
    BY <1>6
  <2>3. /\ collected' \in Seq(Indices \X Results) /\ DOMAIN collected' = 1 .. L + Len(more)
        /\ \A j \in 1 .. L + Len(more) :
              collected'[j] = IF j <= L THEN collected[j] ELSE more[j - L]
    BY <1>2, <1>6, <1>7, <2>1, <2>2 DEF L
  <2>4. \A j \in DOMAIN collected : j \in 1 .. L + Len(more) /\ j <= L
    BY <2>1, <2>2
  <2>5. ASSUME NEW j \in DOMAIN collected', j \notin DOMAIN collected
        PROVE  \E n \in DOMAIN group : j = L + n
    <3>1. j - L \in 1 .. Len(more) /\ j = L + (j - L)
      BY <2>1, <2>2, <2>3, <2>5
    <3> QED
      BY <2>2, <3>1
  <2>6. \A n \in DOMAIN group : L + n \in DOMAIN collected' /\ collected'[L + n] = more[n]
    <3> TAKE n \in DOMAIN group
    <3> DEFINE k == L + n
    <3>1. k \in 1 .. L + Len(more) /\ ~(k <= L) /\ k - L = n
      BY <2>1, <2>2
    <3> HIDE DEF k
    <3>2. k \in DOMAIN collected' /\ collected'[k] = more[n]
      BY <2>3, <3>1
    <3> QED
      BY <3>2 DEF k
  <2>7. \A j \in DOMAIN collected : j \in DOMAIN collected' /\ collected'[j] = collected[j]
    BY <2>3, <2>4
  <2> QED
    BY <2>3, <2>5, <2>6, <2>7
<1>9. Typed'
    BY <1>1, <1>2, <1>3, <1>8 DEF Typed, SlotStates, Outcomes
<1>10. \A n \in Indices : Collected(n)' <=> Collected(n) \/ InHand(n)
    BY <1>6, <1>8 DEF Collected, InHand
<1>11. \A n \in Indices : ~InHand(n)'
    BY <1>2 DEF InHand
<1>12. \A n : Pending(n)' <=> Pending(n)
    BY <1>2 DEF Pending
<1>13. \A n \in Indices : InHand(n) => ~Pending(n)
    BY <1>1, InHandOnly DEF InHand
<1>14. ASSUME NEW j \in DOMAIN collected', NEW k \in DOMAIN collected', collected'[j][1] = collected'[k][1]
       PROVE  j = k
  <2>1. CASE j \in DOMAIN collected /\ k \in DOMAIN collected
    BY <1>1, <1>8, <1>14, <2>1 DEF Placed
  <2>2. CASE j \notin DOMAIN collected /\ k \notin DOMAIN collected
    <3>1. PICK n \in DOMAIN group, m \in DOMAIN group : j = L + n /\ k = L + m
      BY <1>8, <2>2
    <3>2. group[n] = group[m]
      BY <1>6, <1>8, <1>14, <3>1
    <3> QED
      BY <1>5, <3>1, <3>2 DEF OneToOne
  <2>3. ASSUME NEW a \in DOMAIN collected, NEW n \in DOMAIN group, collected[a][1] = group[n]
        PROVE  FALSE
    BY <1>1, <2>3, InHandOnly DEF Collected
  <2>4. CASE j \in DOMAIN collected /\ k \notin DOMAIN collected
    BY <1>6, <1>8, <1>14, <2>3, <2>4
  <2>5. CASE j \notin DOMAIN collected /\ k \in DOMAIN collected
    BY <1>6, <1>8, <1>14, <2>3, <2>5
  <2> QED
    BY <2>1, <2>2, <2>4, <2>5
<1>15. Placed'
    BY <1>1, <1>3, <1>10, <1>11, <1>12, <1>13, <1>14 DEF Placed
<1>16. ASSUME NEW j \in DOMAIN collected'
       PROVE  CollectedTrue(j)'
  <2>1. CASE j \in DOMAIN collected
    BY <1>1, <1>2, <1>3, <1>8, <2>1 DEF RowsTrue, CollectedTrue, Outcomes
  <2>2. CASE j \notin DOMAIN collected
    <3>1. PICK n \in DOMAIN group : j = L + n
      BY <1>8, <2>2
    <3>2. collected'[j][1] = group[n] /\ collected'[j][2] = Result(n)
      BY <1>6, <1>8, <3>1
    <3>3. slots[n] \in Outcomes
      BY <1>4 DEF Over
    <3>4. asked[Live[group[n]]] = 1 /\ became[Live[group[n]]] = slots[n]
      BY <1>1, <3>3 DEF RowsTrue, SlotTrue, State, Outcomes
    <3>5. Result(n) \in Promise!Shows(Live[group[n]], slots[n])
      BY <1>1, <1>4, ResultShows
    <3> HIDE DEF Outcomes
    <3> QED
      BY <1>2, <1>3, <3>2, <3>3, <3>4, <3>5 DEF CollectedTrue, Outcomes
  <2> QED
    BY <2>1, <2>2
<1>17. RowsTrue'
    BY <1>1, <1>2, <1>3, <1>12, <1>16 DEF RowsTrue, Untouched, State
<1>18. Warmed'
    BY <1>2 DEF Warmed
<1> QED
    BY <1>9, <1>15, <1>17, <1>18 DEF BatchInv
-----------------------------------------------------------------------------
(***************************************************************************)
(* The column that is returned.                                            *)
(***************************************************************************)
\* When every index is among the results, sorting puts each result at its index.
LEMMA InOrderIs ==
    ASSUME Typed, Placed, groups = {}, group = <<>>
    PROVE  /\ DOMAIN InOrder = Indices
           /\ \A j \in DOMAIN collected : InOrder[collected[j][1]] = collected[j][2]
<1> DEFINE D == DOMAIN collected
           c == [j \in D |-> collected[j][1]]
           UpTo(j) == {i \in D : \/ collected[i][1] < collected[j][1]
                                 \/ collected[i][1] = collected[j][1] /\ i <= j}
           Position(j) == Cardinality(UpTo(j))
<1>1. PICK size \in Nat : Indices = 1 .. size
    BY LiveIs DEF Typed
<1>2. Len(collected) \in Nat /\ D = 1 .. Len(collected)
    BY DEF Typed
<1>3. IsFiniteSet(D) /\ Cardinality(D) = Len(collected)
  <2>1. /\ IsFiniteSet(1 .. Len(collected))
        /\ Cardinality(1 .. Len(collected)) = IF 1 > Len(collected) THEN 0 ELSE Len(collected) - 1 + 1
    BY <1>2, FS_Interval
  <2> QED
    BY <1>2, <2>1
<1>4. IsFiniteSet(Indices) /\ Cardinality(Indices) = size
  <2>1. IsFiniteSet(1 .. size) /\ Cardinality(1 .. size) = IF 1 > size THEN 0 ELSE size - 1 + 1
    BY <1>1, FS_Interval
  <2> QED
    BY <1>1, <2>1
<1>5. \A j \in D : collected[j][1] \in Indices
    BY CollectedIs
<1>6. \A j, k \in D : collected[j][1] = collected[k][1] => j = k
    BY DEF Placed
<1>7. \A n \in Indices : \E j \in D : collected[j][1] = n
    BY DEF Placed, Pending, InHand, Collected
<1>8. D = Indices
  <2>1. c \in Injection(D, Indices) /\ c \in Surjection(D, Indices)
    BY <1>5, <1>6, <1>7 DEF Injection, IsInjective, Surjection
  <2> HIDE DEF c, D
  <2>2. Cardinality(Indices) = Cardinality(D)
    BY <1>3, <2>1, FS_Surjection
  <2> QED
    BY <1>1, <1>2, <1>3, <1>4, <2>2
<1>9. ASSUME NEW j \in D
      PROVE  Position(j) = collected[j][1]
  <2> DEFINE n == collected[j][1]
             U == UpTo(j)
             index == [i \in U |-> collected[i][1]]
  <2>1. n \in Nat /\ n \in 1 .. size /\ \A i \in D : collected[i][1] \in Nat /\ collected[i][1] >= 1
    BY <1>1, <1>5
  <2>2. \A i \in D : i \in U <=> collected[i][1] <= n
    <3> TAKE i \in D
    <3>1. i \in Nat /\ j \in Nat
      BY <1>2
    <3>2. collected[i][1] = n => i = j
      BY <1>6
    <3>3. i \in U <=> (collected[i][1] < n \/ (collected[i][1] = n /\ i <= j))
      OBVIOUS
    <3> HIDE DEF U, n, D
    <3> QED
      BY <2>1, <3>1, <3>2, <3>3
  <2>3. U \in SUBSET D
    OBVIOUS
  <2> HIDE DEF U, n
  <2>4. \A i \in U : collected[i][1] \in 1 .. n
    BY <2>1, <2>2, <2>3
  <2>5. \A k \in 1 .. n : \E i \in U : collected[i][1] = k
    <3> TAKE k \in 1 .. n
    <3>1. k \in Indices /\ k <= n
      BY <1>1, <2>1
    <3>2. PICK i \in D : collected[i][1] = k
      BY <1>7, <3>1
    <3> QED
      BY <2>2, <3>1, <3>2
  <2>6. index \in Injection(U, 1 .. n) /\ index \in Surjection(U, 1 .. n)
    BY <1>6, <2>3, <2>4, <2>5 DEF Injection, IsInjective, Surjection
  <2>7. IsFiniteSet(U)
    BY <1>3, <2>3, FS_Subset
  <2> HIDE DEF index
  <2>8. Cardinality(1 .. n) = Cardinality(U)
    BY <2>6, <2>7, FS_Surjection
  <2>9. Cardinality(1 .. n) = IF 1 > n THEN 0 ELSE n - 1 + 1
    BY <2>1, FS_Interval
  <2>10. Cardinality(U) = n
    BY <2>1, <2>8, <2>9
  <2> QED
    BY <2>10 DEF U, n
<1>10. InOrder = [k \in D |-> collected[CHOOSE j \in D : Position(j) = k][2]]
    BY DEF InOrder
<1> HIDE DEF Position, D
<1>11. ASSUME NEW j \in D
       PROVE  InOrder[collected[j][1]] = collected[j][2]
  <2>1. collected[j][1] \in D
    BY <1>5, <1>8
  <2>2. (CHOOSE i \in D : Position(i) = collected[j][1]) = j
    BY <1>6, <1>9
  <2> QED
    BY <1>10, <2>1, <2>2
<1> QED
    BY <1>8, <1>10, <1>11 DEF D

LEMMA ReturnStep ==
    ASSUME BatchInv, Return
    PROVE  BatchInv' /\ Promise!Return
<1>1. /\ Typed /\ Placed /\ RowsTrue /\ Warmed
      /\ out = <<>> /\ groups = {} /\ group = <<>> /\ out' = Scatter(InOrder)
      /\ UNCHANGED <<column, call, groups, group, slots, collected, asked, became>>
    BY DEF BatchInv, Return
<1>2. BatchInv'
  <2>1. /\ Rows' = Rows /\ Live' = Live /\ Indices' = Indices /\ Groups' = Groups /\ Results' = Results
        /\ \A i, outcome : Promise!Shows(i, outcome)' = Promise!Shows(i, outcome)
    BY <1>1, GivenOnce
  <2>2. Typed'
    BY <1>1, <2>1 DEF Typed, SlotStates, Outcomes
  <2>3. Placed'
    BY <1>1, <2>1 DEF Placed, Pending, InHand, Collected
  <2>4. \A i : Untouched(i)' <=> Untouched(i)
    BY <1>1 DEF Untouched, State
  <2>5. \A j \in DOMAIN collected : CollectedTrue(j)'
    BY <1>1, <2>1 DEF RowsTrue, CollectedTrue, Outcomes
  <2>6. RowsTrue'
    BY <1>1, <2>1, <2>4, <2>5 DEF RowsTrue, Pending
  <2>7. Warmed'
    BY <1>1 DEF Warmed, Warming, Over, Outcomes
  <2> QED
    BY <2>2, <2>3, <2>6, <2>7 DEF BatchInv
<1>3. ASSUME NEW i \in Rows
      PROVE  /\ column[i] = Null \/ became[i] # "nothing"
             /\ Scatter(InOrder)[i] \in Promise!Shows(i, became[i])
  <2>1. CASE column[i] = Null
    <3>1. became[i] = "nothing"
      BY <1>1, <2>1 DEF RowsTrue, Untouched, State
    <3>2. \A n \in Indices : Live[n] # i
      BY <1>1, <2>1, LiveIs DEF Typed
    <3>3. Scatter(InOrder)[i] = Null
      BY <3>2 DEF Scatter
    <3> QED
      BY <2>1, <3>1, <3>3 DEF Promise!Shows
  <2>2. CASE column[i] # Null
    <3>1. PICK n \in Indices : Live[n] = i
      BY <1>1, <2>2, LiveIs DEF Typed
    <3>2. (CHOOSE m \in Indices : Live[m] = i) = n
      BY <1>1, <3>1, LiveIs DEF Typed
    <3>3. PICK j \in DOMAIN collected : collected[j][1] = n
      BY <1>1 DEF Placed, Pending, InHand, Collected
    <3>4. DOMAIN InOrder = Indices /\ InOrder[n] = collected[j][2]
      BY <1>1, <3>3, InOrderIs
    <3>5. Scatter(InOrder)[i] = InOrder[n]
      BY <3>1, <3>2, <3>4 DEF Scatter
    <3>6. became[i] \in Outcomes /\ collected[j][2] \in Promise!Shows(i, became[i])
      BY <1>1, <3>1, <3>3 DEF RowsTrue, CollectedTrue
    <3> QED
      BY <3>4, <3>5, <3>6 DEF Outcomes
  <2> QED
    BY <2>1, <2>2
<1>4. Scatter(InOrder) \in [Rows -> UNION {Promise!Shows(i, became[i]) : i \in Rows}]
  <2> DEFINE Allowed == UNION {Promise!Shows(i, became[i]) : i \in Rows}
             f == Scatter(InOrder)
  <2>1. \A i \in Rows : f[i] \in Allowed
    BY <1>3
  <2>2. f = [i \in Rows |-> f[i]]
    <3> DEFINE Cell(i) == IF \E n \in Indices \cap DOMAIN InOrder : Live[n] = i
                          THEN InOrder[CHOOSE n \in Indices : Live[n] = i] ELSE Null
    <3>1. f = [i \in Rows |-> Cell(i)]
      BY DEF Scatter
    <3> HIDE DEF f, Cell
    <3> QED
      BY <3>1
  <2> HIDE DEF Allowed, f
  <2>3. f \in [Rows -> Allowed]
    BY <2>1, <2>2
  <2> QED
    BY <2>3 DEF Allowed, f
<1>5. Promise!Return
  <2>1. Promise!Rows = Rows
    BY DEF Promise!Rows, Rows
  <2> QED
    BY <1>1, <1>3, <1>4, <2>1 DEF Promise!Return
<1> QED
    BY <1>2, <1>5
-----------------------------------------------------------------------------
(***************************************************************************)
(* The theorems.                                                           *)
(***************************************************************************)
LEMMA InitHolds == Init => BatchInv /\ Promise!Init
<1> SUFFICES ASSUME Init
             PROVE  BatchInv /\ Promise!Init
    OBVIOUS
<1>1. /\ column \in Columns /\ call \in [schema : BOOLEAN, caching : Strategies, setting : Settings]
      /\ groups = Groups /\ group = <<>> /\ slots = <<>> /\ collected = <<>> /\ out = <<>>
      /\ asked = [i \in Rows |-> 0] /\ became = [i \in Rows |-> "nothing"]
    BY DEF Init
<1>2. Typed
    BY <1>1 DEF Typed
<1>3. GroupsPartition
    BY <1>1, GroupsAre
<1>4. Placed
    BY <1>1, <1>3 DEF Placed, Pending, InHand, Collected, GroupsPartition
<1>5. \A n \in Indices : Live[n] \in Rows
    BY <1>1, LiveIs
<1>6. RowsTrue
    BY <1>1, <1>5 DEF RowsTrue, Untouched, State
<1>7. Warmed
    BY <1>1 DEF Warmed
<1>8. Promise!Init
    BY <1>1 DEF Promise!Init, Promise!Rows, Rows
<1> QED
    BY <1>2, <1>4, <1>6, <1>7, <1>8 DEF BatchInv

\* Every step keeps the invariant, and is a step of RowCalls or changes nothing
\* RowCalls speaks of.
LEMMA StepHolds ==
    ASSUME BatchInv, [Next]_vars
    PROVE  BatchInv' /\ [Promise!Next]_(Promise!vars)
<1>1. CASE UNCHANGED vars
  <2>1. /\ Rows' = Rows /\ Live' = Live /\ Indices' = Indices /\ Groups' = Groups /\ Results' = Results
        /\ \A i, outcome : Promise!Shows(i, outcome)' = Promise!Shows(i, outcome)
    BY <1>1, GivenOnce DEF vars
  <2>2. Typed'
    BY <1>1, <2>1 DEF BatchInv, Typed, SlotStates, Outcomes, vars
  <2>3. Placed'
    BY <1>1, <2>1 DEF BatchInv, Placed, Pending, InHand, Collected, vars
  <2>4. \A i : Untouched(i)' <=> Untouched(i)
    BY <1>1 DEF Untouched, State, vars
  <2>5. \A j \in DOMAIN collected : CollectedTrue(j)'
    BY <1>1, <2>1 DEF BatchInv, RowsTrue, CollectedTrue, Outcomes, vars
  <2>6. \A p \in DOMAIN group : SlotTrue(p)'
    BY <1>1, <2>1, <2>4 DEF BatchInv, RowsTrue, SlotTrue, State, vars
  <2>7. RowsTrue'
    BY <1>1, <2>1, <2>4, <2>5, <2>6 DEF BatchInv, RowsTrue, Pending, vars
  <2>8. Warmed'
    BY <1>1 DEF BatchInv, Warmed, Warming, Over, Outcomes, vars
  <2> QED
    BY <1>1, <2>2, <2>3, <2>7, <2>8 DEF BatchInv, vars, Promise!vars
<1>2. CASE NextGroup
    BY <1>2, NextGroupStep DEF NextGroup, Promise!vars
<1>3. CASE Collect
    BY <1>3, CollectStep DEF Collect, Promise!vars
<1>4. CASE Return
    BY <1>4, ReturnStep DEF Promise!Next
<1>5. ASSUME NEW n \in DOMAIN slots
      PROVE  n \in DOMAIN group /\ Live[group[n]] \in Promise!Rows
  <2>1. Typed /\ Placed /\ n \in DOMAIN group
    BY DEF BatchInv, Typed
  <2> QED
    BY <2>1, InHandOnly DEF Promise!Rows, Rows
<1>6. ASSUME NEW n \in DOMAIN slots, Send(n)
      PROVE  BatchInv' /\ Promise!Next
    BY <1>5, <1>6, SendStep DEF Promise!Next
<1>7. ASSUME NEW n \in DOMAIN slots, Reply(n)
      PROVE  BatchInv' /\ Promise!Next
    BY <1>5, <1>7, ReplyStep DEF Promise!Next
<1> QED
    BY <1>1, <1>2, <1>3, <1>4, <1>6, <1>7 DEF Next

LEMMA BatchStaysRight == Spec => []BatchInv
<1>1. Init => BatchInv
    BY InitHolds
<1>2. BatchInv /\ [Next]_vars => BatchInv'
    BY StepHolds
<1> QED
    BY <1>1, <1>2, PTL DEF Spec

\* Under a caching strategy the provider has replied to a row with a prefix
\* before a second row with that prefix is asked for, in whatever order groups
\* come out of the HashMap (WarmsFirst; fetch_with_cache_warming,
\* group_by_system_prompt).
THEOREM PrefixesAreWarmed == Spec => []WarmsFirst
<1>1. BatchInv => WarmsFirst
  <2> SUFFICES ASSUME BatchInv, NEW i \in Rows, NEW j \in Rows,
                      i # j, SharePrefix(i, j), asked[i] > 0, asked[j] > 0
               PROVE  \E k \in Rows : SharePrefix(i, k) /\ became[k] # "nothing"
    BY DEF WarmsFirst
  <2>1. Typed /\ Placed /\ RowsTrue /\ Warmed
    BY DEF BatchInv
  <2>2. /\ call.caching # "off" /\ column[i] # Null /\ column[j] # Null
        /\ SharePrefix(i, i)
    BY BatchRunnerAssumption DEF SharePrefix
  <2>3. PICK n \in Indices : Live[n] = i
    BY <2>1, <2>2, LiveIs DEF Typed
  <2>4. PICK m \in Indices : Live[m] = j
    BY <2>1, <2>2, LiveIs DEF Typed
  <2>5. ~Pending(n) /\ ~Pending(m)
    BY <2>1, <2>3, <2>4 DEF RowsTrue, Untouched, State
  <2>6. CASE Collected(n) \/ Collected(m)
    BY <2>1, <2>2, <2>3, <2>4, <2>6 DEF Collected, RowsTrue, CollectedTrue, Outcomes
  <2>7. CASE ~Collected(n) /\ ~Collected(m)
    <3>1. PICK p \in DOMAIN group, q \in DOMAIN group : group[p] = n /\ group[q] = m
      BY <2>1, <2>5, <2>7 DEF Placed, InHand
    <3>2. p # q
      BY <2>3, <2>4, <3>1
    <3>3. group \in Seq(Indices) /\ group \in Groups /\ GroupsPartition /\ DOMAIN slots = DOMAIN group
      BY <2>1, InHandOnly, GroupsAre DEF Typed
    <3>4. 1 \in DOMAIN group /\ Len(group) > 1
      BY <3>2, <3>3
    <3>5. SlotTrue(p) /\ SlotTrue(q) /\ SlotTrue(1)
      BY <2>1, <3>4 DEF RowsTrue
    <3>6. slots[p] # "waiting" /\ slots[q] # "waiting"
      BY <2>3, <2>4, <3>1, <3>5 DEF SlotTrue, Untouched, State
    <3>7. slots[1] \in Outcomes
      BY <2>1, <2>2, <3>2, <3>3, <3>4, <3>6 DEF Warmed, Warming, Over
    <3>8. became[Live[group[1]]] # "nothing"
      BY <3>5, <3>7 DEF SlotTrue, State, Outcomes
    <3>9. SharePrefix(i, Live[group[1]])
      BY <2>2, <2>3, <3>1, <3>3, <3>4 DEF GroupsPartition
    <3>10. Live[group[1]] \in Rows
      BY <2>1, <3>4, InHandOnly
    <3> QED
      BY <3>8, <3>9, <3>10
  <2> QED
    BY <2>6, <2>7
<1> QED
    BY <1>1, BatchStaysRight, PTL

\* However rows are grouped, the groups ordered and the replies timed, the call
\* makes one request for each row that is not null, and the column it returns
\* shows at every row what became of the request of that row (ImplementsRowCalls;
\* run_batch, group_by_system_prompt, fetch_with_cache_warming and the zip back
\* to rows in inference_async).
THEOREM BatchImplementsRowCalls == Spec => ImplementsRowCalls
<1>1. Init => Promise!Init
    BY InitHolds
<1>2. BatchInv /\ [Next]_vars => [Promise!Next]_(Promise!vars)
    BY StepHolds
<1> QED
    BY <1>1, <1>2, BatchStaysRight, PTL DEF Spec, ImplementsRowCalls, Promise!Spec
=============================================================================
