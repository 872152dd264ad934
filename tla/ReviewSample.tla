---------------------------- MODULE ReviewSample ----------------------------
(***************************************************************************)
(* polar_llama/hitl.py: how large a review sample is per stratum, how the  *)
(* corrections of its reviewers come back, and what a prompt is retuned    *)
(* from.  Sizes and quotas are functions on 1 .. g.  Remainders are        *)
(* compared exactly, where the code compares floating-point numbers.       *)
(***************************************************************************)
EXTENDS Integers, Sequences, FiniteSets, SequencesExt

CONSTANTS NoValue,  \* null
          MaxDemos  \* max_demos

ASSUME ReviewSampleAssumption == MaxDemos \in Nat

Total(f) ==
    LET sum[k \in 0 .. Len(f)] == IF k = 0 THEN 0 ELSE sum[k - 1] + f[k]
    IN sum[Len(f)]
Nothing(f) == [i \in DOMAIN f |-> 0]

\* The i that come before the n-th in descending order of f, ties by index.
Rank(f, i) == Cardinality({j \in DOMAIN f : f[j] > f[i] \/ (f[j] = f[i] /\ j < i)})
Leading(f, n) == {i \in DOMAIN f : Rank(f, i) < n}
AddOne(f, S) == [i \in DOMAIN f |-> IF i \in S THEN f[i] + 1 ELSE f[i]]

\* _largest_remainder
LargestRemainder(weights, n) ==
    LET total == Total(weights)
        base  == [i \in DOMAIN weights |-> (n * weights[i]) \div total]
        rest  == [i \in DOMAIN weights |-> (n * weights[i]) % total]
    IN IF n <= 0 \/ total <= 0 THEN Nothing(weights)
       ELSE AddOne(base, Leading(rest, n - Total(base)))

\* _equal_split
EqualSplit(counts, n) ==
    LET g    == Cardinality(DOMAIN counts)
        base == [i \in DOMAIN counts |-> n \div g]
    IN IF n <= 0 THEN Nothing(counts) ELSE AddOne(base, Leading(counts, n % g))

\* The largest quota that can spare a row, the first of them.
Donors(alloc, i) == {j \in DOMAIN alloc \ {i} : alloc[j] > 1}
Donor(alloc, i) ==
    CHOOSE j \in Donors(alloc, i) :
        \A k \in Donors(alloc, i) : alloc[k] < alloc[j] \/ (alloc[k] = alloc[j] /\ j <= k)

\* One turn of the loop over the strata.
GiveOne(alloc, i) ==
    IF alloc[i] > 0 \/ Donors(alloc, i) = {} THEN alloc
    ELSE [alloc EXCEPT ![Donor(alloc, i)] = @ - 1, ![i] = 1]

\* _apply_min1_guarantee: with fewer rows than strata the largest get one each.
ApplyMin1Guarantee(alloc, counts, n) ==
    LET g == Len(alloc)
        given[i \in 0 .. g] == IF i = 0 THEN alloc ELSE GiveOne(given[i - 1], i)
    IN IF n >= g THEN given[g]
       ELSE [i \in DOMAIN alloc |-> IF i \in Leading(counts, n) THEN 1 ELSE 0]

\* One turn of _cap_and_redistribute: what is over goes to the strata not capped
\* so far, as far as they have room.
Capped(a, counts) == [i \in DOMAIN a |-> IF a[i] > counts[i] THEN counts[i] ELSE a[i]]
Overflow(a, counts) == Total([i \in DOMAIN a |-> a[i] - Capped(a, counts)[i]])
Turn(state, counts) ==
    LET a      == state.alloc
        over   == Overflow(a, counts)
        closed == state.capped \cup {i \in DOMAIN a : a[i] > counts[i]}
        room   == [i \in DOMAIN a |-> IF i \in closed THEN 0 ELSE counts[i] - a[i]]
        more   == LargestRemainder(room, IF over < Total(room) THEN over ELSE Total(room))
    IN IF over = 0 THEN state
       ELSE [alloc  |-> [i \in DOMAIN a |-> Capped(a, counts)[i] + more[i]],
             capped |-> closed]

\* Mutant: what is over a stratum's size is dropped.
CapOnly(alloc, counts) == Capped(alloc, counts)

\* Every turn caps a stratum, so that nothing is over after as many.
CapAndRedistribute(alloc, counts) ==
    LET after[k \in 0 .. Len(alloc)] ==
            IF k = 0 THEN [alloc |-> alloc, capped |-> {}] ELSE Turn(after[k - 1], counts)
    IN after[Len(alloc)].alloc

AllocateQuotas(counts, n, allocation) ==
    LET first == IF allocation = "proportional" THEN LargestRemainder(counts, n)
                 ELSE EqualSplit(counts, n)
    IN CapAndRedistribute(ApplyMin1Guarantee(first, counts, n), counts)
-----------------------------------------------------------------------------
\* A reviewed sample: cells of ids.  A blank one is not reviewed.
ReviewedIds(cells) == {id \in DOMAIN cells : cells[id] # NoValue}

\* Mutant: the incoming column is looked up under the name it has, which a
\* frame imported into before has too.
UnderItsName(previous, cells, id) ==
    IF previous # <<>> THEN previous[id]
    ELSE IF id \in ReviewedIds(cells) THEN cells[id] ELSE NoValue

\* The left join of import_corrections, under a private alias.
Joined(previous, cells, id) == IF id \in ReviewedIds(cells) THEN cells[id] ELSE NoValue

\* A code that is null is not equal to a correction, nor different from it.
ImportCorrections(labels, previous, cells) ==
    LET corrected == [id \in DOMAIN labels |-> Joined(previous, cells, id)]
        reviewed  == {id \in DOMAIN labels : corrected[id] # NoValue}
        changed   == {id \in reviewed : labels[id] # NoValue /\ corrected[id] # labels[id]}
    IN [corrected  |-> corrected,
        reviewed   |-> Cardinality(reviewed),
        changed    |-> Cardinality(changed),
        unmatched  |-> Cardinality(ReviewedIds(cells) \ DOMAIN labels),
        unreviewed |-> Cardinality(DOMAIN labels) - Cardinality(reviewed)]

\* corrections_to_trainset: the rows with a correction; none is refused.
Trainset(corrected) ==
    LET rows == FlattenSeq([r \in DOMAIN corrected |->
                              IF corrected[r] # NoValue THEN <<r>> ELSE <<>>])
    IN [k \in DOMAIN rows |-> [row |-> rows[k], gold |-> corrected[rows[k]]]]

\* Mutant: the demonstration is what the module said itself.
Own(example, prediction) == prediction

\* use_gold_outputs, which retune_from_corrections sets.
Shown(example, prediction) == example.gold

\* BootstrapFewShot.compile with a threshold every score reaches: the budget is
\* looked at after a demonstration is taken, so that the first always is.
Compile(trainset, predictions) ==
    LET budget == IF MaxDemos < 1 THEN 1 ELSE MaxDemos
        taken  == SubSeq(trainset, 1, IF budget < Len(trainset) THEN budget ELSE Len(trainset))
    IN [k \in DOMAIN taken |->
          [row |-> taken[k].row, answer |-> Shown(taken[k], predictions[taken[k].row])]]
=============================================================================
