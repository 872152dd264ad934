-------------------------- MODULE CollapsedPrefill --------------------------
(***************************************************************************)
(* polar_llama/local/collapsed_prefill.py: a batch of prompts that share a *)
(* token prefix is generated with the prefix prefilled once.  Prompts are  *)
(* sequences of tokens, and a cache stands for the tokens it was computed  *)
(* from.                                                                   *)
(***************************************************************************)
EXTENDS Integers, Sequences, SequencesExt

CONSTANTS
    MinPrefixTokens,  \* a shorter shared prefix is not worth a prefill
    PrefillStepSize

ASSUME CollapsedPrefillAssumption ==
    MinPrefixTokens \in Nat \ {0} /\ PrefillStepSize \in Nat \ {0}

NoPlan == [prefix |-> <<>>, suffixes |-> <<>>]

\* common_token_prefix_len: as many tokens as every row agrees on.
Agree(rows, n) ==
    \A r \in DOMAIN rows : n <= Len(rows[r]) /\ SubSeq(rows[r], 1, n) = SubSeq(rows[1], 1, n)
CommonTokenPrefixLen(rows) ==
    CHOOSE n \in 0 .. Len(rows[1]) : Agree(rows, n) /\ ~Agree(rows, n + 1)

SplitAt(rows, n) ==
    [prefix   |-> SubSeq(rows[1], 1, n),
     suffixes |-> [r \in DOMAIN rows |-> SubSeq(rows[r], n + 1, Len(rows[r]))]]

\* Mutant: the prefix may take a whole row.
Unclamped(rows) == CommonTokenPrefixLen(rows)

\* Every row keeps a token of its own.
Clamped(rows) ==
    CHOOSE n \in -1 .. CommonTokenPrefixLen(rows) :
        /\ \A r \in DOMAIN rows : n < Len(rows[r])
        /\ n = CommonTokenPrefixLen(rows) \/ \E r \in DOMAIN rows : Len(rows[r]) = n + 1

\* plan_collapsed_prefill
PlanCollapsedPrefill(rows) ==
    IF Clamped(rows) < MinPrefixTokens THEN NoPlan ELSE SplitAt(rows, Clamped(rows))

\* Slices of size n, the last one perhaps shorter.
Slices(items, n) ==
    [k \in 1 .. (Len(items) + n - 1) \div n |->
        SubSeq(items, (k - 1) * n + 1, IF k * n < Len(items) THEN k * n ELSE Len(items))]

\* One forward pass per slice, each appending to the cache.
PrefillPromptCache(prefix) == FlattenSeq(Slices(prefix, PrefillStepSize))

\* Row i of the batch starts from element i.
ReplicatePrefixCaches(cache, n) == [i \in 1 .. n |-> cache]

\* collapsed_batch_generate: the caches and the rows it hands to batch_generate.
CollapsedBatchGenerate(rows) ==
    LET plan == PlanCollapsedPrefill(rows)
    IN IF plan = NoPlan
       THEN [caches |-> [r \in DOMAIN rows |-> <<>>], rows |-> rows]
       ELSE [caches |-> ReplicatePrefixCaches(PrefillPromptCache(plan.prefix), Len(rows)),
             rows   |-> plan.suffixes]
=============================================================================
