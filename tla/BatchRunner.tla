----------------------------- MODULE BatchRunner -----------------------------
(***************************************************************************)
(* inference_async and inference_messages (src/expressions.rs) with what   *)
(* they call: run_batch (src/model_client/mod.rs), the grouping of         *)
(* src/cache.rs and fetch_with_cache_warming (src/utils.rs).               *)
(*                                                                         *)
(* A row is its leading system messages, or NoPrompt; its own text is its  *)
(* position.  Groups are sequences of indices into the rows that are not   *)
(* null.                                                                   *)
(***************************************************************************)
EXTENDS Naturals, Sequences, FiniteSets

CONSTANTS
    Columns,       \* input columns: sequences of prompts and Null
    Prompts,       \* system prompts
    Cacheable,     \* those of cache_min_tokens or more
    NoPrompt, Null,
    Strategies,    \* the cache_strategy, or "off": no cache=True, or a column
                   \* of plain prompts without a system_prompt
    Settings,      \* values of POLAR_LLAMA_MAX_CONCURRENCY
    Unset,         \* none, or one that does not parse
    DefaultWindow  \* 64 in the code

ASSUME BatchRunnerAssumption ==
    /\ Columns \subseteq Seq(Prompts \cup {NoPrompt, Null})
    /\ Cacheable \subseteq Prompts
    /\ {NoPrompt, Null} \cap Prompts = {} /\ NoPrompt # Null
    /\ Strategies \subseteq {"off", "none", "system_prompt", "schema"}
    /\ Settings \subseteq Nat \cup {Unset}
    /\ DefaultWindow \in Nat \ {0}

VARIABLES
    column, call,  \* the arguments
    groups,        \* groups still to be sent
    group,         \* the group in hand
    slots,         \* slots[n]: the request of its n-th row
    collected,     \* all_results: pairs of an index and a result
    out,           \* the column returned, <<>> until then
    asked,         \* history: asked[i] requests were made for row i
    became         \* history: became[i], what became of the last one

vars == <<column, call, groups, group, slots, collected, out, asked, became>>

Rows == DOMAIN column
Outcomes == {"answered", "invalid", "failed"}
-----------------------------------------------------------------------------
(***************************************************************************)
(* Grouping                                                                *)
(***************************************************************************)
Sorted(S) == [n \in 1..Cardinality(S) |->
                 CHOOSE i \in S : Cardinality({j \in S : j < i}) = n - 1]

\* arrays_with_indices: the rows that are not null, in order.
Live == Sorted({i \in Rows : column[i] # Null})
Indices == DOMAIN Live
PromptOf(n) == column[Live[n]]
Whole == [n \in Indices |-> n]

\* group_by_system_prompt: one group per prompt, and rows without a prompt
\* worth caching by themselves.
Group(n) ==
    IF PromptOf(n) \in Cacheable THEN Sorted({m \in Indices : PromptOf(m) = PromptOf(n)})
    ELSE <<n>>

\* analyze_batch_for_caching; without cache=True there is one run_batch.
Groups ==
    CASE call.caching \in {"off", "schema"} -> {Whole}
      [] call.caching = "none"              -> {<<n>> : n \in Indices}
      [] call.caching = "system_prompt"     -> {Group(n) : n \in Indices}

Init ==
    /\ column \in Columns
    /\ call \in [schema : BOOLEAN, caching : Strategies, setting : Settings]
    /\ groups = Groups
    /\ group = <<>> /\ slots = <<>> /\ collected = <<>> /\ out = <<>>
    /\ asked = [i \in Rows |-> 0]
    /\ became = [i \in Rows |-> "nothing"]
-----------------------------------------------------------------------------
(***************************************************************************)
(* One group at a time                                                     *)
(***************************************************************************)
Over(n) == slots[n] \in Outcomes
AllOver == \A n \in DOMAIN slots : Over(n)

\* Only groups of several rows go through fetch_with_cache_warming.
Warming == call.caching # "off" /\ Len(group) > 1

\* Mutant: any number that parses is taken.
AnyNumber == IF call.setting # Unset THEN call.setting ELSE DefaultWindow

\* max_concurrency
Window == IF call.setting \notin {Unset, 0} THEN call.setting ELSE DefaultWindow

\* Groups by prompt come out of a HashMap in any order, others in row order.
NextGroup ==
    /\ group = <<>>
    /\ \E g \in groups :
          /\ \A h \in groups \ {g} : call.caching = "system_prompt" \/ g[1] < h[1]
          /\ groups' = groups \ {g}
          /\ group' = g
          /\ slots' = [n \in DOMAIN g |-> "waiting"]
    /\ UNCHANGED <<column, call, collected, out, asked, became>>

\* `buffered(max_concurrency())`: rows start in order, and one that is over
\* keeps its place until those before it are over.
InWindow(n) ==
    \A k \in 1..n : /\ k < n => slots[k] # "waiting"
                    /\ n - k >= Window => Over(k)

\* Mutant: the first request is one of the rest.
NothingFirst(n) == TRUE

\* The first request is awaited; then join_all sends the rest.
AfterFirst(n) == n = 1 \/ Over(1)

Send(n) ==
    /\ slots[n] = "waiting"
    /\ IF Warming THEN AfterFirst(n) ELSE InWindow(n)
    /\ slots' = [slots EXCEPT ![n] = "sent"]
    /\ asked' = [asked EXCEPT ![Live[group[n]]] = @ + 1]
    /\ UNCHANGED <<column, call, groups, group, collected, out, became>>

\* The provider answers, or the request fails or times out.  Only with a
\* schema is an answer validated.
Reply(n) ==
    /\ slots[n] = "sent"
    /\ \E outcome \in Outcomes :
          /\ outcome = "invalid" => call.schema
          /\ slots' = [slots EXCEPT ![n] = outcome]
          /\ became' = [became EXCEPT ![Live[group[n]]] = outcome]
    /\ UNCHANGED <<column, call, groups, group, collected, out, asked>>

\* run_one's result, and fetch_with_cache_warming's, which has errors_as_json
\* on whatever the schema.
Result(n) ==
    IF slots[n] = "failed" /\ ~call.schema /\ ~Warming THEN Null
    ELSE [row |-> Live[group[n]],
          text |-> IF slots[n] = "answered" THEN "answer" ELSE "error"]

Collect ==
    /\ group # <<>> /\ AllOver
    /\ collected' = collected \o [n \in DOMAIN group |-> <<group[n], Result(n)>>]
    /\ group' = <<>> /\ slots' = <<>>
    /\ UNCHANGED <<column, call, groups, out, asked, became>>
-----------------------------------------------------------------------------
(***************************************************************************)
(* Back to rows                                                            *)
(***************************************************************************)
\* Mutant: the results stay in the order the groups came in.
AsCollected == [k \in DOMAIN collected |-> collected[k][2]]

\* The stable sort_by_key on the index.
InOrder ==
    LET Rank(j) == Cardinality({i \in DOMAIN collected :
                       \/ collected[i][1] < collected[j][1]
                       \/ collected[i][1] = collected[j][1] /\ i <= j})
    IN [k \in DOMAIN collected |-> collected[CHOOSE j \in DOMAIN collected : Rank(j) = k][2]]

\* zip, into a column of nulls.
Scatter(results) ==
    [i \in Rows |-> IF \E n \in Indices \cap DOMAIN results : Live[n] = i
                    THEN results[CHOOSE n \in Indices : Live[n] = i] ELSE Null]

Return ==
    /\ out = <<>> /\ column # <<>>
    /\ groups = {} /\ group = <<>>
    /\ out' = Scatter(InOrder)
    /\ UNCHANGED <<column, call, groups, group, slots, collected, asked, became>>

Next ==
    \/ NextGroup \/ Collect \/ Return
    \/ \E n \in DOMAIN slots : Send(n) \/ Reply(n)

Spec == Init /\ [][Next]_vars

\* The runtime polls what can move, and a request ends by the client's
\* timeout of 600 s at the latest.
FairSpec == Spec /\ WF_vars(Next)
-----------------------------------------------------------------------------
(***************************************************************************)
(* Properties                                                              *)
(***************************************************************************)
\* Under a caching strategy no two rows that share a prefix are asked for
\* before the provider has replied to one of them, which may be billed for
\* filling its cache (fetch_with_cache_warming, group_by_system_prompt).
SharePrefix(i, j) ==
    \/ call.caching = "schema" /\ column[i] # Null /\ column[j] # Null
    \/ call.caching = "system_prompt" /\ column[i] \in Cacheable /\ column[i] = column[j]

WarmsFirst ==
    \A i, j \in Rows :
        (i # j /\ SharePrefix(i, j) /\ asked[i] > 0 /\ asked[j] > 0)
            => \E k \in Rows : SharePrefix(i, k) /\ became[k] # "nothing"

\* Whatever the groups, their order and the order of replies: one request for
\* each row, and every row shows the outcome of its own.
Promise == INSTANCE RowCalls
ImplementsRowCalls == Promise!Spec

\* The call comes to an end (inference_async, inference_messages).
CallReturns == column # <<>> => <>(out # <<>>)
=============================================================================
