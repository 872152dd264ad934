----------------------------- MODULE PrefixCache -----------------------------
(***************************************************************************)
(* polar_llama/local/prefix_cache.py: a small LRU store of prompt caches,  *)
(* keyed by model and prefix TEXT.  The operators are the locked sections  *)
(* and the checks; who calls them, and what happens between two sections,  *)
(* is LocalServing's.                                                      *)
(***************************************************************************)
EXTENDS Integers, Sequences, FiniteSets, SequencesExt

CONSTANTS
    MaxEntries,
    Encode(_)   \* the tokenizer: text to tokens, both sequences

ASSUME PrefixCacheAssumption == MaxEntries \in Nat \ {0}

VARIABLE entries  \* least recently used first: [model, prefix, cache]

StrictPrefix(s, t) == IsPrefix(s, t) /\ s # t

\* classify
Classify(cached, new) ==
    IF cached = new THEN "exact" ELSE IF StrictPrefix(cached, new) THEN "extend" ELSE "diverge"

\* Mutant: any split is taken for a boundary.
AnySeam(prefix, suffix) == TRUE

\* verify_token_boundary: what was cached is how the whole prompt starts.
VerifyTokenBoundary(prefix, suffix) ==
    prefix = <<>> \/ IsPrefix(Encode(prefix), Encode(prefix \o suffix))

SameKey(model, prefix, e) == e.model = model /\ e.prefix = prefix
Others(model, prefix) ==
    LET at == {i \in DOMAIN entries : SameKey(model, prefix, entries[i])}
    IN IF at = {} THEN entries ELSE RemoveAt(entries, CHOOSE i \in at : TRUE)
Held(model, prefix) == {e \in Range(entries) : SameKey(model, prefix, e)}

\* put: the entry becomes the newest, the oldest make room.
Put(model, prefix) ==
    LET grown == Append(Others(model, prefix),
                        [model |-> model, prefix |-> prefix, cache |-> Encode(prefix)])
        over  == Len(grown) - MaxEntries
    IN entries' = IF over > 0 THEN SubSeq(grown, over + 1, Len(grown)) ELSE grown

\* get_exact: a hit is used, so it becomes the newest.
Touch(model, prefix) ==
    entries' = IF Held(model, prefix) = {} THEN entries
               ELSE Append(Others(model, prefix), CHOOSE e \in Held(model, prefix) : TRUE)

\* The second section of match: the longest strict prefix, which an entry equal
\* to the prefix is not.
Extending(model, prefix) ==
    {e \in Range(entries) : e.model = model /\ Classify(e.prefix, prefix) = "extend"}
Best(model, prefix) ==
    CHOOSE e \in Extending(model, prefix) :
        \A d \in Extending(model, prefix) : Len(d.prefix) <= Len(e.prefix)
SawLonger(model, prefix) ==
    \E e \in Range(entries) : e.model = model /\ StrictPrefix(prefix, e.prefix)

\* replicate_into_batch, once every row's seam is a token boundary.
CheckedBatchCaches(entry, suffixes) ==
    IF \A i \in DOMAIN suffixes : VerifyTokenBoundary(entry.prefix, suffixes[i])
    THEN [i \in DOMAIN suffixes |-> entry]
    ELSE <<>>
=============================================================================
