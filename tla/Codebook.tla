------------------------------ MODULE Codebook ------------------------------
(***************************************************************************)
(* polar_llama/codebook.py: a codebook is induced from the clusters of a   *)
(* column, deduplicated, and turned into a taxonomy or a prompt.  A row    *)
(* has a text, which other rows may have too; rows are numbered so that in *)
(* each cluster the nearer to the centroid comes first.                    *)
(***************************************************************************)
EXTENDS Integers, Sequences, FiniteSets, SequencesExt

CONSTANTS
    NExemplars,  \* n_exemplars
    Words        \* what a model may call a cluster

ASSUME CodebookAssumption == NExemplars \in Nat

\* A code as it is written: the word, and how ("plain" or "Title").  The code
\* of a cluster without a name is its number.
Names == [word : Words, style : {"plain", "title"}, cluster : {0}]
Unnamed(c) == [word |-> "cluster", style |-> "plain", cluster |-> c]

\* _normalize_code: case and blanks do not count.
Normalize(code) == [code EXCEPT !.style = "plain"]

\* cluster_embeddings gives a row without an embedding no cluster, here 0.
Members(clustering, c) ==
    FlattenSeq([r \in DOMAIN clustering |-> IF clustering[r] = c THEN <<r>> ELSE <<>>])
ClustersOf(clustering) == {clustering[r] : r \in DOMAIN clustering} \ {0}

\* The first n of a sequence, or all: head(n), [:n].
Cut(s, n) == SubSeq(s, 1, IF n < Len(s) THEN n ELSE Len(s))

\* The row of exemplars_df for c, and the answer to its naming call: the call is
\* shown the texts of the nearest rows, equal ones as often as they are there.
EntryOf(clustering, texts, c, code) ==
    LET rows    == Members(clustering, c)
        nearest == Cut(rows, NExemplars)
    IN [code      |-> code,
        clusters  |-> <<c>>,
        size      |-> Len(rows),
        exemplars |-> [k \in DOMAIN nearest |-> texts[nearest[k]]]]

\* dedupe_codebook_entries compares codes by this.
KeyOfCode(code) == Normalize(code)

\* Mutant: the exemplars of a later entry are forgotten.
FirstOnes(s, t) == s

\* A list and what of a later one is not in it yet, each text once; what the
\* list itself holds twice stays twice.
Combined(s, t) ==
    s \o FlattenSeq([k \in DOMAIN t |->
             IF t[k] \notin Range(s) /\ \A j \in 1 .. k - 1 : t[j] # t[k]
             THEN <<t[k]>> ELSE <<>>])

\* An entry and one of the same code that comes after it: the name is the
\* first one's, and the exemplars are cut again.
Merged(old, entry) ==
    [old EXCEPT
       !.clusters = @ \o entry.clusters,
       !.size = @ + entry.size,
       !.exemplars = Cut(Combined(@, entry.exemplars), 2 * NExemplars)]

\* One turn of the loop: the first of a code keeps its place.
MergeEntry(book, entry) ==
    LET same == {i \in DOMAIN book : KeyOfCode(book[i].code) = KeyOfCode(entry.code)}
    IN IF same = {} THEN Append(book, entry)
       ELSE LET i == CHOOSE i \in same : TRUE
            IN [book EXCEPT ![i] = Merged(@, entry)]

DedupeCodebookEntries(entries) ==
    LET after[n \in 0 .. Len(entries)] ==
            IF n = 0 THEN <<>> ELSE MergeEntry(after[n - 1], entries[n])
    IN after[Len(entries)]

\* The entries come by cluster id; naming[c] is a name or, when the call or its
\* answer failed, the cluster's own.
InduceEntries(clustering, texts, naming) ==
    LET found == ClustersOf(clustering)
        ids   == FlattenSeq([c \in 1 .. Max(found \cup {0}) |-> IF c \in found THEN <<c>> ELSE <<>>])
    IN [k \in DOMAIN ids |-> EntryOf(clustering, texts, ids[k], naming[ids[k]])]

\* codebook_to_taxonomy raises for an empty codebook and for a code that is
\* there twice; else its values are the codes.
TaxonomyRaises(book) ==
    book = <<>> \/ \E i, j \in DOMAIN book : i # j /\ book[i].code = book[j].code
TaxonomyValues(book) == {book[i].code : i \in DOMAIN book}

\* _build_apply_system_prompt: the codes in order.
ApplySystemPrompt(book) == [i \in DOMAIN book |-> book[i].code]
=============================================================================
