--------------------------- MODULE CodingSession ---------------------------
(***************************************************************************)
(* A study from its codebook to its record: induce_codebook names the      *)
(* clusters of a column, the codes label a frame, reviewers correct a      *)
(* sample of it, a prompt is retuned from the corrections, and the run     *)
(* with that prompt is recorded in a manifest that is saved, loaded and    *)
(* replayed.  The calls are made one after the other by one program; what  *)
(* no later call reads is forgotten.                                       *)
(***************************************************************************)
EXTENDS Codebook, ReviewSample, RunManifest

CONSTANTS
    Clusterings,    \* what cluster_embeddings may return: row -> cluster or 0
    Columns,        \* the columns that may be clustered: row -> text
    N,              \* the rows of the labelled frame
    MaxRounds,      \* bound: how often a sample is reviewed
    MaxFilled,      \* bound: how many cells of a sheet are filled in
    Configs,        \* configurations of a run, their templates apart
    RunEnvironments    \* the base URLs and the version of the package

\* A configuration names its model or none: the word recorded for none is no
\* model's name.
ASSUME SessionAssumption ==
    /\ N \in Nat /\ MaxRounds \in Nat /\ MaxFilled \in Nat
    /\ Clusterings \subseteq Seq(Nat)
    /\ \A t \in Columns : t \in Seq(Range(t))
    /\ \A c \in Configs :
          /\ DOMAIN c = {"symbol", "provider", "model", "system", "response", "template"}
          /\ c.model # ModelOf(None)

VARIABLES
    stage,        \* the call made last
    clustering,   \* the clusters of the column
    texts,        \* and its texts
    book,         \* the codebook
    labels,       \* the frame: row -> its code's number in the book, or NoValue
    asked,        \* the sample's sizes: what was asked for and what came
    cells,        \* the sheet under review: id -> corrected_code
    corrected,    \* the corrected column of the frame, <<>> before an import
    result,       \* CorrectionResult
    rounds,       \* imports so far
    demos,        \* the demonstrations of the retuned prompt
    environment,  \* the environment's base URLs and the version installed
    run,          \* history: the recorded run's configuration, cache=, usage and environment
    manifest,     \* the manifest in memory
    tmp, file,    \* its files
    replayed      \* the last replay's call

study == <<clustering, texts, book, labels, asked, cells, corrected, result, rounds, demos>>
record == <<run, manifest, tmp, file, replayed>>
vars == <<stage, study, environment, record>>

FrameRows == 1 .. N
Own0 == 0  \* a code of the reviewer's own

Init ==
    /\ stage = "start"
    /\ clustering = <<>> /\ texts = <<>> /\ book = <<>>
    /\ labels = <<>> /\ asked = None /\ cells = <<>> /\ corrected = <<>>
    /\ result = None /\ rounds = 0 /\ demos = <<>>
    /\ environment \in RunEnvironments
    /\ run = None /\ manifest = None /\ tmp = None /\ file = None /\ replayed = None
-----------------------------------------------------------------------------
\* induce_codebook: a cluster's naming call may fail.  Without any cluster it
\* raises.
Induce ==
    /\ stage = "start"
    /\ \E c \in Clusterings, t \in Columns :
         /\ ClustersOf(c) # {} /\ Len(t) = Len(c)
         /\ \E named \in [ClustersOf(c) -> Names \cup {NoValue}] :
              book' = DedupeCodebookEntries(InduceEntries(c, t,
                          [k \in DOMAIN named |-> IF named[k] = NoValue THEN Unnamed(k) ELSE named[k]]))
         /\ clustering' = c /\ texts' = t
    /\ stage' = "induced"
    /\ UNCHANGED <<labels, asked, cells, corrected, result, rounds, demos, environment, record>>

\* The taxonomy's codes label a frame, one after the other here; its first row
\* may fail.
Label ==
    /\ stage = "induced"
    /\ ~TaxonomyRaises(book)
    /\ \E failed \in 0 .. 1 :
         labels' = [r \in FrameRows |->
                      IF r = failed THEN NoValue
                      ELSE ((r - 1) % Cardinality(TaxonomyValues(book))) + 1]
    /\ stage' = "labelled"
    /\ clustering' = <<>> /\ texts' = <<>> /\ book' = <<>>
    /\ UNCHANGED <<asked, cells, corrected, result, rounds, demos, environment, record>>

\* The strata of a column: a row's stratum, every number up to the largest used.
Stratifications ==
    {s \in [FrameRows -> FrameRows] :
        \A r \in FrameRows : s[r] > 1 => \E q \in FrameRows : s[q] = s[r] - 1}

\* How much of each stratum a sample of n rows takes.
Allotments ==
    {LET counts == [g \in {s[r] : r \in FrameRows} |-> Cardinality({r \in FrameRows : s[r] = g})]
     IN [strata |-> s, n |-> n, counts |-> counts,
         quota |-> AllocateQuotas(counts, IF n < N THEN n ELSE N, allocation)] :
       s \in Stratifications, n \in 1 .. N + 1, allocation \in {"proportional", "equal"}}

\* export_review_sample, of the frame with any columns it has by now.
Export ==
    /\ stage \in {"labelled", "imported"} /\ rounds < MaxRounds
    /\ \E a \in Allotments, sample \in SUBSET FrameRows :
         /\ \A g \in DOMAIN a.quota :
              Cardinality({r \in sample : a.strata[r] = g}) = a.quota[g]
         /\ cells' = [id \in sample |-> NoValue]
         /\ asked' = [counts |-> a.counts, n |-> a.n, quota |-> a.quota]
    /\ stage' = "exported" /\ result' = None
    /\ UNCHANGED <<clustering, texts, book, labels, corrected, rounds, demos, environment, record>>

\* The reviewers fill in some cells of the sheet, and may add a row that is no row
\* of the frame's.
Review ==
    /\ stage = "exported"
    /\ \E stray \in SUBSET {N + 1} :
       \E filled \in [DOMAIN cells \cup stray -> {NoValue, Own0, 1}] :
         /\ Cardinality(ReviewedIds(filled)) <= MaxFilled
         /\ \A id \in stray : filled[id] = 1
         /\ cells' = filled
    /\ stage' = "reviewed" /\ asked' = None
    /\ UNCHANGED <<clustering, texts, book, labels, corrected, result, rounds, demos, environment, record>>

\* import_corrections into the frame, which an import before this one may have
\* made.  With on_unmatched="raise" a stray row is refused.
Import ==
    /\ stage = "reviewed"
    /\ \E onUnmatched \in {"raise", "warn", "ignore"} :
         \E imported \in {ImportCorrections(labels, corrected, cells)} :
           /\ onUnmatched = "raise" => imported.unmatched = 0
           /\ result' = imported
           /\ corrected' = imported.corrected
    /\ stage' = "imported" /\ rounds' = rounds + 1
    /\ UNCHANGED <<clustering, texts, book, labels, asked, cells, demos, environment, record>>

\* retune_from_corrections: one more pass of the module over the trainset, then
\* the demonstrations.  It raises for an empty trainset.
Retune ==
    /\ stage = "imported"
    /\ Trainset(corrected) # <<>>
    /\ \E answer \in {NoValue, 1} :
         demos' = Compile(Trainset(corrected), [r \in FrameRows |-> answer])
    /\ stage' = "tuned"
    /\ UNCHANGED <<clustering, texts, book, labels, asked, cells, corrected, result, rounds, environment, record>>
-----------------------------------------------------------------------------
\* The run with the retuned prompt, or one without a study, and its manifest.
RecordRun ==
    /\ stage \in {"start", "tuned"}
    /\ \E c \in Configs, cache, usage, storeTexts \in BOOLEAN :
         \E config \in {[c EXCEPT !.template = IF stage = "tuned" THEN "tuned" ELSE None]} :
           /\ manifest' = BuildManifest(config, environment, usage, storeTexts)
           /\ run' = [config |-> config, cache |-> cache, usage |-> usage,
                     environment |-> environment]
    /\ stage' = "recorded"
    /\ clustering' = <<>> /\ texts' = <<>> /\ book' = <<>> /\ labels' = <<>> /\ asked' = None
    /\ cells' = <<>> /\ corrected' = <<>> /\ result' = None /\ rounds' = 0 /\ demos' = <<>>
    /\ UNCHANGED <<environment, tmp, file, replayed>>

\* save_manifest: the temporary file, then its new name.
WriteTmp ==
    /\ stage = "recorded" /\ manifest # None
    /\ tmp' = manifest
    /\ stage' = "saving"
    /\ UNCHANGED <<study, environment, run, manifest, file, replayed>>
ReplaceFile ==
    /\ stage = "saving"
    /\ file' = tmp /\ tmp' = None
    /\ stage' = "saved"
    /\ UNCHANGED <<study, environment, run, manifest, replayed>>

\* The program ends, in the middle of a save or after one.
Exit ==
    /\ stage \in {"saving", "saved"}
    /\ manifest' = None
    /\ stage' = "away"
    /\ UNCHANGED <<study, environment, run, tmp, file, replayed>>

\* Somebody changes the saved file, one field of it.
Edits(m) ==
    {[m EXCEPT !.model = "other"], [m EXCEPT !.system = Hash("other")], [m EXCEPT !.endpoint = "other"],
     [m EXCEPT !.format = FormatVersion + 1], [m EXCEPT !.version = "other"],
     [m EXCEPT !.usage = ~@],
     [m EXCEPT !.texts = [system |-> "other", template |-> None]]}
EditFile ==
    /\ stage = "away" /\ file # None
    /\ file' \in Edits(file)
    /\ stage' = "edited"
    /\ UNCHANGED <<study, environment, run, manifest, tmp, replayed>>

ChangeEnvironment ==
    /\ stage \in {"away", "edited"}
    /\ environment' \in RunEnvironments \ {environment}
    /\ UNCHANGED <<stage, study, record>>

\* load_manifest
Load ==
    /\ stage \in {"away", "edited"} /\ file # None
    /\ ~LoadRefuses(file)
    /\ manifest' = file
    /\ stage' = "loaded"
    /\ UNCHANGED <<study, environment, run, tmp, file, replayed>>

\* What the caller of replay may give again: what the run had, nothing, or
\* something else.
Given(c) ==
    [system : {c.system, None, "other"}, template : {c.template, None},
     response : {c.response, None}]

\* replay, if it does not raise.
Replay ==
    /\ stage \in {"recorded", "loaded"} /\ replayed = None
    /\ \E given \in Given(run.config), verify \in BOOLEAN :
         \E inputs \in {Filled(manifest, given)} :
           /\ verify => ~Diverges(manifest, inputs)
           /\ replayed' = [call |-> ReplayCall(manifest, inputs), verified |-> verify,
                           warned |-> IF verify THEN DriftOf(manifest, environment) ELSE {},
                           environment |-> environment]
    /\ UNCHANGED <<stage, study, environment, run, manifest, tmp, file>>

Next ==
    \/ Induce \/ Label \/ Export \/ Review \/ Import \/ Retune
    \/ RecordRun \/ WriteTmp \/ ReplaceFile \/ Exit \/ EditFile \/ ChangeEnvironment
    \/ Load \/ Replay

Spec == Init /\ [][Next]_vars
-----------------------------------------------------------------------------
Elements(s) == {s[i] : i \in DOMAIN s}

\* The texts that the naming call of cluster c is shown.
ShownOf(c) ==
    LET rows == Members(clustering, c)
    IN {texts[rows[k]] : k \in DOMAIN rows \cap (1 .. NExemplars)}

\* Merging loses nothing: each cluster is in one entry, and an entry is as large
\* as its clusters; it shows nothing but what their naming calls were shown, all
\* of the first's, and of the others' everything, unless twice n_exemplars texts
\* are full; and no text comes again but among those of the first cluster, whose
\* repeats are kept.  No two codes are alike, so that the taxonomy of an induced
\* codebook never raises.
CodebookPartitions ==
    stage = "induced" =>
        /\ \A c \in ClustersOf(clustering) :
              Cardinality({i \in DOMAIN book : c \in Elements(book[i].clusters)}) = 1
        /\ \A i \in DOMAIN book :
              LET clusters == Elements(book[i].clusters)
                  first    == book[i].clusters[1]
                  shown    == book[i].exemplars
              IN /\ book[i].size = Cardinality({r \in DOMAIN clustering : clustering[r] \in clusters})
                 /\ Elements(shown) \subseteq UNION {ShownOf(c) : c \in clusters}
                 /\ ShownOf(first) \subseteq Elements(shown)
                 /\ Len(shown) <= 2 * NExemplars
                 /\ Len(shown) < 2 * NExemplars =>
                      UNION {ShownOf(c) : c \in clusters} \subseteq Elements(shown)
                 /\ \A j, k \in DOMAIN shown :
                      j < k /\ shown[j] = shown[k] =>
                        k \in DOMAIN Members(clustering, first) \cap (1 .. NExemplars)
        /\ \A i, j \in DOMAIN book : i # j => Normalize(book[i].code) # Normalize(book[j].code)
        /\ ~TaxonomyRaises(book)

\* A sample has all the rows asked for that there are, takes from no stratum
\* more than it holds, and leaves none out when there are rows to go round.
QuotasAreFair ==
    asked # None =>
        LET strata == DOMAIN asked.counts
        IN /\ Total(asked.quota) = (IF asked.n < N THEN asked.n ELSE N)
           /\ \A g \in strata : asked.quota[g] \in 0 .. asked.counts[g]
           /\ asked.n >= Cardinality(strata) => \A g \in strata : asked.quota[g] >= 1

\* After any number of rounds the corrections in the frame are those of the
\* sheet imported last, each in the row it is about, every filled cell is
\* counted once, and what a retuned prompt shows as right is what a reviewer
\* wrote for that row.
GoldIsWhatReviewersWrote ==
    /\ stage = "imported" =>
         /\ \A r \in FrameRows :
              corrected[r] = IF r \in DOMAIN cells THEN cells[r] ELSE NoValue
         /\ result.reviewed + result.unmatched = Cardinality(ReviewedIds(cells))
         /\ result.reviewed + result.unreviewed = N
    /\ stage = "tuned" =>
         /\ demos # <<>>
         /\ \A k \in DOMAIN demos : demos[k].answer = cells[demos[k].row] /\ demos[k].answer # NoValue
         /\ \A j, k \in DOMAIN demos : j < k => demos[j].row < demos[k].row

\* A verified replay, whatever happened to the file and to what its caller
\* remembers, sends the request of the recorded run in everything but the system
\* prompt, and that too unless the run sent one: a manifest does not record cache=
\* and a replay never gives it, so that the system prompt of such a run is verified
\* and then not sent.  The replay warns exactly when another version is installed
\* and, if the run named its provider, exactly when that provider's URL is another.
\* (A manifest's usage is not hashed: an edit of it goes unseen.)
ReplayIsTheSameRequest ==
    replayed # None /\ replayed.verified =>
        LET call == [replayed.call EXCEPT !.usage = run.usage]
            sent == OriginalCall(run.config, run.cache, run.usage)
        IN /\ [call EXCEPT !.system = sent.system] = sent
           /\ call = sent <=>
                ~(run.cache /\ run.config.symbol = "inference_async" /\ run.config.system # None)
           /\ "version" \in replayed.warned <=>
                replayed.environment.version \notin {None, VersionOf(run.environment)}
           /\ run.config.provider # None =>
                ("endpoint" \in replayed.warned <=>
                   EndpointInput(run.config.provider, replayed.environment)
                     # EndpointInput(run.config.provider, run.environment))
=============================================================================
