----------------------------- MODULE Checkpoint -----------------------------
(***************************************************************************)
(* Resumable batch checkpointing: polar_llama/checkpoint.py with the row   *)
(* bookkeeping of polar_llama/keys.py.                                     *)
(*                                                                         *)
(* A run is one execution of the `_udf` that checkpointed_expr wraps       *)
(* around the input column.  It opens the store directory, loads the       *)
(* index of what is already answered, sends what is pending in chunks of   *)
(* at most FlushEvery distinct rows, and appends each chunk's results as   *)
(* one new part file before it sends the next.  A run may crash anywhere;  *)
(* resuming is another run over the same directory.                        *)
(*                                                                         *)
(* The backend's answers are numbered: calls[k] lists the outcomes of      *)
(* every request ever made for content key k, and a raw result is a key    *)
(* with the number of the request that produced it.                        *)
(***************************************************************************)
EXTENDS Integers, Sequences, FiniteSets

CONSTANTS
    Runs,          \* executions of _udf against one store directory
    Inputs,        \* distinct row values
    Null,          \* a null row
    Fingerprints,  \* run configurations (config_fingerprint)
    Jobs,          \* what a run may be given: configuration and input column
    FlushEvery,    \* Checkpoint.flush_every
    HasSchema,     \* a response_model is set
    CacheWarming,  \* cache=True sends the chunk through fetch_with_cache_warming
    None,          \* no result in a slot, no fingerprint in _meta.json
    MaxActive,     \* bound: runs that may overlap
    MaxClock       \* bound: distinct wall-clock readings

ASSUME CheckpointAssumption ==
    /\ Null \notin Inputs
    /\ Jobs \subseteq [fp : Fingerprints, rows : Seq(Inputs \cup {Null}),
                       retry : BOOLEAN, strict : BOOLEAN]
    /\ FlushEvery \in Nat \ {0}          \* Checkpoint.__post_init__
    /\ HasSchema \in BOOLEAN
    /\ CacheWarming \in BOOLEAN
    /\ None \notin Fingerprints \cup ((Fingerprints \X Inputs) \X Nat)
    /\ MaxActive \in Nat
    /\ MaxClock \in Nat

\* content_key(value, fingerprint): the key embeds the fingerprint.
Keys == Fingerprints \X Inputs
Raws == Keys \X Nat

\* How a failed request comes back.  `errors_as_json` is schema.is_some() in
\* run_one, and always on in fetch_with_cache_warming, through which only
\* groups of several rows go.
Outcomes == {"answer", "none", "error_json"}
Failures(K) ==
    IF HasSchema THEN {"error_json"}
    ELSE IF CacheWarming /\ Cardinality(K) > 1 THEN {"none", "error_json"}
    ELSE {"none"}

\* Mutant: only a missing result counts as an error.
IsMissing(outcome) == outcome = "none"

\* _is_error_row: without a schema a row's own text is never an error.
IsErrorRow(outcome) ==
    outcome = "none" \/ (HasSchema /\ outcome = "error_json")

VARIABLES
    pc,        \* pc[r]: where run r is
    job,       \* job[r]: its configuration and input column
    results,   \* results[r][i]: plan.results, the raw result of row i
    todo,      \* todo[r]: rows standing for the unique pending keys still to send
    got,       \* got[r]: key -> request number, for the chunk being handled
    draft,     \* draft[r]: the timestamp of the part r has written but not renamed
    sent,      \* history: the keys r has paid a request for
    meta,      \* the fingerprint in _meta.json
    parts,     \* the part files readers see
    calls,     \* calls[k]: the outcomes of the requests made for key k
    clock      \* the wall clock, which does not run backwards

vars == <<pc, job, results, todo, got, draft, sent, meta, parts, calls, clock>>

Idle == "idle"
Busy == {"opening", "loading", "running", "answered", "written"}
Ended == {"done", "refused", "crashed"}

Rows(r) == job[r].rows
KeyAt(r, i) == <<job[r].fp, Rows(r)[i]>>
Live(r) == {i \in DOMAIN Rows(r) : Rows(r)[i] # Null}
Active == {r \in Runs : pc[r] \in Busy}

\* A row of a part: which request answered the key, and whether it is ok.
PartRow == [n : Nat \ {0}, ok : BOOLEAN]

TypeOK ==
    /\ pc \in [Runs -> {Idle} \cup Busy \cup Ended]
    /\ job \in [Runs -> Jobs]
    /\ DOMAIN results = Runs
    /\ \A r \in Runs : results[r] \in [DOMAIN Rows(r) -> Raws \cup {None}]
    /\ todo \in [Runs -> SUBSET Nat]
    /\ \A r \in Runs : todo[r] \subseteq Live(r)
    /\ DOMAIN got = Runs
    /\ \A r \in Runs : DOMAIN got[r] \subseteq Keys /\ got[r] \in [DOMAIN got[r] -> Nat \ {0}]
    /\ draft \in [Runs -> Nat]
    /\ sent \in [Runs -> SUBSET Keys]
    /\ meta \in Fingerprints \cup {None}
    /\ \A p \in parts : /\ p.run \in Runs /\ p.ts \in Nat
                        /\ p.fp \in Fingerprints /\ DOMAIN p.rows \subseteq Keys
                        /\ \A k \in DOMAIN p.rows : p.rows[k] \in PartRow
    /\ calls \in [Keys -> Seq(Outcomes)]
    /\ clock \in Nat

\* Mutant: the result list starts empty.
NoSlots(j) == <<>>

\* plan_collapse's `results`: one empty slot per row.
Blank(j) == [i \in DOMAIN j.rows |-> None]

Init ==
    /\ pc = [r \in Runs |-> Idle]
    /\ job \in [Runs -> Jobs]
    /\ results = [r \in Runs |-> Blank(job[r])]
    /\ todo = [r \in Runs |-> {}]
    /\ got = [r \in Runs |-> <<>>]
    /\ draft = [r \in Runs |-> 0]
    /\ sent = [r \in Runs |-> {}]
    /\ meta = None
    /\ parts = {}
    /\ calls = [k \in Keys |-> <<>>]
    /\ clock = 0

Goto(r, label) == pc' = [pc EXCEPT ![r] = label]
-----------------------------------------------------------------------------
(***************************************************************************)
(* Opening the store.  The steps below the level of "read _meta.json, then *)
(* replace it" are in StoreMeta.                                           *)
(***************************************************************************)
Start(r) ==
    /\ pc[r] = Idle
    /\ Cardinality(Active) < MaxActive
    /\ Goto(r, "opening")
    /\ UNCHANGED <<job, results, todo, got, draft, sent, meta, parts, calls, clock>>

Mismatch(r) == meta # None /\ meta # job[r].fp

RefuseStore(r) ==
    /\ pc[r] = "opening"
    /\ Mismatch(r) /\ job[r].strict
    /\ Goto(r, "refused")
    /\ UNCHANGED <<job, results, todo, got, draft, sent, meta, parts, calls, clock>>

OpenStore(r) ==
    /\ pc[r] = "opening"
    /\ ~(Mismatch(r) /\ job[r].strict)
    /\ meta' = job[r].fp
    /\ Goto(r, "loading")
    /\ UNCHANGED <<job, results, todo, got, draft, sent, parts, calls, clock>>
-----------------------------------------------------------------------------
(***************************************************************************)
(* load_index and plan_collapse                                            *)
(***************************************************************************)
Entries(fp, k) ==
    {[n |-> p.rows[k].n, ok |-> p.rows[k].ok, ts |-> p.ts] :
        p \in {q \in parts : q.fp = fp /\ k \in DOMAIN q.rows}}

\* Mutant: the oldest row per key is kept.
NotNewer(e, f) == e.ts < f.ts \/ (e.ts = f.ts /\ (e.ok \/ ~f.ok))

\* The sort by (key, ts, ok) whose last row per key is kept.  Rows that tie
\* on all three come in no particular order.
NotOlder(e, f) == e.ts > f.ts \/ (e.ts = f.ts /\ (e.ok \/ ~f.ok))
Newest(fp, k) ==
    {e \in Entries(fp, k) : \A f \in Entries(fp, k) : NotOlder(e, f)}

StoredKeys(fp) == UNION {DOMAIN p.rows : p \in {q \in parts : q.fp = fp}}
Indexes(fp) ==
    {idx \in [StoredKeys(fp) -> UNION {Newest(fp, k) : k \in StoredKeys(fp)}] :
        \A k \in StoredKeys(fp) : idx[k] \in Newest(fp, k)}

\* Mutant: a stored answer is asked for again when failures are.
IsHitUnlessRetrying(r, idx, k) == k \in DOMAIN idx /\ ~job[r].retry

\* serve_failed is ~retry_failed: a stored failure answers the row only then.
IsHit(r, idx, k) == k \in DOMAIN idx /\ (idx[k].ok \/ ~job[r].retry)

\* Mutant: a row is compared with itself too.
NotSeenYet(r, i) ==
    \A j \in Live(r) : j <= i => KeyAt(r, j) # KeyAt(r, i)

FirstOccurrence(r, i) ==
    \A j \in Live(r) : j < i => KeyAt(r, j) # KeyAt(r, i)

LoadAndPlan(r) ==
    /\ pc[r] = "loading"
    /\ \E idx \in Indexes(job[r].fp) :
          /\ results' = [results EXCEPT ![r] =
                [i \in DOMAIN Rows(r) |->
                    IF i \in Live(r) /\ IsHit(r, idx, KeyAt(r, i))
                    THEN <<KeyAt(r, i), idx[KeyAt(r, i)].n>> ELSE None]]
          /\ todo' = [todo EXCEPT ![r] =
                {i \in Live(r) : /\ ~IsHit(r, idx, KeyAt(r, i))
                                 /\ FirstOccurrence(r, i)}]
    /\ Goto(r, "running")
    /\ UNCHANGED <<job, got, draft, sent, meta, parts, calls, clock>>
-----------------------------------------------------------------------------
(***************************************************************************)
(* The chunk loop                                                          *)
(***************************************************************************)
\* The first n elements of a set of row numbers.
First(n, S) == {i \in S : Cardinality({j \in S : j < i}) < n}

\* Mutants: everything in one chunk, and a chunk one short.
AllPending(r) == todo[r]
ShortChunk(r) == First(FlushEvery - 1, todo[r])

\* unique_pending_keys[start : start + flush_every], in row order.
ChunkRows(r) == First(FlushEvery, todo[r])
ChunkKeys(r) == {KeyAt(r, i) : i \in ChunkRows(r)}

\* One request for each of the keys K of the chunk, answered or failed.
Request(K, chunk) ==
    \E outcome \in [K -> {"answer"} \cup Failures(chunk)] :
        calls' = [k \in Keys |-> IF k \in K THEN Append(calls[k], outcome[k])
                                 ELSE calls[k]]

\* run_pending(chunk): every request of the chunk is made, paid and over.
CallBackend(r) ==
    /\ pc[r] = "running"
    /\ todo[r] # {}
    /\ Request(ChunkKeys(r), ChunkKeys(r))
    /\ sent' = [sent EXCEPT ![r] = @ \cup ChunkKeys(r)]
    /\ got' = [got EXCEPT ![r] = [k \in ChunkKeys(r) |-> Len(calls[k]) + 1]]
    /\ Goto(r, "answered")
    /\ UNCHANGED <<job, results, todo, draft, meta, parts, clock>>

\* Mutant: a result goes only to the row its request was made for.
FillAsked(r) ==
    [i \in DOMAIN Rows(r) |->
        IF i \in ChunkRows(r) THEN <<KeyAt(r, i), got[r][KeyAt(r, i)]>> ELSE results[r][i]]

\* fan_out: every row with a key of the chunk gets that key's result.
FanOut(r) ==
    [i \in DOMAIN Rows(r) |->
        IF i \in Live(r) /\ KeyAt(r, i) \in DOMAIN got[r]
        THEN <<KeyAt(r, i), got[r][KeyAt(r, i)]>> ELSE results[r][i]]

\* The part is written under its temporary name, which no reader's glob
\* matches.
WritePart(r) ==
    /\ pc[r] = "answered"
    /\ results' = [results EXCEPT ![r] = FanOut(r)]
    /\ \E now \in {clock, clock + 1} :
          /\ now <= MaxClock
          /\ clock' = now
          /\ draft' = [draft EXCEPT ![r] = now]
    /\ Goto(r, "written")
    /\ UNCHANGED <<job, todo, got, sent, meta, parts, calls>>

PartRowOf(r, k) == [n |-> got[r][k], ok |-> ~IsErrorRow(calls[k][got[r][k]])]

\* Mutant: failed rows are not appended.
OkRows(r) == [k \in {q \in DOMAIN got[r] : PartRowOf(r, q).ok} |-> PartRowOf(r, k)]

\* The rows append is given: the whole chunk, failures too.
ChunkResults(r) == [k \in DOMAIN got[r] |-> PartRowOf(r, k)]

\* os.replace: the whole chunk becomes visible to readers at once.
PublishPart(r) ==
    /\ pc[r] = "written"
    /\ parts' = parts \cup
          {[run |-> r, ts |-> draft[r], fp |-> job[r].fp,
            rows |-> ChunkResults(r)]}
    /\ todo' = [todo EXCEPT ![r] = @ \ ChunkRows(r)]
    /\ got' = [got EXCEPT ![r] = <<>>]
    /\ draft' = [draft EXCEPT ![r] = 0]
    /\ Goto(r, "running")
    /\ UNCHANGED <<job, results, sent, meta, calls, clock>>

Return(r) ==
    /\ pc[r] = "running"
    /\ todo[r] = {}
    /\ Goto(r, "done")
    /\ UNCHANGED <<job, results, todo, got, draft, sent, meta, parts, calls, clock>>
-----------------------------------------------------------------------------
(***************************************************************************)
(* Crashes: the process dies, or an exception leaves _udf.  What it held in *)
(* memory is gone; a part under its temporary name is never read.          *)
(***************************************************************************)
Forget(r) ==
    /\ results' = [results EXCEPT ![r] = Blank(job[r])]
    /\ todo' = [todo EXCEPT ![r] = {}]
    /\ got' = [got EXCEPT ![r] = <<>>]
    /\ draft' = [draft EXCEPT ![r] = 0]

Crash(r) ==
    /\ pc[r] \in Busy
    /\ Forget(r)
    /\ Goto(r, "crashed")
    /\ UNCHANGED <<job, sent, meta, parts, calls, clock>>

\* While the chunk's requests are in flight: any of them may be paid already.
CrashInFlight(r) ==
    /\ pc[r] = "running"
    /\ \E I \in SUBSET ChunkRows(r) :
          LET K == {KeyAt(r, i) : i \in I} IN
          /\ I # {}
          /\ Request(K, ChunkKeys(r))
          /\ sent' = [sent EXCEPT ![r] = @ \cup K]
    /\ Forget(r)
    /\ Goto(r, "crashed")
    /\ UNCHANGED <<job, meta, parts, clock>>

Step(r) ==
    \/ RefuseStore(r) \/ OpenStore(r) \/ LoadAndPlan(r)
    \/ CallBackend(r) \/ WritePart(r) \/ PublishPart(r) \/ Return(r)

Next == \E r \in Runs : Start(r) \/ Step(r) \/ Crash(r) \/ CrashInFlight(r)

Spec == Init /\ [][Next]_vars

\* A run that is not killed keeps going: every request ends, because the
\* HTTP client has a timeout.
FairSpec == Spec /\ \A r \in Runs : WF_vars(Step(r))
-----------------------------------------------------------------------------
(***************************************************************************)
(* Properties                                                              *)
(***************************************************************************)
Stored(r) == UNION {DOMAIN p.rows : p \in {q \in parts : q.run = r}}

\* Checkpoint.flush_every: wherever a run dies, the keys it has paid for and
\* not stored are at most one chunk.
AtMostOneChunkLost == \A r \in Runs : Cardinality(sent[r] \ Stored(r)) <= FlushEvery

\* What the store holds under a key is the result of a request made for that
\* key, and is marked ok only if the request was answered (_is_error_row).
StoreIsFaithful ==
    \A p \in parts : \A k \in DOMAIN p.rows :
        LET e == p.rows[k] IN
        /\ k[1] = p.fp
        /\ e.n \in DOMAIN calls[k]
        /\ e.ok <=> calls[k][e.n] = "answer"

\* No row ever shows another row's answer, whether it came from the index, a
\* chunk, or another row with the same key; a run that returns has filled
\* every row that is not null (plan_collapse, fan_out).
ResultsAreFaithful ==
    \A r \in Runs : \A i \in DOMAIN Rows(r) :
        /\ results[r][i] # None =>
              /\ i \in Live(r)
              /\ results[r][i][1] = KeyAt(r, i)
              /\ results[r][i][2] \in DOMAIN calls[KeyAt(r, i)]
        /\ (pc[r] = "done" /\ i \in Live(r)) => results[r][i] # None

\* Rows with the same input show the same answer, of the same request.
DuplicateRowsAgree ==
    \A r \in Runs : pc[r] = "done" =>
        \A i, j \in Live(r) : Rows(r)[i] = Rows(r)[j] => results[r][i] = results[r][j]

\* A run that has returned leaves nothing to pay for again: the answer it
\* showed for a row is in the store.
ReturnedIsStored ==
    \A r \in Runs : pc[r] = "done" =>
        \A i \in Live(r) : \E p \in parts :
            /\ p.fp = job[r].fp /\ KeyAt(r, i) \in DOMAIN p.rows
            /\ p.rows[KeyAt(r, i)].n = results[r][i][2]

\* A resumed run pays only for what the store does not answer: no request for
\* a key stored ok, nor, with retry_failed=False, for one stored as failed.
\* Runs that do not overlap.
PaysOnlyForPending ==
    [][\A r \in Runs : \A k \in sent'[r] \ sent[r] :
          \A p \in parts : k \in DOMAIN p.rows => ~p.rows[k].ok /\ job[r].retry]_vars

(***************************************************************************)
(* Runs that follow one another implement MemoStore: the log of part files *)
(* with its newest-entry rule is a map from keys to what is known of them. *)
(***************************************************************************)
Status(k) ==
    IF Entries(k[1], k) = {} THEN "unknown"
    ELSE IF \E e \in Newest(k[1], k) : e.ok THEN "answered" ELSE "failed"

Memo == INSTANCE MemoStore WITH
            memo <- [k \in Keys |-> Status(k)],
            inflight <- UNION {DOMAIN got[r] : r \in Runs}

\* The append-only store is crash-safe: chunks are stored whole or not at all
\* and an answer, once stored, is never bought again nor hidden by an older
\* failure (append, load_index, the chunk loop).
ImplementsMemo == Memo!Spec

\* A run that is not killed comes to an end.
RunsEnd == \A r \in Runs : pc[r] \in Busy ~> pc[r] \in Ended
=============================================================================
