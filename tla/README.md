# A verification model of polar_llama

polar_llama is a Polars plugin for LLM inference: expressions in Python
(`polar_llama/`), a Rust plugin that sends the requests (`src/`), a sidecar
store that makes batches resumable, a streaming pump, an updatable vector index
and a family of local engines and analysis helpers. This directory holds TLA+
modules for the parts whose correctness depends on the order of things, the TLC
configurations that check them on small instances, and proofs for TLAPS of what
matters most. Paths below are relative to the repository.

## Inventory

| Component | State it keeps | Operations | What is hard |
| --- | --- | --- | --- |
| Checkpoint store and loop (`polar_llama/checkpoint.py`) | directory of part files, `_meta.json`; per run: plan, results, chunk | open and brand the store, load the index, send a chunk, append, resume | crashes between any two steps, several runs on one directory, what counts as failed |
| Keys and collapsing (`polar_llama/keys.py`) | none | `content_key`, `plan_collapse`, `fan_out`, `config_fingerprint` | duplicates, nulls and hits in one column; what the fingerprint leaves out |
| Response cache and dedupe (`polar_llama/dedup.py`) | the same directory layout; `DedupeStats` | deduped batch, `load_index` with TTL, `prune`, `clear` | prune against readers and writers, expiry while a batch runs, what counts as failed |
| Batch runner (`src/model_client/mod.rs`, `src/utils.rs`) | requests in flight | `run_batch`, `fetch_with_cache_warming` | order of results, the concurrency bound, the shape of failures |
| Prompt-cache grouping (`src/cache.rs`, `src/expressions.rs`) | none | group by system prompt, send group by group, scatter | results back at their rows |
| Streaming (`src/stream_pyfn.rs`, `src/model_client/streaming.rs`) | bounded channel, text per row, window of open streams | open, send, receive, abort | interleaving, back-pressure, interrupts, one row's failure |
| Persistent index (`src/index.rs`) | graph, staging buffer, tombstones, two id maps, the saved file | build, add, remove, compact, query, save, load | four structures that must agree, tombstones in the search |
| Tools and MCP (`src/mcp.rs`, `polar_llama/tools.py`) | session; futures and tasks of a batch | list the tools, connect, execute a column of calls, render the results | one entry per call, in place; deadlines against late answers, and waits without one; responses told from the server's other messages |
| TypeSafe client (`src/model_client/typesafe.rs`, `src/typesafe_expr.rs`) | attempts | derive questions, plan requests, evaluate, retry, back off, gather | the retry budget; rows, segments and requests counted differently |
| Local engines (`polar_llama/local/engine.py`, `embed.py`, `expr.py`) | registry, loaded model | get, register, clear, load, generate in chunks | building and loading once under concurrent callers; answers back at their rows |
| Prefix cache (`polar_llama/local/prefix_cache.py`) | LRU of prefixes | match, put, evict | a match spread over two lock sections |
| Local server backend (`polar_llama/local/server_backend.py`) | process environment | set the endpoint | read when built, and again when run |
| Manifests (`polar_llama/manifest.py`) | manifest file | build, save, load, replay | a replay that sends what the run sent, whatever became of the file; what a manifest does not record |
| Pricing and cost (`polar_llama/pricing.py`, `src/cost.rs`) | price table | register, resolve, cost | order of resolution |
| Review sampling (`polar_llama/hitl.py`) | the frame and the review sheet | allocate quotas, export, import corrections, make a training set | quotas under three rules at once; a second round over the first one's columns |
| Codebook (`polar_llama/codebook.py`) | none | name clusters, merge entries, make a taxonomy | codes that collide, clusters without a name, texts that repeat |
| Prompt optimisation (`polar_llama/optimize.py`) | none that survives a call | evaluate, choose demonstrations | what is shown as right |
| Metrics, k-means (`src/quality.rs`, `src/kmeans.rs`, `polar_llama/quality.py`...) | none | pure computations | floating point |
| Provider clients, Python API | none | formatting, parsing, registration | I/O only |

How they interact. The Python API turns a column into either a plugin call or a
`map_batches` UDF. The checkpoint UDF opens its store, asks `plan_collapse` what
is pending, calls the plugin once per chunk (`run_pending`), spreads the answers
with `fan_out` and appends them. The plugin runs a batch on a shared tokio
runtime, group by group through `fetch_with_cache_warming` if prompt caching is
on. The response cache is the same store under another UDF. The streaming call
spawns one task on the same runtime and pumps its channel on the calling thread
with the GIL released. The index is called directly. Tools and evaluations are plugin
calls too, or a thread pool when the executor is a Python function. Local
expressions are UDFs over engines that all threads of the process share. A coding
study is a program of calls made one after the other: the codebook labels a frame,
a sample of it is reviewed, corrections retune a prompt, and a manifest records the run.

What would make each of them wrong: a store that loses, hides or misattributes an
answer, or that makes a resumed job pay twice; a column with an answer in the
wrong row; a stream whose text is reordered, or reported complete when it is
not, or cut in silence, or that never returns; an index that forgets a live
vector or returns a dead one; a tool call that is run twice, or whose failure the model
reads as an answer; an evaluation that bills without end; a model loaded twice, or a
cached prefix under the wrong text; local text sent to a hosted service; a correction in
another row; a replay that asks something else. The `hazards` of `PROJECT.json` list these places
by line.

## Modules

| Module | Models | Composes |
| --- | --- | --- |
| `StoreMeta` | how `_meta.json` is read, written and renamed, file by file | |
| `Checkpoint` | the checkpoint UDF with its store, keys, plan and failures | instantiates `MemoStore` |
| `MemoStore` | abstract: a memo of answers bought in bounded batches | |
| `BatchRunner` | an inference call: grouping, warming, the window, results back at their rows | instantiates `RowCalls` |
| `RowCalls` | abstract: one request per row, each row shows its own outcome | |
| `StreamPump` | `inference_stream`: streams, window, channel, pump | |
| `ResponseCache` | the response cache's directory under deduped batches, `prune` and `clear` | |
| `PersistentIndex` | `HnswIndex` and its file | instantiates `IndexMap` |
| `IndexMap` | abstract: a map from ids to vectors with a save slot | |
| `ToolCalls` | `mcp_tools`, `execute_tool_calls` on both runtimes, and the message made of the results | |
| `TypeSafe` | a typed evaluation of rows or of segments | |
| `PrefixCache` | the prefix store: its locked sections and checks | |
| `CollapsedPrefill` | how a chunk of prompts is planned over one shared prefix | |
| `LocalServing` | threads with local expressions over registries, engines, store and environment | extends `CollapsedPrefill`, `PrefixCache` |
| `Codebook` | naming and merging of clusters | |
| `ReviewSample` | quotas, import of corrections, demonstrations | |
| `RunManifest` | fingerprints, manifests and what replay sends | |
| `CodingSession` | a study from codebook to replay | extends `Codebook`, `ReviewSample`, `RunManifest` |
| `MC*` | the small instances | extend the above |
| `*Proofs` | theorems | extend the module they are about; `StoredStateProofs` is about `PersistentIndex` and `StoreMeta`, `PythonSideProofs` about `LocalServing` and `CodingSession` |

### StoreMeta

A construction of a `CheckpointStore` is a writer. Its steps are the ones another
process can get between: read and check the metadata (`Refuse`, `Accept`), open
the temporary file with truncation (`CreateTmp`), write it (`WriteTmp`), rename it
(`ReplaceMeta`, or `ReplaceFails` when the name is gone), and `Crash`. Files are
inodes: an open file keeps receiving text after it was renamed, which is what
makes the shared temporary name dangerous. `opened` and `overlapped` are history.

### Checkpoint

`pc[r]` follows the `_udf` of run `r`; the store is `meta` and the set `parts`.
`calls[k]` is the external world: the outcomes of all requests ever made for key
`k`. An answer is not text but the number of the request that produced it, so a
row that shows the wrong answer, or an old one, is told apart from one that
shows the right one. A part is published whole by the rename in `PublishPart`;
`WritePart` and `PublishPart` are separate because a crash, or another run's
load, can come between them. `Failures` says how a failed request comes back:
error JSON when there is a schema; `None` without one; and either of the two
without a schema when the chunk goes through cache warming, because groups of
several rows turn failures into error JSON while groups of one do not.
Ties in the newest-entry rule (same timestamp, same `ok`) are a choice. The step
from reading `_meta.json` to replacing it is one action here and several in
`StoreMeta`.

### ResponseCache

An operation is a batch of `deduped_expr`, a `prune` or a `clear`; `pc[a]` follows it
through listing the parts, reading them one by one (`ReadPart`, `FailToRead`),
publishing a part by rename (`Store`, `StoreCompacted`) and removing parts one by one
(`Unlink`), because nothing locks the directory and another operation can come
between any two of these. Parts have random names, so they are read in any
order; a part is named here by the operation that wrote it, and those of earlier
batches are in `Left`, with numbers up to 0. As in `Checkpoint` an answer is the number of its
request, which tells an answer that comes back after a `clear` from one that was paid for
again. Time is a clock that `Tick` advances at any moment; `Fresh` is the comparison
with the cutoff, and `PruneTtl` may differ from the ttl of the cache a batch
uses. `stored`, `planned`, `before`, `raced` and `blind` are history. A prune removes a part
that it found and could not read, and `PruneIsInvisible` is stated for the others. The
fingerprint is part of the key, and `_meta.json` is `StoreMeta`'s. Everything is appended
as `ok`. That does not make it an answer: `Ask` keeps what `IsErrorRow` does not take for an
error, and `Failures` is what a failed request comes back as, which without a schema and with
`cache=True` (`warming` in a batch's job; it is not in the fingerprint) may be error JSON. So an entry has a
`text`, and `ServedIsFresh` says when it may be something else than an answer.

Met while modelling: such a batch stores its failures as answers, and every later batch is served them,
as of a checkpoint (the run `checkpoint_warming`), against `polar_llama/dedup.py:406-407` and `422-423`.

### BatchRunner

One inference call of the plugin. The rows that are not null (`Live`) are grouped (`Groups`) as the
strategy says: all in one, each alone, or by system prompt if the prompt is long enough.
`NextGroup` to `Collect` is the body of the loop over groups. Without caching, and for a
group of one row, requests go through `buffered` (`InWindow`); a group of several is warmed
by its first row and the rest is sent at once (`AfterFirst`). `Reply` is the
provider. `InOrder` and `Scatter` are the sort and the zip that bring results back
to their rows. A result names the row it was made for, so that one in the wrong place
shows. `RowCalls` is what `Checkpoint` relies on when it takes a call as one step: `Shows` is
its `Failures`, row by row. `asked` and `became` are history. A column of dtype Null, for
which the plugin returns an empty series, and rows that do not parse as messages, which are sent
as they are, are left out.

### StreamPump

One action per thing the task or the pump can do. Deltas are numbered; a row's text
is the sequence of numbers appended. `Open` is the window of `buffered`: streams
start in order and a finished one keeps its slot until those before it have
finished. `Stop` is abort, break and drop: whatever is in the channel is lost.
An event the pump has received when it sees the signal is dropped as well.

### PersistentIndex

An index is a record of the fields of the Rust struct. A point is its internal id;
`vec` gives its vector. Vectors are directions given as angles of a half circle,
over which cosine distance is monotone. The order of points inside the graph
and the buffer is left out, and so a query's answer is a set of sets: points at the same
distance come in any order. The two compaction ratios are one percentage. The
graph search (`instant_distance`) is external and taken as exact, which is what
the over-fetch logic around it is written against; its recall is not a
question for a model checker.

`SetAutoCompact` is the setter; it changes the policy of the index and nothing a user sees.

### ToolCalls

A call is its place in the column. `ListPage` to `ListDone` are `mcp_tools`; beside the response
there may be a notification or a request of the server's own, under any number (`Noise`), and
`Extract` is how the client finds its response: in an HTTP body, which is read whole, the last
event with a result, and over stdio, which is read up to the response, the first line with the id it waits
for. `cursor` is what the page found says of a next one, and `heard`, which is history, what there was to read. `target` says who runs the calls. On the
thread pool `Start` and `Answer` are a worker's, `Collect` and `TimeOut` the loop over the futures:
`future.result(timeout)` gives up a call whose thread goes on, so `task` and `result` are separate,
and a call that was given up before it started still starts. In the plugin a call that
expires is over. `ran` counts what reached the tool, which is what a reader of the results
must not be misled about. Deadlines may pass at any moment, where there is one.

Met while modelling: the Python path raises on a row that is not JSON, although its docstring
(`polar_llama/tools.py:436-438`) says that only transport failures raise; the plugin puts an error in the
row. A timeout does not stop the call, and the pool's exit waits for its threads: an executor that
never returns holds up the batch, which `BatchEnds` says. A stdio server that says nothing holds up
`mcp_tools` in the same way: `readline` (`polar_llama/tools.py:370-371`) has no deadline, although `timeout_s` is
documented as the timeout of each protocol request (`220-221`). And over stdio a request of the server's under the
number `mcp_tools` waits for is taken for the response (`381-384`): it has no result, so the list ends there,
short and without an error. `ListedInFull` says exactly this of stdio, and of HTTP that the list is whole.

### TypeSafe

`PlanRows` and `PlanChunks` are the requests an evaluation makes, `Send` to `Collect` the window and
the retry loop of one request, `Return` the column. `heard[q]` is everything the server has
said to request `q`. Line 0 is the row itself; segments count from 1. Backoff takes no
time. A contract of more questions than `max_questions` is still asked in one request of one segment; a
question the server leaves out comes back blank and without an error; and `segments`, unlike the other inputs,
is not broadcast: all three are as the code has them.

### LocalServing, PrefixCache, CollapsedPrefill

A thread has one job, and a step ends where another thread can come between: the look at the registry
without its lock (`Lookup`), the section under it (`GetEngine`), the look at the engine
(`FindUnloaded`), the wait for its lock (`AcquireLoadLock`), the load (`EnsureLoaded`, `LoadFails`), and then
chunk after chunk. With collapsing the batch generator reports its rows token by token in any order
(`Event`). `match` is two steps (`GetExact`, `Match`), as its two locked sections are, and `Reuse` checks every seam
before a cache is used. Text and tokens are sequences and an answer is the tokens it was made
from, so that a row that is given another row's prompt, or a prefix that was tokenized otherwise, shows.
`Encode` is external. `sent`, `cleared` are history.

As the code has it: `in_process`, `mlx` and `mlx_batch` are three keys of one model, which may be loaded once under each;
`match` does not see in its second section an entry equal to the prefix that was put meanwhile;
`MlxBatchEngine` raises for a whole chunk where the `LocalEngine` protocol (`polar_llama/local/engine.py:79-92`)
asks for an error per row (`GenerateFails`); an expression built under one local endpoint is sent to the
one set last.

### CodingSession, Codebook, ReviewSample, RunManifest

The four phases share what one call leaves for the next. `Codebook` takes any partition as the
clustering, and a model that names a cluster with any of the words in any spelling or not at
all. Rows have texts, which may be equal, and exemplars are texts: `EntryOf` shows a naming call those of the
nearest rows as they come, and `Combined` is the loop that adds a later entry's to an earlier one's. `ReviewSample` has the allocation in its four steps (largest remainder, one for each stratum, cap and
redistribute); a stratum's rows are drawn in any way. A sheet comes back with any cells filled, with ids of
other rows, or without some (`Review`). `RunManifest` hashes by constructor: two hashes are equal when what is
hashed is. `Exit` cuts a save, `EditFile` changes one field of the file, `ChangeEnvironment` the URLs and the
version. The run that was recorded (`run`) has its `cache=`, which the manifest has not; `SystemSent` is
what becomes of a system prompt with and without it.

As the code has it: `_review_id` is the position of a row, so a frame sorted between export and import
would take corrections to other rows (the model keeps the frame); a second import forgets the
corrections of rows that were not reviewed again; `max_demos=0` still shows one demonstration; the
recorded `usage` is not hashed, so an edit of it changes a replay unseen; `verify=False` skips
every check; `inference_async` sends a system prompt only with `cache=True` (`src/expressions.rs:143`; the other
path, `212-236`, drops it), and `replay` gives no `cache=` (`polar_llama/manifest.py:810-819`), so the
system prompt of such a run is recorded, verified, and then not sent; the exemplars of merged entries are called deduplicated
(`polar_llama/codebook.py:385-386`), but a text the first entry has twice stays there twice; and with no provider named the endpoint is not part of any fingerprint
(`polar_llama/keys.py:53`), although `OPENAI_BASE_URL` decides where such a request goes: two runs against
different endpoints share checkpoint and cache entries, which the comment above it excludes, and their
replays do not warn.

## Runs

| Run | Instance | Shows |
| --- | --- | --- |
| `store_meta` | 3 constructions, 2 at a time, 2 fingerprints | with no overlap, readers see the last finished construction's fingerprint and a strict one never rebrands; a torn file takes two overlapping constructions |
| `checkpoint_resume` | 3 runs in sequence, 5 rows with a null and a duplicate, chunks of 2 | a crash loses at most one chunk; rows show their own answers; a resume pays only for what is pending; the part log implements the memo |
| `checkpoint_overlap` | 2 runs at once, 3 different jobs, 2 fingerprints, chunks of 1 | the store stays faithful, duplicates agree, what a run returned is stored, and runs end |
| `checkpoint_warming` | 2 runs, 2 rows, prompt caching on, no schema | violation: a failure is stored as an answer |
| `response_cache` | any 3 of 2 batches, 2 prunes and a clear, 2 at a time, 2 keys, ttls of 0 and 1, `cache=True` or not, no schema | pruning neither loses nor revives an answer a reader may still use, what is served keeps its age through prunes and is an answer unless a `cache=True` batch asked for it, a clear is final |
| `batch_runner` | 4 columns of up to 5 rows, every strategy, windows of 2 and 64 and a setting of 0 | a request per row and its own result at every row, groups are warmed first, the call ends |
| `stream_pump` | up to 4 rows, 2 deltas each, channel of 2, window of 2 | texts are prefixes, finished means whole, no silent loss, the call returns |
| `persistent_index` | 2 ids, 2 vectors, 3 internal ids, automatic compaction on and off | the structures agree, queries are exact within the over-fetch, calls do to the map what they say |
| `tool_calls` | a list of 2 pages, 3 columns of up to 4 calls, both runtimes, concurrency 0 and 2 | every page is listed, over stdio up to a message mistaken for a response; each entry tells what happened to its own call, a verdict is final, the batch ends but for two waits without a deadline |
| `typesafe` | 6 contracts, rows with a null and a malformed one, documents of up to 2 segments, window 2, 2 retries | retries are spent on transient failures only, within the budget; every line shows its own answer; the evaluation ends |
| `local_serving` | 2 threads, each with any of 18 jobs, chunks of 2 and 1, a store of one entry | rows answer their own prompt, engines are built and loaded once, requests stay local, reused caches fit, jobs end |
| `coding_session` | a column of 5 rows in up to 3 clusters, with equal texts; a frame of 4, 2 rounds of review; 4 configurations, with `cache=` and without, 4 environments | merging loses no cluster and no exemplar there is room for, quotas are fair, gold is what was written last, a verified replay is the same request but for the system prompt of a `cache=True` run |

The bounds. Three runs in sequence are one to leave entries, one to crash over
them and one to see the outcome; two stored entries for one key, of equal and of
different timestamps, already occur with `MaxClock = 1`. Five rows give two chunks,
the second of one key, with the duplicate in a different place from its first
occurrence. Overlap needs two runs; the jobs differ in every field. Two prunes
that overlap, with a part left earlier and one a batch appends, give every order of
listing, publishing and removing. `MaxStarted = 3` takes every three of the operations: two batches and a prune
show a second batch served what the first stored and the prune rewrote; the second batch is what a failure stored as an
answer needs in order to be served. Clock readings 0 to 2 let an entry expire for
one ttl and not for the other. The
columns of `batch_runner` interleave two groups with a null and rows of their own, and one has a
group larger than the window. Capacity and
window of 2 with 3 active rows make both full at once. Three internal ids
allow an upsert of an upsert, a duplicate inside a batch and a re-add after a removal,
before and after compaction. Concurrency 0 and 2 with three calls have a call that waits. Three lines of
questions and `max_questions` of 0, 2 and 4 give requests of one segment and of several, and a contract that is
larger than the limit. Two threads suffice for the races of a registry, a load lock and a
two-section match, each of which is between two; the jobs contain the third party (clear, register,
put) as well. A store of one entry evicts at every put. Five rows leave two in each of two clusters, so that with `NExemplars = 2` an entry can repeat a text, share
one with the next, and two entries reach the bound of four, which a third one meets full; four rows have every shape of
partition into up to three strata; two rounds of review are what tells a first import from a later one.
Every named bound is a constant: `MaxActive`, `MaxStarted`, `MaxClock`, `MaxFaults`, `MaxDeltas`, `MaxId`, `MaxRounds`, `MaxFilled`.

No run checks a type invariant: typing is proved where there are proofs, and elsewhere follows
from the stronger properties or would not be missed.

Fairness. `Checkpoint!FairSpec` assumes weak fairness of each run's own steps:
a run that is not killed proceeds, and each request ends because the shared HTTP
client has a 600 s timeout (`src/model_client/mod.rs:24-30`). Starting and
crashing are not fair. `StreamPump!FairSpec` assumes it of each row's stream and of
the pump: the tokio runtime polls what can move, the streaming client's
`read_timeout` of 120 s ends a silent stream (`src/model_client/streaming.rs:221-227`),
and `MaxDeltas` stands for the fact that providers' answers are finite. Ctrl-C and
the callback's exception are not fair.

`BatchRunner!FairSpec` assumes that some step is taken while one can be, for the same reasons;
a call has finitely many steps. `TypeSafe!FairSpec` is the same: a request ends by the client's timeout, and
a sleep is 60 s at most. `ToolCalls!FairSpec` is fair to each step of the batch; an executor's or a server's answer
is not assumed to come, a deadline is, except on the pool, where nothing ends a running executor. Of a request of
`mcp_tools` over HTTP it assumes that it ends, answered or not, by the session's timeout
(`polar_llama/tools.py:285-334`), which a silent server meets; that a server does not send one body without end is
assumed (`Bodies`). Over stdio nothing is assumed, since nothing ends the wait for a line.
`LocalServing!FairSpec` lets every thread that can move do so; a load ends, well or not. Locks need no
more, as each thread takes one once at most.

`PersistentIndex`, `StoreMeta`, `ResponseCache` and `CodingSession` state no liveness: their calls return because they
contain no waiting.

The wall clocks of `Checkpoint` and `ResponseCache` do not run backwards. The two step
properties of `checkpoint_resume` are stated for runs that follow one another: overlapping runs
load their index before the other has appended, and do buy keys twice.

## Proofs

Eight modules hold the proofs, two of them for two components each, and for every value of the constants. The hypotheses
are the named assumptions of the components' modules, and where a theorem needs more it says so.
Every inductive invariant below also holds on the instance of the component's run, where TLC checked it
(that of `ToolCalls` with the length of a row bounded, since TLC cannot try all of `Nat`).

| Theorem | States | Inductive invariant |
| --- | --- | --- |
| `CheckpointProofs!TypeCorrect` | `[]TypeOK` | `TypeOK` |
| `CheckpointProofs!LosesAtMostOneChunk` | `[]AtMostOneChunkLost` | `ChunkInv` |
| `CheckpointProofs!StoreStaysFaithful` | `[]StoreIsFaithful`, with a schema or without warming | `FaithInv` |
| `CheckpointProofs!RowsShowTheirOwn`, `DuplicatesShowOneAnswer`, `ReturnedStaysStored` | `[]ResultsAreFaithful`, `[]DuplicateRowsAgree`, `[]ReturnedIsStored` | `RowsInv` |
| `CheckpointProofs!ResumePaysOnlyForPending`, `ResumeImplementsMemo` | `PaysOnlyForPending`, the refinement of `MemoStore`, for runs in sequence (`MaxActive = 1`) | `SoloInv` |
| `StreamPumpProofs!PumpTyped`, `TextStaysPrefix`, `FinishedStaysWhole`, `LossIsNeverSilent` | the type invariant, `[]TextIsPrefix`, `[]FinishedIsWhole`, `[]NoSilentLoss` | `PumpInv` |
| `StoredStateProofs!MetaStaysLastOpened`, `TornTakesTwo`, `StrictIsStrict` | `[]MetaIsLastOpened`, `[]TornNeedsOverlap`, `StrictNeverRebrands` | `MetaInv` |
| `StoredStateProofs!StructuresStayAgreed`, `IndexImplementsMap`, `QueriesAreExact` | `[]StructuresAgree`, the refinement of `IndexMap`, `[]QueryIsExact` | `IndexInv` |
| `ResponseCacheProofs!ServedStaysFresh`, `ClearStaysFull` | `[]ServedIsFresh`, `[]ClearIsFull` | `CacheInv` |
| `ResponseCacheProofs!PruneStaysInvisible` | `[]PruneIsInvisible` | `PruneInv` |
| `BatchRunnerProofs!PrefixesAreWarmed`, `BatchImplementsRowCalls` | `[]WarmsFirst`, the refinement of `RowCalls` | `BatchInv` |
| `ToolCallsProofs!ListsInFull`, `RowsTellNothingElse`, `VerdictStaysFinal` | `[]ListedInFull`, `[]RowsTellTheTruth`, `VerdictIsFinal` | `ToolInv` |
| `TypeSafeProofs!RetriesStaySpentWell` | `[]RetriesAreSpentWell` | `SendingInv` |
| `TypeSafeProofs!AnswersStayInPlace` | `[]EveryLineItsOwn` | `AnswersInv` |
| `PythonSideProofs!RequestsNeverLeave` | `[]RequestsStayLocal`, if `LocalUrls` | `EndpointInv` |
| `PythonSideProofs!EnginesAreBuiltOnce` | `[]BuiltOnce` | `EnginesInv` |
| `PythonSideProofs!ReusedCachesFit` | `[]ReuseIsSound`, if `EmptyStarts` | `ReuseInv` |
| `PythonSideProofs!RowsShowTheirAnswer` | `[]RowsAnswerTheirPrompt`, if `Tokenizer(T)` for some `T` | `RowsInv` |
| `PythonSideProofs!VerifiedReplaysAreTheRun` | `[]ReplayIsTheSameRequest`, if `NoneIsNoHash` | `ReplayInv` |
| `PythonSideProofs!GoldIsTheReviewers` | `[]GoldIsWhatReviewersWrote` | `GoldInv` |
| `PythonSideProofs!CodebooksPartition` | `[]CodebookPartitions` | itself, by `InducedIs` |
| `PythonSideProofs!QuotasStayFair` | `[]QuotasAreFair` | itself, by `QuotasAre` |

`CheckpointProofs`. The bound on what a crash loses is not inductive: it has to be known that the keys paid
for and not stored are those of the chunk in hand, and that a run between chunks has stored all it has paid
for. `ChunkInv` says so for each value of `pc`; the cardinality of a chunk rests on a lemma that the first `n`
elements of a finite set of naturals are at most `n`. `FaithInv` adds that the chunk in hand refers to requests
that were made, of keys of the run's own fingerprint, and that `calls` only grows; the run `checkpoint_warming`
shows that its assumption is needed. What a column shows depends on what holds between chunks: `RowsRight` says, for
each value of `pc`, that a row still empty has its key pending, that rows with one key are filled together, and
that a result shown is in a part or in the chunk about to become one; `PartsWereAsked` that parts refer to requests
that were made. What another run does leaves all this alone because parts and `calls` only grow. That a resumed
job pays for nothing twice holds only for runs in sequence, which is the hypothesis `MaxActive = 1`. `SoloInv` then
says that the store has entries only of the past and of the writers' own fingerprints (`TimesPast`, `OwnKeys`), that an
answer, once stored, is never followed by anything newer for its key (`OkIsLast`), and that the keys a run still has to send
stay free of stored answers until it sends them (`TodoIsOpen`). From these each step maps to one of `MemoStore` or to none.

`StreamPumpProofs`. None of the three properties is inductive by itself: that a delta is the next one of its row depends
on what is in the channel. `PumpInv` adds that the channel holds, for each row, what was sent and is not in the text
yet, without a gap and in order, with the row's end behind it (`EventsAreDue`, `EventsInOrder`, `NothingMissing`),
and that a row that ended is finished, or noticed, or has its end in the channel (`EndsAreKept`). From it follow
`HeadIsNext` and `HeadEndsRow`, on which every step of the pump rests.

`StoredStateProofs`, on `StoreMeta`. `MetaInv` says who holds the temporary file: if it is torn, a writer that never finished its
text or two writers (`TmpIsHeld`), so that whoever publishes it leaves another that has not finished; and that
a construction alone has a temporary file of its own (`OneAtATime`).

`StoredStateProofs`, on `PersistentIndex`. `Fits` strengthens `StructuresAgree` by what an upsert relies on: the next number has not been
given out, and the saved file fits as well, since a load brings it back. The work is in one lemma per operation
(`BuiltFits`, `AddedFits`, `RemovedFits`, `CompactedFits`), each of which says both that the result fits and which map
it stands for; the theorem about the map is then a matter of putting them together. Of queries, `CandidatesSuffice`
says why the over-fetch is enough: among `k` points and one for every tombstone, either `k` are live or the
whole graph was fetched, so a live point that was not fetched has `k` live ones before it; and `OwnersAre` that points
and ids correspond. `PersistentIndexAssumption` asks that "no index" be none of the indexes or maps.

`ResponseCacheProofs`. `OnlyStored` says that whatever lies in a part, was read, or is about to be rewritten by a
prune is an entry as a batch stored it; freshness follows, because a prune does not touch the time. That what
was stored is an answer, or came of a batch that takes failures for answers, is `Answers`, which rests on
what `Ask` can draft (`AskDrafts`). A clear is final
because, once it has listed the parts without a prune under way, cleared answers are nowhere but in the listed parts:
a prune holds nothing while it is idle (`PrunersHold`), and what a batch still has to publish is never an answer that
was stored (`DraftsAreNew`). For prunes, the directory must cover every stored answer that matters not only now but
also once any prune has removed what it is about to remove: `Housekept` says that the directory covers, that what each
prune keeps covers (`Cover`), and that what prunes that overlap will remove is nested (`Nested`), without which
two of them could each rely on the part the other removes. Parts get names that are not in use (`NamesAreNew`).

`BatchRunnerProofs`. `BatchInv` says that a row is in one place at a time, in a group still to come, in the group in
hand or among the results (`Placed`), and that the place tells what became of it (`RowsTrue`): not asked, asked once, or
asked once and with the outcome the result shows. The promise follows step by step, because `Ask` and `Reply` move one row
and the other steps none; at the end sort and zip bring every result to its row, which takes a lemma that a
sorted enumeration of `1 .. n` is `n` long and in place. `Warmed` is what `AfterFirst` ensures of the group in hand.

`ToolCallsProofs`. `Listed` follows the pages: the listing after `n` of them is the first `n` and the cursor stands for the
next, since in any noise `Extract` finds the response to the request, or over stdio a request of the server's that
was read first and has its number (`ResponseFound`); then the listing is at an end, one page behind what was asked for. `CallTrue` relates what a task is at, how often the tool
ran and what was recorded; a record that is not a timeout is the task's own end. `BatchTrue` fixes the two columns.
The assumption asks that the verdicts be told apart from "nothing yet", and that a null be no row of results.

`TypeSafeProofs`. `Sending` relates the phase of a request to what was heard of it: as many answers as attempts, all
but the last of them transient. For the column, `PlanRight` says that the requests planned for a row follow one another without
a gap from its first line to its last, and is established by an induction over the rows (`PlansAreRight`) from what a
row adds (`StatesAreRight`, `ChunksAreRight`); a second induction over the requests gives that a row's entries, appended
request by request, stand at their lines (`LinesFollow`). `InHandOver` keeps that the `n`-th result is the `n`-th
request's. The model writes both loops with one operator, `Concat`, so that one lemma unfolds them (`ConcatIs`).

`PythonSideProofs`, on `LocalServing`. `RequestsStayLocal` needs that an expression is only built once there is an
endpoint and that no step takes one away (`EndpointInv`); its hypothesis `LocalUrls` is that nobody passes the hosted
service's URL as a local one, which the code does not look at. `EnginesInv` counts: the engines made for a key are at most the
one in use, one for each clear and one for each engine put in by hand so far; loads stay 0 or 1 because
`_ensure_loaded` looks again under its lock. Of the prefix store, `HitSound` says what a thread may hold between the two
sections of `match`, although the entry may be evicted meanwhile: one that was stored, of its own model, and equal to its prefix
or a strict prefix of it. `EmptyStarts` is needed because `verify_token_boundary` accepts an empty prefix unseen: what the
tokenizer makes of the empty text, a mark of the beginning or nothing, must begin every text. For the rows,
`Progress` says that the answers so far are those of the prompts so far and that the chunks still to do are the other prompts in
order, and `Draining` that each row of a chunk in the generator has a prefix of its own answer. That chunks cover
the prompts without gap is arithmetic (`ChunkNumbers`, `CutTail`), that an answer comes back at its row is
`ScatterRight`, and that a flattened sequence is its pieces in order (`FlattenIs`) is an induction, done by a least
counterexample because the library's rule takes an operator.

`PythonSideProofs`, on `CodingSession`. `ReplayInv` rests on `Signed`: whatever was done to the saved file, its `id` is still
that of the recorded run's fields, since an edit changes another field; a file that `load_manifest` accepts then says what
the run said (`ManifestId` is one to one), and an input that the verification accepts is the run's (`HashIsInjective`). From this
`SameRequest` follows of the call, the system prompt of a `cache=` run apart, and of the two warnings.
`NoneIsNoHash` says that a null is no hash, and `SessionAssumption` that no model is called by the word recorded for
none, `default`, as `polar_llama/manifest.py:804-807` has it too.
`GoldInv` adds to the property the domains of labels and sheet, of which one id at most is a stray. A codebook is
followed entry by entry: after `n` of them the book partitions the first `n` clusters (`BookOk`), and one more keeps it so
(`MergeKeeps`), because a normalised code is in the book at most once. An entry shows
all the texts of its naming call (`ShowsAll`); adding another's keeps every text of both, puts none twice that the first
did not have twice (`CombinedIs`, by the first place a text has, `FirstPlace`), and the cut drops something only when
the bound is reached, and nothing of the first entry's, which is within half of it (`MergedIs`).

Quotas are sums over strata, and a sum is followed by its first `k` members (`PartSumIs`); sums add, scale and compare place by
place (`TotalPlus`, `TotalTimes`, `TotalAtMost`). Adding one in `k` places raises a sum by `k`, because the places with rank
below `k` are `k`: ranking is a bijection (`LeadingCount`, `AddOneIs`). So the largest remainder and the equal split give out exactly `n`
(the fractions sum to no more than the number of strata that have one, `LargestRemainderIs`), the guarantee moves
rows and makes none, and finds a stratum that can spare one as long as there are as many rows as strata (`SomeSpare`,
`GiveOneIs`), and the first turn of the redistribution places all that is over, as there is room for it: the sum asked for is at most
the sum of the sizes (`TurnIs`); later turns change nothing (`TurnRests`). That the strata are numbered from one
without gap and their sizes add up to the frame is `StrataAre`.

What stays with TLC. Liveness and `ENABLED` (`RunsEnd`, `PumpReturns`, `CallReturns`, `BatchEnds`, `EvaluationEnds`, `JobsEnd`), for which the
prover has no rule under fairness. Every other property of a passing run is the statement of a theorem.

## Not modelled

`PROJECT.json` gives the reason per component. Pure I/O (five providers' formats, the SSE and
HTTP layers, plugin registration), floating-point computations (metrics, k-means, prices, tensor code) and the
search of `InstructionOptimizer` have no control of their own for a model to get right or wrong.
Not modelled either, and known to matter at the level of bytes and words only: a network chunk that ends inside a
character is decoded by itself (`src/model_client/streaming.rs:56`), and the index's internal ids are 32 bits wide and
never given back (`src/index.rs:264`).
Within modelled components, wire formats, wording, logging, ids and hashes beyond being equal or not, and the text of
prompts are left out.

Behaviour of the code that the models have and no property forbids: a warmed group is sent outside
`max_concurrency` (`src/utils.rs:315`; the comment at `src/model_client/mod.rs:37-38` calls it the maximum per batch);
the second of two overlapping constructions of a store may die of `FileNotFoundError`
(`ReplaceFails`; the class comment calls concurrent writers benign); a load whose listed parts a prune has removed pays again.
