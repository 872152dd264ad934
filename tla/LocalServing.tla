---------------------------- MODULE LocalServing ----------------------------
(***************************************************************************)
(* polar_llama/local: threads of one process that evaluate local           *)
(* expressions.  A thread has one job: a completion or embedding UDF over  *)
(* a column (expr.py, engine.py, embed.py), an expression sent to a local  *)
(* server (server_backend.py), a use of the prefix store (prefix_cache.py) *)
(* or a change of a registry.  They share the engine registries, the       *)
(* engines' load locks, the prefix store and OPENAI_BASE_URL.              *)
(*                                                                         *)
(* Text and tokens are sequences; an engine's answer is the tokens it was  *)
(* made from.                                                              *)
(***************************************************************************)
EXTENDS CollapsedPrefill, PrefixCache

CONSTANTS
    Threads,
    Jobs,           \* what a thread may be asked to do
    DefaultChunk,   \* DEFAULT_CHUNK_SIZE
    Environments,   \* sets of the switches that are on
    OnLongerCache,  \* "skip" or "raise"
    Bad,            \* texts an engine fails on
    Null

Udfs == {"complete", "embed"}

\* A column is a sequence of texts, or nulls.
ASSUME LocalServingAssumption ==
    /\ \A job \in Jobs : job.kind \in
          {"complete", "embed", "serve", "reuse", "put", "register", "clear"}
    /\ \A job \in Jobs : job.kind \in Udfs =>
          /\ job.system \in Seq(STRING)
          /\ Len(job.column) \in Nat /\ DOMAIN job.column = 1 .. Len(job.column)
          /\ \A r \in DOMAIN job.column :
                job.column[r] = Null \/ job.column[r] \in Seq(STRING)
          /\ job.kind = "embed" => job.size \in Int
    /\ \A job \in Jobs : job.kind \in {"put", "reuse"} => job.prefix \in Seq(STRING)
    /\ \A job \in Jobs : job.kind = "reuse" =>
          \A i \in DOMAIN job.suffixes : job.suffixes[i] \in Seq(STRING)
    /\ \A env \in Environments : env \subseteq {"fake", "streaming", "collapse"}
    /\ DefaultChunk \in Nat \ {0} /\ OnLongerCache \in {"skip", "raise"}
    /\ IsFiniteSet(Threads) /\ Null \notin Threads

VARIABLES
    env,        \* POLAR_LLAMA_LOCAL_* as the process was started
    job, pc,    \* of each thread
    registry,   \* the engine under each key, 0 if none
    engines,    \* every engine ever made: [key, class, loads, lock]
    held,       \* held[t]: the engine t works with, 0 before
    todo,       \* todo[t]: the chunks of prompts t has not done
    got,        \* got[t]: the answers to the chunks done
    tokens,     \* tokens[t]: what the streaming generator gave, by uid
    out,        \* out[t]: the column t returns, or the caches a reuse returns
    endpoint,   \* OPENAI_BASE_URL, Null if unset
    hit,        \* hit[t]: the class and the entry match has chosen
    sent,       \* history: the URLs requests went to
    cleared     \* history: times the registries were emptied

udf == <<held, todo, got, tokens>>
servingVars == <<env, job, pc, registry, engines, udf, out, endpoint, entries, hit, sent, cleared>>

Default == "https://api.openai.com"
KeyOf(j) == <<j.kind, j.model, j.engine>>
Keys == {KeyOf(j) : j \in {i \in Jobs : i.kind \in Udfs}}

Goto(t, label) == pc' = [pc EXCEPT ![t] = label]
-----------------------------------------------------------------------------
(***************************************************************************)
(* The prompts of a UDF, and the column they are scattered back into       *)
(***************************************************************************)
\* _build_prompt: the system text comes first; null stays null.
BuildPrompt(text, system) == IF text = Null THEN Null ELSE system \o text

\* The rows that are not null, in order.
Positions(j) ==
    FlattenSeq([r \in DOMAIN j.column |-> IF j.column[r] = Null THEN <<>> ELSE <<r>>])
Prompts(j) == [p \in DOMAIN Positions(j) |->
                 BuildPrompt(j.column[Positions(j)[p]], j.system)]

Scatter(j, answers) ==
    [r \in DOMAIN j.column |->
        IF \E p \in DOMAIN answers : Positions(j)[p] = r
        THEN answers[CHOOSE p \in DOMAIN answers : Positions(j)[p] = r]
        ELSE Null]

\* generate_chunked, embed_chunked: a column that fits in a chunk is one; a
\* size that is not positive is replaced in iter_chunks.
ChunksOf(j) ==
    LET n == IF j.kind = "embed" THEN j.size ELSE DefaultChunk
    IN IF Len(Prompts(j)) <= n THEN <<Prompts(j)>>
       ELSE Slices(Prompts(j), IF n <= 0 THEN DefaultChunk ELSE n)
-----------------------------------------------------------------------------
(***************************************************************************)
(* The engines                                                             *)
(***************************************************************************)
Failed == <<"_error">>
IsBad(prompt) == \E b \in Bad : IsSuffix(b, prompt)

\* A text as the caller sees it, with usage=True counted: a fake engine counts
\* words, mlx tokens; the cost of a local answer is zero.
GenerateWithUsage(j, prompt, text) ==
    [text   |-> text,
     input  |-> IF j.usage THEN Len(Encode(prompt)) ELSE 0,
     output |-> IF j.usage THEN Len(text) ELSE 0]

\* FakeEngine.generate: a prompt that fails costs its own row.
FakeGenerate(j, chunk) ==
    [p \in DOMAIN chunk |->
        GenerateWithUsage(j, chunk[p], IF IsBad(chunk[p]) THEN Failed ELSE Encode(chunk[p]))]

\* mlx_lm's batch_generate continues caches[p] with rows[p]; without a token to
\* start from it gives nothing.
BatchGenerate(caches, rows) ==
    [p \in DOMAIN rows |-> IF rows[p] = <<>> THEN <<>> ELSE caches[p] \o rows[p]]

\* _generate_batch_generate: the quantized path and the collapsed one, each
\* passed over when it fails, then the plain one.  The quantized path is taken to
\* give the plain one's texts.
BatchTexts(rows) ==
    {BatchGenerate([p \in DOMAIN rows |-> <<>>], rows)} \cup
    (IF "collapse" \in env
     THEN {BatchGenerate(b.caches, b.rows) : b \in {CollapsedBatchGenerate(rows)}}
     ELSE {})

\* FakeEmbeddingEngine.embed and _embed_one_by_one: a text that fails costs its
\* own row.
FakeEmbed(chunk) == [p \in DOMAIN chunk |-> IF IsBad(chunk[p]) THEN Null ELSE Encode(chunk[p])]

\* MlxEmbeddingEngine.embed: the batch, or text by text if the batch fails.
EmbedBatch(chunk) == [p \in DOMAIN chunk |-> Encode(chunk[p])]
Embed(chunk) ==
    IF \E p \in DOMAIN chunk : IsBad(chunk[p]) THEN FakeEmbed(chunk) ELSE EmbedBatch(chunk)
-----------------------------------------------------------------------------
ServingInit ==
    /\ env \in Environments
    /\ job \in [Threads -> Jobs]
    /\ pc = [t \in Threads |-> "called"]
    /\ registry = [k \in Keys |-> 0]
    /\ engines = <<>>
    /\ held = [t \in Threads |-> 0]
    /\ todo = [t \in Threads |-> <<>>]
    /\ got = [t \in Threads |-> <<>>]
    /\ tokens = [t \in Threads |-> <<>>]
    /\ out = [t \in Threads |-> <<>>]
    /\ endpoint \in {Null, "preset"}
    /\ entries = <<>>
    /\ hit = [t \in Threads |-> <<>>]
    /\ sent = {}
    /\ cleared = 0

\* inference_local and the top of its UDFs: a column of nulls needs no engine.
Call(t) ==
    /\ pc[t] = "called" /\ job[t].kind \in Udfs
    /\ IF Prompts(job[t]) = <<>>
       THEN /\ Goto(t, "done")
            /\ out' = [out EXCEPT ![t] = Scatter(job[t], <<>>)]
            /\ UNCHANGED todo
       ELSE /\ Goto(t, "lookup")
            /\ todo' = [todo EXCEPT ![t] = ChunksOf(job[t])]
            /\ UNCHANGED out
    /\ UNCHANGED <<env, job, registry, engines, held, got, tokens, endpoint, entries, hit,
                   sent, cleared>>

\* get_engine, the read without the lock.
Lookup(t) ==
    /\ pc[t] = "lookup"
    /\ LET found == registry[KeyOf(job[t])]
       IN /\ held' = [held EXCEPT ![t] = found]
          /\ Goto(t, IF found = 0 THEN "locking" ELSE "chunk")
    /\ UNCHANGED <<env, job, registry, engines, todo, got, tokens, out, endpoint, entries, hit,
                   sent, cleared>>

\* Mutant: nothing is looked up again under the lock.
Absent(key) == TRUE

\* The check under the registry lock.
Missing(key) == registry[key] = 0

\* inference_local checks the name of the engine, embedding_local leaves it to
\* _build_engine, which raises unless the override is set.
KnownEngines == {"in_process", "mlx", "mlx_batch", "fake"}
UnknownEngine(t) ==
    /\ pc[t] = "locking" /\ Missing(KeyOf(job[t]))
    /\ "fake" \notin env /\ job[t].engine \notin KnownEngines
    /\ Goto(t, "raised")
    /\ UNCHANGED <<env, job, registry, engines, udf, out, endpoint, entries, hit, sent, cleared>>

\* _build_engine: the override wins over the engine that was asked for.
BuildEngine(key) ==
    [key    |-> key,
     class  |-> IF "fake" \in env \/ key[3] = "fake" THEN "fake" ELSE "mlx",
     loads  |-> 0, lock |-> Null]

\* get_engine, the section under the lock.
GetEngine(t) ==
    /\ pc[t] = "locking" 
    /\ ~Missing(KeyOf(job[t])) \/ "fake" \in env \/ job[t].engine \in KnownEngines
    /\ LET key == KeyOf(job[t])
       IN IF Missing(key)
          THEN /\ engines' = Append(engines, BuildEngine(key))
               /\ registry' = [registry EXCEPT ![key] = Len(engines) + 1]
               /\ held' = [held EXCEPT ![t] = Len(engines) + 1]
          ELSE /\ held' = [held EXCEPT ![t] = registry[key]]
               /\ UNCHANGED <<engines, registry>>
    /\ Goto(t, "chunk")
    /\ UNCHANGED <<env, job, todo, got, tokens, out, endpoint, entries, hit, sent, cleared>>

\* register_engine, with an engine the caller has built.
RegisterEngine(t) ==
    /\ pc[t] = "called" /\ job[t].kind = "register"
    /\ engines' = Append(engines, [BuildEngine(job[t].key) EXCEPT !.class = "fake"])
    /\ registry' = [registry EXCEPT ![job[t].key] = Len(engines) + 1]
    /\ Goto(t, "done")
    /\ UNCHANGED <<env, job, udf, out, endpoint, entries, hit, sent, cleared>>

\* clear_registry or clear_embedding_registry: who holds an engine keeps it.
ClearRegistry(t) ==
    /\ pc[t] = "called" /\ job[t].kind = "clear"
    /\ registry' = [k \in Keys |-> IF k[1] = job[t].of THEN 0 ELSE registry[k]]
    /\ cleared' = cleared + 1
    /\ Goto(t, "done")
    /\ UNCHANGED <<env, job, engines, udf, out, endpoint, entries, hit, sent>>
-----------------------------------------------------------------------------
(***************************************************************************)
(* A chunk: load the model, once, then generate or embed                   *)
(***************************************************************************)
Mine(t) == engines[held[t]]
Chunk(t) == Head(todo[t])
Working(t) == pc[t] = "chunk" /\ todo[t] # <<>>

AfterUdf == <<env, job, registry, held, out, endpoint, entries, hit, sent, cleared>>
LoadOnly == <<AfterUdf, todo, got, tokens>>
Yield(t, answers) ==
    /\ got' = [got EXCEPT ![t] = @ \o answers]
    /\ todo' = [todo EXCEPT ![t] = Tail(@)]

Loaded(t) == Mine(t).loads > 0

\* _ensure_loaded, the look without the lock.
FindUnloaded(t) ==
    /\ Working(t) /\ Mine(t).class = "mlx" /\ ~Loaded(t)
    /\ Goto(t, "waiting")
    /\ UNCHANGED <<LoadOnly, engines>>

AcquireLoadLock(t) ==
    /\ pc[t] = "waiting" /\ Mine(t).lock = Null
    /\ engines' = [engines EXCEPT ![held[t]].lock = t]
    /\ Goto(t, "loading")
    /\ UNCHANGED LoadOnly

\* The look under the lock, the load if there was none, and the lock is given
\* back.
EnsureLoaded(t) ==
    /\ pc[t] = "loading"
    /\ engines' = [engines EXCEPT ![held[t]].loads = IF Loaded(t) THEN @ ELSE @ + 1,
                                  ![held[t]].lock = Null]
    /\ Goto(t, "chunk")
    /\ UNCHANGED LoadOnly

\* Mutant: the lock is not given back.
KeepLock(i) == engines' = engines

ReleaseLock(i) == engines' = [engines EXCEPT ![i].lock = Null]

\* mlx is missing or the model cannot be loaded: with leaves the lock, and the
\* UDF raises.
LoadFails(t) ==
    /\ pc[t] = "loading" /\ ~Loaded(t)
    /\ ReleaseLock(held[t])
    /\ Goto(t, "raised")
    /\ UNCHANGED LoadOnly

Ready(t) == Working(t) /\ (Mine(t).class = "fake" \/ Loaded(t))
MlxReady(t) == Ready(t) /\ Mine(t).class = "mlx" /\ job[t].kind = "complete"

FakeChunk(t) ==
    /\ Ready(t) /\ Mine(t).class = "fake" /\ job[t].kind = "complete"
    /\ Yield(t, FakeGenerate(job[t], Chunk(t)))
    /\ UNCHANGED <<AfterUdf, engines, pc, tokens>>

\* MlxBatchEngine.generate without the streaming switch.
GenerateBatch(t) ==
    /\ MlxReady(t) /\ "streaming" \notin env
    /\ \E rows \in {[p \in DOMAIN Chunk(t) |-> Encode(Chunk(t)[p])]} :
       \E texts \in BatchTexts(rows) :
          Yield(t, [p \in DOMAIN texts |-> GenerateWithUsage(job[t], Chunk(t)[p], texts[p])])
    /\ UNCHANGED <<AfterUdf, engines, pc, tokens>>

\* The plain path has nothing to fall back on.
GenerateFails(t) ==
    /\ MlxReady(t) /\ \E p \in DOMAIN Chunk(t) : IsBad(Chunk(t)[p])
    /\ Goto(t, "raised")
    /\ UNCHANGED <<AfterUdf, engines, todo, got, tokens>>

\* _generate_batchgen: the rows go in under uids 0, 1, ...
Insert(t) ==
    /\ MlxReady(t) /\ "streaming" \in env
    /\ tokens' = [tokens EXCEPT ![t] = [uid \in DOMAIN Chunk(t) |-> <<>>]]
    /\ Goto(t, "draining")
    /\ UNCHANGED <<AfterUdf, engines, todo, got>>

Rest(t, uid) == Len(tokens[t][uid]) < Len(Encode(Chunk(t)[uid]))

\* The generator gives the next token of whichever row it likes.
Event(t) ==
    /\ pc[t] = "draining"
    /\ \E uid \in DOMAIN tokens[t] :
          /\ Rest(t, uid)
          /\ tokens' = [tokens EXCEPT ![t][uid] =
                           Append(@, Encode(Chunk(t)[uid])[Len(@) + 1])]
    /\ UNCHANGED <<AfterUdf, engines, pc, todo, got>>

\* It is exhausted and closed; each row is decoded, or is an error row.
CloseAndDecode(t) ==
    /\ pc[t] = "draining" /\ \A uid \in DOMAIN tokens[t] : ~Rest(t, uid)
    /\ Yield(t, [p \in DOMAIN Chunk(t) |->
                   GenerateWithUsage(job[t], Chunk(t)[p],
                       IF IsBad(Chunk(t)[p]) THEN Failed ELSE tokens[t][p])])
    /\ tokens' = [tokens EXCEPT ![t] = <<>>]
    /\ Goto(t, "chunk")
    /\ UNCHANGED <<AfterUdf, engines>>

EmbedChunk(t) ==
    /\ Ready(t) /\ job[t].kind = "embed"
    /\ Yield(t, IF Mine(t).class = "fake" THEN FakeEmbed(Chunk(t)) ELSE Embed(Chunk(t)))
    /\ UNCHANGED <<AfterUdf, engines, pc, tokens>>

\* After the last chunk.
Return(t) ==
    /\ pc[t] = "chunk" /\ todo[t] = <<>>
    /\ out' = [out EXCEPT ![t] = Scatter(job[t], got[t])]
    /\ got' = [got EXCEPT ![t] = <<>>]
    /\ held' = [held EXCEPT ![t] = 0]
    /\ Goto(t, "done")
    /\ UNCHANGED <<env, job, registry, engines, todo, tokens, endpoint, entries, hit, sent,
                   cleared>>
-----------------------------------------------------------------------------
(***************************************************************************)
(* The server backend                                                      *)
(***************************************************************************)
Untouched == <<env, job, registry, engines, udf, cleared>>

\* Mutant: no endpoint is good enough to build the expression.
BuildAnyway(url) == TRUE

\* What inference_local_server asks for, and set_local_endpoint: not blank.
HasEndpoint(url) == url # "" /\ (url # Null \/ endpoint # Null)

\* It sets the process's environment.
SetLocalEndpoint(url) == endpoint' = url

\* The endpoint is set when a base_url is given; the expression is built.
InferenceLocalServer(t) ==
    LET url == job[t].url
    IN /\ pc[t] = "called" /\ job[t].kind = "serve"
       /\ HasEndpoint(url)
       /\ IF url = Null THEN UNCHANGED endpoint ELSE SetLocalEndpoint(url)
       /\ Goto(t, "built")
       /\ UNCHANGED <<Untouched, out, entries, hit, sent>>

RefuseServer(t) ==
    /\ pc[t] = "called" /\ job[t].kind = "serve" /\ ~HasEndpoint(job[t].url)
    /\ Goto(t, "raised")
    /\ UNCHANGED <<Untouched, out, endpoint, entries, hit, sent>>

\* Collecting it: each request reads the environment.
Request(t) ==
    /\ pc[t] = "built"
    /\ sent' = sent \cup {IF endpoint = Null THEN Default ELSE endpoint}
    /\ Goto(t, "done")
    /\ UNCHANGED <<Untouched, out, endpoint, entries, hit>>
-----------------------------------------------------------------------------
(***************************************************************************)
(* The prefix store                                                        *)
(***************************************************************************)
PutEntry(t) ==
    /\ pc[t] = "called" /\ job[t].kind = "put"
    /\ Put(job[t].model, job[t].prefix)
    /\ Goto(t, "done")
    /\ UNCHANGED <<Untouched, out, endpoint, hit, sent>>

\* match, its first section.
GetExact(t) ==
    LET found == Held(job[t].model, job[t].prefix)
    IN /\ pc[t] = "called" /\ job[t].kind = "reuse"
       /\ Touch(job[t].model, job[t].prefix)
       /\ hit' = IF found = {} THEN hit
                 ELSE [hit EXCEPT ![t] = [class |-> "exact", entry |-> CHOOSE e \in found : TRUE]]
       /\ Goto(t, IF found = {} THEN "scanning" ELSE "matched")
       /\ UNCHANGED <<Untouched, out, endpoint, sent>>

\* Its second section, by which time the store may have changed.
Match(t) ==
    LET m == job[t].model
        p == job[t].prefix
    IN /\ pc[t] = "scanning"
       /\ hit' = IF Extending(m, p) = {} THEN hit
                 ELSE [hit EXCEPT ![t] = [class |-> "extend", entry |-> Best(m, p)]]
       /\ Goto(t, IF Extending(m, p) = {} /\ SawLonger(m, p) /\ OnLongerCache = "raise"
                  THEN "raised" ELSE "matched")
       /\ UNCHANGED <<Untouched, out, endpoint, entries, sent>>

\* checked_batch_caches: only an exact match is used, whatever became of the
\* entry in the store.
Reuse(t) ==
    /\ pc[t] = "matched"
    /\ out' = [out EXCEPT ![t] =
                 IF hit[t] # <<>> /\ hit[t].class = "exact"
                 THEN CheckedBatchCaches(hit[t].entry, job[t].suffixes) ELSE <<>>]
    /\ Goto(t, "done")
    /\ UNCHANGED <<Untouched, endpoint, entries, hit, sent>>
-----------------------------------------------------------------------------
LocalWork(t) == Call(t) \/ Lookup(t) \/ GetEngine(t) \/ UnknownEngine(t) \/ FindUnloaded(t)
    \/ AcquireLoadLock(t) \/ EnsureLoaded(t) \/ LoadFails(t) \/ FakeChunk(t) \/ GenerateBatch(t) \/ GenerateFails(t) \/ Insert(t)
    \/ Event(t) \/ CloseAndDecode(t) \/ EmbedChunk(t) \/ Return(t)
SharedWork(t) == RegisterEngine(t) \/ ClearRegistry(t) \/ InferenceLocalServer(t)
    \/ RefuseServer(t) \/ Request(t) \/ PutEntry(t) \/ GetExact(t) \/ Match(t) \/ Reuse(t)
ServingNext == \E t \in Threads : LocalWork(t) \/ SharedWork(t)

ServingSpec == ServingInit /\ [][ServingNext]_servingVars

\* A thread that can go on does.  The load lock needs no more than that: each
\* thread holds it once at most, so it is free for good in the end.
Fairness == \A t \in Threads : WF_servingVars(LocalWork(t) \/ SharedWork(t))
FairSpec == ServingSpec /\ Fairness
-----------------------------------------------------------------------------
\* Every row shows the answer to its own prompt, or an error of its own: a null
\* row stays null, and chunking, collapsing and the generator's order of events
\* move nothing.  This is what _inference_local_in_process and embedding_local
\* promise of their columns.
RowsAnswerTheirPrompt ==
    \A t \in Threads :
        pc[t] = "done" /\ job[t].kind \in Udfs =>
            LET j == job[t]
                Answer(r) == LET own == Encode(j.system \o j.column[r])
                             IN IF j.kind = "embed" THEN own
                                ELSE [text   |-> own,
                                      input  |-> IF j.usage THEN Len(own) ELSE 0,
                                      output |-> IF j.usage THEN Len(own) ELSE 0]
            IN /\ Len(out[t]) = Len(j.column)
               /\ \A r \in DOMAIN j.column :
                     IF j.column[r] = Null THEN out[t][r] = Null
                     ELSE \/ out[t][r] = Answer(r)
                          \/ /\ IsBad(j.system \o j.column[r])
                             /\ IF j.kind = "embed" THEN out[t][r] = Null
                                ELSE out[t][r].text = Failed

\* However the threads race, the engines made under a key are at most one more
\* than the times the registries were cleared or an engine was put in by hand,
\* and none loads its model twice: get_engine builds one and gives that one to
\* all, and _ensure_loaded looks again once it has the lock.
BuiltOnce ==
    /\ \A i \in DOMAIN engines : engines[i].loads <= 1
    /\ \A k \in Keys :
          Cardinality({i \in DOMAIN engines : engines[i].key = k})
              <= 1 + cleared + Cardinality({t \in Threads : job[t].kind = "register"})

\* No request leaves for the hosted service: an expression is only built when
\* there is an endpoint, and an endpoint is never taken away.
RequestsStayLocal == Default \notin sent

\* The caches a batch is given are those of its own model, and are how every
\* row's prompt is tokenized from the start; what match offers to extend is a
\* strict prefix of the new text.  True although the store may change between
\* the two sections.
ReuseIsSound ==
    \A t \in Threads :
        /\ pc[t] = "done" /\ job[t].kind = "reuse" /\ out[t] # <<>> =>
              \A i \in DOMAIN job[t].suffixes :
                  /\ out[t][i].model = job[t].model
                  /\ IsPrefix(out[t][i].cache, Encode(job[t].prefix \o job[t].suffixes[i]))
        /\ hit[t] # <<>> /\ hit[t].class = "extend" =>
              /\ hit[t].entry.model = job[t].model
              /\ StrictPrefix(hit[t].entry.prefix, job[t].prefix)

\* Every job ends: a failed load gives the lock back, and no thread waits for
\* ever for a model another one loads.
JobsEnd == \A t \in Threads : <>(pc[t] \in {"done", "raised"})
=============================================================================
