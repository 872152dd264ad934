---------------------------- MODULE ResponseCache ----------------------------
(***************************************************************************)
(* polar_llama/dedup.py: the response cache, a directory of part files     *)
(* shared by the batches of any number of processes, with entries that     *)
(* expire, while `prune` compacts the directory and `clear` empties it.    *)
(*                                                                         *)
(* Nothing locks the directory: an operation lists the parts, then reads   *)
(* or removes them one by one and finds some of them gone.  A part is the  *)
(* set of its entries and is named by the operation that wrote it.  The    *)
(* rows of a batch are collapsed to their content keys already, as in      *)
(* Checkpoint.  A result is the number of its request, with what its text  *)
(* is: an answer, or the error JSON of a request that failed.              *)
(***************************************************************************)
EXTENDS Integers, FiniteSets

CONSTANTS
    Batches,    \* executions of deduped_expr's _udf with a store
    Pruners,    \* calls of prune
    Clearers,   \* calls of clear
    Keys,       \* content keys, which embed the fingerprint
    Jobs,       \* what a batch may be given: its keys, its cache's ttl, and cache=
    HasSchema,  \* a response_model is set, which is part of the fingerprint
    PruneTtl,   \* ttl of the cache that prune is called on
    Never,      \* a ttl of None
    Left,       \* directories that earlier batches may have left
    MaxActive,  \* bound: operations that may overlap
    MaxStarted, \* bound: operations in all
    MaxClock,   \* bound: clock readings
    MaxFaults   \* bound: parts that are there but cannot be read

Actors == Batches \cup Pruners \cup Clearers

\* Earlier batches have left answers only, with numbers below those of any
\* request made now.
LeftEntry == {e \in [k : Keys, n : Int, ts : Nat, text : {"answer"}] : e.n <= 0}

ASSUME ResponseCacheAssumption ==
    /\ Batches \cap Pruners = {} /\ Batches \cap Clearers = {} /\ Pruners \cap Clearers = {}
    /\ Jobs \subseteq [keys : SUBSET Keys, ttl : Nat \cup {Never}, warming : BOOLEAN]
    /\ HasSchema \in BOOLEAN
    /\ PruneTtl \in Nat \cup {Never}
    /\ \A d \in Left : /\ DOMAIN d \cap Actors = {}
                       /\ \A p \in DOMAIN d : d[p] \subseteq LeftEntry /\ d[p] # {}
    /\ MaxActive \in Nat /\ MaxStarted \in Nat /\ MaxClock \in Nat /\ MaxFaults \in Nat

VARIABLES
    pc,       \* pc[a]: where operation a is
    job,      \* job[b]: what batch b was given
    disk,     \* the parts that readers see
    unread,   \* unread[a]: listed parts a has still to read
    listed,   \* listed[a]: listed parts a has still to remove
    seen,     \* seen[a]: the entries a has read
    served,   \* served[b]: the entries that answer b's keys
    draft,    \* draft[a]: the entries of the part a is about to publish
    asked,    \* asked[k]: requests made for k
    clock,
    faults,   \* parts that could not be read so far
    stored,   \* history: the entries batches have published, as they were
    planned,  \* history: planned[b], the time b took its answers at
    before,   \* history: before[c], what was stored when clear c began
    raced,    \* history: the clears that a prune overlapped
    blind     \* history: a prune has not been able to read a part

local == <<unread, listed, seen, served, draft>>
history == <<stored, planned, before, raced, blind>>
vars == <<pc, job, disk, local, asked, clock, faults, history>>

Busy == {"reading", "asking", "stamping", "renaming", "unlinking"}
Pruning == {p \in Pruners : pc[p] \in Busy}
Clearing == {c \in Clearers : pc[c] \in Busy}
Nothing(A) == [a \in A |-> {}]
Contents(d) == UNION {d[p] : p \in DOMAIN d}

Init ==
    /\ pc = [a \in Actors |-> "idle"]
    /\ job \in [Batches -> Jobs]
    /\ disk \in Left
    /\ unread = Nothing(Actors) /\ listed = Nothing(Actors)
    /\ seen = Nothing(Actors) /\ served = Nothing(Batches) /\ draft = Nothing(Actors)
    /\ asked = [k \in Keys |-> 0]
    /\ clock = 0 /\ faults = 0
    /\ stored = Contents(disk)
    /\ planned = [b \in Batches |-> 0]
    /\ before = Nothing(Clearers)
    /\ raced = {}
    /\ blind = FALSE

Goto(a, label) == pc' = [pc EXCEPT ![a] = label]
-----------------------------------------------------------------------------
(***************************************************************************)
(* Entries                                                                 *)
(***************************************************************************)
\* df.filter(ts >= cutoff), where None means no filter.
Fresh(E, ttl) == {e \in E : ttl = Never \/ e.ts >= clock - ttl}

\* The last row per key of the sort by (key, ts, ok).  Everything is stored
\* here as ok; entries of the same time come in no particular order.
Newest(E, k) == {e \in E : e.k = k /\ \A f \in E : f.k = k => f.ts <= e.ts}
KeysIn(E) == {e.k : e \in E}
OnePerKey(E) == {{pick[k] : k \in KeysIn(E)} :
                    pick \in {p \in [KeysIn(E) -> E] : \A k \in KeysIn(E) : p[k] \in Newest(E, k)}}
-----------------------------------------------------------------------------
(***************************************************************************)
(* What load_index, prune and clear have in common                         *)
(***************************************************************************)
\* Mutant: the removals go by a second listing.
ListAgain(a) == DOMAIN disk
ToRemove(a) == listed[a]

\* _part_paths.  An operation that finds no part is over, but a batch goes on
\* with an empty index.
ListParts(a) ==
    /\ pc[a] = "idle"
    /\ Cardinality({o \in Actors : pc[o] \in Busy}) < MaxActive
    /\ Cardinality({o \in Actors : pc[o] # "idle"}) < MaxStarted
    /\ Goto(a, IF a \in Batches THEN "reading"
               ELSE IF disk = <<>> THEN "done"
               ELSE IF a \in Clearers THEN "unlinking" ELSE "reading")
    /\ unread' = [unread EXCEPT ![a] = DOMAIN disk]
    /\ listed' = IF a \in Batches THEN listed ELSE [listed EXCEPT ![a] = DOMAIN disk]
    /\ before' = IF a \in Clearers THEN [before EXCEPT ![a] = stored] ELSE before
    /\ raced' = raced \cup (IF a \in Clearers /\ Pruning # {} THEN {a} ELSE {})
                      \cup (IF a \in Pruners THEN Clearing ELSE {})
    /\ UNCHANGED <<job, disk, seen, served, draft, asked, clock, faults, stored, planned, blind>>

\* A part that is gone is skipped like one that cannot be read.  The parts
\* are read in the order of their random names.
ReadPart(a) ==
    /\ pc[a] = "reading"
    /\ \E p \in unread[a] :
          /\ unread' = [unread EXCEPT ![a] = @ \ {p}]
          /\ seen' = [seen EXCEPT ![a] = @ \cup (IF p \in DOMAIN disk THEN disk[p] ELSE {})]
    /\ UNCHANGED <<pc, job, disk, listed, served, draft, asked, clock, faults, history>>

FailToRead(a) ==
    /\ pc[a] = "reading"
    /\ faults < MaxFaults
    /\ \E p \in unread[a] \cap DOMAIN disk : unread' = [unread EXCEPT ![a] = @ \ {p}]
    /\ faults' = faults + 1
    /\ blind' = (blind \/ a \in Pruners)
    /\ UNCHANGED <<pc, job, disk, listed, seen, served, draft, asked, clock, stored, planned, before, raced>>

\* os.replace of the part written under a temporary name.
Publish(a, next) ==
    /\ pc[a] = "renaming"
    /\ disk' = [p \in DOMAIN disk \cup {a} |-> IF p = a THEN draft[a] ELSE disk[p]]
    /\ draft' = [draft EXCEPT ![a] = {}]
    /\ Goto(a, next)

\* p.unlink(missing_ok=True), part by part.
Unlink(a) ==
    /\ pc[a] = "unlinking"
    /\ \E p \in ToRemove(a) :
          /\ disk' = [q \in DOMAIN disk \ {p} |-> disk[q]]
          /\ listed' = [listed EXCEPT ![a] = @ \ {p}]
          /\ Goto(a, IF ToRemove(a) = {p} THEN "done" ELSE "unlinking")
    /\ UNCHANGED <<job, unread, seen, served, draft, asked, clock, faults, history>>
-----------------------------------------------------------------------------
(***************************************************************************)
(* A batch: deduped_expr's _udf                                            *)
(***************************************************************************)
\* load_index and plan_collapse: keys with a fresh entry are hits.
Plan(b) ==
    /\ pc[b] = "reading" /\ unread[b] = {}
    /\ \E hits \in OnePerKey({e \in Fresh(seen[b], job[b].ttl) : e.k \in job[b].keys}) :
          /\ served' = [served EXCEPT ![b] = hits]
          /\ Goto(b, IF job[b].keys = KeysIn(hits) THEN "done" ELSE "asking")
    /\ seen' = [seen EXCEPT ![b] = {}]
    /\ planned' = [planned EXCEPT ![b] = clock]
    /\ UNCHANGED <<job, disk, unread, listed, draft, asked, clock, faults, stored, before, raced, blind>>

Pending(b) == job[b].keys \ KeysIn(served[b])

\* How a failed request comes back: as error JSON when there is a schema, and
\* from fetch_with_cache_warming, through which groups of several rows go when
\* cache= is set (the flag is not part of the fingerprint).
Failures(b) ==
    IF HasSchema THEN {"error_json"}
    ELSE IF job[b].warming /\ Cardinality(Pending(b)) > 1 THEN {"none", "error_json"}
    ELSE {"none"}

\* _is_error_row: without a schema a row's own text is never an error.
IsErrorRow(text) == text = "none" \/ (HasSchema /\ text = "error_json")

AfterAsk(ok) == IF ok = {} THEN "done" ELSE "stamping"

\* run_pending, once for all of them; the error rows are dropped, and append
\* of no rows writes nothing.
Ask(b) ==
    /\ pc[b] = "asking"
    /\ asked' = [k \in Keys |-> IF k \in Pending(b) THEN asked[k] + 1 ELSE asked[k]]
    /\ \E text \in [Pending(b) -> {"answer"} \cup Failures(b)] :
          LET ok == {k \in Pending(b) : ~IsErrorRow(text[k])} IN
          /\ draft' = [draft EXCEPT ![b] =
                {[k |-> k, n |-> asked[k] + 1, ts |-> 0, text |-> text[k]] : k \in ok}]
          /\ Goto(b, AfterAsk(ok))
    /\ UNCHANGED <<job, disk, unread, listed, seen, served, clock, faults, history>>

\* Mutant: what came from the store is appended again.
StampAll(b) == draft[b] \cup served[b]
StampFresh(b) == draft[b]

Stamp(b) ==
    /\ pc[b] = "stamping"
    /\ draft' = [draft EXCEPT ![b] = {[e EXCEPT !.ts = clock] : e \in StampFresh(b)}]
    /\ Goto(b, "renaming")
    /\ UNCHANGED <<job, disk, unread, listed, seen, served, asked, clock, faults, history>>

Store(b) ==
    /\ Publish(b, "done")
    /\ stored' = stored \cup draft[b]
    /\ UNCHANGED <<job, unread, listed, seen, served, asked, clock, faults, planned, before, raced, blind>>
-----------------------------------------------------------------------------
(***************************************************************************)
(* prune                                                                   *)
(***************************************************************************)
\* Mutant: the survivors are appended like new answers.
Restamped(E) == {[e EXCEPT !.ts = clock] : e \in E}
Survivors(E) == E

Compact(p) ==
    /\ pc[p] = "reading" /\ unread[p] = {}
    /\ \E kept \in OnePerKey(Fresh(seen[p], PruneTtl)) :
          /\ draft' = [draft EXCEPT ![p] = Survivors(kept)]
          /\ Goto(p, IF seen[p] = {} THEN "done" ELSE IF kept = {} THEN "unlinking" ELSE "renaming")
    /\ seen' = [seen EXCEPT ![p] = {}]
    /\ UNCHANGED <<job, disk, unread, listed, served, asked, clock, faults, history>>

StoreCompacted(p) ==
    /\ Publish(p, "unlinking")
    /\ UNCHANGED <<job, unread, listed, seen, served, asked, clock, faults, history>>
-----------------------------------------------------------------------------
\* The process dies, or an exception ends the operation.
Crash(a) ==
    /\ pc[a] \in Busy
    /\ Goto(a, "crashed")
    /\ unread' = [unread EXCEPT ![a] = {}] /\ listed' = [listed EXCEPT ![a] = {}]
    /\ seen' = [seen EXCEPT ![a] = {}] /\ draft' = [draft EXCEPT ![a] = {}]
    /\ UNCHANGED <<job, disk, served, asked, clock, faults, history>>

Tick ==
    /\ clock < MaxClock
    /\ clock' = clock + 1
    /\ UNCHANGED <<pc, job, disk, local, asked, faults, history>>

Next ==
    \/ \E a \in Actors : ListParts(a) \/ ReadPart(a) \/ FailToRead(a) \/ Unlink(a) \/ Crash(a)
    \/ \E b \in Batches : Plan(b) \/ Ask(b) \/ Stamp(b) \/ Store(b)
    \/ \E p \in Pruners : Compact(p) \/ StoreCompacted(p)
    \/ Tick

Spec == Init /\ [][Next]_vars
-----------------------------------------------------------------------------
(***************************************************************************)
(* Properties                                                              *)
(***************************************************************************)
\* The newest of what is on disk is the newest of all that was ever stored,
\* for every key and every reader whose ttl is no longer than the pruned
\* cache's.
NothingLiveIsLost ==
    \A k \in Keys :
        LET was == Newest(Fresh(stored, PruneTtl), k) IN
        was # {} => LET is == Newest(Fresh(Contents(disk), PruneTtl), k)
                    IN is # {} /\ is \subseteq was

\* prune is pure housekeeping: at every moment of any number of prunes that
\* overlap each other and the batches, and wherever they crash, the directory
\* answers as if nothing had been pruned (prune, ResponseCache.prune).  A part
\* that a prune finds but cannot read is the exception: it is removed.
PruneIsInvisible ==
    (\A c \in Clearers : pc[c] = "idle") /\ ~blind => NothingLiveIsLost

\* b takes the error JSON of a failed request for an answer.
MistakesErrors(b) == job[b].warming /\ ~HasSchema

\* A key is served from the store only the result of a request made for it
\* that was no older than the ttl when the results were taken, however often
\* the entry was rewritten since (load_index, prune).  The result is an answer,
\* unless a batch with cache=True and no schema asked for this key: such a
\* batch stores failures as answers, and every later batch is served them
\* (deduped_expr), although "a failed row must recompute next run, never be
\* cached as if it were a real answer" (dedup.py:406-407).
ServedIsFresh ==
    \A b \in Batches : \A e \in served[b] :
        /\ \E f \in stored :
              /\ f.k = e.k /\ f.n = e.n /\ f.text = e.text
              /\ job[b].ttl = Never \/ f.ts >= planned[b] - job[b].ttl
        /\ e.text = "answer" \/ \E c \in Batches : MistakesErrors(c) /\ e.k \in job[c].keys

\* clear is a full invalidation: once it has returned, none of what was
\* stored when it began comes back, unless a prune was under way (clear).
ClearIsFull ==
    \A c \in Clearers :
        (pc[c] = "done" /\ c \notin raced) =>
            \A e \in Contents(disk) : ~\E f \in before[c] : f.k = e.k /\ f.n = e.n
=============================================================================
