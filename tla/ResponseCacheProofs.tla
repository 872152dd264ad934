------------------------ MODULE ResponseCacheProofs ------------------------
(***************************************************************************)
(* What the response cache serves and what clear takes away, for any       *)
(* number of batches, prunes and clears over one directory, any jobs, any  *)
(* times to live and any directory left by earlier batches.                *)
(***************************************************************************)
EXTENDS ResponseCache, TLAPS

Entries == [k : Keys, n : Int, ts : Nat, text : {"answer", "error_json"}]

\* Two entries hold the same answer.
Same(e, f) == e.k = f.k /\ e.n = f.n

\* E holds nothing of what was stored when clear c began.
Clean(c, E) == \A e \in E : \A f \in before[c] : ~Same(e, f)

Typed ==
    /\ DOMAIN pc = Actors /\ \A b \in Batches : job[b].keys \subseteq Keys
    /\ DOMAIN unread = Actors /\ DOMAIN listed = Actors /\ DOMAIN seen = Actors /\ DOMAIN draft = Actors
    /\ DOMAIN served = Batches /\ DOMAIN planned = Batches /\ DOMAIN before = Clearers
    /\ asked \in [Keys -> Nat] /\ clock \in Nat
    /\ stored \subseteq Entries
    /\ \A b \in Batches : draft[b] \subseteq Entries

(***************************************************************************)
(* Everything an operation may read, serve or rewrite was stored by a      *)
(* batch, as it is.                                                        *)
(***************************************************************************)
OnlyStored ==
    /\ \A p \in DOMAIN disk : disk[p] \subseteq stored
    /\ \A a \in Actors : seen[a] \subseteq stored
    /\ \A p \in Pruners : draft[p] \subseteq stored
    /\ \A b \in Batches : \A e \in served[b] :
          e \in stored /\ (job[b].ttl = Never \/ e.ts >= planned[b] - job[b].ttl)

(***************************************************************************)
(* An answer a batch is about to publish is not stored yet, and no other   *)
(* batch holds it: a request's answer has a number of its own.             *)
(***************************************************************************)
DraftsAreNew ==
    /\ \A e \in stored : e.n <= asked[e.k]
    /\ \A b \in Batches : \A e \in draft[b] :
          /\ e.n <= asked[e.k]
          /\ \A f \in stored : ~Same(e, f)
          /\ \A o \in Batches \ {b} : \A f \in draft[o] : ~Same(e, f)

(***************************************************************************)
(* A clear that no prune overlaps leaves nothing it has not listed, and    *)
(* once it is over no prune holds what it removed.                         *)
(***************************************************************************)
PrunersHold ==
    \A p \in Pruners : /\ pc[p] # "reading" => seen[p] = {}
                       /\ pc[p] # "renaming" => draft[p] = {}

Cleared(c) ==
    /\ before[c] \subseteq stored
    /\ pc[c] \in {"idle", "unlinking", "done", "crashed"}
    /\ c \notin raced /\ pc[c] = "unlinking" =>
          Pruning = {} /\ \A p \in DOMAIN disk \ listed[c] : Clean(c, disk[p])
    /\ c \notin raced /\ pc[c] = "done" =>
          /\ \A p \in DOMAIN disk : Clean(c, disk[p])
          /\ \A p \in Pruners : Clean(c, seen[p]) /\ Clean(c, draft[p])

ClearedAway == \A c \in Clearers : Cleared(c)

CacheInv == Typed /\ OnlyStored /\ DraftsAreNew /\ PrunersHold /\ ClearedAway
-----------------------------------------------------------------------------
(***************************************************************************)
(* Entries and actors                                                      *)
(***************************************************************************)
LEMMA ActorsApart ==
    /\ Batches \cap Pruners = {} /\ Batches \cap Clearers = {} /\ Pruners \cap Clearers = {}
    /\ Actors = Batches \cup Pruners \cup Clearers
BY ResponseCacheAssumption DEF Actors

\* What is kept of a set of entries is part of it.
LEMMA KeptIsPart ==
    ASSUME NEW E, NEW kept \in OnePerKey(E)
    PROVE  kept \subseteq E
<1>1. PICK pick \in [KeysIn(E) -> E] : kept = {pick[k] : k \in KeysIn(E)}
    BY DEF OnePerKey
<1> QED
    BY <1>1

\* What is kept has a newest entry of every key there is.
LEMMA KeptServes ==
    ASSUME NEW E, NEW kept \in OnePerKey(E), NEW f \in E
    PROVE  \E g \in kept : g \in Newest(E, f.k)
<1>1. PICK pick \in {p \in [KeysIn(E) -> E] : \A k \in KeysIn(E) : p[k] \in Newest(E, k)} :
            kept = {pick[k] : k \in KeysIn(E)}
    BY DEF OnePerKey
<1>2. f.k \in KeysIn(E)
    BY DEF KeysIn
<1>3. pick[f.k] \in kept
    BY <1>1, <1>2
<1> QED
    BY <1>1, <1>2, <1>3

\* Stamping an entry leaves its answer alone.
LEMMA StampKeeps ==
    ASSUME NEW e \in Entries, NEW t \in Nat
    PROVE  /\ [e EXCEPT !.ts = t] \in Entries
           /\ [e EXCEPT !.ts = t].k = e.k /\ [e EXCEPT !.ts = t].n = e.n
BY DEF Entries
-----------------------------------------------------------------------------
\* What a batch takes for answers: only one with cache=True and no schema
\* takes an error for one.
LEMMA AskDrafts ==
    ASSUME NEW b \in Batches, Ask(b)
    PROVE  \E ok \in SUBSET Pending(b) : \E text \in [Pending(b) -> {"answer", "error_json"}] :
              /\ draft' = [draft EXCEPT ![b] =
                    {[k |-> k, n |-> asked[k] + 1, ts |-> 0, text |-> text[k]] : k \in ok}]
              /\ \A k \in ok : text[k] = "answer" \/ (~HasSchema /\ job[b].warming)
<1> DEFINE Texts == [Pending(b) -> {"answer"} \cup Failures(b)]
           Kept(text) == {k \in Pending(b) : ~IsErrorRow(text[k])}
<1>1. PICK text \in Texts :
          draft' = [draft EXCEPT ![b] =
              {[k |-> k, n |-> asked[k] + 1, ts |-> 0, text |-> text[k]] : k \in Kept(text)}]
    BY DEF Ask
<1> DEFINE ok == Kept(text)
           taken == [k \in Pending(b) |-> IF k \in ok THEN text[k] ELSE "answer"]
<1>2. ASSUME NEW k \in ok
      PROVE  /\ text[k] \in {"answer", "error_json"}
             /\ text[k] = "answer" \/ (~HasSchema /\ job[b].warming)
    BY DEF Failures, IsErrorRow
<1>3. taken \in [Pending(b) -> {"answer", "error_json"}]
    BY <1>2
<1>4. {[k |-> k, n |-> asked[k] + 1, ts |-> 0, text |-> text[k]] : k \in ok}
        = {[k |-> k, n |-> asked[k] + 1, ts |-> 0, text |-> taken[k]] : k \in ok}
    OBVIOUS
<1>5. \A k \in ok : taken[k] = "answer" \/ (~HasSchema /\ job[b].warming)
    BY <1>2
<1>6. ok \in SUBSET Pending(b)
    OBVIOUS
<1> HIDE DEF ok, taken
<1>7. draft' = [draft EXCEPT ![b] =
          {[k |-> k, n |-> asked[k] + 1, ts |-> 0, text |-> taken[k]] : k \in ok}]
    BY <1>1, <1>4 DEF ok
<1> QED
    BY <1>3, <1>5, <1>6, <1>7

LEMMA CacheInvInit == Init => CacheInv
<1> SUFFICES ASSUME Init
             PROVE  CacheInv
    OBVIOUS
<1> USE ActorsApart
<1>1. stored \subseteq Entries /\ \A e \in stored : e.n <= 0
    BY ResponseCacheAssumption DEF Init, Contents, LeftEntry, Entries
<1>2. Typed
  <2>1. \A b \in Batches : job[b].keys \subseteq Keys
    BY ResponseCacheAssumption DEF Init
  <2> QED
    BY <1>1, <2>1 DEF Init, Typed, Nothing
<1>3. OnlyStored
    BY DEF Init, OnlyStored, Nothing, Contents
<1>4. DraftsAreNew
    BY <1>1 DEF Init, DraftsAreNew, Nothing, Entries
<1>5. PrunersHold /\ ClearedAway
    BY DEF Init, PrunersHold, ClearedAway, Cleared, Nothing
<1> QED
    BY <1>2, <1>3, <1>4, <1>5 DEF CacheInv

LEMMA TypedStep ==
    ASSUME CacheInv, [Next]_vars
    PROVE  Typed'
<1> USE ActorsApart DEF CacheInv, Typed
<1>1. ASSUME NEW a \in Actors, ListParts(a)
      PROVE  Typed'
    BY <1>1 DEF ListParts, Goto
<1>2. ASSUME NEW a \in Actors, ReadPart(a) \/ FailToRead(a)
      PROVE  Typed'
    BY <1>2 DEF ReadPart, FailToRead, history
<1>3. ASSUME NEW a \in Actors, Unlink(a)
      PROVE  Typed'
    BY <1>3 DEF Unlink, Goto, history
<1>4. ASSUME NEW a \in Actors, Crash(a)
      PROVE  Typed'
    BY <1>4 DEF Crash, Goto, history
<1>5. ASSUME NEW b \in Batches, Plan(b)
      PROVE  Typed'
    BY <1>5 DEF Plan, Goto
<1>6. ASSUME NEW b \in Batches, Ask(b)
      PROVE  Typed'
  <2>1. asked' \in [Keys -> Nat]
    BY <1>6 DEF Ask
  <2>2. draft'[b] \subseteq Entries
    <3>1. PICK ok \in SUBSET Pending(b), text \in [Pending(b) -> {"answer", "error_json"}] :
              /\ draft' = [draft EXCEPT ![b] =
                    {[k |-> k, n |-> asked[k] + 1, ts |-> 0, text |-> text[k]] : k \in ok}]
              /\ \A k \in ok : text[k] = "answer" \/ (~HasSchema /\ job[b].warming)
      BY <1>6, AskDrafts
    <3> QED
      BY <3>1 DEF Pending, Entries
  <2> QED
    BY <1>6, <2>1, <2>2 DEF Ask, Goto, history
<1>7. ASSUME NEW b \in Batches, Stamp(b)
      PROVE  Typed'
  <2>1. draft'[b] \subseteq Entries
    BY <1>7, StampKeeps DEF Stamp, StampFresh
  <2> QED
    BY <1>7, <2>1 DEF Stamp, Goto, history
<1>8. ASSUME NEW b \in Batches, Store(b)
      PROVE  Typed'
    BY <1>8 DEF Store, Publish, Goto
<1>9. ASSUME NEW p \in Pruners, Compact(p) \/ StoreCompacted(p)
      PROVE  Typed'
    BY <1>9 DEF Compact, StoreCompacted, Publish, Goto, history
<1>10. CASE Tick
    BY <1>10 DEF Tick, local, history
<1>11. CASE UNCHANGED vars
    BY <1>11 DEF vars, local, history
<1> QED
    BY <1>1, <1>2, <1>3, <1>4, <1>5, <1>6, <1>7, <1>8, <1>9, <1>10, <1>11 DEF Next

LEMMA OnlyStoredStep ==
    ASSUME CacheInv, [Next]_vars
    PROVE  OnlyStored'
<1> USE ActorsApart DEF CacheInv, Typed, OnlyStored
<1>1. ASSUME NEW a \in Actors, ListParts(a)
      PROVE  OnlyStored'
    BY <1>1 DEF ListParts, Goto
<1>2. ASSUME NEW a \in Actors, ReadPart(a)
      PROVE  OnlyStored'
  <2>1. seen'[a] \subseteq stored
    BY <1>2 DEF ReadPart
  <2> QED
    BY <1>2, <2>1 DEF ReadPart, history
<1>3. ASSUME NEW a \in Actors, FailToRead(a)
      PROVE  OnlyStored'
    BY <1>3 DEF FailToRead
<1>4. ASSUME NEW a \in Actors, Unlink(a)
      PROVE  OnlyStored'
    BY <1>4 DEF Unlink, Goto, history
<1>5. ASSUME NEW a \in Actors, Crash(a)
      PROVE  OnlyStored'
    BY <1>5 DEF Crash, Goto, history
<1>6. ASSUME NEW b \in Batches, Plan(b)
      PROVE  OnlyStored'
  <2> DEFINE found == {e \in Fresh(seen[b], job[b].ttl) : e.k \in job[b].keys}
  <2>1. PICK hits \in OnePerKey(found) : served' = [served EXCEPT ![b] = hits]
    BY <1>6 DEF Plan
  <2>2. served'[b] \subseteq Fresh(seen[b], job[b].ttl) /\ planned'[b] = clock
    <3>1. hits \subseteq found
      <4> HIDE DEF found
      <4> QED
        BY KeptIsPart
    <3>2. served'[b] = hits /\ planned'[b] = clock
      BY <1>6, <2>1 DEF Plan
    <3> QED
      BY <3>1, <3>2
  <2>3. \A e \in served'[b] : e \in stored /\ (job[b].ttl = Never \/ e.ts >= planned'[b] - job[b].ttl)
    BY <2>2 DEF Fresh
  <2>4. \A o \in Batches \ {b} : served'[o] = served[o] /\ planned'[o] = planned[o]
    BY <1>6, <2>1 DEF Plan
  <2> QED
    BY <1>6, <2>3, <2>4 DEF Plan
<1>7. ASSUME NEW b \in Batches, Ask(b)
      PROVE  OnlyStored'
    BY <1>7 DEF Ask, history
<1>8. ASSUME NEW b \in Batches, Stamp(b)
      PROVE  OnlyStored'
    BY <1>8 DEF Stamp, history
<1>9. ASSUME NEW b \in Batches, Store(b)
      PROVE  OnlyStored'
    BY <1>9 DEF Store, Publish
<1>10. ASSUME NEW p \in Pruners, Compact(p)
      PROVE  OnlyStored'
  <2>1. PICK kept \in OnePerKey(Fresh(seen[p], PruneTtl)) :
            draft' = [draft EXCEPT ![p] = Survivors(kept)]
    BY <1>10 DEF Compact
  <2>2. draft'[p] \subseteq stored
    BY <2>1, KeptIsPart DEF Survivors, Fresh
  <2> QED
    BY <1>10, <2>1, <2>2 DEF Compact, history
<1>11. ASSUME NEW p \in Pruners, StoreCompacted(p)
      PROVE  OnlyStored'
    BY <1>11 DEF StoreCompacted, Publish, history
<1>12. CASE Tick
    BY <1>12 DEF Tick, local, history
<1>13. CASE UNCHANGED vars
    BY <1>13 DEF vars, local, history
<1> QED
    BY <1>1, <1>2, <1>3, <1>4, <1>5, <1>6, <1>7, <1>8, <1>9, <1>10, <1>11, <1>12, <1>13 DEF Next

LEMMA DraftsAreNewStep ==
    ASSUME CacheInv, [Next]_vars
    PROVE  DraftsAreNew'
<1> USE ActorsApart DEF CacheInv, Typed, DraftsAreNew
<1>1. ASSUME UNCHANGED <<stored, asked>>, \A b \in Batches : draft'[b] \subseteq draft[b]
      PROVE  DraftsAreNew'
    BY <1>1
<1>2. ASSUME NEW b \in Batches, Ask(b)
      PROVE  DraftsAreNew'
  <2>1. \A k \in Keys : asked'[k] >= asked[k]
    BY <1>2 DEF Ask
  <2>2. PICK ok \in SUBSET Pending(b), text \in [Pending(b) -> {"answer", "error_json"}] :
            /\ draft' = [draft EXCEPT ![b] =
                  {[k |-> k, n |-> asked[k] + 1, ts |-> 0, text |-> text[k]] : k \in ok}]
            /\ \A k \in ok : text[k] = "answer" \/ (~HasSchema /\ job[b].warming)
    BY <1>2, AskDrafts
  <2>3. \A e \in draft'[b] : e.k \in Pending(b) /\ e.k \in Keys /\ e.n = asked[e.k] + 1
    BY <2>2 DEF Pending
  <2>4. \A e \in draft'[b] : e.n = asked'[e.k]
    BY <1>2, <2>3 DEF Ask
  <2>5. ASSUME NEW e \in stored
        PROVE  e.k \in Keys /\ e.n \in Int /\ e.n <= asked'[e.k]
    <3>1. e.k \in Keys /\ e.n \in Int /\ e.n <= asked[e.k]
      BY DEF Entries
    <3>2. asked[e.k] \in Nat /\ asked'[e.k] \in Nat /\ asked'[e.k] >= asked[e.k]
      BY <1>2, <2>1, <3>1 DEF Ask
    <3> QED
      BY <3>1, <3>2
  <2>6. \A o \in Batches \ {b} : draft'[o] = draft[o]
    BY <2>2
  <2>7. ASSUME NEW o \in Batches \ {b}, NEW e \in draft[o]
        PROVE  e.k \in Keys /\ e.n \in Int /\ e.n <= asked[e.k] /\ e.n <= asked'[e.k]
    <3>1. e.k \in Keys /\ e.n \in Int /\ e.n <= asked[e.k]
      BY DEF Entries
    <3>2. asked[e.k] \in Nat /\ asked'[e.k] \in Nat /\ asked'[e.k] >= asked[e.k]
      BY <1>2, <2>1, <3>1 DEF Ask
    <3> QED
      BY <3>1, <3>2
  <2>8. \A e \in draft'[b] : \A f \in stored : ~Same(e, f)
    BY <2>3 DEF Same, Entries
  <2>9. \A e \in draft'[b] : \A o \in Batches \ {b} : \A f \in draft[o] : ~Same(e, f) /\ ~Same(f, e)
    BY <2>3, <2>7 DEF Same
  <2>10. stored' = stored
    BY <1>2 DEF Ask, history
  <2> QED
    BY <2>4, <2>3, <2>5, <2>6, <2>7, <2>8, <2>9, <2>10
<1>3. ASSUME NEW b \in Batches, Stamp(b)
      PROVE  DraftsAreNew'
  <2>1. ASSUME NEW e \in draft'[b]
        PROVE  \E f \in draft[b] : Same(e, f)
    <3>1. PICK f \in draft[b] : e = [f EXCEPT !.ts = clock]
      BY <1>3 DEF Stamp, StampFresh
    <3>2. f \in Entries
      OBVIOUS
    <3> QED
      BY <3>1, <3>2, StampKeeps DEF Same
  <2>2. /\ \A o \in Batches \ {b} : draft'[o] = draft[o]
        /\ stored' = stored /\ asked' = asked
    BY <1>3 DEF Stamp, history
  <2> QED
    BY <2>1, <2>2 DEF Same
<1>4. ASSUME NEW b \in Batches, Store(b)
      PROVE  DraftsAreNew'
  <2>1. /\ stored' = stored \cup draft[b] /\ asked' = asked
        /\ draft'[b] = {} /\ \A o \in Batches \ {b} : draft'[o] = draft[o]
    BY <1>4 DEF Store, Publish
  <2> QED
    BY <2>1
<1>5. ASSUME NEW a \in Actors, ListParts(a) \/ ReadPart(a) \/ FailToRead(a) \/ Unlink(a) \/ Crash(a)
      PROVE  DraftsAreNew'
  <2>1. CASE ListParts(a) \/ ReadPart(a) \/ FailToRead(a)
      BY <1>1, <2>1 DEF ListParts, ReadPart, FailToRead, history
  <2>2. CASE Unlink(a)
      BY <1>1, <2>2 DEF Unlink, history
  <2>3. CASE Crash(a)
      BY <1>1, <2>3 DEF Crash, history
  <2> QED
      BY <1>5, <2>1, <2>2, <2>3
<1>6. ASSUME NEW b \in Batches, Plan(b)
      PROVE  DraftsAreNew'
    BY <1>1, <1>6 DEF Plan
<1>7. ASSUME NEW p \in Pruners, Compact(p) \/ StoreCompacted(p)
      PROVE  DraftsAreNew'
    BY <1>1, <1>7 DEF Compact, StoreCompacted, Publish, history
<1>8. CASE Tick \/ UNCHANGED vars
    BY <1>1, <1>8 DEF Tick, vars, local, history
<1> QED
    BY <1>2, <1>3, <1>4, <1>5, <1>6, <1>7, <1>8 DEF Next

LEMMA PrunersHoldStep ==
    ASSUME CacheInv, [Next]_vars
    PROVE  PrunersHold'
<1> USE ActorsApart DEF CacheInv, Typed, PrunersHold
<1>1. ASSUME NEW a \in Actors, ListParts(a) \/ FailToRead(a) \/ ReadPart(a)
      PROVE  PrunersHold'
  <2>1. CASE ListParts(a)
      BY <2>1 DEF ListParts, Goto
  <2>2. CASE FailToRead(a)
      BY <2>2 DEF FailToRead
  <2>3. CASE ReadPart(a)
      BY <2>3 DEF ReadPart
  <2> QED
      BY <1>1, <2>1, <2>2, <2>3
<1>2. ASSUME NEW a \in Actors, Unlink(a) \/ Crash(a)
      PROVE  PrunersHold'
  <2>1. CASE Unlink(a)
      BY <2>1 DEF Unlink, Goto
  <2>2. CASE Crash(a)
      BY <2>2 DEF Crash, Goto
  <2> QED
      BY <1>2, <2>1, <2>2
<1>3. ASSUME NEW b \in Batches, Plan(b) \/ Ask(b) \/ Stamp(b) \/ Store(b)
      PROVE  PrunersHold'
  <2> SUFFICES \A p \in Pruners : pc'[p] = pc[p] /\ seen'[p] = seen[p] /\ draft'[p] = draft[p]
      OBVIOUS
  <2>1. CASE Plan(b)
      BY <2>1 DEF Plan, Goto
  <2>2. CASE Ask(b)
      BY <2>2 DEF Ask, Goto
  <2>3. CASE Stamp(b)
      BY <2>3 DEF Stamp, Goto
  <2>4. CASE Store(b)
      BY <2>4 DEF Store, Publish, Goto
  <2> QED
      BY <1>3, <2>1, <2>2, <2>3, <2>4
<1>4. ASSUME NEW p \in Pruners, Compact(p)
      PROVE  PrunersHold'
  <2>1. PICK kept \in OnePerKey(Fresh(seen[p], PruneTtl)) :
            /\ draft' = [draft EXCEPT ![p] = Survivors(kept)]
            /\ Goto(p, IF seen[p] = {} THEN "done" ELSE IF kept = {} THEN "unlinking" ELSE "renaming")
    BY <1>4 DEF Compact
  <2>2. pc'[p] # "renaming" => kept = {}
    BY <2>1, KeptIsPart DEF Goto, Fresh
  <2>3. seen'[p] = {} /\ draft'[p] = kept
    BY <1>4, <2>1 DEF Compact, Survivors
  <2>4. \A o \in Pruners \ {p} : pc'[o] = pc[o] /\ seen'[o] = seen[o] /\ draft'[o] = draft[o]
    BY <1>4, <2>1 DEF Compact, Goto
  <2> QED
    BY <2>2, <2>3, <2>4
<1>5. ASSUME NEW p \in Pruners, StoreCompacted(p)
      PROVE  PrunersHold'
    BY <1>5 DEF StoreCompacted, Publish, Goto
<1>6. CASE Tick \/ UNCHANGED vars
    BY <1>6 DEF Tick, vars, local
<1> QED
    BY <1>1, <1>2, <1>3, <1>4, <1>5, <1>6 DEF Next

\* What the directory holds, and what prunes hold, is as clean as it was.
LEMMA StaysCleared ==
    ASSUME NEW c \in Clearers, Cleared(c),
           before'[c] = before[c], pc'[c] = pc[c], listed'[c] = listed[c],
           stored \subseteq stored', raced \subseteq raced',
           c \notin raced' => Pruning' \subseteq Pruning \/ pc[c] # "unlinking",
           c \notin raced' /\ pc[c] \in {"unlinking", "done"} =>
               \A p \in DOMAIN disk' : Clean(c, disk'[p]) \/ (p \in DOMAIN disk /\ disk'[p] = disk[p]),
           c \notin raced' /\ pc[c] = "done" =>
               \A p \in Pruners : Clean(c, seen'[p]) /\ Clean(c, draft'[p])
    PROVE  Cleared(c)'
BY DEF Cleared, Clean

LEMMA ClearedAwayStep ==
    ASSUME CacheInv, [Next]_vars
    PROVE  ClearedAway'
<1> SUFFICES ASSUME NEW c \in Clearers
             PROVE  Cleared(c)'
    BY DEF ClearedAway
<1> USE ActorsApart DEF CacheInv, Typed
<1>c. Cleared(c)
    BY DEF ClearedAway
<1>d. c \notin raced /\ pc[c] = "unlinking" => Pruning = {}
    BY <1>c DEF Cleared
<1>e. c \notin raced /\ pc[c] = "done" => \A p \in Pruners : Clean(c, seen[p]) /\ Clean(c, draft[p])
    BY <1>c DEF Cleared
<1>1. ASSUME NEW a \in Actors, ListParts(a), a = c
      PROVE  Cleared(c)'
  <2>1. /\ before'[c] = stored /\ stored' = stored /\ disk' = disk
        /\ pc'[c] \in {"unlinking", "done"} /\ (pc'[c] = "done" => disk = <<>>)
        /\ listed'[c] = DOMAIN disk /\ seen' = seen /\ draft' = draft
    BY <1>1 DEF ListParts, Goto
  <2>2. c \notin raced' => Pruning = {} /\ Pruning' = {}
    BY <1>1 DEF ListParts, Goto, Pruning
  <2>3. Pruning = {} => \A p \in Pruners : seen[p] = {} /\ draft[p] = {}
    BY DEF PrunersHold, Pruning, Busy
  <2>4. DOMAIN <<>> = {}
    OBVIOUS
  <2> QED
    BY <2>1, <2>2, <2>3, <2>4 DEF Cleared, Clean
<1>2. ASSUME NEW a \in Actors, ListParts(a), a # c
      PROVE  Cleared(c)'
  <2>1. /\ before'[c] = before[c] /\ pc'[c] = pc[c] /\ listed'[c] = listed[c]
        /\ stored' = stored /\ raced \subseteq raced' /\ disk' = disk /\ seen' = seen /\ draft' = draft
    BY <1>2 DEF ListParts, Goto
  <2>2. c \notin raced' => Pruning' \subseteq Pruning \/ pc[c] # "unlinking"
    BY <1>2 DEF ListParts, Goto, Pruning, Clearing, Busy
  <2> QED
    BY <1>c, <1>e, <2>1, <2>2, StaysCleared
<1>3. ASSUME NEW a \in Actors, ReadPart(a)
      PROVE  Cleared(c)'
  <2>1. /\ before' = before /\ pc' = pc /\ listed' = listed
        /\ stored' = stored /\ raced' = raced /\ disk' = disk /\ draft' = draft /\ Pruning' = Pruning
    BY <1>3 DEF ReadPart, history, Pruning
  <2>2. PICK p \in unread[a] :
            seen' = [seen EXCEPT ![a] = @ \cup (IF p \in DOMAIN disk THEN disk[p] ELSE {})]
    BY <1>3 DEF ReadPart
  <2>3. c \notin raced /\ pc[c] = "done" /\ p \in DOMAIN disk => Clean(c, disk[p])
    BY <1>c DEF Cleared
  <2>4. c \notin raced /\ pc[c] = "done" => \A q \in Pruners : Clean(c, seen'[q])
    BY <1>e, <2>2, <2>3 DEF Clean
  <2> QED
    BY <1>c, <1>e, <2>1, <2>4, StaysCleared
<1>4. ASSUME NEW a \in Actors, FailToRead(a)
      PROVE  Cleared(c)'
    BY <1>4, <1>c, <1>e, StaysCleared DEF FailToRead, Pruning
<1>5. ASSUME NEW a \in Actors, Unlink(a), a # c
      PROVE  Cleared(c)'
  <2>1. /\ before' = before /\ pc'[c] = pc[c] /\ listed'[c] = listed[c] /\ stored' = stored
        /\ raced' = raced /\ seen' = seen /\ draft' = draft /\ Pruning' \subseteq Pruning
        /\ \A p \in DOMAIN disk' : p \in DOMAIN disk /\ disk'[p] = disk[p]
    BY <1>5 DEF Unlink, Goto, history, Pruning, Busy
  <2> QED
    BY <1>c, <1>e, <2>1, StaysCleared
<1>6. ASSUME NEW a \in Actors, Unlink(a), a = c
      PROVE  Cleared(c)'
  <2>1. PICK p \in listed[c] :
            /\ disk' = [q \in DOMAIN disk \ {p} |-> disk[q]]
            /\ listed'[c] = listed[c] \ {p}
            /\ pc'[c] = IF listed[c] = {p} THEN "done" ELSE "unlinking"
    BY <1>6 DEF Unlink, ToRemove, Goto
  <2>2. /\ pc[c] = "unlinking" /\ before' = before /\ stored' = stored
        /\ raced' = raced /\ seen' = seen /\ draft' = draft /\ Pruning' \subseteq Pruning
    BY <1>6 DEF Unlink, Goto, history, Pruning, Busy
  <2>3. Pruning = {} => \A q \in Pruners : seen[q] = {} /\ draft[q] = {}
    BY DEF PrunersHold, Pruning, Busy
  <2>4. c \notin raced => Pruning = {} /\ \A q \in DOMAIN disk \ listed[c] : Clean(c, disk[q])
    BY <1>c, <2>2 DEF Cleared
  <2>5. c \notin raced => \A q \in DOMAIN disk' \ listed'[c] : Clean(c, disk'[q])
    BY <2>1, <2>4
  <2>6. pc'[c] = "done" => listed'[c] = {}
    BY <2>1
  <2>7. before[c] \subseteq stored
    BY <1>c DEF Cleared
  <2> QED
    BY <2>1, <2>2, <2>3, <2>4, <2>5, <2>6, <2>7 DEF Cleared, Clean
<1>7. ASSUME NEW a \in Actors, Crash(a)
      PROVE  Cleared(c)'
  <2>1. CASE a = c
    BY <1>7, <1>c, <2>1 DEF Crash, Goto, history, Cleared
  <2>2. CASE a # c
    <3>1. /\ before' = before /\ pc'[c] = pc[c] /\ listed'[c] = listed[c] /\ stored' = stored
          /\ raced' = raced /\ disk' = disk /\ Pruning' \subseteq Pruning
          /\ \A p \in Pruners : seen'[p] \subseteq seen[p] /\ draft'[p] \subseteq draft[p]
      BY <1>7, <2>2 DEF Crash, Goto, history, Pruning, Busy
    <3>2. c \notin raced /\ pc[c] = "done" => \A p \in Pruners : Clean(c, seen'[p]) /\ Clean(c, draft'[p])
      BY <1>e, <3>1 DEF Clean
    <3> QED
      BY <1>c, <3>1, <3>2, StaysCleared
  <2> QED
    BY <2>1, <2>2
<1>8. ASSUME NEW b \in Batches, Plan(b) \/ Ask(b) \/ Stamp(b)
      PROVE  Cleared(c)'
  <2>1. /\ before' = before /\ pc'[c] = pc[c] /\ listed' = listed /\ stored' = stored
        /\ raced' = raced /\ disk' = disk
        /\ \A p \in Pruners : seen'[p] = seen[p] /\ draft'[p] = draft[p] /\ pc'[p] = pc[p]
    <3>1. CASE Plan(b)
      BY <3>1 DEF Plan, Goto
    <3>2. CASE Ask(b)
      BY <3>2 DEF Ask, Goto, history
    <3>3. CASE Stamp(b)
      BY <3>3 DEF Stamp, Goto, history
    <3> QED
      BY <1>8, <3>1, <3>2, <3>3
  <2>2. Pruning' = Pruning
    BY <2>1 DEF Pruning
  <2> QED
    BY <1>c, <1>e, <2>1, <2>2, StaysCleared
<1>9. ASSUME NEW b \in Batches, Store(b)
      PROVE  Cleared(c)'
  <2>1. /\ before' = before /\ pc'[c] = pc[c] /\ listed' = listed /\ stored' = stored \cup draft[b]
        /\ raced' = raced
        /\ \A p \in Pruners : seen'[p] = seen[p] /\ draft'[p] = draft[p] /\ pc'[p] = pc[p]
    BY <1>9 DEF Store, Publish, Goto
  <2>2. Pruning' = Pruning
    BY <2>1 DEF Pruning
  <2>3. Clean(c, draft[b])
    BY <1>c DEF Cleared, Clean, DraftsAreNew
  <2>4. ASSUME NEW p \in DOMAIN disk'
        PROVE  disk'[p] = draft[b] \/ (p \in DOMAIN disk /\ disk'[p] = disk[p])
    <3>1. disk' = [r \in DOMAIN disk \cup {b} |-> IF r = b THEN draft[b] ELSE disk[r]]
      BY <1>9 DEF Store, Publish
    <3> QED
      BY <3>1
  <2> QED
    BY <1>c, <1>e, <2>1, <2>2, <2>3, <2>4, StaysCleared
<1>10. ASSUME NEW p \in Pruners, Compact(p)
      PROVE  Cleared(c)'
  <2>1. PICK kept \in OnePerKey(Fresh(seen[p], PruneTtl)) :
            draft' = [draft EXCEPT ![p] = Survivors(kept)]
    BY <1>10 DEF Compact
  <2>2. kept \subseteq seen[p]
    BY <2>1, KeptIsPart DEF Fresh
  <2>3. \A q \in Pruners : /\ seen'[q] \subseteq seen[q]
                           /\ draft'[q] \subseteq draft[q] \cup seen[q]
    BY <1>10, <2>1, <2>2 DEF Compact, Survivors
  <2>4. c \notin raced /\ pc[c] = "done" => \A q \in Pruners : Clean(c, seen'[q]) /\ Clean(c, draft'[q])
    BY <1>e, <2>3 DEF Clean
  <2>5. /\ before' = before /\ pc'[c] = pc[c] /\ listed' = listed /\ stored' = stored
        /\ raced' = raced /\ disk' = disk /\ Pruning' \subseteq Pruning
    BY <1>10 DEF Compact, Goto, history, Pruning, Busy
  <2> QED
    BY <1>c, <2>4, <2>5, StaysCleared
<1>11. ASSUME NEW p \in Pruners, StoreCompacted(p)
      PROVE  Cleared(c)'
  <2>1. /\ before' = before /\ pc'[c] = pc[c] /\ listed' = listed /\ stored' = stored
        /\ raced' = raced /\ seen' = seen /\ Pruning' \subseteq Pruning
        /\ \A q \in Pruners : draft'[q] \subseteq draft[q]
    BY <1>11 DEF StoreCompacted, Publish, Goto, history, Pruning, Busy
  <2>2. p \in Pruning
    BY <1>11 DEF StoreCompacted, Publish, Pruning, Busy
  <2>3. c \notin raced => pc[c] # "unlinking"
    BY <1>d, <2>2
  <2>4. ASSUME NEW q \in DOMAIN disk'
        PROVE  disk'[q] = draft[p] \/ (q \in DOMAIN disk /\ disk'[q] = disk[q])
    <3>1. disk' = [r \in DOMAIN disk \cup {p} |-> IF r = p THEN draft[p] ELSE disk[r]]
      BY <1>11 DEF StoreCompacted, Publish
    <3> QED
      BY <3>1
  <2>5. c \notin raced /\ pc[c] = "done" => \A q \in Pruners : Clean(c, seen'[q]) /\ Clean(c, draft'[q])
    BY <1>e, <2>1 DEF Clean
  <2> QED
    BY <1>c, <1>e, <2>1, <2>3, <2>4, <2>5, StaysCleared
<1>12. CASE Tick \/ UNCHANGED vars
  <2>1. /\ before' = before /\ pc' = pc /\ listed' = listed /\ stored' = stored
        /\ raced' = raced /\ disk' = disk /\ seen' = seen /\ draft' = draft /\ Pruning' = Pruning
    BY <1>12 DEF Tick, vars, local, history, Pruning
  <2> QED
    BY <1>c, <1>e, <2>1, StaysCleared
<1> QED
    BY <1>1, <1>2, <1>3, <1>4, <1>5, <1>6, <1>7, <1>8, <1>9, <1>10, <1>11, <1>12 DEF Next

LEMMA CacheInvHolds == Spec => []CacheInv
<1>1. CacheInv /\ [Next]_vars => CacheInv'
    BY TypedStep, OnlyStoredStep, DraftsAreNewStep, PrunersHoldStep, ClearedAwayStep DEF CacheInv
<1> QED
    BY <1>1, CacheInvInit, PTL DEF Spec
-----------------------------------------------------------------------------
(***************************************************************************)
(* prune changes nothing a reader could tell.  An entry counts as long as  *)
(* no cache with the prune's ttl would call it expired; it is covered by a *)
(* set of entries that has one of its key at least as new.                 *)
(***************************************************************************)
Live == Fresh(stored, PruneTtl)
Dominated(e, E) == \E f \in E : f.k = e.k /\ f.ts >= e.ts
Covers(E) == \A e \in Live : Dominated(e, E)

\* What there will be if prune p removes the parts it has listed: what it has
\* read or kept, and every part it has still to read or has not listed.
Remaining(p) == {q \in DOMAIN disk : q \in unread[p] \/ q \notin listed[p]}
Cover(p) == seen[p] \cup draft[p] \cup UNION {disk[q] : q \in Remaining(p)}

\* The parts on disk that p will remove.
Doomed(p) == listed[p] \cap DOMAIN disk

(***************************************************************************)
(* Each prune by itself leaves every live entry covered.  That two prunes  *)
(* do so together takes more: a part that one of them relies on may be     *)
(* doomed by the other.  It helps that, of two prunes, one has listed all  *)
(* that the other has and that is still there (Nested), and that a part    *)
(* that was read and is still there has been seen (ReadIsSeen).            *)
(***************************************************************************)
Nested == \A p, q \in Pruners : Doomed(p) \subseteq Doomed(q) \/ Doomed(q) \subseteq Doomed(p)
ReadIsSeen ==
    \A p \in Pruners : pc[p] = "reading" =>
        \A q \in Doomed(p) \ unread[p] : disk[q] \subseteq seen[p]
Housekept ==
    /\ Covers(Contents(disk))
    /\ \A p \in Pruning : Covers(Cover(p))
    /\ Nested /\ ReadIsSeen

Undisturbed == (\A c \in Clearers : pc[c] = "idle") /\ ~blind

\* A part's name is not in use before its writer publishes it.
Unpublished == {"idle", "reading", "asking", "stamping", "renaming"}
NamesAreNew ==
    \A a \in Actors : pc[a] \in Unpublished =>
        a \notin DOMAIN disk /\ \A p \in Pruners : a \notin listed[p]

PcTyped ==
    /\ \A b \in Batches : pc[b] \in Unpublished \cup {"done", "crashed"}
    /\ \A p \in Pruners : pc[p] \in {"idle", "reading", "renaming", "unlinking", "done", "crashed"}
    /\ \A p \in Pruners : pc[p] # "reading" => unread[p] = {}

Names == NamesAreNew /\ PcTyped
PruneInv == Names /\ (Undisturbed => Housekept)
-----------------------------------------------------------------------------
LEMMA NamesInit == Init => Names
BY ActorsApart, ResponseCacheAssumption
   DEF Init, Names, NamesAreNew, PcTyped, Nothing, Unpublished

LEMMA NamesStep ==
    ASSUME CacheInv, Names, [Next]_vars
    PROVE  Names'
<1> USE ActorsApart DEF CacheInv, Typed, Names, NamesAreNew, PcTyped, Unpublished
<1>1. ASSUME NEW a \in Actors, ListParts(a)
      PROVE  Names'
  <2>1. /\ disk' = disk /\ DOMAIN <<>> = {}
        /\ \A o \in Actors : o # a => pc'[o] = pc[o] /\ listed'[o] = listed[o] /\ unread'[o] = unread[o]
        /\ pc[a] = "idle" /\ unread'[a] = DOMAIN disk
        /\ listed'[a] = listed[a] \/ listed'[a] = DOMAIN disk
        /\ pc'[a] = IF a \in Batches THEN "reading" ELSE IF disk = <<>> THEN "done"
                    ELSE IF a \in Clearers THEN "unlinking" ELSE "reading"
    BY <1>1 DEF ListParts, Goto
  <2> QED
    BY <2>1
<1>2. ASSUME NEW a \in Actors, ReadPart(a)
      PROVE  Names'
    BY <1>2 DEF ReadPart
<1>3. ASSUME NEW a \in Actors, FailToRead(a)
      PROVE  Names'
    BY <1>3 DEF FailToRead
<1>4. ASSUME NEW a \in Actors, Unlink(a)
      PROVE  Names'
  <2>1. PICK p \in listed[a] :
            /\ disk' = [q \in DOMAIN disk \ {p} |-> disk[q]]
            /\ listed' = [listed EXCEPT ![a] = @ \ {p}]
            /\ pc' = [pc EXCEPT ![a] = IF listed[a] = {p} THEN "done" ELSE "unlinking"]
    BY <1>4 DEF Unlink, ToRemove, Goto
  <2>2. DOMAIN disk' \subseteq DOMAIN disk /\ \A o \in Actors : listed'[o] \subseteq listed[o]
    BY <2>1
  <2>3. pc[a] = "unlinking" /\ unread' = unread
    BY <1>4 DEF Unlink
  <2> QED
    BY <2>1, <2>2, <2>3
<1>5. ASSUME NEW a \in Actors, Crash(a)
      PROVE  Names'
    BY <1>5 DEF Crash, Goto
<1>6. ASSUME NEW b \in Batches, Plan(b)
      PROVE  Names'
    BY <1>6 DEF Plan, Goto
<1>7. ASSUME NEW b \in Batches, Ask(b)
      PROVE  Names'
    BY <1>7 DEF Ask, AfterAsk, Goto
<1>8. ASSUME NEW b \in Batches, Stamp(b)
      PROVE  Names'
    BY <1>8 DEF Stamp, Goto
<1>9. ASSUME NEW a \in Actors, NEW next \in {"done", "unlinking"}, Publish(a, next),
             UNCHANGED <<unread, listed>>, a \in Batches => next = "done", a \notin Clearers
      PROVE  Names'
  <2>1. DOMAIN disk' = DOMAIN disk \cup {a} /\ pc' = [pc EXCEPT ![a] = next]
    BY <1>9 DEF Publish, Goto
  <2>2. /\ pc[a] = "renaming" /\ pc'[a] = next
        /\ \A o \in Actors : o # a => pc'[o] = pc[o]
    BY <1>9, <2>1 DEF Publish
  <2>3. NamesAreNew'
    BY <1>9, <2>1, <2>2
  <2>4. PcTyped'
    BY <1>9, <2>2
  <2> QED
    BY <2>3, <2>4
<1>10. ASSUME NEW b \in Batches, Store(b)
      PROVE  Names'
    BY <1>9, <1>10 DEF Store
<1>11. ASSUME NEW p \in Pruners, Compact(p)
      PROVE  Names'
  <2>1. /\ \/ pc' = [pc EXCEPT ![p] = "done"] \/ pc' = [pc EXCEPT ![p] = "unlinking"]
           \/ pc' = [pc EXCEPT ![p] = "renaming"]
        /\ pc[p] = "reading" /\ unread[p] = {} /\ UNCHANGED <<disk, unread, listed>>
    BY <1>11 DEF Compact, Goto
  <2> QED
    BY <2>1
<1>12. ASSUME NEW p \in Pruners, StoreCompacted(p)
      PROVE  Names'
    BY <1>9, <1>12 DEF StoreCompacted
<1>13. CASE Tick \/ UNCHANGED vars
    BY <1>13 DEF Tick, vars, local
<1> QED
    BY <1>1, <1>2, <1>3, <1>4, <1>5, <1>6, <1>7, <1>8, <1>10, <1>11, <1>12, <1>13 DEF Next
-----------------------------------------------------------------------------
\* Nothing becomes live by the passing of time.
LEMMA LiveEbbs ==
    ASSUME CacheInv, stored' = stored, clock' = clock \/ clock' = clock + 1
    PROVE  Live' \subseteq Live
<1> SUFFICES ASSUME NEW e \in Live', PruneTtl # Never
             PROVE  e \in Live
    BY DEF Live, Fresh
<1>1. e \in stored /\ e.ts \in Nat /\ clock \in Nat /\ PruneTtl \in Nat
    BY ResponseCacheAssumption DEF Live, Fresh, CacheInv, Typed, Entries
<1>2. e.ts >= clock' - PruneTtl
    BY DEF Live, Fresh
<1> QED
    BY <1>1, <1>2 DEF Live, Fresh

\* A step that moves no part and nothing a prune that goes on has read.
LEMMA HousekeptStays ==
    ASSUME Housekept, disk' = disk, Live' \subseteq Live, Pruning' \subseteq Pruning,
           \A p \in Pruning' : /\ pc'[p] = pc[p] /\ seen'[p] = seen[p] /\ draft'[p] = draft[p]
                               /\ unread'[p] = unread[p] /\ listed'[p] = listed[p],
           \A p \in Pruners : listed'[p] = listed[p] \/ listed'[p] = {}
    PROVE  Housekept'
<1>1. Covers(Contents(disk))'
    BY DEF Housekept, Covers, Dominated, Contents
<1>2. ASSUME NEW p \in Pruning'
      PROVE  Covers(Cover(p))'
  <2>1. Cover(p)' = Cover(p)
    BY <1>2 DEF Cover, Remaining
  <2>2. Covers(Cover(p))
    BY <1>2 DEF Housekept
  <2> QED
    BY <2>1, <2>2 DEF Covers, Dominated
<1>3. \A p \in Pruners : Doomed(p)' = Doomed(p) \/ Doomed(p)' = {}
    BY DEF Doomed
<1>4. Nested'
    BY <1>3 DEF Housekept, Nested
<1>5. ReadIsSeen'
  <2> SUFFICES ASSUME NEW p \in Pruners, pc'[p] = "reading", NEW q \in Doomed(p)' \ unread'[p]
               PROVE  disk'[q] \subseteq seen'[p]
    BY DEF ReadIsSeen
  <2>1. p \in Pruning'
    BY DEF Pruning, Busy
  <2>2. pc[p] = "reading" /\ q \in Doomed(p) \ unread[p] /\ seen'[p] = seen[p]
    BY <2>1 DEF Doomed
  <2> QED
    BY <2>2 DEF Housekept, ReadIsSeen
<1> QED
    BY <1>1, <1>2, <1>4, <1>5 DEF Housekept

\* A prune begins: it has the whole directory to read.
LEMMA HousekeptListing ==
    ASSUME CacheInv, Housekept, NEW a \in Pruners, ListParts(a)
    PROVE  Housekept'
<1> USE ActorsApart DEF CacheInv, Typed
<1>1. /\ disk' = disk /\ seen' = seen /\ draft' = draft /\ unread'[a] = DOMAIN disk /\ listed'[a] = DOMAIN disk
      /\ \A p \in Pruners : p # a => pc'[p] = pc[p] /\ unread'[p] = unread[p] /\ listed'[p] = listed[p]
    BY DEF ListParts, Goto
<1>2. Live' \subseteq Live
    BY LiveEbbs DEF ListParts
<1>3. Covers(Contents(disk))'
    BY <1>1, <1>2 DEF Housekept, Covers, Dominated, Contents
<1>4. ASSUME NEW p \in Pruning'
      PROVE  Covers(Cover(p))'
  <2>1. CASE p = a
    <3>1. Remaining(p)' = DOMAIN disk
      BY <1>1, <2>1 DEF Remaining
    <3>2. Contents(disk)' \subseteq Cover(p)'
      BY <1>1, <3>1 DEF Cover, Contents
    <3> QED
      BY <1>3, <3>2 DEF Covers, Dominated
  <2>2. CASE p # a
    <3>1. p \in Pruning /\ Cover(p)' = Cover(p)
      BY <1>1, <2>2 DEF Pruning, Cover, Remaining
    <3> QED
      BY <1>2, <3>1 DEF Housekept, Covers, Dominated
  <2> QED
    BY <2>1, <2>2
<1>5. Nested'
  <2>1. \A p \in Pruners : Doomed(p)' = IF p = a THEN DOMAIN disk ELSE Doomed(p)
    BY <1>1 DEF Doomed
  <2>2. \A p \in Pruners : Doomed(p) \subseteq DOMAIN disk
    BY DEF Doomed
  <2> QED
    BY <2>1, <2>2 DEF Housekept, Nested
<1>6. ReadIsSeen'
    BY <1>1 DEF Housekept, ReadIsSeen, Doomed
<1> QED
    BY <1>3, <1>4, <1>5, <1>6 DEF Housekept

\* A prune reads a part, or finds it gone.
LEMMA HousekeptReading ==
    ASSUME CacheInv, Housekept, NEW a \in Pruners, ReadPart(a)
    PROVE  Housekept'
<1> USE ActorsApart DEF CacheInv, Typed
<1>1. PICK r \in unread[a] :
          /\ unread' = [unread EXCEPT ![a] = @ \ {r}]
          /\ seen' = [seen EXCEPT ![a] = @ \cup (IF r \in DOMAIN disk THEN disk[r] ELSE {})]
    BY DEF ReadPart
<1>2. /\ disk' = disk /\ pc' = pc /\ draft' = draft /\ listed' = listed
      /\ unread'[a] = unread[a] \ {r}
      /\ seen[a] \subseteq seen'[a] /\ (r \in DOMAIN disk => disk[r] \subseteq seen'[a])
      /\ \A p \in Pruners : p # a => unread'[p] = unread[p] /\ seen'[p] = seen[p]
    BY <1>1 DEF ReadPart
<1>3. Live' \subseteq Live
    BY LiveEbbs DEF ReadPart, history
<1>4. Covers(Contents(disk))'
    BY <1>2, <1>3 DEF Housekept, Covers, Dominated, Contents
<1>5. ASSUME NEW p \in Pruning'
      PROVE  Covers(Cover(p))'
  <2>1. p \in Pruning /\ p \in Pruners
    BY <1>2 DEF Pruning
  <2>2. Cover(p) \subseteq Cover(p)'
    <3> SUFFICES ASSUME NEW q \in Remaining(p)
                 PROVE  q \in Remaining(p)' \/ disk[q] \subseteq seen'[p]
      BY <1>2, <2>1 DEF Cover
    <3> QED
      BY <1>2, <2>1 DEF Remaining
  <2> QED
    BY <1>3, <2>1, <2>2 DEF Housekept, Covers, Dominated
<1>6. Nested'
    BY <1>2 DEF Housekept, Nested, Doomed
<1>7. ReadIsSeen'
  <2> SUFFICES ASSUME NEW p \in Pruners, pc'[p] = "reading", NEW q \in Doomed(p)' \ unread'[p]
               PROVE  disk'[q] \subseteq seen'[p]
    BY DEF ReadIsSeen
  <2>1. pc[p] = "reading" /\ q \in Doomed(p) /\ q \in DOMAIN disk
    BY <1>2 DEF Doomed
  <2>2. q \notin unread[p] => disk[q] \subseteq seen[p]
    BY <2>1 DEF Housekept, ReadIsSeen
  <2> QED
    BY <1>2, <2>1, <2>2
<1> QED
    BY <1>4, <1>5, <1>6, <1>7 DEF Housekept

\* A prune has read all: what it keeps serves for all it has seen.
LEMMA HousekeptCompacting ==
    ASSUME CacheInv, Housekept, NEW a \in Pruners, Compact(a)
    PROVE  Housekept'
<1> USE ActorsApart DEF CacheInv, Typed
<1>1. PICK kept \in OnePerKey(Fresh(seen[a], PruneTtl)) :
          /\ draft' = [draft EXCEPT ![a] = Survivors(kept)]
          /\ Goto(a, IF seen[a] = {} THEN "done" ELSE IF kept = {} THEN "unlinking" ELSE "renaming")
    BY DEF Compact
<1>2. /\ disk' = disk /\ listed' = listed /\ unread' = unread /\ draft'[a] = kept
      /\ pc[a] = "reading" /\ pc'[a] # "reading" /\ unread[a] = {}
      /\ \A p \in Pruners : p # a => pc'[p] = pc[p] /\ draft'[p] = draft[p] /\ seen'[p] = seen[p]
    BY <1>1 DEF Compact, Goto, Survivors
<1>3. Live' \subseteq Live
    BY LiveEbbs DEF Compact, history
<1>4. Covers(Contents(disk))'
    BY <1>2, <1>3 DEF Housekept, Covers, Dominated, Contents
<1>5. ASSUME NEW p \in Pruning', p # a
      PROVE  Covers(Cover(p))'
  <2>1. p \in Pruning /\ Cover(p)' = Cover(p)
    BY <1>2, <1>5 DEF Pruning, Cover, Remaining
  <2> QED
    BY <1>3, <2>1 DEF Housekept, Covers, Dominated
<1>6. Covers(Cover(a))'
  <2> SUFFICES ASSUME NEW e \in Live
               PROVE  Dominated(e, Cover(a)')
    BY <1>3 DEF Covers, Dominated
  <2>1. a \in Pruning
    BY <1>2 DEF Pruning, Busy
  <2>2. PICK f \in Cover(a) : f.k = e.k /\ f.ts >= e.ts
    BY <2>1 DEF Housekept, Covers, Dominated
  <2>3. draft[a] = {} /\ seen[a] \subseteq stored
    BY <1>2 DEF PrunersHold, OnlyStored
  <2>4. CASE f \in seen[a]
    <3>1. /\ e.ts \in Nat /\ f.ts \in Nat /\ clock \in Nat /\ f \in Entries
          /\ PruneTtl = Never \/ (PruneTtl \in Nat /\ e.ts >= clock - PruneTtl)
      BY <2>3, <2>4, ResponseCacheAssumption DEF Live, Fresh, Entries
    <3>2. f \in Fresh(seen[a], PruneTtl)
      BY <2>2, <2>4, <3>1 DEF Fresh
    <3>3. PICK g \in kept : g \in Newest(Fresh(seen[a], PruneTtl), f.k)
      BY <3>2, KeptServes
    <3>4. g.k = f.k /\ f.ts <= g.ts /\ g \in seen[a] /\ g.ts \in Nat
      BY <2>3, <3>2, <3>3 DEF Newest, Fresh, Entries
    <3>5. g.k = e.k /\ g.ts >= e.ts /\ g \in Cover(a)'
      BY <1>2, <2>2, <3>1, <3>4 DEF Cover
    <3> QED
      BY <3>5 DEF Dominated
  <2>5. CASE f \notin seen[a]
    <3>1. f \in UNION {disk[q] : q \in Remaining(a)} /\ Remaining(a)' = Remaining(a)
      BY <1>2, <2>3, <2>5 DEF Cover, Remaining
    <3>2. f \in Cover(a)'
      BY <1>2, <3>1 DEF Cover
    <3> QED
      BY <2>2, <3>2 DEF Dominated
  <2> QED
    BY <2>4, <2>5
<1>7. Nested'
    BY <1>2 DEF Housekept, Nested, Doomed
<1>8. ReadIsSeen'
  <2> SUFFICES ASSUME NEW p \in Pruners, pc'[p] = "reading", NEW q \in Doomed(p)' \ unread'[p]
               PROVE  disk'[q] \subseteq seen'[p]
    BY DEF ReadIsSeen
  <2>1. p # a /\ pc[p] = "reading" /\ q \in Doomed(p) \ unread[p]
    BY <1>2 DEF Doomed
  <2> QED
    BY <1>2, <2>1 DEF Housekept, ReadIsSeen
<1> QED
    BY <1>4, <1>5, <1>6, <1>7, <1>8 DEF Housekept

\* A part appears, of a batch or of a prune: no prune has listed it.
LEMMA HousekeptGrows ==
    ASSUME CacheInv, Names, Housekept, NEW a \in Actors, NEW next \in {"done", "unlinking"},
           Publish(a, next), UNCHANGED <<unread, listed, seen>>,
           Live' \subseteq Live \cup draft[a], draft[a] \subseteq Entries
    PROVE  Housekept'
<1> USE ActorsApart DEF CacheInv, Typed
<1>1. /\ pc[a] = "renaming" /\ pc'[a] = next /\ draft'[a] = {}
      /\ \A p \in Pruners : p # a => pc'[p] = pc[p] /\ draft'[p] = draft[p]
      /\ unread' = unread /\ listed' = listed /\ seen' = seen
    BY DEF Publish, Goto
<1>2. disk' = [q \in DOMAIN disk \cup {a} |-> IF q = a THEN draft[a] ELSE disk[q]]
    BY DEF Publish
<1>3. a \notin DOMAIN disk /\ \A p \in Pruners : a \notin listed[p]
    BY <1>1 DEF Names, NamesAreNew, Unpublished
<1>4. /\ DOMAIN disk' = DOMAIN disk \cup {a} /\ disk'[a] = draft[a]
      /\ \A q \in DOMAIN disk : disk'[q] = disk[q]
    BY <1>2, <1>3
<1>5. ASSUME NEW E, NEW F, Covers(E), E \cup draft[a] \subseteq F
      PROVE  \A e \in Live' : Dominated(e, F)
  <2>1. \A e \in draft[a] : e.ts >= e.ts
    BY DEF Entries
  <2> QED
    BY <1>5, <2>1 DEF Covers, Dominated
<1>6. Covers(Contents(disk))'
  <2>1. Contents(disk) \cup draft[a] \subseteq Contents(disk')
    BY <1>4 DEF Contents
  <2>2. Covers(Contents(disk))
    BY DEF Housekept
  <2>3. \A e \in Live' : Dominated(e, Contents(disk'))
    BY <1>5, <2>1, <2>2
  <2> QED
    BY <2>3 DEF Covers, Dominated
<1>7. ASSUME NEW p \in Pruning'
      PROVE  Covers(Cover(p))'
  <2>1. p \in Pruning /\ p \in Pruners
    BY <1>1 DEF Pruning, Busy
  <2>2. Remaining(p)' = Remaining(p) \cup {a}
    BY <1>1, <1>3, <1>4, <2>1 DEF Remaining
  <2>3. Remaining(p) \subseteq DOMAIN disk
    BY DEF Remaining
  <2>4. Cover(p) \cup draft[a] \subseteq Cover(p)'
    BY <1>1, <1>4, <2>1, <2>2, <2>3 DEF Cover
  <2>5. Covers(Cover(p))
    BY <2>1 DEF Housekept
  <2>6. \A e \in Live' : Dominated(e, Cover(p)')
    BY <1>5, <2>4, <2>5
  <2> QED
    BY <2>6 DEF Covers, Dominated
<1>8. \A p \in Pruners : Doomed(p)' = Doomed(p)
    BY <1>1, <1>3, <1>4 DEF Doomed
<1>9. Nested'
    BY <1>8 DEF Housekept, Nested
<1>10. ReadIsSeen'
  <2> SUFFICES ASSUME NEW p \in Pruners, pc'[p] = "reading", NEW q \in Doomed(p)' \ unread'[p]
               PROVE  disk'[q] \subseteq seen'[p]
    BY DEF ReadIsSeen
  <2>1. pc[p] = "reading" /\ q \in Doomed(p) \ unread[p] /\ q \in DOMAIN disk
    BY <1>1, <1>8 DEF Doomed
  <2> QED
    BY <1>1, <1>4, <2>1 DEF Housekept, ReadIsSeen
<1> QED
    BY <1>6, <1>7, <1>9, <1>10 DEF Housekept

\* A prune removes a part.  Another prune that relies on it has still to read
\* it, so whatever the first one relies on, the other has seen or will leave.
LEMMA HousekeptUnlinking ==
    ASSUME CacheInv, Names, Housekept, NEW a \in Pruners, Unlink(a)
    PROVE  Housekept'
<1> USE ActorsApart DEF CacheInv, Typed
<1>1. PICK q \in listed[a] :
          /\ disk' = [r \in DOMAIN disk \ {q} |-> disk[r]]
          /\ listed' = [listed EXCEPT ![a] = @ \ {q}]
          /\ Goto(a, IF listed[a] = {q} THEN "done" ELSE "unlinking")
    BY DEF Unlink, ToRemove
<1>2. /\ pc[a] = "unlinking" /\ pc'[a] # "reading"
      /\ seen' = seen /\ draft' = draft /\ unread' = unread
      /\ \A p \in Pruners : p # a => pc'[p] = pc[p]
    BY <1>1 DEF Unlink, Goto
<1>3. DOMAIN disk' = DOMAIN disk \ {q} /\ \A r \in DOMAIN disk' : disk'[r] = disk[r]
    BY <1>1
<1>4. listed'[a] = listed[a] \ {q} /\ \A p \in Pruners : p # a => listed'[p] = listed[p]
    BY <1>1
<1>5. Live' \subseteq Live
    BY LiveEbbs DEF Unlink, history
<1>6. a \in Pruning /\ seen[a] = {} /\ draft[a] = {} /\ unread[a] = {}
    BY <1>2 DEF Pruning, Busy, PrunersHold, Names, PcTyped
<1>7. \A r \in Remaining(a) : r \in DOMAIN disk /\ r \notin listed[a] /\ r # q
    BY <1>6 DEF Remaining
<1>8. ASSUME NEW e \in Live
      PROVE  \E r \in Remaining(a) : Dominated(e, disk[r])
  <2>1. PICK f \in Cover(a) : f.k = e.k /\ f.ts >= e.ts
    BY <1>6 DEF Housekept, Covers, Dominated
  <2>2. PICK r \in Remaining(a) : f \in disk[r]
    BY <1>6, <2>1 DEF Cover
  <2> QED
    BY <2>1, <2>2 DEF Dominated
<1>9. Covers(Contents(disk))'
  <2> SUFFICES ASSUME NEW e \in Live
               PROVE  Dominated(e, Contents(disk'))
    BY <1>5 DEF Covers, Dominated
  <2>1. PICK r \in Remaining(a) : Dominated(e, disk[r])
    BY <1>8
  <2>2. disk[r] \subseteq Contents(disk')
    BY <1>3, <1>7 DEF Contents
  <2> QED
    BY <2>1, <2>2 DEF Dominated
<1>10. ASSUME NEW p \in Pruning'
       PROVE  Covers(Cover(p))'
  <2> SUFFICES ASSUME NEW e \in Live
               PROVE  Dominated(e, Cover(p)')
    BY <1>5 DEF Covers, Dominated
  <2>1. p \in Pruning /\ p \in Pruners
    BY <1>2, <1>6 DEF Pruning
  <2>2. \A r \in Remaining(p) : r # q => r \in Remaining(p)' /\ disk'[r] = disk[r]
    BY <1>2, <1>3, <1>4, <2>1 DEF Remaining
  <2>3. \A r \in Remaining(p) : r # q => disk[r] \subseteq Cover(p)'
    BY <2>2 DEF Cover
  <2>4. seen[p] \cup draft[p] \subseteq Cover(p)'
    BY <1>2 DEF Cover
  <2>5. PICK g \in Cover(p) : g.k = e.k /\ g.ts >= e.ts
    BY <2>1 DEF Housekept, Covers, Dominated
  <2>6. PICK s \in Remaining(a) : Dominated(e, disk[s])
    BY <1>8
  <2>7. CASE g \in Cover(p)'
    BY <2>5, <2>7 DEF Dominated
  <2>8. CASE g \notin Cover(p)'
    <3>1. q \in Remaining(p)
      BY <2>3, <2>4, <2>8 DEF Cover
    <3>2. CASE s \in Remaining(p)
      BY <1>7, <2>3, <2>6, <3>2 DEF Dominated
    <3>3. CASE s \notin Remaining(p)
      <4>1. s \in Doomed(p) /\ s \notin unread[p] /\ s \notin Doomed(a)
        BY <1>7, <3>3 DEF Remaining, Doomed
      <4>2. q \in Doomed(a)
        BY <3>1 DEF Remaining, Doomed
      <4>3. q \in Doomed(p)
        BY <2>1, <4>1, <4>2 DEF Housekept, Nested
      <4>4. q \in unread[p]
        BY <3>1, <4>3 DEF Remaining, Doomed
      <4>5. pc[p] = "reading"
        BY <2>1, <4>4 DEF Names, PcTyped
      <4>6. disk[s] \subseteq seen[p]
        BY <2>1, <4>1, <4>5 DEF Housekept, ReadIsSeen
      <4> QED
        BY <2>4, <2>6, <4>6 DEF Dominated
    <3> QED
      BY <3>2, <3>3
  <2> QED
    BY <2>7, <2>8
<1>11. \A p \in Pruners : Doomed(p)' = Doomed(p) \ {q}
    BY <1>3, <1>4 DEF Doomed
<1>12. Nested'
  <2> SUFFICES ASSUME NEW o \in Pruners, NEW p \in Pruners
               PROVE  Doomed(o)' \subseteq Doomed(p)' \/ Doomed(p)' \subseteq Doomed(o)'
    BY DEF Nested
  <2>1. Doomed(o) \subseteq Doomed(p) \/ Doomed(p) \subseteq Doomed(o)
    BY DEF Housekept, Nested
  <2> QED
    BY <1>11, <2>1
<1>13. ReadIsSeen'
  <2> SUFFICES ASSUME NEW p \in Pruners, pc'[p] = "reading", NEW r \in Doomed(p)' \ unread'[p]
               PROVE  disk'[r] \subseteq seen'[p]
    BY DEF ReadIsSeen
  <2>1. p # a /\ pc[p] = "reading" /\ r \in Doomed(p) \ unread[p] /\ r \in DOMAIN disk'
    BY <1>2, <1>3, <1>11 DEF Doomed
  <2> QED
    BY <1>2, <1>3, <2>1 DEF Housekept, ReadIsSeen
<1> QED
    BY <1>9, <1>10, <1>12, <1>13 DEF Housekept

LEMMA PruneInvStep ==
    ASSUME CacheInv, PruneInv, [Next]_vars
    PROVE  PruneInv'
<1> USE ActorsApart DEF CacheInv, Typed
<1>1. Names'
    BY NamesStep DEF PruneInv
<1> SUFFICES ASSUME Undisturbed'
             PROVE  Housekept'
    BY <1>1 DEF PruneInv
<1>2. ASSUME Undisturbed, disk' = disk, stored' = stored, clock' = clock \/ clock' = clock + 1,
             \A p \in Pruners :
                /\ p \in Pruning' => p \in Pruning
                /\ p \in Pruning' =>
                      /\ pc'[p] = pc[p] /\ seen'[p] = seen[p] /\ draft'[p] = draft[p]
                      /\ unread'[p] = unread[p] /\ listed'[p] = listed[p]
                /\ listed'[p] = listed[p] \/ listed'[p] = {}
      PROVE  Housekept'
  <2>1. Live' \subseteq Live
    BY <1>2, LiveEbbs
  <2>2. Pruning' \subseteq Pruning
    BY <1>2 DEF Pruning
  <2>3. Housekept
    BY <1>2 DEF PruneInv
  <2> QED
    BY <1>2, <2>1, <2>2, <2>3, HousekeptStays DEF Pruning
<1>3. Names /\ \A a \in Actors : a \in Batches \/ a \in Pruners \/ a \in Clearers
    BY DEF PruneInv
<1>4. ASSUME NEW a \in Actors, ListParts(a)
      PROVE  Housekept'
  <2>1. a \notin Clearers
    BY <1>4 DEF ListParts, Goto, Undisturbed
  <2>2. Undisturbed
    BY <1>4, <2>1 DEF ListParts, Goto, Undisturbed
  <2>3. CASE a \in Pruners
    BY <1>4, <2>2, <2>3, HousekeptListing DEF PruneInv
  <2>4. CASE a \in Batches
    <3>1. disk' = disk /\ stored' = stored /\ clock' = clock /\ seen' = seen /\ draft' = draft
      BY <1>4 DEF ListParts
    <3>2. \A p \in Pruners : pc'[p] = pc[p] /\ unread'[p] = unread[p] /\ listed'[p] = listed[p]
      BY <1>4, <2>4 DEF ListParts, Goto
    <3> QED
      BY <1>2, <2>2, <3>1, <3>2 DEF Pruning
  <2> QED
    BY <1>3, <2>1, <2>3, <2>4
<1>5. ASSUME NEW a \in Actors, ReadPart(a)
      PROVE  Housekept'
  <2>1. Undisturbed /\ pc[a] # "idle"
    BY <1>5 DEF ReadPart, history, Undisturbed
  <2>2. CASE a \in Pruners
    BY <1>5, <2>1, <2>2, HousekeptReading DEF PruneInv
  <2>3. CASE a \in Batches
    <3>1. /\ disk' = disk /\ stored' = stored /\ clock' = clock /\ draft' = draft
          /\ pc' = pc /\ listed' = listed
      BY <1>5 DEF ReadPart, history
    <3>2. \A p \in Pruners : unread'[p] = unread[p] /\ seen'[p] = seen[p]
      BY <1>5, <2>3 DEF ReadPart
    <3> QED
      BY <1>2, <2>1, <3>1, <3>2 DEF Pruning
  <2> QED
    BY <1>3, <2>1, <2>2, <2>3 DEF Undisturbed
<1>6. ASSUME NEW a \in Actors, FailToRead(a)
      PROVE  Housekept'
  <2>1. Undisturbed /\ pc[a] # "idle" /\ a \notin Pruners
    BY <1>6 DEF FailToRead, Undisturbed
  <2>2. a \in Batches
    BY <1>3, <2>1 DEF Undisturbed
  <2>3. /\ disk' = disk /\ stored' = stored /\ clock' = clock /\ draft' = draft
        /\ pc' = pc /\ listed' = listed /\ seen' = seen
    BY <1>6 DEF FailToRead
  <2>4. \A p \in Pruners : unread'[p] = unread[p]
    BY <1>6, <2>2 DEF FailToRead
  <2> QED
    BY <1>2, <2>1, <2>3, <2>4 DEF Pruning
<1>7. ASSUME NEW a \in Actors, Unlink(a)
      PROVE  Housekept'
  <2>1. pc[a] = "unlinking" /\ pc'[a] # "idle"
    BY <1>7 DEF Unlink, Goto
  <2>2. a \in Pruners
    BY <1>3, <2>1 DEF Undisturbed, Names, PcTyped, Unpublished
  <2>3. Undisturbed
    BY <1>7, <2>2 DEF Unlink, Goto, history, Undisturbed
  <2> QED
    BY <1>7, <2>2, <2>3, HousekeptUnlinking DEF PruneInv
<1>8. ASSUME NEW a \in Actors, Crash(a)
      PROVE  Housekept'
  <2>1. /\ pc[a] \in Busy /\ pc' = [pc EXCEPT ![a] = "crashed"]
        /\ blind' = blind /\ disk' = disk /\ stored' = stored /\ clock' = clock
    BY <1>8 DEF Crash, Goto, history
  <2>2. a \notin Clearers
    BY <2>1 DEF Undisturbed
  <2>3. Undisturbed
    BY <2>1, <2>2 DEF Undisturbed
  <2>4. ASSUME NEW p \in Pruners
        PROVE  /\ p \in Pruning' => p # a
               /\ p # a => /\ pc'[p] = pc[p] /\ seen'[p] = seen[p] /\ draft'[p] = draft[p]
                           /\ unread'[p] = unread[p] /\ listed'[p] = listed[p]
               /\ listed'[p] = listed[p] \/ listed'[p] = {}
    BY <1>8, <2>1 DEF Crash, Pruning, Busy
  <2> QED
    BY <1>2, <2>1, <2>3, <2>4 DEF Pruning
<1>9. ASSUME NEW b \in Batches, Plan(b)
      PROVE  Housekept'
  <2>1. /\ disk' = disk /\ stored' = stored /\ clock' = clock /\ draft' = draft
        /\ listed' = listed /\ unread' = unread /\ blind' = blind
    BY <1>9 DEF Plan
  <2>2. \A o \in Actors \ {b} : pc'[o] = pc[o] /\ seen'[o] = seen[o]
    BY <1>9 DEF Plan, Goto
  <2>3. Undisturbed
    BY <2>1, <2>2 DEF Undisturbed
  <2> QED
    BY <1>2, <2>1, <2>2, <2>3 DEF Pruning
<1>10. ASSUME NEW b \in Batches, Ask(b)
       PROVE  Housekept'
  <2>1. /\ disk' = disk /\ stored' = stored /\ clock' = clock /\ seen' = seen
        /\ listed' = listed /\ unread' = unread /\ blind' = blind
    BY <1>10 DEF Ask, history
  <2>2. \A o \in Actors \ {b} : pc'[o] = pc[o] /\ draft'[o] = draft[o]
    BY <1>10 DEF Ask, Goto
  <2>3. Undisturbed
    BY <2>1, <2>2 DEF Undisturbed
  <2> QED
    BY <1>2, <2>1, <2>2, <2>3 DEF Pruning
<1>11. ASSUME NEW b \in Batches, Stamp(b)
       PROVE  Housekept'
  <2>1. /\ disk' = disk /\ stored' = stored /\ clock' = clock /\ seen' = seen
        /\ listed' = listed /\ unread' = unread /\ blind' = blind
    BY <1>11 DEF Stamp, history
  <2>2. \A o \in Actors \ {b} : pc'[o] = pc[o] /\ draft'[o] = draft[o]
    BY <1>11 DEF Stamp, Goto
  <2>3. Undisturbed
    BY <2>1, <2>2 DEF Undisturbed
  <2> QED
    BY <1>2, <2>1, <2>2, <2>3 DEF Pruning
<1>12. ASSUME NEW a \in Actors \ Clearers, NEW next \in {"done", "unlinking"}, Publish(a, next),
              UNCHANGED <<unread, listed, seen, blind, clock>>, draft[a] \subseteq Entries,
              stored' = stored \cup draft[a]
       PROVE  Housekept'
  <2>1. Undisturbed
    BY <1>12 DEF Publish, Goto, Undisturbed
  <2>2. Live' \subseteq Live \cup draft[a]
    BY <1>12 DEF Live, Fresh
  <2> QED
    BY <1>3, <1>12, <2>1, <2>2, HousekeptGrows DEF PruneInv
<1>13. ASSUME NEW b \in Batches, Store(b)
       PROVE  Housekept'
    BY <1>12, <1>13 DEF Store
<1>14. ASSUME NEW p \in Pruners, Compact(p)
       PROVE  Housekept'
  <2>1. Undisturbed
    BY <1>14 DEF Compact, Goto, history, Undisturbed
  <2> QED
    BY <1>14, <2>1, HousekeptCompacting DEF PruneInv
<1>15. ASSUME NEW p \in Pruners, StoreCompacted(p)
       PROVE  Housekept'
  <2>1. draft[p] \subseteq stored
    BY DEF OnlyStored
  <2> QED
    BY <1>12, <1>15, <2>1 DEF StoreCompacted, history
<1>16. CASE Tick \/ UNCHANGED vars
  <2>1. /\ disk' = disk /\ stored' = stored /\ (clock' = clock \/ clock' = clock + 1)
        /\ pc' = pc /\ seen' = seen /\ draft' = draft /\ listed' = listed /\ unread' = unread
        /\ blind' = blind
    BY <1>16 DEF Tick, vars, local, history
  <2>2. Undisturbed
    BY <2>1 DEF Undisturbed
  <2> QED
    BY <1>2, <2>1, <2>2 DEF Pruning
<1> QED
    BY <1>4, <1>5, <1>6, <1>7, <1>8, <1>9, <1>10, <1>11, <1>13, <1>14, <1>15, <1>16 DEF Next

LEMMA PruneInvInit == Init => PruneInv
<1> SUFFICES ASSUME Init
             PROVE  Housekept
    BY NamesInit DEF PruneInv
<1> USE ActorsApart
<1>1. stored \subseteq Entries /\ stored = Contents(disk)
    BY ResponseCacheAssumption DEF Init, Contents, LeftEntry, Entries
<1>2. Covers(Contents(disk))
  <2>1. \A e \in Live : e \in Contents(disk) /\ e.ts \in Nat
    BY <1>1 DEF Live, Fresh, Entries
  <2> QED
    BY <2>1 DEF Covers, Dominated
<1>3. Pruning = {} /\ \A p \in Pruners : Doomed(p) = {} /\ pc[p] # "reading"
    BY DEF Init, Pruning, Busy, Doomed, Nothing
<1> QED
    BY <1>2, <1>3 DEF Housekept, Nested, ReadIsSeen

\* The newest live entry of a key on disk is the newest there has been.
LEMMA HousekeptHidesPrunes ==
    ASSUME CacheInv, Housekept
    PROVE  NothingLiveIsLost
<1> SUFFICES ASSUME NEW k \in Keys, NEW e \in Newest(Fresh(stored, PruneTtl), k)
             PROVE  LET is == Newest(Fresh(Contents(disk), PruneTtl), k)
                    IN is # {} /\ is \subseteq Newest(Fresh(stored, PruneTtl), k)
    BY DEF NothingLiveIsLost
<1> DEFINE was == Fresh(stored, PruneTtl)
           on == Fresh(Contents(disk), PruneTtl)
<1>1. on \subseteq was /\ was \subseteq Entries /\ \A f \in was : f.ts \in Nat
    BY DEF CacheInv, Typed, OnlyStored, Contents, Fresh, Entries
<1>2. e \in was /\ e.k = k /\ \A f \in was : f.k = k => f.ts <= e.ts
    BY DEF Newest
<1>3. PICK f \in Contents(disk) : f.k = e.k /\ f.ts >= e.ts
    BY <1>2 DEF Housekept, Covers, Dominated, Live
<1>4. f \in stored /\ f.ts \in Nat /\ e.ts \in Nat /\ clock \in Nat
    BY <1>1, <1>2 DEF CacheInv, Typed, OnlyStored, Contents, Entries
<1>5. f \in on
    BY <1>2, <1>3, <1>4, ResponseCacheAssumption DEF Fresh
<1>6. f.ts = e.ts /\ f.k = k
    BY <1>1, <1>2, <1>3, <1>4, <1>5
<1>7. f \in Newest(on, k)
    BY <1>1, <1>2, <1>5, <1>6 DEF Newest
<1>8. \A g \in Newest(on, k) : g \in was /\ g.k = k /\ g.ts >= e.ts
    BY <1>1, <1>5, <1>6 DEF Newest
<1>9. \A g \in Newest(on, k) : \A h \in was : h.k = k => h.ts <= g.ts
    BY <1>1, <1>2, <1>8
<1> QED
    BY <1>7, <1>8, <1>9 DEF Newest

-----------------------------------------------------------------------------
\* e is an answer, or the error of a request for a key that a batch which
\* mistakes errors asked for.
Explained(e) == e.text = "answer" \/ \E c \in Batches : MistakesErrors(c) /\ e.k \in job[c].keys

\* All that is stored, or about to be, is explained.
Answers ==
    /\ \A e \in stored : Explained(e)
    /\ \A b \in Batches : \A e \in draft[b] : Explained(e)

LEMMA AnswersInit == Init => Answers
BY ActorsApart, ResponseCacheAssumption DEF Init, Contents, LeftEntry, Answers, Explained, Nothing

LEMMA AnswersStep ==
    ASSUME CacheInv, Answers, [Next]_vars
    PROVE  Answers'
<1> USE ActorsApart DEF CacheInv, Typed, Answers
<1>1. job' = job
    BY DEF Next, ListParts, ReadPart, FailToRead, Unlink, Crash, Plan, Ask, Stamp, Store,
           Compact, StoreCompacted, Tick, vars
<1>2. \A e : Explained(e)' <=> e.text = "answer" \/ \E c \in Batches : MistakesErrors(c) /\ e.k \in job[c].keys
    BY <1>1 DEF Explained, MistakesErrors
<1>3. ASSUME stored' = stored, \A b \in Batches : draft'[b] \subseteq draft[b]
      PROVE  Answers'
    BY <1>2, <1>3 DEF Explained
<1>4. ASSUME NEW a \in Actors, ListParts(a) \/ ReadPart(a) \/ FailToRead(a) \/ Unlink(a)
      PROVE  Answers'
    BY <1>3, <1>4 DEF ListParts, ReadPart, FailToRead, Unlink, history
<1>5. ASSUME NEW a \in Actors, Crash(a)
      PROVE  Answers'
    BY <1>3, <1>5 DEF Crash, history
<1>6. ASSUME NEW b \in Batches, Plan(b)
      PROVE  Answers'
    BY <1>3, <1>6 DEF Plan
<1>7. ASSUME NEW b \in Batches, Ask(b)
      PROVE  Answers'
  <2>1. PICK ok \in SUBSET Pending(b), text \in [Pending(b) -> {"answer", "error_json"}] :
            /\ draft' = [draft EXCEPT ![b] =
                  {[k |-> k, n |-> asked[k] + 1, ts |-> 0, text |-> text[k]] : k \in ok}]
            /\ \A k \in ok : text[k] = "answer" \/ (~HasSchema /\ job[b].warming)
    BY <1>7, AskDrafts
  <2>2. \A e \in draft'[b] : e.k \in job[b].keys /\ (e.text = "answer" \/ MistakesErrors(b))
    BY <2>1 DEF Pending, MistakesErrors
  <2>3. stored' = stored /\ \A o \in Batches \ {b} : draft'[o] = draft[o]
    BY <1>7, <2>1 DEF Ask, history
  <2>4. \A e \in draft'[b] : Explained(e)'
    BY <1>2, <2>2
  <2> QED
    BY <1>2, <2>3, <2>4 DEF Explained
<1>8. ASSUME NEW b \in Batches, Stamp(b)
      PROVE  Answers'
  <2>1. ASSUME NEW e \in draft'[b]
        PROVE  Explained(e)'
    <3>1. PICK f \in draft[b] : e = [f EXCEPT !.ts = clock]
      BY <1>8 DEF Stamp, StampFresh
    <3>2. f \in Entries /\ Explained(f)
      OBVIOUS
    <3>3. e.k = f.k /\ e.text = f.text
      BY <3>1, <3>2 DEF Entries
    <3> QED
      BY <1>2, <3>2, <3>3 DEF Explained
  <2>2. stored' = stored /\ \A o \in Batches \ {b} : draft'[o] = draft[o]
    BY <1>8 DEF Stamp, history
  <2> QED
    BY <1>2, <2>1, <2>2 DEF Explained
<1>9. ASSUME NEW b \in Batches, Store(b)
      PROVE  Answers'
  <2>1. stored' = stored \cup draft[b] /\ draft'[b] = {} /\ \A o \in Batches \ {b} : draft'[o] = draft[o]
    BY <1>9 DEF Store, Publish
  <2> QED
    BY <1>2, <2>1 DEF Explained
<1>10. ASSUME NEW p \in Pruners, Compact(p) \/ StoreCompacted(p)
       PROVE  Answers'
  <2>1. stored' = stored /\ \A b \in Batches : draft'[b] = draft[b]
    BY <1>10 DEF Compact, StoreCompacted, Publish, history
  <2> QED
    BY <1>3, <2>1
<1>11. CASE Tick \/ UNCHANGED vars
    BY <1>3, <1>11 DEF Tick, vars, local, history
<1> QED
    BY <1>4, <1>5, <1>6, <1>7, <1>8, <1>9, <1>10, <1>11 DEF Next

\* No batch is ever served anything but what some batch stored, no older than
\* its ttl when it was taken, however many prunes rewrote it and whatever
\* crashed; and what it is served is an answer, unless a batch with cache=True
\* and no schema asked for that key (ServedIsFresh; load_index, prune,
\* deduped_expr).
THEOREM ServedStaysFresh == Spec => []ServedIsFresh
<1>1. CacheInv /\ Answers => ServedIsFresh
    BY DEF CacheInv, OnlyStored, Answers, Explained, ServedIsFresh
<1>2. CacheInv /\ Answers /\ [Next]_vars => Answers'
    BY AnswersStep
<1> QED
    BY <1>1, <1>2, AnswersInit, CacheInvHolds, PTL DEF Spec

\* A clear that no prune overlaps is final: nothing of what was stored when it
\* began is seen again, whatever batches and later prunes do (ClearIsFull; clear).
THEOREM ClearStaysFull == Spec => []ClearIsFull
<1>1. CacheInv => ClearIsFull
    BY DEF CacheInv, ClearedAway, Cleared, Clean, Same, ClearIsFull, Contents
<1> QED
    BY <1>1, CacheInvHolds, PTL

\* Prunes are housekeeping and no more: any number of them, overlapping each
\* other and the batches and crashing anywhere, leave the newest live answer of
\* every key on disk (PruneIsInvisible; prune).
THEOREM PruneStaysInvisible == Spec => []PruneIsInvisible
<1>1. CacheInv /\ PruneInv => PruneIsInvisible
    BY HousekeptHidesPrunes DEF PruneInv, Undisturbed, PruneIsInvisible
<1>2. CacheInv /\ PruneInv /\ [Next]_vars => PruneInv'
    BY PruneInvStep
<1> QED
    BY <1>1, <1>2, PruneInvInit, CacheInvHolds, PTL DEF Spec
=============================================================================
