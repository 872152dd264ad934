-------------------------- MODULE CheckpointProofs --------------------------
(***************************************************************************)
(* Theorems about Checkpoint, for every value of its constants and however *)
(* runs overlap and crash: a crash loses at most one chunk, the store is   *)
(* faithful, and what a run shows in the rows of its column.  Of runs that *)
(* follow one another: what they pay for, and that they implement          *)
(* MemoStore.                                                              *)
(***************************************************************************)
EXTENDS Checkpoint, FiniteSetTheorems, FunctionTheorems, WellFoundedInduction, TLAPS
-----------------------------------------------------------------------------
(***************************************************************************)
(* Lemmas about finite sets of row numbers.                                *)
(***************************************************************************)
\* A nonempty set of natural numbers has a least element.
LEMMA LeastOf ==
    ASSUME NEW S \in SUBSET Nat, S # {}
    PROVE  \E m \in S : \A n \in S : m <= n
<1>1. PICK m \in S : \A n \in S : ~(<<n, m>> \in OpToRel(<, Nat))
    BY WFMin, NatLessThanWellFounded
<1>2. \A n \in S : ~(n < m)
    BY <1>1 DEF OpToRel
<1>3. ASSUME NEW n \in S
      PROVE  m <= n
    BY <1>2, m \in Nat, n \in Nat
<1> QED
    BY <1>3

\* So does a nonempty set of natural numbers below a bound have a greatest.
LEMMA GreatestOf ==
    ASSUME NEW S \in SUBSET Nat, S # {}, NEW b \in Nat, \A n \in S : n <= b
    PROVE  \E m \in S : \A n \in S : n <= m
<1> DEFINE T == {n \in 0..b : b - n \in S}
<1>1. T \in SUBSET Nat /\ T # {}
  <2>1. PICK n \in S : TRUE
    OBVIOUS
  <2>2. b - n \in 0..b /\ b - (b - n) = n
    BY <2>1
  <2>3. b - n \in T
    BY <2>1, <2>2
  <2>4. \A t \in T : t \in Nat
    OBVIOUS
  <2> HIDE DEF T
  <2> QED
    BY <2>3, <2>4
<1>2. PICK t \in T : \A u \in T : t <= u
    BY <1>1, LeastOf
<1>3. \A n \in S : b - n \in T
  <2> TAKE n \in S
  <2>1. b - n \in 0..b /\ b - (b - n) = n
    OBVIOUS
  <2> QED
    BY <2>1
<1>4. ASSUME NEW n \in S
      PROVE  n <= b - t
  <2>1. t <= b - n
    BY <1>2, <1>3
  <2>2. t \in Nat /\ n \in Nat
    BY <1>1
  <2> HIDE DEF T
  <2> QED
    BY <2>1, <2>2
<1> QED
    BY <1>2, <1>4

\* The first F elements of a set of row numbers are at most F.
LEMMA FirstFew ==
    ASSUME NEW S \in SUBSET Nat, IsFiniteSet(S), NEW b \in Nat, \A n \in S : n <= b,
           NEW F \in Nat \ {0}
    PROVE  IsFiniteSet(First(F, S)) /\ Cardinality(First(F, S)) <= F
<1> DEFINE C == First(F, S)
<1>1. IsFiniteSet(C) /\ C \subseteq S
    BY FS_Subset DEF First
<1>2. CASE C = {}
    BY <1>1, <1>2, FS_EmptySet
<1>3. CASE C # {}
  <2>1. C \in SUBSET Nat /\ \A n \in C : n <= b
    BY <1>1
  <2>2. PICK m \in C : \A n \in C : n <= m
    BY <1>3, <2>1, GreatestOf
  <2> DEFINE B == {j \in S : j < m}
  <2>3. IsFiniteSet(B) /\ Cardinality(B) \in Nat /\ Cardinality(B) < F
    BY <2>2, FS_Subset, FS_CardinalityType DEF First
  <2>4. C \subseteq B \cup {m}
    BY <1>1, <2>1, <2>2
  <2>5. /\ IsFiniteSet(B \cup {m})
        /\ Cardinality(B \cup {m}) = IF m \in B THEN Cardinality(B) ELSE Cardinality(B) + 1
    <3> HIDE DEF B
    <3> QED
      BY <2>3, FS_AddElement
  <2>6. Cardinality(C) <= Cardinality(B \cup {m})
    BY <2>4, <2>5, FS_Subset
  <2>7. Cardinality(C) \in Nat /\ Cardinality(B \cup {m}) \in Nat
    BY <1>1, <2>5, FS_CardinalityType
  <2> QED
    BY <1>1, <2>3, <2>5, <2>6, <2>7
<1> QED
    BY <1>2, <1>3
-----------------------------------------------------------------------------
(***************************************************************************)
(* Type correctness.                                                       *)
(***************************************************************************)
\* Rows are sequences, so a row number is a positive natural number.
LEMMA RowNumbers ==
    ASSUME TypeOK, NEW r \in Runs
    PROVE  /\ job[r].fp \in Fingerprints
           /\ Rows(r) \in Seq(Inputs \cup {Null})
           /\ DOMAIN Rows(r) = 1..Len(Rows(r)) /\ Len(Rows(r)) \in Nat
           /\ Live(r) \subseteq DOMAIN Rows(r)
           /\ \A i \in Live(r) : KeyAt(r, i) \in Keys
<1>1. /\ job[r].fp \in Fingerprints
      /\ Rows(r) \in Seq(Inputs \cup {Null})
    BY CheckpointAssumption DEF TypeOK, Rows
<1>2. DOMAIN Rows(r) = 1..Len(Rows(r)) /\ Len(Rows(r)) \in Nat
    BY <1>1
<1>3. \A i \in Live(r) : KeyAt(r, i) \in Keys
    BY <1>1, <1>2 DEF Live, KeyAt, Keys
<1> QED
    BY <1>1, <1>2, <1>3 DEF Live

\* What an index holds under a key is an entry of some part for that key.
LEMMA IndexEntries ==
    ASSUME TypeOK, NEW f, NEW idx \in Indexes(f), NEW k \in DOMAIN idx
    PROVE  \E p \in parts : /\ p.fp = f /\ k \in DOMAIN p.rows
                            /\ idx[k].n = p.rows[k].n /\ idx[k].ok = p.rows[k].ok
<1>1. k \in StoredKeys(f) /\ idx[k] \in Newest(f, k)
    BY DEF Indexes
<1>2. idx[k] \in Entries(f, k)
    BY <1>1 DEF Newest
<1> QED
    BY <1>2 DEF Entries

LEMMA ChunkIsPending ==
    ASSUME TypeOK, NEW r \in Runs
    PROVE  ChunkRows(r) \subseteq todo[r] /\ ChunkKeys(r) \subseteq Keys
<1>1. ChunkRows(r) \subseteq todo[r]
    BY DEF ChunkRows, First
<1>2. todo[r] \subseteq Live(r)
    BY DEF TypeOK
<1> QED
    BY <1>1, <1>2, RowNumbers DEF ChunkKeys

\* Requests append one outcome to each key asked for.
LEMMA RequestExtends ==
    ASSUME TypeOK, NEW K \in SUBSET Keys, NEW chunk, Request(K, chunk)
    PROVE  /\ calls' \in [Keys -> Seq(Outcomes)]
           /\ \A k \in K : calls'[k] = Append(calls[k], calls'[k][Len(calls[k]) + 1])
           /\ \A k \in K : Len(calls'[k]) = Len(calls[k]) + 1
           /\ \A k \in Keys \ K : calls'[k] = calls[k]
           /\ \A k \in Keys : \A n \in 1..Len(calls[k]) :
                n \in 1..Len(calls'[k]) /\ calls'[k][n] = calls[k][n]
           /\ \A k \in K : calls'[k][Len(calls[k]) + 1] \in {"answer"} \cup Failures(chunk)
<1>1. PICK o \in [K -> {"answer"} \cup Failures(chunk)] :
          calls' = [k \in Keys |-> IF k \in K THEN Append(calls[k], o[k]) ELSE calls[k]]
    BY DEF Request
<1>2. {"answer"} \cup Failures(chunk) \subseteq Outcomes
    BY DEF Failures, Outcomes
<1>3. calls \in [Keys -> Seq(Outcomes)]
    BY DEF TypeOK
<1>4. ASSUME NEW k \in K
      PROVE  /\ calls'[k] = Append(calls[k], o[k])
             /\ o[k] \in {"answer"} \cup Failures(chunk)
             /\ calls'[k] \in Seq(Outcomes)
             /\ Len(calls'[k]) = Len(calls[k]) + 1
             /\ calls'[k][Len(calls[k]) + 1] = o[k]
             /\ \A n \in 1..Len(calls[k]) : calls'[k][n] = calls[k][n]
    BY <1>1, <1>2, <1>3
<1>5. \A k \in Keys \ K : calls'[k] = calls[k]
    BY <1>1
<1>6. \A k \in Keys : calls'[k] \in Seq(Outcomes)
    BY <1>3, <1>4, <1>5
<1>7. calls' \in [Keys -> Seq(Outcomes)]
    BY <1>1, <1>6
<1>8. \A k \in Keys : Len(calls[k]) \in Nat
    BY <1>3
<1>9. \A k \in Keys : \A n \in 1..Len(calls[k]) :
          n \in 1..Len(calls'[k]) /\ calls'[k][n] = calls[k][n]
  <2> TAKE k \in Keys
  <2>1. CASE k \in K
    BY <2>1, <1>4, <1>8
  <2>2. CASE k \notin K
    BY <2>2, <1>5
  <2> QED
    BY <2>1, <2>2
<1>10. \A k \in K : calls'[k] = Append(calls[k], calls'[k][Len(calls[k]) + 1])
    BY <1>4
<1> QED
    BY <1>4, <1>5, <1>7, <1>9, <1>10

\* The steps that leave the job, the results, the parts and the requests alone
\* keep the types of what is derived from them.
LEMMA InitTyped == Init => TypeOK
<1> SUFFICES ASSUME Init
             PROVE  TypeOK
    OBVIOUS
<1>1. \A r \in Runs : job[r] \in Jobs /\ DOMAIN Rows(r) = DOMAIN job[r].rows
    BY DEF Init, Rows
<1>2. \A r \in Runs : results[r] \in [DOMAIN Rows(r) -> Raws \cup {None}]
    BY <1>1 DEF Init, Blank
<1>3. calls \in [Keys -> Seq(Outcomes)]
    BY DEF Init
<1> QED
    BY <1>2, <1>3 DEF Init, TypeOK, Idle

LEMMA LoadAndPlanTyped ==
    ASSUME TypeOK, NEW r \in Runs, LoadAndPlan(r)
    PROVE  TypeOK'
<1>1. PICK idx \in Indexes(job[r].fp) :
          /\ results' = [results EXCEPT ![r] =
                [i \in DOMAIN Rows(r) |->
                    IF i \in Live(r) /\ IsHit(r, idx, KeyAt(r, i))
                    THEN <<KeyAt(r, i), idx[KeyAt(r, i)].n>> ELSE None]]
          /\ todo' = [todo EXCEPT ![r] =
                {i \in Live(r) : /\ ~IsHit(r, idx, KeyAt(r, i))
                                 /\ FirstOccurrence(r, i)}]
    BY DEF LoadAndPlan
<1>2. ASSUME NEW k \in DOMAIN idx
      PROVE  idx[k].n \in Nat
  <2>1. PICK p \in parts : k \in DOMAIN p.rows /\ idx[k].n = p.rows[k].n
    BY IndexEntries
  <2>2. p.rows[k] \in PartRow
    BY <2>1 DEF TypeOK
  <2> QED
    BY <2>1, <2>2 DEF PartRow
<1>3. ASSUME NEW i \in Live(r), IsHit(r, idx, KeyAt(r, i))
      PROVE  <<KeyAt(r, i), idx[KeyAt(r, i)].n>> \in Raws
    BY <1>2, <1>3, RowNumbers DEF IsHit, Raws
<1>4. results'[r] \in [DOMAIN Rows(r) -> Raws \cup {None}]
    BY <1>1, <1>3 DEF TypeOK
<1>5. todo'[r] \subseteq Live(r) /\ Live(r) \subseteq Nat
    BY <1>1, RowNumbers DEF TypeOK
<1>6. UNCHANGED <<job, got, draft, sent, meta, parts, calls, clock>>
    BY DEF LoadAndPlan
<1>7. \A q \in Runs : Rows(q)' = Rows(q) /\ Live(q)' = Live(q)
    BY <1>6 DEF Rows, Live
<1>8. pc' \in [Runs -> {Idle} \cup Busy \cup Ended]
    BY DEF LoadAndPlan, Goto, TypeOK, Busy
<1>9. /\ DOMAIN results' = Runs
      /\ \A q \in Runs : results'[q] \in [DOMAIN Rows(q) -> Raws \cup {None}]
    BY <1>1, <1>4 DEF TypeOK
<1>10. todo' \in [Runs -> SUBSET Nat] /\ \A q \in Runs : todo'[q] \subseteq Live(q)
    BY <1>1, <1>5 DEF TypeOK
<1> QED
    BY <1>6, <1>7, <1>8, <1>9, <1>10 DEF TypeOK

\* A step that changes neither the jobs nor the rows keeps every run's rows.
LEMMA SameRows ==
    ASSUME UNCHANGED job
    PROVE  \A q \in Runs : /\ Rows(q)' = Rows(q) /\ Live(q)' = Live(q)
                           /\ \A i : KeyAt(q, i)' = KeyAt(q, i)
BY DEF Rows, Live, KeyAt

LEMMA ForgetTyped ==
    ASSUME TypeOK, NEW r \in Runs, Forget(r), UNCHANGED job
    PROVE  /\ DOMAIN results' = Runs
           /\ \A q \in Runs : results'[q] \in [DOMAIN Rows(q) -> Raws \cup {None}]
           /\ todo' \in [Runs -> SUBSET Nat]
           /\ \A q \in Runs : todo'[q] \subseteq Live(q)
           /\ DOMAIN got' = Runs
           /\ \A q \in Runs : DOMAIN got'[q] \subseteq Keys /\ got'[q] \in [DOMAIN got'[q] -> Nat \ {0}]
           /\ draft' \in [Runs -> Nat]
<1>1. Blank(job[r]) \in [DOMAIN Rows(r) -> Raws \cup {None}]
    BY DEF Blank, Rows
<1>2. <<>> \in [{} -> Nat \ {0}] /\ DOMAIN <<>> = {}
    OBVIOUS
<1> QED
    BY <1>1, <1>2 DEF Forget, TypeOK

LEMMA CallBackendTyped ==
    ASSUME TypeOK, NEW r \in Runs, CallBackend(r)
    PROVE  TypeOK'
<1>1. ChunkKeys(r) \subseteq Keys
    BY ChunkIsPending
<1>2. calls' \in [Keys -> Seq(Outcomes)]
    BY <1>1, RequestExtends DEF CallBackend
<1>3. \A k \in ChunkKeys(r) : Len(calls[k]) + 1 \in Nat \ {0}
    BY <1>1 DEF TypeOK
<1>4. got'[r] \in [ChunkKeys(r) -> Nat \ {0}] /\ DOMAIN got'[r] = ChunkKeys(r)
    BY <1>3 DEF CallBackend, TypeOK
<1>5. /\ DOMAIN got' = Runs
      /\ \A q \in Runs : DOMAIN got'[q] \subseteq Keys /\ got'[q] \in [DOMAIN got'[q] -> Nat \ {0}]
    BY <1>1, <1>4 DEF CallBackend, TypeOK
<1>6. sent' \in [Runs -> SUBSET Keys]
    BY <1>1 DEF CallBackend, TypeOK
<1>7. UNCHANGED <<job, results, todo, draft, meta, parts, clock>>
    BY DEF CallBackend
<1>8. pc' \in [Runs -> {Idle} \cup Busy \cup Ended]
    BY DEF CallBackend, Goto, TypeOK, Busy
<1> QED
    BY <1>2, <1>5, <1>6, <1>7, <1>8, SameRows DEF TypeOK

LEMMA WritePartTyped ==
    ASSUME TypeOK, NEW r \in Runs, WritePart(r)
    PROVE  TypeOK'
<1>1. UNCHANGED <<job, todo, got, sent, meta, parts, calls>>
    BY DEF WritePart
<1>2. pc' \in [Runs -> {Idle} \cup Busy \cup Ended]
    BY DEF WritePart, Goto, TypeOK, Busy
<1>3. PICK now \in {clock, clock + 1} :
          clock' = now /\ draft' = [draft EXCEPT ![r] = now]
    BY DEF WritePart
<1>4. clock' \in Nat /\ draft' \in [Runs -> Nat]
    BY <1>3 DEF TypeOK
<1>5. ASSUME NEW i \in Live(r), KeyAt(r, i) \in DOMAIN got[r]
      PROVE  <<KeyAt(r, i), got[r][KeyAt(r, i)]>> \in Raws
    BY <1>5, RowNumbers DEF TypeOK, Raws
<1>6. results'[r] \in [DOMAIN Rows(r) -> Raws \cup {None}]
    BY <1>5 DEF WritePart, FanOut, TypeOK
<1>7. /\ DOMAIN results' = Runs
      /\ \A q \in Runs : results'[q] \in [DOMAIN Rows(q) -> Raws \cup {None}]
    BY <1>6 DEF WritePart, TypeOK
<1> QED
    BY <1>1, <1>2, <1>4, <1>7, SameRows DEF TypeOK

LEMMA PublishPartTyped ==
    ASSUME TypeOK, NEW r \in Runs, PublishPart(r)
    PROVE  TypeOK'
<1> DEFINE rows == ChunkResults(r)
           part == [run |-> r, ts |-> draft[r], fp |-> job[r].fp, rows |-> rows]
<1>1. parts' = parts \cup {part}
    BY DEF PublishPart
<1>2. DOMAIN rows \subseteq Keys /\ \A k \in DOMAIN rows : rows[k] \in PartRow
    BY DEF TypeOK, PartRow, IsErrorRow, ChunkResults, PartRowOf
<1>3. /\ part.run \in Runs /\ part.ts \in Nat /\ part.fp \in Fingerprints
      /\ part.rows = rows
    BY RowNumbers DEF TypeOK
<1> HIDE DEF part, rows
<1>4. \A p \in parts' : /\ p.run \in Runs /\ p.ts \in Nat
                        /\ p.fp \in Fingerprints /\ DOMAIN p.rows \subseteq Keys
                        /\ \A k \in DOMAIN p.rows : p.rows[k] \in PartRow
    BY <1>1, <1>2, <1>3 DEF TypeOK
<1>5. UNCHANGED <<job, results, sent, meta, calls, clock>>
    BY DEF PublishPart
<1>6. pc' \in [Runs -> {Idle} \cup Busy \cup Ended]
    BY DEF PublishPart, Goto, TypeOK, Busy
<1>7. todo' \in [Runs -> SUBSET Nat] /\ \A q \in Runs : todo'[q] \subseteq Live(q)
    BY DEF PublishPart, TypeOK
<1>8. /\ DOMAIN got' = Runs /\ draft' \in [Runs -> Nat]
      /\ \A q \in Runs : DOMAIN got'[q] \subseteq Keys /\ got'[q] \in [DOMAIN got'[q] -> Nat \ {0}]
  <2>1. <<>> \in [{} -> Nat \ {0}] /\ DOMAIN <<>> = {}
    OBVIOUS
  <2> QED
    BY <2>1 DEF PublishPart, TypeOK
<1> QED
    BY <1>4, <1>5, <1>6, <1>7, <1>8, SameRows DEF TypeOK

LEMMA CrashInFlightTyped ==
    ASSUME TypeOK, NEW r \in Runs, CrashInFlight(r)
    PROVE  TypeOK'
<1>1. PICK I \in SUBSET ChunkRows(r) :
          /\ Request({KeyAt(r, i) : i \in I}, ChunkKeys(r))
          /\ sent' = [sent EXCEPT ![r] = @ \cup {KeyAt(r, i) : i \in I}]
    BY DEF CrashInFlight
<1> DEFINE K == {KeyAt(r, i) : i \in I}
<1>2. K \subseteq Keys
    BY ChunkIsPending DEF ChunkKeys
<1>3. calls' \in [Keys -> Seq(Outcomes)]
    BY <1>1, <1>2, RequestExtends
<1>4. sent' \in [Runs -> SUBSET Keys]
    BY <1>1, <1>2 DEF TypeOK
<1>5. Forget(r) /\ UNCHANGED <<job, meta, parts, clock>>
    BY DEF CrashInFlight
<1>6. pc' \in [Runs -> {Idle} \cup Busy \cup Ended]
    BY DEF CrashInFlight, Goto, TypeOK, Ended
<1> QED
    BY <1>3, <1>4, <1>5, <1>6, ForgetTyped, SameRows DEF TypeOK

\* Every variable keeps its type, for any inputs, jobs, chunk size and number
\* of runs (TypeOK of every run of the model).
THEOREM TypeCorrect == Spec => []TypeOK
<1>1. Init => TypeOK
    BY InitTyped
<1>2. TypeOK /\ [Next]_vars => TypeOK'
  <2> SUFFICES ASSUME TypeOK, [Next]_vars
               PROVE  TypeOK'
    OBVIOUS
  <2>1. CASE UNCHANGED vars
    BY <2>1, SameRows DEF TypeOK, vars
  <2>2. ASSUME NEW r \in Runs, Start(r)
        PROVE  TypeOK'
    BY <2>2, SameRows DEF TypeOK, Start, Goto, Busy
  <2>3. ASSUME NEW r \in Runs, RefuseStore(r)
        PROVE  TypeOK'
    BY <2>3, SameRows DEF TypeOK, RefuseStore, Goto, Ended
  <2>4. ASSUME NEW r \in Runs, OpenStore(r)
        PROVE  TypeOK'
    BY <2>4, SameRows, RowNumbers DEF TypeOK, OpenStore, Goto, Busy
  <2>5. ASSUME NEW r \in Runs, LoadAndPlan(r)
        PROVE  TypeOK'
    BY <2>5, LoadAndPlanTyped
  <2>6. ASSUME NEW r \in Runs, CallBackend(r)
        PROVE  TypeOK'
    BY <2>6, CallBackendTyped
  <2>7. ASSUME NEW r \in Runs, WritePart(r)
        PROVE  TypeOK'
    BY <2>7, WritePartTyped
  <2>8. ASSUME NEW r \in Runs, PublishPart(r)
        PROVE  TypeOK'
    BY <2>8, PublishPartTyped
  <2>9. ASSUME NEW r \in Runs, Return(r)
        PROVE  TypeOK'
    BY <2>9, SameRows DEF TypeOK, Return, Goto, Ended
  <2>10. ASSUME NEW r \in Runs, Crash(r)
         PROVE  TypeOK'
    <3>1. Forget(r) /\ UNCHANGED <<job, sent, meta, parts, calls, clock>>
      BY <2>10 DEF Crash
    <3>2. pc' \in [Runs -> {Idle} \cup Busy \cup Ended]
      BY <2>10 DEF Crash, Goto, TypeOK, Ended
    <3> QED
      BY <3>1, <3>2, ForgetTyped, SameRows DEF TypeOK
  <2>11. ASSUME NEW r \in Runs, CrashInFlight(r)
         PROVE  TypeOK'
    BY <2>11, CrashInFlightTyped
  <2> QED
    BY <2>1, <2>2, <2>3, <2>4, <2>5, <2>6, <2>7, <2>8, <2>9, <2>10, <2>11
       DEF Next, Step
<1> QED
    BY <1>1, <1>2, PTL DEF Spec
-----------------------------------------------------------------------------
(***************************************************************************)
(* A crash loses at most one chunk.                                        *)
(*                                                                         *)
(* AtMostOneChunkLost is not inductive: that it survives PublishPart and   *)
(* CallBackend takes what a run has lost at each point of the chunk loop.  *)
(***************************************************************************)
Lost(r) == sent[r] \ Stored(r)
Holding == {"answered", "written"}
NotSent == {Idle, "opening", "loading", "refused"}

ChunkLoop(r) ==
    /\ pc[r] \in Holding => DOMAIN got[r] = ChunkKeys(r) /\ Lost(r) \subseteq ChunkKeys(r)
    /\ pc[r] \notin Holding => DOMAIN got[r] = {}
    /\ pc[r] \in NotSent \cup {"running", "done"} => Lost(r) = {}
    /\ pc[r] = "crashed" => IsFiniteSet(Lost(r)) /\ Cardinality(Lost(r)) <= FlushEvery

ChunkInv == \A r \in Runs : ChunkLoop(r)

LEMMA ChunkIsSmall ==
    ASSUME TypeOK, NEW r \in Runs
    PROVE  IsFiniteSet(ChunkKeys(r)) /\ Cardinality(ChunkKeys(r)) <= FlushEvery
<1>1. /\ Len(Rows(r)) \in Nat
      /\ todo[r] \subseteq 1..Len(Rows(r))
    BY RowNumbers DEF TypeOK
<1>2. IsFiniteSet(1..Len(Rows(r)))
    BY <1>1, FS_Interval
<1>3. IsFiniteSet(todo[r])
    BY <1>1, <1>2, FS_Subset
<1>4. todo[r] \in SUBSET Nat /\ \A n \in todo[r] : n <= Len(Rows(r))
    BY <1>1 DEF TypeOK
<1>5. IsFiniteSet(ChunkRows(r)) /\ Cardinality(ChunkRows(r)) <= FlushEvery
    BY <1>1, <1>3, <1>4, FirstFew, CheckpointAssumption DEF ChunkRows
<1> DEFINE key == [i \in ChunkRows(r) |-> KeyAt(r, i)]
<1>6. key \in Surjection(ChunkRows(r), ChunkKeys(r))
    BY DEF ChunkKeys, Surjection
<1>7. IsFiniteSet(ChunkKeys(r)) /\ Cardinality(ChunkKeys(r)) <= Cardinality(ChunkRows(r))
  <2> HIDE DEF key
  <2> QED
    BY <1>5, <1>6, FS_Surjection
<1>8. Cardinality(ChunkKeys(r)) \in Nat /\ Cardinality(ChunkRows(r)) \in Nat
    BY <1>5, <1>7, FS_CardinalityType
<1> QED
    BY <1>5, <1>7, <1>8, CheckpointAssumption

LEMMA PartOfChunkIsSmall ==
    ASSUME TypeOK, NEW r \in Runs, NEW S, S \subseteq ChunkKeys(r)
    PROVE  IsFiniteSet(S) /\ Cardinality(S) <= FlushEvery
<1>1. IsFiniteSet(ChunkKeys(r)) /\ Cardinality(ChunkKeys(r)) <= FlushEvery
    BY ChunkIsSmall
<1>2. IsFiniteSet(S) /\ Cardinality(S) <= Cardinality(ChunkKeys(r))
    BY <1>1, FS_Subset
<1> QED
    BY <1>1, <1>2, FS_CardinalityType, CheckpointAssumption

LEMMA NothingLost == IsFiniteSet({}) /\ Cardinality({}) <= FlushEvery
BY FS_EmptySet, CheckpointAssumption

\* What ChunkLoop says is enough, wherever the run is.
LEMMA ChunkLoopSuffices ==
    ASSUME TypeOK, NEW r \in Runs, ChunkLoop(r)
    PROVE  IsFiniteSet(Lost(r)) /\ Cardinality(Lost(r)) <= FlushEvery
<1>1. CASE pc[r] \in Holding
    BY <1>1, PartOfChunkIsSmall DEF ChunkLoop
<1>2. CASE pc[r] = "crashed"
    BY <1>2 DEF ChunkLoop
<1>3. CASE pc[r] \in NotSent \cup {"running", "done"}
    BY <1>3, NothingLost DEF ChunkLoop
<1> QED
    BY <1>1, <1>2, <1>3 DEF TypeOK, Busy, Ended, Holding, NotSent

\* A run that takes no step keeps its part of the invariant: only it sends its
\* requests and only it stores their results.
LEMMA OtherRunsKeep ==
    ASSUME TypeOK, NEW q \in Runs, ChunkLoop(q), UNCHANGED job,
           pc'[q] = pc[q], got'[q] = got[q], todo'[q] = todo[q], sent'[q] = sent[q],
           Stored(q)' = Stored(q)
    PROVE  ChunkLoop(q)'
<1>1. ChunkRows(q)' = ChunkRows(q) /\ ChunkKeys(q)' = ChunkKeys(q)
    BY SameRows DEF ChunkRows, ChunkKeys
<1>2. Lost(q)' = Lost(q)
    BY DEF Lost
<1> QED
    BY <1>1, <1>2 DEF ChunkLoop

\* A step of r that leaves the parts alone keeps what the other runs have.
LEMMA OnlyOneRunMoves ==
    ASSUME TypeOK, ChunkInv, NEW r \in Runs, UNCHANGED job,
           \A q \in Runs \ {r} : /\ pc'[q] = pc[q] /\ got'[q] = got[q]
                                 /\ todo'[q] = todo[q] /\ sent'[q] = sent[q]
                                 /\ Stored(q)' = Stored(q),
           ChunkLoop(r)'
    PROVE  ChunkInv'
BY OtherRunsKeep DEF ChunkInv

\* Steps that only change where the run is, before it sends or when it ends.
LEMMA QuietSteps ==
    ASSUME TypeOK, ChunkInv, NEW r \in Runs, UNCHANGED <<job, got, sent, parts>>,
           \A q \in Runs \ {r} : pc'[q] = pc[q] /\ todo'[q] = todo[q],
           pc[r] \in NotSent \cup {"running"}, pc'[r] \in NotSent \cup {"running", "done"}
    PROVE  ChunkInv'
<1>1. \A q \in Runs : Stored(q)' = Stored(q) /\ Lost(q)' = Lost(q)
    BY DEF Stored, Lost
<1>2. pc[r] \notin Holding /\ pc'[r] \notin Holding /\ pc'[r] # "crashed"
    BY DEF NotSent, Holding, Idle
<1>3. ChunkLoop(r)'
    BY <1>1, <1>2 DEF ChunkInv, ChunkLoop
<1> QED
    BY <1>1, <1>3, OnlyOneRunMoves

LEMMA CallBackendKeeps ==
    ASSUME TypeOK, ChunkInv, NEW r \in Runs, CallBackend(r)
    PROVE  ChunkInv'
<1>1. \A q \in Runs : Stored(q)' = Stored(q)
    BY DEF Stored, CallBackend
<1>2. ChunkKeys(r)' = ChunkKeys(r)
    BY SameRows DEF CallBackend, ChunkKeys, ChunkRows
<1>3. pc'[r] = "answered" /\ DOMAIN got'[r] = ChunkKeys(r)
    BY DEF CallBackend, Goto, TypeOK
<1>4. Lost(r) = {}
    BY DEF CallBackend, ChunkInv, ChunkLoop
<1>5. Lost(r)' \subseteq ChunkKeys(r)
    BY <1>1, <1>4 DEF Lost, CallBackend, TypeOK
<1>6. ChunkLoop(r)'
    BY <1>2, <1>3, <1>5 DEF ChunkLoop, Holding, NotSent, Idle
<1>7. \A q \in Runs \ {r} : /\ pc'[q] = pc[q] /\ got'[q] = got[q]
                            /\ todo'[q] = todo[q] /\ sent'[q] = sent[q]
    BY DEF CallBackend, Goto, TypeOK
<1> QED
    BY <1>1, <1>6, <1>7, OnlyOneRunMoves DEF CallBackend

LEMMA WritePartKeeps ==
    ASSUME TypeOK, ChunkInv, NEW r \in Runs, WritePart(r)
    PROVE  ChunkInv'
<1>1. \A q \in Runs : Stored(q)' = Stored(q) /\ Lost(q)' = Lost(q)
    BY DEF Stored, Lost, WritePart
<1>2. ChunkKeys(r)' = ChunkKeys(r)
    BY SameRows DEF WritePart, ChunkKeys, ChunkRows
<1>3. pc[r] = "answered" /\ pc'[r] = "written"
    BY DEF WritePart, Goto, TypeOK
<1>4. ChunkLoop(r)'
    BY <1>1, <1>2, <1>3 DEF ChunkInv, ChunkLoop, Holding, NotSent, Idle, WritePart
<1>5. \A q \in Runs \ {r} : /\ pc'[q] = pc[q] /\ got'[q] = got[q]
                            /\ todo'[q] = todo[q] /\ sent'[q] = sent[q]
    BY DEF WritePart, Goto, TypeOK
<1> QED
    BY <1>1, <1>4, <1>5, OnlyOneRunMoves DEF WritePart

\* The part a run publishes holds its whole chunk, which is all it can lose.
LEMMA PublishPartKeeps ==
    ASSUME TypeOK, ChunkInv, NEW r \in Runs, PublishPart(r)
    PROVE  ChunkInv'
<1> DEFINE rows == ChunkResults(r)
           part == [run |-> r, ts |-> draft[r], fp |-> job[r].fp, rows |-> rows]
<1>1. /\ parts' = parts \cup {part}
      /\ part.run = r /\ part.rows = rows /\ DOMAIN rows = DOMAIN got[r]
    BY DEF PublishPart, ChunkResults
<1> HIDE DEF part, rows
<1>2. /\ DOMAIN got[r] = ChunkKeys(r) /\ Lost(r) \subseteq ChunkKeys(r)
      /\ pc'[r] = "running" /\ DOMAIN got'[r] = {}
    BY DEF PublishPart, Goto, TypeOK, ChunkInv, ChunkLoop, Holding
<1>3. Stored(r)' = Stored(r) \cup ChunkKeys(r)
    BY <1>1, <1>2 DEF Stored
<1>4. Lost(r)' = {}
    BY <1>2, <1>3 DEF Lost, PublishPart
<1>5. ChunkLoop(r)'
    BY <1>2, <1>4 DEF ChunkLoop, Holding, NotSent, Idle
<1>6. \A q \in Runs \ {r} : Stored(q)' = Stored(q)
    BY <1>1 DEF Stored
<1>7. \A q \in Runs \ {r} : /\ pc'[q] = pc[q] /\ got'[q] = got[q]
                            /\ todo'[q] = todo[q] /\ sent'[q] = sent[q]
    BY DEF PublishPart, Goto, TypeOK
<1> QED
    BY <1>5, <1>6, <1>7, OnlyOneRunMoves DEF PublishPart

\* A run that crashes with its requests in flight has lost only the chunk.
LEMMA CrashInFlightKeeps ==
    ASSUME TypeOK, ChunkInv, NEW r \in Runs, CrashInFlight(r)
    PROVE  ChunkInv'
<1>1. \A q \in Runs : Stored(q)' = Stored(q)
    BY DEF Stored, CrashInFlight
<1>2. Lost(r)' \subseteq ChunkKeys(r)
  <2>1. PICK I \in SUBSET ChunkRows(r) :
            sent' = [sent EXCEPT ![r] = @ \cup {KeyAt(r, i) : i \in I}]
    BY DEF CrashInFlight
  <2>2. {KeyAt(r, i) : i \in I} \subseteq ChunkKeys(r)
    BY DEF ChunkKeys
  <2>3. Lost(r) = {}
    BY DEF CrashInFlight, ChunkInv, ChunkLoop
  <2> QED
    BY <1>1, <2>1, <2>2, <2>3 DEF Lost, TypeOK
<1>3. IsFiniteSet(Lost(r)') /\ Cardinality(Lost(r)') <= FlushEvery
    BY <1>2, PartOfChunkIsSmall
<1>4. pc'[r] = "crashed" /\ DOMAIN got'[r] = {}
    BY DEF CrashInFlight, Forget, Goto, TypeOK
<1>5. ChunkLoop(r)'
    BY <1>3, <1>4 DEF ChunkLoop, Holding, NotSent, Idle
<1>6. \A q \in Runs \ {r} : /\ pc'[q] = pc[q] /\ got'[q] = got[q]
                            /\ todo'[q] = todo[q] /\ sent'[q] = sent[q]
    BY DEF CrashInFlight, Forget, Goto, TypeOK
<1> QED
    BY <1>1, <1>5, <1>6, OnlyOneRunMoves DEF CrashInFlight

LEMMA CrashKeeps ==
    ASSUME TypeOK, ChunkInv, NEW r \in Runs, Crash(r)
    PROVE  ChunkInv'
<1>1. \A q \in Runs : Stored(q)' = Stored(q) /\ Lost(q)' = Lost(q)
    BY DEF Stored, Lost, Crash
<1>2. IsFiniteSet(Lost(r)) /\ Cardinality(Lost(r)) <= FlushEvery
    BY ChunkLoopSuffices DEF ChunkInv
<1>3. pc'[r] = "crashed" /\ DOMAIN got'[r] = {}
    BY DEF Crash, Forget, Goto, TypeOK
<1>4. ChunkLoop(r)'
    BY <1>1, <1>2, <1>3 DEF ChunkLoop, Holding, NotSent, Idle
<1>5. \A q \in Runs \ {r} : /\ pc'[q] = pc[q] /\ got'[q] = got[q]
                            /\ todo'[q] = todo[q] /\ sent'[q] = sent[q]
    BY DEF Crash, Forget, Goto, TypeOK
<1> QED
    BY <1>1, <1>4, <1>5, OnlyOneRunMoves DEF Crash

LEMMA ChunkInvInductive ==
    ASSUME TypeOK, ChunkInv, [Next]_vars
    PROVE  ChunkInv'
<1>1. CASE UNCHANGED vars
  <2>1. \A q \in Runs : Stored(q)' = Stored(q)
    BY <1>1 DEF Stored, vars
  <2> QED
    BY <1>1, <2>1, OtherRunsKeep DEF ChunkInv, vars
<1>2. ASSUME NEW r \in Runs, Start(r) \/ RefuseStore(r) \/ OpenStore(r) \/ LoadAndPlan(r) \/ Return(r)
      PROVE  ChunkInv'
  <2>1. UNCHANGED <<job, got, sent, parts>>
    BY <1>2 DEF Start, RefuseStore, OpenStore, LoadAndPlan, Return
  <2>2. \A q \in Runs \ {r} : pc'[q] = pc[q] /\ todo'[q] = todo[q]
    BY <1>2 DEF Start, RefuseStore, OpenStore, LoadAndPlan, Return, Goto, TypeOK
  <2>3. pc[r] \in NotSent \cup {"running"} /\ pc'[r] \in NotSent \cup {"running", "done"}
    BY <1>2 DEF Start, RefuseStore, OpenStore, LoadAndPlan, Return, Goto, TypeOK, NotSent, Idle
  <2> QED
    BY <2>1, <2>2, <2>3, QuietSteps
<1>3. ASSUME NEW r \in Runs, CallBackend(r) \/ WritePart(r) \/ PublishPart(r)
      PROVE  ChunkInv'
    BY <1>3, CallBackendKeeps, WritePartKeeps, PublishPartKeeps
<1>4. ASSUME NEW r \in Runs, Crash(r) \/ CrashInFlight(r)
      PROVE  ChunkInv'
    BY <1>4, CrashKeeps, CrashInFlightKeeps
<1> QED
    BY <1>1, <1>2, <1>3, <1>4 DEF Next, Step

LEMMA ChunkInvHolds == Spec => []ChunkInv
<1>1. Init => ChunkInv
  <2> SUFFICES ASSUME Init, NEW r \in Runs
               PROVE  ChunkLoop(r)
    BY DEF ChunkInv
  <2>1. pc[r] = Idle /\ DOMAIN got[r] = {} /\ Lost(r) = {}
    BY DEF Init, Lost
  <2> QED
    BY <2>1 DEF ChunkLoop, Holding, NotSent, Idle
<1>2. TypeOK /\ ChunkInv /\ [Next]_vars => ChunkInv'
    BY ChunkInvInductive
<1> QED
    BY <1>1, <1>2, TypeCorrect, PTL DEF Spec

\* Wherever runs die and however they overlap, each has paid for at most
\* FlushEvery keys that are not in a part file (AtMostOneChunkLost).
THEOREM LosesAtMostOneChunk == Spec => []AtMostOneChunkLost
<1>1. TypeOK /\ ChunkInv => AtMostOneChunkLost
    BY ChunkLoopSuffices DEF ChunkInv, AtMostOneChunkLost, Lost
<1> QED
    BY <1>1, ChunkInvHolds, TypeCorrect, PTL
-----------------------------------------------------------------------------
(***************************************************************************)
(* The store is faithful, when failures come back the way _is_error_row    *)
(* expects them: with a schema, or outside the cache-warming path.         *)
(***************************************************************************)
FailuresAreRecognised ==
    \A k \in Keys : \A n \in DOMAIN calls[k] :
        IsErrorRow(calls[k][n]) <=> calls[k][n] # "answer"

GotIsFaithful ==
    \A r \in Runs : \A k \in DOMAIN got[r] :
        k[1] = job[r].fp /\ got[r][k] \in DOMAIN calls[k]

FaithInv == FailuresAreRecognised /\ GotIsFaithful /\ StoreIsFaithful

\* More requests disturb nothing of what earlier requests left behind.
LEMMA MoreRequests ==
    ASSUME HasSchema \/ ~CacheWarming, TypeOK, FaithInv, UNCHANGED <<job, parts>>,
           NEW K \in SUBSET Keys, NEW chunk, Request(K, chunk)
    PROVE  /\ FailuresAreRecognised' /\ StoreIsFaithful'
           /\ \A k \in Keys : DOMAIN calls[k] \subseteq DOMAIN calls'[k]
<1>1. \A k \in Keys : /\ DOMAIN calls[k] = 1..Len(calls[k]) /\ Len(calls[k]) \in Nat
                      /\ DOMAIN calls'[k] = 1..Len(calls'[k])
    BY RequestExtends DEF TypeOK
<1>2. \A k \in Keys : \A n \in DOMAIN calls[k] :
          n \in DOMAIN calls'[k] /\ calls'[k][n] = calls[k][n]
    BY <1>1, RequestExtends
<1>3. \A o \in {"answer"} \cup Failures(chunk) : IsErrorRow(o) <=> o # "answer"
    BY CheckpointAssumption DEF Failures, IsErrorRow
<1>4. FailuresAreRecognised'
  <2> SUFFICES ASSUME NEW k \in Keys, NEW n \in DOMAIN calls'[k]
               PROVE  IsErrorRow(calls'[k][n]) <=> calls'[k][n] # "answer"
    BY DEF FailuresAreRecognised, IsErrorRow
  <2>1. CASE n \in DOMAIN calls[k]
    BY <2>1, <1>2 DEF FaithInv, FailuresAreRecognised, IsErrorRow
  <2>2. CASE n \notin DOMAIN calls[k]
    <3>1. k \in K
      BY <2>2, RequestExtends
    <3>2. Len(calls'[k]) = Len(calls[k]) + 1
      BY <3>1, RequestExtends
    <3>3. n \in 1..Len(calls'[k]) /\ n \notin 1..Len(calls[k]) /\ Len(calls[k]) \in Nat
      BY <2>2, <1>1
    <3>4. n = Len(calls[k]) + 1
      BY <3>2, <3>3
    <3>5. calls'[k][n] \in {"answer"} \cup Failures(chunk)
      BY <3>1, <3>4, RequestExtends
    <3> QED
      BY <3>5, <1>3
  <2> QED
    BY <2>1, <2>2
<1>5. StoreIsFaithful'
  <2> SUFFICES ASSUME NEW p \in parts, NEW k \in DOMAIN p.rows
               PROVE  /\ k[1] = p.fp
                      /\ p.rows[k].n \in DOMAIN calls'[k]
                      /\ p.rows[k].ok <=> calls'[k][p.rows[k].n] = "answer"
    BY DEF StoreIsFaithful
  <2>1. k \in Keys
    BY DEF TypeOK
  <2> QED
    BY <2>1, <1>2 DEF FaithInv, StoreIsFaithful
<1> QED
    BY <1>2, <1>4, <1>5

LEMMA CallBackendFaithful ==
    ASSUME HasSchema \/ ~CacheWarming, TypeOK, FaithInv, NEW r \in Runs, CallBackend(r)
    PROVE  FaithInv'
<1>1. ChunkKeys(r) \subseteq Keys
    BY ChunkIsPending
<1>2. /\ Request(ChunkKeys(r), ChunkKeys(r)) /\ UNCHANGED <<job, parts>>
      /\ got' = [got EXCEPT ![r] = [k \in ChunkKeys(r) |-> Len(calls[k]) + 1]]
    BY DEF CallBackend
<1>3. /\ FailuresAreRecognised' /\ StoreIsFaithful'
      /\ \A k \in Keys : DOMAIN calls[k] \subseteq DOMAIN calls'[k]
    BY <1>1, <1>2, MoreRequests
<1>4. \A k \in ChunkKeys(r) : k[1] = job[r].fp
    BY DEF ChunkKeys, KeyAt
<1>5. ASSUME NEW k \in ChunkKeys(r)
      PROVE  Len(calls[k]) + 1 \in DOMAIN calls'[k]
  <2>1. Len(calls'[k]) = Len(calls[k]) + 1 /\ calls'[k] \in Seq(Outcomes)
    BY <1>1, <1>2, RequestExtends
  <2>2. DOMAIN calls'[k] = 1..(Len(calls[k]) + 1)
    BY <2>1
  <2>3. Len(calls[k]) \in Nat
    BY <1>1 DEF TypeOK
  <2> QED
    BY <2>2, <2>3
<1>6. ASSUME NEW q \in Runs, NEW k \in DOMAIN got'[q]
      PROVE  k[1] = job'[q].fp /\ got'[q][k] \in DOMAIN calls'[k]
  <2>1. CASE q = r
    <3>1. k \in ChunkKeys(r) /\ got'[q][k] = Len(calls[k]) + 1
      BY <2>1, <1>2 DEF TypeOK
    <3> QED
      BY <2>1, <3>1, <1>2, <1>4, <1>5
  <2>2. CASE q # r
    <3>1. got'[q] = got[q] /\ k \in Keys
      BY <2>2, <1>2 DEF TypeOK
    <3> QED
      BY <3>1, <1>2, <1>3 DEF FaithInv, GotIsFaithful
  <2> QED
    BY <2>1, <2>2
<1> QED
    BY <1>3, <1>6 DEF FaithInv, GotIsFaithful

LEMMA CrashInFlightFaithful ==
    ASSUME HasSchema \/ ~CacheWarming, TypeOK, FaithInv, NEW r \in Runs, CrashInFlight(r)
    PROVE  FaithInv'
<1>1. PICK I \in SUBSET ChunkRows(r) : Request({KeyAt(r, i) : i \in I}, ChunkKeys(r))
    BY DEF CrashInFlight
<1> DEFINE K == {KeyAt(r, i) : i \in I}
<1>2. K \subseteq Keys
    BY ChunkIsPending DEF ChunkKeys
<1>3. UNCHANGED <<job, parts>> /\ got' = [got EXCEPT ![r] = <<>>]
    BY DEF CrashInFlight, Forget
<1>4. /\ FailuresAreRecognised' /\ StoreIsFaithful'
      /\ \A k \in Keys : DOMAIN calls[k] \subseteq DOMAIN calls'[k]
  <2> HIDE DEF K
  <2> QED
    BY <1>1, <1>2, <1>3, MoreRequests DEF K
<1>5. ASSUME NEW q \in Runs, NEW k \in DOMAIN got'[q]
      PROVE  k[1] = job'[q].fp /\ got'[q][k] \in DOMAIN calls'[k]
  <2>1. q # r /\ got'[q] = got[q] /\ k \in Keys
    BY <1>3 DEF TypeOK
  <2> QED
    BY <2>1, <1>3, <1>4 DEF FaithInv, GotIsFaithful
<1> QED
    BY <1>4, <1>5 DEF FaithInv, GotIsFaithful

LEMMA PublishPartFaithful ==
    ASSUME TypeOK, FaithInv, NEW r \in Runs, PublishPart(r)
    PROVE  FaithInv'
<1> DEFINE rows == ChunkResults(r)
           part == [run |-> r, ts |-> draft[r], fp |-> job[r].fp, rows |-> rows]
<1>1. /\ parts' = parts \cup {part} /\ got' = [got EXCEPT ![r] = <<>>]
      /\ UNCHANGED <<job, calls>>
    BY DEF PublishPart
<1>2. \A k \in DOMAIN got[r] : rows[k].n = got[r][k] /\ rows[k].ok = ~IsErrorRow(calls[k][got[r][k]])
    BY DEF ChunkResults, PartRowOf
<1>3. part.fp = job[r].fp /\ part.rows = rows /\ DOMAIN rows = DOMAIN got[r]
    BY DEF ChunkResults
<1> HIDE DEF part, rows
<1>4. FailuresAreRecognised'
    BY <1>1 DEF FaithInv, FailuresAreRecognised, IsErrorRow
<1>5. GotIsFaithful'
    BY <1>1 DEF FaithInv, GotIsFaithful, TypeOK
<1>6. ASSUME NEW k \in DOMAIN part.rows
      PROVE  /\ k[1] = part.fp
             /\ part.rows[k].n \in DOMAIN calls[k]
             /\ part.rows[k].ok <=> calls[k][part.rows[k].n] = "answer"
  <2>1. k \in DOMAIN got[r] /\ k \in Keys
    BY <1>3 DEF TypeOK
  <2>2. k[1] = job[r].fp /\ got[r][k] \in DOMAIN calls[k]
    BY <2>1 DEF FaithInv, GotIsFaithful
  <2>3. IsErrorRow(calls[k][got[r][k]]) <=> calls[k][got[r][k]] # "answer"
    BY <2>1, <2>2 DEF FaithInv, FailuresAreRecognised
  <2>4. /\ part.rows[k].n = got[r][k]
        /\ part.rows[k].ok = ~IsErrorRow(calls[k][got[r][k]])
    BY <2>1, <1>2, <1>3
  <2>5. part.rows[k].ok <=> calls[k][part.rows[k].n] = "answer"
    BY <2>3, <2>4
  <2> QED
    BY <2>2, <2>4, <2>5, <1>3
<1>7. StoreIsFaithful'
    BY <1>1, <1>6 DEF FaithInv, StoreIsFaithful
<1> QED
    BY <1>4, <1>5, <1>7 DEF FaithInv

\* Steps that make no request and publish nothing.
LEMMA OtherStepsFaithful ==
    ASSUME FaithInv, UNCHANGED <<job, parts, calls>>,
           \A q \in Runs : got'[q] = got[q] \/ DOMAIN got'[q] = {}
    PROVE  FaithInv'
<1>1. FailuresAreRecognised' /\ StoreIsFaithful'
    BY DEF FaithInv, FailuresAreRecognised, StoreIsFaithful, IsErrorRow
<1>2. GotIsFaithful'
    BY DEF FaithInv, GotIsFaithful
<1> QED
    BY <1>1, <1>2 DEF FaithInv

\* Whatever overlaps and crashes, what a part holds under a key is the result
\* of a request for that key, marked ok only if it was answered
\* (StoreIsFaithful).  The hypothesis is necessary: plain text through the
\* warming path is the counterexample TLC finds.
THEOREM StoreStaysFaithful ==
    ASSUME HasSchema \/ ~CacheWarming
    PROVE  Spec => []StoreIsFaithful
<1>1. Init => FaithInv
    BY DEF Init, FaithInv, FailuresAreRecognised, GotIsFaithful, StoreIsFaithful
<1>2. TypeOK /\ FaithInv /\ [Next]_vars => FaithInv'
  <2> SUFFICES ASSUME TypeOK, FaithInv, [Next]_vars
               PROVE  FaithInv'
    OBVIOUS
  <2>1. CASE UNCHANGED vars
    BY <2>1, OtherStepsFaithful DEF vars
  <2>2. ASSUME NEW r \in Runs,
               \/ Start(r) \/ RefuseStore(r) \/ OpenStore(r) \/ LoadAndPlan(r)
               \/ WritePart(r) \/ Return(r)
        PROVE  FaithInv'
    BY <2>2, OtherStepsFaithful
       DEF Start, RefuseStore, OpenStore, LoadAndPlan, WritePart, Return
  <2>3. ASSUME NEW r \in Runs, Crash(r)
        PROVE  FaithInv'
    BY <2>3, OtherStepsFaithful DEF Crash, Forget, TypeOK
  <2>4. ASSUME NEW r \in Runs, CallBackend(r) \/ PublishPart(r) \/ CrashInFlight(r)
        PROVE  FaithInv'
    BY <2>4, CallBackendFaithful, PublishPartFaithful, CrashInFlightFaithful
  <2> QED
    BY <2>1, <2>2, <2>3, <2>4 DEF Next, Step
<1>3. FaithInv => StoreIsFaithful
    BY DEF FaithInv
<1> QED
    BY <1>1, <1>2, <1>3, TypeCorrect, PTL DEF Spec
-----------------------------------------------------------------------------
(***************************************************************************)
(* The rows of a column.                                                   *)
(*                                                                         *)
(* What is true of a run that has returned comes from what is true at each *)
(* point of its chunk loop: a row still empty has its key pending, and a   *)
(* result that is shown is in a part, or is among those of the chunk that  *)
(* is about to become one.                                                 *)
(***************************************************************************)
Planned == {"running", "answered", "written", "done"}

\* The raw result that stands in row i, were it the result of request n.
ResultOf(r, i, n) == <<KeyAt(r, i), n>>

OwnResult(r, i) ==
    results[r][i] # None =>
        /\ i \in Live(r)
        /\ results[r][i][1] = KeyAt(r, i)
        /\ results[r][i][2] \in DOMAIN calls[KeyAt(r, i)]

HasStored(r, i) ==
    \E p \in parts : /\ p.fp = job[r].fp /\ KeyAt(r, i) \in DOMAIN p.rows
                     /\ p.rows[KeyAt(r, i)].n = results[r][i][2]

RowsRight(r) ==
    /\ \A i \in DOMAIN Rows(r) : OwnResult(r, i)
    /\ \A i, j \in Live(r) : KeyAt(r, i) = KeyAt(r, j) => results[r][i] = results[r][j]
    /\ pc[r] \notin Planned => \A i \in DOMAIN Rows(r) : results[r][i] = None
    /\ pc[r] \in Planned =>
          \A i \in Live(r) : results[r][i] # None \/ \E j \in todo[r] : KeyAt(r, j) = KeyAt(r, i)
    /\ \A i \in Live(r) : results[r][i] # None =>
          HasStored(r, i) \/ (pc[r] = "written" /\ KeyAt(r, i) \in DOMAIN got[r])
    /\ pc[r] = "written" =>
          \A i \in Live(r) : KeyAt(r, i) \in DOMAIN got[r] =>
              results[r][i] = ResultOf(r, i, got[r][KeyAt(r, i)])
    /\ pc[r] = "done" => todo[r] = {}

PartsWereAsked == \A p \in parts : \A k \in DOMAIN p.rows : p.rows[k].n \in DOMAIN calls[k]

RowsInv == PartsWereAsked /\ GotIsFaithful /\ \A r \in Runs : RowsRight(r)
-----------------------------------------------------------------------------
(***************************************************************************)
(* The rows of one run: what the other runs do takes nothing away.         *)
(***************************************************************************)
CallsGrow == \A k \in Keys : DOMAIN calls[k] \subseteq DOMAIN calls'[k]

LEMMA RequestGrows ==
    ASSUME TypeOK, NEW K \in SUBSET Keys, NEW chunk, Request(K, chunk)
    PROVE  CallsGrow
<1>1. \A k \in Keys : /\ DOMAIN calls[k] = 1..Len(calls[k])
                      /\ DOMAIN calls'[k] = 1..Len(calls'[k])
    BY RequestExtends DEF TypeOK
<1> QED
    BY <1>1, RequestExtends DEF CallsGrow

LEMMA OtherRowsStayRight ==
    ASSUME TypeOK, NEW q \in Runs, RowsRight(q), UNCHANGED job, CallsGrow,
           parts \subseteq parts',
           pc'[q] = pc[q], results'[q] = results[q], todo'[q] = todo[q], got'[q] = got[q]
    PROVE  RowsRight(q)'
<1>1. /\ Rows(q)' = Rows(q) /\ Live(q)' = Live(q)
      /\ \A i : KeyAt(q, i)' = KeyAt(q, i)
    BY SameRows
<1>2. ASSUME NEW i \in DOMAIN Rows(q), OwnResult(q, i)
      PROVE  OwnResult(q, i)'
    BY <1>1, <1>2, RowNumbers DEF OwnResult, CallsGrow
<1>3. ASSUME NEW i \in Live(q), HasStored(q, i)
      PROVE  HasStored(q, i)'
    BY <1>1, <1>3 DEF HasStored
<1> QED
    BY <1>1, <1>2, <1>3 DEF RowsRight, ResultOf

\* A step of r in which no part is lost keeps the others' rows.
LEMMA OneRunMoves ==
    ASSUME TypeOK, RowsInv, NEW r \in Runs, UNCHANGED job, CallsGrow,
           parts \subseteq parts',
           \A q \in Runs \ {r} : /\ pc'[q] = pc[q] /\ results'[q] = results[q]
                                 /\ todo'[q] = todo[q] /\ got'[q] = got[q],
           PartsWereAsked', GotIsFaithful', RowsRight(r)'
    PROVE  RowsInv'
<1>1. ASSUME NEW q \in Runs \ {r}
      PROVE  RowsRight(q)'
    BY OtherRowsStayRight DEF RowsInv
<1> QED
    BY <1>1 DEF RowsInv

\* The history of requests and the store survive a step that asks for more and
\* stores nothing.
LEMMA AskedStaysAsked ==
    ASSUME TypeOK, RowsInv, UNCHANGED <<job, parts>>, CallsGrow,
           \A q \in Runs : got'[q] = got[q] \/ DOMAIN got'[q] = {}
    PROVE  PartsWereAsked' /\ GotIsFaithful'
<1>1. PartsWereAsked'
    BY DEF RowsInv, PartsWereAsked, TypeOK, CallsGrow
<1>2. GotIsFaithful'
    BY DEF RowsInv, GotIsFaithful, TypeOK, CallsGrow
<1> QED
    BY <1>1, <1>2
-----------------------------------------------------------------------------
(***************************************************************************)
(* The rows of a column: the steps.                                        *)
(***************************************************************************)
\* A run that holds nothing and shows nothing is right, before and after its
\* work.
LEMMA BlankIsRight ==
    ASSUME TypeOK, NEW r \in Runs, UNCHANGED job,
           \A i \in DOMAIN Rows(r) : results'[r][i] = None,
           pc'[r] \notin Planned
    PROVE  RowsRight(r)'
<1>1. Rows(r)' = Rows(r) /\ Live(r)' = Live(r) /\ Live(r) \subseteq DOMAIN Rows(r)
    BY SameRows, RowNumbers
<1> QED
    BY <1>1 DEF RowsRight, OwnResult, Planned

\* Steps before the index is loaded, and crashes.
LEMMA OutsideTheLoop ==
    ASSUME TypeOK, RowsInv, NEW r \in Runs, NEW label, label \notin Planned,
           UNCHANGED <<job, parts>>, CallsGrow, Goto(r, label),
           \/ pc[r] \notin Planned /\ UNCHANGED <<results, todo, got>>
           \/ Forget(r)
    PROVE  RowsInv'
<1>1. pc'[r] \notin Planned
    BY DEF Goto, TypeOK
<1>2. \A i \in DOMAIN Rows(r) : results'[r][i] = None
    BY DEF RowsInv, RowsRight, Forget, Blank, Rows, TypeOK
<1>3. \A q \in Runs \ {r} : /\ pc'[q] = pc[q] /\ results'[q] = results[q]
                            /\ todo'[q] = todo[q] /\ got'[q] = got[q]
    BY DEF Goto, Forget, TypeOK
<1>4. \A q \in Runs : got'[q] = got[q] \/ DOMAIN got'[q] = {}
    BY DEF Forget, TypeOK
<1> QED
    BY <1>1, <1>2, <1>3, <1>4, BlankIsRight, AskedStaysAsked, OneRunMoves

\* The least row with a key stands for it, so a row that is not served from
\* the index has its key pending.
LEMMA KeyIsPending ==
    ASSUME TypeOK, NEW r \in Runs, NEW i \in Live(r)
    PROVE  \E j \in Live(r) : KeyAt(r, j) = KeyAt(r, i) /\ FirstOccurrence(r, j)
<1> DEFINE Same == {j \in Live(r) : KeyAt(r, j) = KeyAt(r, i)}
<1>1. Live(r) \subseteq Nat
    BY RowNumbers
<1>2. Same \in SUBSET Nat /\ Same # {}
    BY <1>1
<1>3. PICK m \in Same : \A n \in Same : m <= n
  <2> HIDE DEF Same
  <2> QED
    BY <1>2, LeastOf
<1>4. FirstOccurrence(r, m)
  <2> SUFFICES ASSUME NEW j \in Live(r), j < m, KeyAt(r, j) = KeyAt(r, m)
               PROVE  FALSE
    BY DEF FirstOccurrence
  <2>1. j \in Same /\ j \in Nat /\ m \in Nat
    BY <1>1
  <2> QED
    BY <2>1, <1>3
<1> QED
    BY <1>4

LEMMA LoadAndPlanRight ==
    ASSUME TypeOK, RowsInv, NEW r \in Runs, LoadAndPlan(r)
    PROVE  RowsInv'
<1>1. PICK idx \in Indexes(job[r].fp) :
          /\ results' = [results EXCEPT ![r] =
                [i \in DOMAIN Rows(r) |->
                    IF i \in Live(r) /\ IsHit(r, idx, KeyAt(r, i))
                    THEN <<KeyAt(r, i), idx[KeyAt(r, i)].n>> ELSE None]]
          /\ todo' = [todo EXCEPT ![r] =
                {i \in Live(r) : /\ ~IsHit(r, idx, KeyAt(r, i))
                                 /\ FirstOccurrence(r, i)}]
    BY DEF LoadAndPlan
<1> DEFINE Hit(i) == IsHit(r, idx, KeyAt(r, i))
<1>2. UNCHANGED <<job, got, parts, calls>> /\ CallsGrow
    BY DEF LoadAndPlan, CallsGrow
<1>3. /\ Rows(r)' = Rows(r) /\ Live(r)' = Live(r) /\ \A i : KeyAt(r, i)' = KeyAt(r, i)
      /\ Live(r) \subseteq DOMAIN Rows(r) /\ \A i \in Live(r) : KeyAt(r, i) \in Keys
    BY <1>2, SameRows, RowNumbers
<1>4. pc'[r] = "running"
    BY DEF LoadAndPlan, Goto, TypeOK
<1>5. \A i \in DOMAIN Rows(r) :
          results'[r][i] = IF i \in Live(r) /\ Hit(i)
                           THEN <<KeyAt(r, i), idx[KeyAt(r, i)].n>> ELSE None
    BY <1>1 DEF TypeOK
<1>6. ASSUME NEW i \in Live(r), Hit(i)
      PROVE  /\ idx[KeyAt(r, i)].n \in DOMAIN calls[KeyAt(r, i)]
             /\ results'[r][i] # None
             /\ HasStored(r, i)'
  <2>1. PICK p \in parts : /\ p.fp = job[r].fp /\ KeyAt(r, i) \in DOMAIN p.rows
                           /\ idx[KeyAt(r, i)].n = p.rows[KeyAt(r, i)].n
    BY <1>6, IndexEntries DEF IsHit
  <2>2. idx[KeyAt(r, i)].n \in DOMAIN calls[KeyAt(r, i)]
    BY <2>1 DEF RowsInv, PartsWereAsked
  <2>3. p.rows[KeyAt(r, i)].n \in Nat
    BY <2>1 DEF TypeOK, PartRow
  <2>4. results'[r][i] = <<KeyAt(r, i), idx[KeyAt(r, i)].n>>
    BY <1>3, <1>5, <1>6
  <2>5. results'[r][i] # None
    BY <1>3, <2>1, <2>3, <2>4, CheckpointAssumption DEF Keys
  <2> QED
    BY <1>2, <1>3, <2>1, <2>2, <2>4, <2>5 DEF HasStored
<1>7. ASSUME NEW i \in Live(r), ~Hit(i)
      PROVE  \E j \in todo'[r] : KeyAt(r, j) = KeyAt(r, i)
  <2>1. PICK j \in Live(r) : KeyAt(r, j) = KeyAt(r, i) /\ FirstOccurrence(r, j)
    BY KeyIsPending
  <2>2. ~Hit(j)
    BY <1>7, <2>1
  <2> QED
    BY <1>1, <2>1, <2>2 DEF TypeOK
<1>8. ASSUME NEW i \in DOMAIN Rows(r)
      PROVE  OwnResult(r, i)'
  <2>1. CASE results'[r][i] = None
    BY <2>1 DEF OwnResult
  <2>2. CASE results'[r][i] # None
    <3>1. i \in Live(r) /\ Hit(i)
      BY <2>2, <1>5
    <3>2. results'[r][i] = <<KeyAt(r, i), idx[KeyAt(r, i)].n>>
      BY <3>1, <1>5
    <3>3. idx[KeyAt(r, i)].n \in DOMAIN calls[KeyAt(r, i)]
      BY <3>1, <1>6
    <3> HIDE DEF Hit
    <3> QED
      BY <3>1, <3>2, <3>3, <1>2, <1>3 DEF OwnResult
  <2> QED
    BY <2>1, <2>2
<1>9. ASSUME NEW i \in Live(r), NEW j \in Live(r), KeyAt(r, i) = KeyAt(r, j)
      PROVE  results'[r][i] = results'[r][j]
    BY <1>3, <1>5, <1>9
<1>10. ASSUME NEW i \in Live(r), results'[r][i] # None
       PROVE  HasStored(r, i)'
    BY <1>3, <1>5, <1>6, <1>10
<1>11. RowsRight(r)'
  <2> HIDE DEF Hit
  <2> QED
    BY <1>3, <1>4, <1>6, <1>7, <1>8, <1>9, <1>10 DEF RowsRight, Planned
<1>12. \A q \in Runs \ {r} : /\ pc'[q] = pc[q] /\ results'[q] = results[q]
                             /\ todo'[q] = todo[q] /\ got'[q] = got[q]
    BY <1>1, <1>2 DEF LoadAndPlan, Goto, TypeOK
<1> QED
    BY <1>2, <1>11, <1>12, AskedStaysAsked, OneRunMoves

\* Requests are made for keys of the chunk, whose rows are still pending.
LEMMA CallBackendRight ==
    ASSUME TypeOK, RowsInv, NEW r \in Runs, CallBackend(r)
    PROVE  RowsInv'
<1>1. ChunkKeys(r) \subseteq Keys
    BY ChunkIsPending
<1>2. /\ Request(ChunkKeys(r), ChunkKeys(r)) /\ UNCHANGED <<job, results, todo, parts>>
      /\ got' = [got EXCEPT ![r] = [k \in ChunkKeys(r) |-> Len(calls[k]) + 1]]
      /\ pc[r] = "running" /\ pc'[r] = "answered"
    BY DEF CallBackend, Goto, TypeOK
<1>3. CallsGrow
    BY <1>1, <1>2, RequestGrows
<1>4. PartsWereAsked'
    BY <1>2, <1>3 DEF RowsInv, PartsWereAsked, TypeOK, CallsGrow
<1>5. ASSUME NEW k \in ChunkKeys(r)
      PROVE  k[1] = job[r].fp /\ Len(calls[k]) + 1 \in DOMAIN calls'[k]
  <2>1. Len(calls'[k]) = Len(calls[k]) + 1 /\ calls'[k] \in Seq(Outcomes)
    BY <1>1, <1>2, RequestExtends
  <2>2. DOMAIN calls'[k] = 1..(Len(calls[k]) + 1) /\ Len(calls[k]) \in Nat
    BY <1>1, <2>1 DEF TypeOK
  <2> QED
    BY <2>2 DEF ChunkKeys, KeyAt
<1>6. ASSUME NEW q \in Runs, NEW k \in DOMAIN got'[q]
      PROVE  k[1] = job'[q].fp /\ got'[q][k] \in DOMAIN calls'[k]
  <2>1. CASE q = r
    BY <2>1, <1>2, <1>5 DEF TypeOK
  <2>2. CASE q # r
    <3>1. got'[q] = got[q] /\ k \in Keys
      BY <2>2, <1>2 DEF TypeOK
    <3> QED
      BY <3>1, <1>2, <1>3 DEF RowsInv, GotIsFaithful, CallsGrow
  <2> QED
    BY <2>1, <2>2
<1>7. /\ Rows(r)' = Rows(r) /\ Live(r)' = Live(r) /\ \A i : KeyAt(r, i)' = KeyAt(r, i)
      /\ \A i \in Live(r) : KeyAt(r, i) \in Keys
    BY <1>2, SameRows, RowNumbers
<1>8. RowsRight(r)'
  <2>1. RowsRight(r)
    BY DEF RowsInv
  <2>2. ASSUME NEW i \in DOMAIN Rows(r), OwnResult(r, i)
        PROVE  OwnResult(r, i)'
    BY <2>2, <1>2, <1>3, <1>7 DEF OwnResult, CallsGrow
  <2>3. ASSUME NEW i \in Live(r), HasStored(r, i)
        PROVE  HasStored(r, i)'
    BY <2>3, <1>2, <1>7 DEF HasStored
  <2> QED
    BY <2>1, <2>2, <2>3, <1>2, <1>7 DEF RowsRight, Planned
<1>9. \A q \in Runs \ {r} : /\ pc'[q] = pc[q] /\ results'[q] = results[q]
                            /\ todo'[q] = todo[q] /\ got'[q] = got[q]
    BY <1>2 DEF CallBackend, Goto, TypeOK
<1> QED
    BY <1>2, <1>3, <1>4, <1>6, <1>8, <1>9, OneRunMoves DEF GotIsFaithful

\* fan_out gives every row with a key of the chunk that key's result.
LEMMA WritePartRight ==
    ASSUME TypeOK, RowsInv, NEW r \in Runs, WritePart(r)
    PROVE  RowsInv'
<1>1. /\ UNCHANGED <<job, todo, got, parts, calls>> /\ CallsGrow
      /\ pc[r] = "answered" /\ pc'[r] = "written"
      /\ results' = [results EXCEPT ![r] = FanOut(r)]
    BY DEF WritePart, Goto, TypeOK, CallsGrow
<1>2. /\ Rows(r)' = Rows(r) /\ Live(r)' = Live(r) /\ \A i : KeyAt(r, i)' = KeyAt(r, i)
      /\ Live(r) \subseteq DOMAIN Rows(r) /\ \A i \in Live(r) : KeyAt(r, i) \in Keys
    BY <1>1, SameRows, RowNumbers
<1>3. \A i \in DOMAIN Rows(r) :
          results'[r][i] = IF i \in Live(r) /\ KeyAt(r, i) \in DOMAIN got[r]
                           THEN ResultOf(r, i, got[r][KeyAt(r, i)]) ELSE results[r][i]
    BY <1>1 DEF FanOut, ResultOf, TypeOK
<1>4. RowsRight(r)
    BY DEF RowsInv
<1>5. ASSUME NEW i \in Live(r), KeyAt(r, i) \in DOMAIN got[r]
      PROVE  /\ results'[r][i] = ResultOf(r, i, got[r][KeyAt(r, i)])
             /\ results'[r][i] # None
             /\ OwnResult(r, i)'
  <2>1. results'[r][i] = ResultOf(r, i, got[r][KeyAt(r, i)])
    BY <1>2, <1>3, <1>5
  <2>2. got[r][KeyAt(r, i)] \in Nat /\ got[r][KeyAt(r, i)] \in DOMAIN calls[KeyAt(r, i)]
    BY <1>5 DEF TypeOK, RowsInv, GotIsFaithful
  <2>3. results'[r][i] # None
    BY <1>2, <2>1, <2>2, CheckpointAssumption DEF ResultOf, Keys
  <2> QED
    BY <1>1, <1>2, <2>1, <2>2, <2>3 DEF OwnResult, ResultOf
<1>6. ASSUME NEW i \in DOMAIN Rows(r), ~(i \in Live(r) /\ KeyAt(r, i) \in DOMAIN got[r])
      PROVE  results'[r][i] = results[r][i]
    BY <1>3, <1>6
<1>7. ASSUME NEW i \in DOMAIN Rows(r)
      PROVE  OwnResult(r, i)'
  <2>1. CASE i \in Live(r) /\ KeyAt(r, i) \in DOMAIN got[r]
    BY <2>1, <1>5
  <2>2. CASE ~(i \in Live(r) /\ KeyAt(r, i) \in DOMAIN got[r])
    <3>1. results'[r][i] = results[r][i] /\ OwnResult(r, i)
      BY <2>2, <1>4, <1>6 DEF RowsRight
    <3> QED
      BY <3>1, <1>1, <1>2 DEF OwnResult
  <2> QED
    BY <2>1, <2>2
<1>8. ASSUME NEW i \in Live(r), NEW j \in Live(r), KeyAt(r, i) = KeyAt(r, j)
      PROVE  results'[r][i] = results'[r][j]
    BY <1>2, <1>3, <1>4, <1>8 DEF RowsRight, ResultOf
<1>9. ASSUME NEW i \in Live(r)
      PROVE  results'[r][i] # None \/ \E j \in todo[r] : KeyAt(r, j) = KeyAt(r, i)
    BY <1>1, <1>2, <1>4, <1>5, <1>6 DEF RowsRight, Planned
<1>10. ASSUME NEW i \in Live(r), results'[r][i] # None, KeyAt(r, i) \notin DOMAIN got[r]
       PROVE  HasStored(r, i)'
  <2>1. results'[r][i] = results[r][i]
    BY <1>2, <1>6, <1>10
  <2>2. HasStored(r, i)
    BY <2>1, <1>1, <1>4, <1>10 DEF RowsRight
  <2> QED
    BY <2>1, <2>2, <1>1, <1>2 DEF HasStored
<1>11. RowsRight(r)'
    BY <1>1, <1>2, <1>5, <1>7, <1>8, <1>9, <1>10 DEF RowsRight, Planned, ResultOf
<1>12. \A q \in Runs \ {r} : /\ pc'[q] = pc[q] /\ results'[q] = results[q]
                             /\ todo'[q] = todo[q] /\ got'[q] = got[q]
    BY <1>1 DEF WritePart, Goto, TypeOK
<1> QED
    BY <1>1, <1>11, <1>12, AskedStaysAsked, OneRunMoves

\* The part holds the whole chunk, so what was shown from the chunk is shown
\* from the store, and the rows that are no longer pending are not empty.
LEMMA PublishPartRight ==
    ASSUME TypeOK, ChunkInv, RowsInv, NEW r \in Runs, PublishPart(r)
    PROVE  RowsInv'
<1> DEFINE rows == ChunkResults(r)
           part == [run |-> r, ts |-> draft[r], fp |-> job[r].fp, rows |-> rows]
<1>1. /\ parts' = parts \cup {part} /\ got' = [got EXCEPT ![r] = <<>>]
      /\ todo' = [todo EXCEPT ![r] = @ \ ChunkRows(r)]
      /\ UNCHANGED <<job, results, calls>> /\ CallsGrow
      /\ pc[r] = "written" /\ pc'[r] = "running"
    BY DEF PublishPart, Goto, TypeOK, CallsGrow
<1>2. /\ part \in parts' /\ part.fp = job[r].fp /\ part.rows = rows
      /\ DOMAIN rows = DOMAIN got[r]
      /\ \A k \in DOMAIN got[r] : rows[k].n = got[r][k]
    BY <1>1 DEF ChunkResults, PartRowOf
<1> HIDE DEF part, rows
<1>3. /\ Rows(r)' = Rows(r) /\ Live(r)' = Live(r) /\ \A i : KeyAt(r, i)' = KeyAt(r, i)
      /\ Live(r) \subseteq DOMAIN Rows(r) /\ \A i \in Live(r) : KeyAt(r, i) \in Keys
    BY <1>1, SameRows, RowNumbers
<1>4. RowsRight(r) /\ DOMAIN got[r] = ChunkKeys(r)
    BY <1>1 DEF RowsInv, ChunkInv, ChunkLoop, Holding
<1>5. PartsWereAsked'
  <2>1. \A k \in DOMAIN got[r] : got[r][k] \in DOMAIN calls[k]
    BY DEF RowsInv, GotIsFaithful
  <2> QED
    BY <2>1, <1>1, <1>2 DEF RowsInv, PartsWereAsked
<1>6. GotIsFaithful'
    BY <1>1 DEF RowsInv, GotIsFaithful, TypeOK
<1>7. ASSUME NEW i \in DOMAIN Rows(r)
      PROVE  OwnResult(r, i)'
    BY <1>1, <1>3, <1>4 DEF RowsRight, OwnResult
<1>8. ASSUME NEW i \in Live(r), KeyAt(r, i) \in DOMAIN got[r]
      PROVE  results[r][i] # None /\ HasStored(r, i)'
  <2>1. results[r][i] = ResultOf(r, i, got[r][KeyAt(r, i)])
    BY <1>1, <1>4, <1>8 DEF RowsRight
  <2>2. got[r][KeyAt(r, i)] \in Nat
    BY <1>8 DEF TypeOK
  <2>3. results[r][i] # None
    BY <1>3, <2>1, <2>2, CheckpointAssumption DEF ResultOf, Keys
  <2>4. rows[KeyAt(r, i)].n = results[r][i][2]
    BY <1>2, <1>8, <2>1 DEF ResultOf
  <2>5. \E p \in parts' : /\ p.fp = job[r].fp /\ KeyAt(r, i) \in DOMAIN p.rows
                          /\ p.rows[KeyAt(r, i)].n = results[r][i][2]
    BY <1>2, <1>8, <2>4
  <2> QED
    BY <2>3, <2>5, <1>1, <1>3 DEF HasStored
<1>9. ASSUME NEW i \in Live(r), results[r][i] # None
      PROVE  HasStored(r, i)'
  <2>1. CASE HasStored(r, i)
    BY <2>1, <1>1, <1>3 DEF HasStored
  <2>2. CASE ~HasStored(r, i)
    BY <2>2, <1>4, <1>8, <1>9 DEF RowsRight
  <2> QED
    BY <2>1, <2>2
<1>10. ASSUME NEW i \in Live(r), results[r][i] = None
       PROVE  \E j \in todo'[r] : KeyAt(r, j) = KeyAt(r, i)
  <2>1. PICK j \in todo[r] : KeyAt(r, j) = KeyAt(r, i)
    BY <1>1, <1>4, <1>10 DEF RowsRight, Planned
  <2>2. KeyAt(r, i) \notin ChunkKeys(r)
    BY <1>4, <1>8, <1>10
  <2>3. j \notin ChunkRows(r)
    BY <2>1, <2>2 DEF ChunkKeys
  <2> QED
    BY <2>1, <2>3, <1>1 DEF TypeOK
<1>11. RowsRight(r)'
    BY <1>1, <1>3, <1>4, <1>7, <1>9, <1>10 DEF RowsRight, Planned
<1>12. \A q \in Runs \ {r} : /\ pc'[q] = pc[q] /\ results'[q] = results[q]
                             /\ todo'[q] = todo[q] /\ got'[q] = got[q]
    BY <1>1 DEF PublishPart, Goto, TypeOK
<1> QED
    BY <1>1, <1>5, <1>6, <1>11, <1>12, OneRunMoves

LEMMA ReturnRight ==
    ASSUME TypeOK, RowsInv, NEW r \in Runs, Return(r)
    PROVE  RowsInv'
<1>1. /\ UNCHANGED <<job, results, todo, got, parts, calls>> /\ CallsGrow
      /\ pc[r] = "running" /\ pc'[r] = "done" /\ todo[r] = {}
    BY DEF Return, Goto, TypeOK, CallsGrow
<1>2. /\ Rows(r)' = Rows(r) /\ Live(r)' = Live(r) /\ \A i : KeyAt(r, i)' = KeyAt(r, i)
    BY <1>1, SameRows
<1>3. \A i : (OwnResult(r, i)' <=> OwnResult(r, i)) /\ (HasStored(r, i)' <=> HasStored(r, i))
    BY <1>1, <1>2 DEF OwnResult, HasStored
<1>4. RowsRight(r)'
    BY <1>1, <1>2, <1>3 DEF RowsInv, RowsRight, Planned
<1>5. \A q \in Runs \ {r} : /\ pc'[q] = pc[q] /\ results'[q] = results[q]
                            /\ todo'[q] = todo[q] /\ got'[q] = got[q]
    BY <1>1 DEF Return, Goto, TypeOK
<1> QED
    BY <1>1, <1>4, <1>5, AskedStaysAsked, OneRunMoves

LEMMA CrashRight ==
    ASSUME TypeOK, RowsInv, NEW r \in Runs, Crash(r) \/ CrashInFlight(r)
    PROVE  RowsInv'
<1>1. UNCHANGED <<job, parts>> /\ Goto(r, "crashed") /\ Forget(r)
    BY DEF Crash, CrashInFlight
<1>2. CallsGrow
  <2>1. CASE Crash(r)
    BY <2>1 DEF Crash, CallsGrow
  <2>2. CASE CrashInFlight(r)
    <3>1. PICK I \in SUBSET ChunkRows(r) : Request({KeyAt(r, i) : i \in I}, ChunkKeys(r))
      BY <2>2 DEF CrashInFlight
    <3>2. {KeyAt(r, i) : i \in I} \subseteq Keys
      BY ChunkIsPending DEF ChunkKeys
    <3> QED
      BY <3>1, <3>2, RequestGrows
  <2> QED
    BY <2>1, <2>2
<1> QED
    BY <1>1, <1>2, OutsideTheLoop DEF Planned

LEMMA RowsInvInductive ==
    ASSUME TypeOK, ChunkInv, RowsInv, [Next]_vars
    PROVE  RowsInv'
<1>1. CASE UNCHANGED vars
  <2>1. UNCHANGED <<pc, job, results, todo, got, parts, calls>> /\ CallsGrow
    BY <1>1 DEF vars, CallsGrow
  <2>2. PartsWereAsked' /\ GotIsFaithful'
    BY <2>1, AskedStaysAsked
  <2> QED
    BY <2>1, <2>2, OtherRowsStayRight DEF RowsInv
<1>2. ASSUME NEW r \in Runs, Start(r) \/ RefuseStore(r) \/ OpenStore(r)
      PROVE  RowsInv'
  <2>1. /\ UNCHANGED <<job, results, todo, got, parts, calls>> /\ CallsGrow
        /\ pc[r] \notin Planned
        /\ \E label \in {"opening", "refused", "loading"} : Goto(r, label)
    BY <1>2 DEF Start, RefuseStore, OpenStore, CallsGrow, Planned, Idle
  <2> QED
    BY <2>1, OutsideTheLoop DEF Planned
<1>3. ASSUME NEW r \in Runs, LoadAndPlan(r) \/ CallBackend(r) \/ WritePart(r)
      PROVE  RowsInv'
    BY <1>3, LoadAndPlanRight, CallBackendRight, WritePartRight
<1>4. ASSUME NEW r \in Runs, PublishPart(r) \/ Return(r)
      PROVE  RowsInv'
    BY <1>4, PublishPartRight, ReturnRight
<1>5. ASSUME NEW r \in Runs, Crash(r) \/ CrashInFlight(r)
      PROVE  RowsInv'
    BY <1>5, CrashRight
<1> QED
    BY <1>1, <1>2, <1>3, <1>4, <1>5 DEF Next, Step
-----------------------------------------------------------------------------
(***************************************************************************)
(* The rows of a column: the theorems.                                     *)
(***************************************************************************)
LEMMA RowsInvHolds == Spec => []RowsInv
<1>1. Init => RowsInv
  <2> SUFFICES ASSUME Init
               PROVE  RowsInv
    OBVIOUS
  <2>1. PartsWereAsked /\ GotIsFaithful
    BY DEF Init, PartsWereAsked, GotIsFaithful
  <2>2. ASSUME NEW r \in Runs
        PROVE  RowsRight(r)
    BY DEF Init, Blank, RowsRight, OwnResult, Planned, Idle, Rows, Live
  <2> QED
    BY <2>1, <2>2 DEF RowsInv
<1>2. TypeOK /\ ChunkInv /\ RowsInv /\ [Next]_vars => RowsInv'
    BY RowsInvInductive
<1> QED
    BY <1>1, <1>2, TypeCorrect, ChunkInvHolds, PTL DEF Spec

\* No row shows the answer of another key, and a run that returns has filled
\* every row that is not null, whatever mix of index hits, chunks, duplicates
\* and nulls its column is (ResultsAreFaithful; plan_collapse, fan_out).
THEOREM RowsShowTheirOwn == Spec => []ResultsAreFaithful
<1>1. TypeOK /\ RowsInv => ResultsAreFaithful
  <2> SUFFICES ASSUME TypeOK, RowsInv, NEW r \in Runs, NEW i \in DOMAIN Rows(r)
               PROVE  /\ OwnResult(r, i)
                      /\ (pc[r] = "done" /\ i \in Live(r)) => results[r][i] # None
    BY DEF ResultsAreFaithful, OwnResult
  <2> QED
    BY DEF RowsInv, RowsRight, Planned
<1> QED
    BY <1>1, RowsInvHolds, TypeCorrect, PTL

\* Rows with the same input show the answer of the same request, although other
\* runs store others for it meanwhile (DuplicateRowsAgree).
THEOREM DuplicatesShowOneAnswer == Spec => []DuplicateRowsAgree
<1>1. RowsInv => DuplicateRowsAgree
    BY DEF RowsInv, RowsRight, DuplicateRowsAgree, KeyAt
<1> QED
    BY <1>1, RowsInvHolds, PTL

\* Each answer that a run returned is in the store, under the run's own
\* configuration: a resumed run finds it (ReturnedIsStored).
THEOREM ReturnedStaysStored == Spec => []ReturnedIsStored
<1>1. RowsInv => ReturnedIsStored
  <2> SUFFICES ASSUME RowsInv, NEW r \in Runs, pc[r] = "done", NEW i \in Live(r)
               PROVE  HasStored(r, i)
    BY DEF ReturnedIsStored, HasStored
  <2>1. results[r][i] # None
    BY DEF RowsInv, RowsRight, Planned
  <2> QED
    BY <2>1 DEF RowsInv, RowsRight
<1> QED
    BY <1>1, RowsInvHolds, PTL
-----------------------------------------------------------------------------
(***************************************************************************)
(* Runs that follow one another.                                           *)
(*                                                                         *)
(* That no answered key is bought again is a matter of time stamps: the    *)
(* newest entry of a key says whether it was ever answered, because no     *)
(* part is older than one that an earlier run left and none that holds an  *)
(* answer is followed by another of its key (OkIsLast).  The rows a run    *)
(* still has to send stay free of stored answers as long as nobody else    *)
(* stores any (IsOpen).                                                    *)
(***************************************************************************)
Looping == {"running"} \cup Holding

Alone == \A q, r \in Active : q = r

TimesPast ==
    /\ \A p \in parts : p.ts <= clock
    /\ \A r \in Runs : pc[r] = "written" => draft[r] = clock

OwnKeys == \A p \in parts : \A k \in DOMAIN p.rows : k[1] = p.fp

OkIsLast ==
    \A p, q \in parts : \A k \in DOMAIN p.rows \cap DOMAIN q.rows :
        p.rows[k].ok => q.ts <= p.ts

IsOpen(r, k) == \A p \in parts : k \in DOMAIN p.rows => ~p.rows[k].ok /\ job[r].retry

TodoIsOpen(r) ==
    pc[r] \in Looping =>
        /\ \A i \in todo[r] : IsOpen(r, KeyAt(r, i))
        /\ \A i, j \in todo[r] : KeyAt(r, i) = KeyAt(r, j) => i = j
        /\ pc[r] \in Holding => todo[r] # {}

SoloInv == Alone /\ TimesPast /\ OwnKeys /\ OkIsLast /\ \A r \in Runs : TodoIsOpen(r)
-----------------------------------------------------------------------------
\* What others than r may do when nobody shares the store with r: nothing.
LEMMA NobodyElse ==
    ASSUME Alone, NEW r \in Runs, pc[r] \in Busy, NEW q \in Runs, q # r
    PROVE  pc[q] \notin Busy
BY DEF Alone, Active

LEMMA AloneStep ==
    ASSUME TypeOK, Alone, MaxActive = 1, [Next]_vars
    PROVE  Alone'
<1>1. ASSUME Active' \subseteq Active
      PROVE  Alone'
    BY <1>1 DEF Alone
<1>2. CASE UNCHANGED vars
    BY <1>1, <1>2 DEF vars, Active
<1>3. ASSUME NEW r \in Runs, Start(r)
      PROVE  Alone'
  <2>1. Active = {}
    <3> SUFFICES ASSUME NEW q \in Active
                 PROVE  FALSE
      OBVIOUS
    <3>1. Active = {q}
      BY DEF Alone
    <3>2. Cardinality(Active) = 1
      BY <3>1, FS_Singleton
    <3> QED
      BY <1>3, <3>2 DEF Start
  <2>2. Active' \subseteq {r}
    BY <1>3, <2>1 DEF Start, Goto, Active, TypeOK
  <2> QED
    BY <2>2 DEF Alone
<1>4. ASSUME NEW r \in Runs, Step(r) \/ Crash(r) \/ CrashInFlight(r)
      PROVE  Alone'
  <2>1. /\ pc[r] \in Busy
        /\ \A q \in Runs \ {r} : pc'[q] = pc[q]
    BY <1>4 DEF Step, RefuseStore, OpenStore, LoadAndPlan, CallBackend, WritePart,
                PublishPart, Return, Crash, CrashInFlight, Goto, Busy, TypeOK
  <2> QED
    BY <1>1, <2>1 DEF Active
<1> QED
    BY <1>2, <1>3, <1>4 DEF Next

\* A step that stores nothing, by which at most rows of r become pending.
LEMMA NothingStored ==
    ASSUME TypeOK, SoloInv, Alone', UNCHANGED <<job, parts, clock>>, NEW r \in Runs,
           \A q \in Runs \ {r} : pc'[q] = pc[q] /\ todo'[q] = todo[q] /\ draft'[q] = draft[q],
           pc'[r] # "written", TodoIsOpen(r)'
    PROVE  SoloInv'
<1>1. TimesPast'
    BY DEF SoloInv, TimesPast
<1>2. OwnKeys' /\ OkIsLast'
    BY DEF SoloInv, OwnKeys, OkIsLast
<1>3. ASSUME NEW q \in Runs \ {r}
      PROVE  TodoIsOpen(q)'
  <2>1. TodoIsOpen(q) /\ \A i : KeyAt(q, i)' = KeyAt(q, i)
    BY SameRows DEF SoloInv
  <2> QED
    BY <2>1 DEF TodoIsOpen, IsOpen
<1> QED
    BY <1>1, <1>2, <1>3 DEF SoloInv

\* What is not answered by the newest entry of a key is not answered at all.
LEMMA NewestTells ==
    ASSUME TypeOK, OwnKeys, OkIsLast, NEW r \in Runs, NEW idx \in Indexes(job[r].fp),
           NEW k, k[1] = job[r].fp, ~IsHit(r, idx, k)
    PROVE  IsOpen(r, k)
<1> SUFFICES ASSUME NEW p \in parts, k \in DOMAIN p.rows
             PROVE  ~p.rows[k].ok /\ job[r].retry
    BY DEF IsOpen
<1>1. p.fp = job[r].fp
    BY DEF OwnKeys
<1>2. k \in DOMAIN idx /\ idx[k] \in Newest(job[r].fp, k)
    BY <1>1 DEF Indexes, StoredKeys
<1>3. ~idx[k].ok /\ job[r].retry
    BY <1>2, CheckpointAssumption DEF IsHit, TypeOK
<1>4. idx[k] \in Entries(job[r].fp, k)
    BY <1>2 DEF Newest
<1>5. PICK q \in parts : k \in DOMAIN q.rows /\ idx[k].ts = q.ts
    BY <1>4 DEF Entries
<1> DEFINE e == [n |-> p.rows[k].n, ok |-> p.rows[k].ok, ts |-> p.ts]
<1>6. e \in Entries(job[r].fp, k)
    BY <1>1 DEF Entries
<1>7. NotOlder(idx[k], e)
    BY <1>2, <1>6 DEF Newest
<1>8. e.ok = p.rows[k].ok /\ e.ts = p.ts
    OBVIOUS
<1>9. p.ts \in Nat /\ q.ts \in Nat
    BY DEF TypeOK
<1>10. p.rows[k].ok => q.ts <= p.ts
    BY <1>5 DEF OkIsLast
<1> HIDE DEF e
<1> QED
    BY <1>3, <1>5, <1>7, <1>8, <1>9, <1>10 DEF NotOlder

LEMMA LoadAndPlanSolo ==
    ASSUME TypeOK, SoloInv, Alone', NEW r \in Runs, LoadAndPlan(r)
    PROVE  SoloInv'
<1>1. PICK idx \in Indexes(job[r].fp) :
          todo' = [todo EXCEPT ![r] =
                {i \in Live(r) : /\ ~IsHit(r, idx, KeyAt(r, i))
                                 /\ FirstOccurrence(r, i)}]
    BY DEF LoadAndPlan
<1>2. /\ UNCHANGED <<job, parts, clock>> /\ pc'[r] = "running"
      /\ \A q \in Runs \ {r} : pc'[q] = pc[q] /\ todo'[q] = todo[q] /\ draft'[q] = draft[q]
    BY <1>1 DEF LoadAndPlan, Goto, TypeOK
<1>3. \A i : KeyAt(r, i)' = KeyAt(r, i)
    BY <1>2, SameRows
<1>4. ASSUME NEW i \in todo'[r]
      PROVE  i \in Live(r) /\ i \in Nat /\ ~IsHit(r, idx, KeyAt(r, i)) /\ FirstOccurrence(r, i)
  <2>1. i \in Live(r) /\ ~IsHit(r, idx, KeyAt(r, i)) /\ FirstOccurrence(r, i)
    BY <1>1 DEF TypeOK
  <2> QED
    BY <2>1, RowNumbers
<1>5. ASSUME NEW i \in todo'[r]
      PROVE  IsOpen(r, KeyAt(r, i))'
  <2>1. IsOpen(r, KeyAt(r, i))
    BY <1>4, NewestTells DEF SoloInv, KeyAt
  <2> QED
    BY <1>2, <1>3, <2>1 DEF IsOpen
<1>6. ASSUME NEW i \in todo'[r], NEW j \in todo'[r], KeyAt(r, i) = KeyAt(r, j)
      PROVE  i = j
  <2>1. ~(i < j) /\ ~(j < i)
    BY <1>4, <1>6 DEF FirstOccurrence
  <2> QED
    BY <1>4, <2>1
<1>7. TodoIsOpen(r)'
    BY <1>2, <1>3, <1>5, <1>6 DEF TodoIsOpen, Holding
<1> QED
    BY <1>2, <1>7, NothingStored

LEMMA CallBackendSolo ==
    ASSUME TypeOK, SoloInv, Alone', NEW r \in Runs, CallBackend(r)
    PROVE  SoloInv'
<1>1. /\ UNCHANGED <<job, parts, clock, todo, draft>>
      /\ pc[r] = "running" /\ pc'[r] = "answered" /\ todo[r] # {}
      /\ \A q \in Runs \ {r} : pc'[q] = pc[q]
    BY DEF CallBackend, Goto, TypeOK
<1>2. TodoIsOpen(r) /\ \A i : KeyAt(r, i)' = KeyAt(r, i)
    BY <1>1, SameRows DEF SoloInv
<1>3. TodoIsOpen(r)'
    BY <1>1, <1>2 DEF TodoIsOpen, IsOpen, Looping
<1> QED
    BY <1>1, <1>3, NothingStored

\* The clock moves only when a part is written, and then to its time.
LEMMA WritePartSolo ==
    ASSUME TypeOK, SoloInv, Alone', NEW r \in Runs, WritePart(r)
    PROVE  SoloInv'
<1>1. /\ UNCHANGED <<job, parts, todo>>
      /\ pc[r] = "answered" /\ pc'[r] = "written"
      /\ \A q \in Runs \ {r} : pc'[q] = pc[q]
      /\ clock' \in {clock, clock + 1} /\ draft'[r] = clock'
    BY DEF WritePart, Goto, TypeOK
<1>2. \A q \in Runs \ {r} : pc[q] \notin Busy
    BY <1>1, NobodyElse DEF SoloInv, Busy
<1>3. TimesPast'
  <2>1. \A p \in parts : p.ts <= clock'
    BY <1>1 DEF SoloInv, TimesPast, TypeOK
  <2> QED
    BY <1>1, <1>2, <2>1 DEF TimesPast, Busy
<1>4. OwnKeys' /\ OkIsLast'
    BY <1>1 DEF SoloInv, OwnKeys, OkIsLast
<1>5. ASSUME NEW q \in Runs
      PROVE  TodoIsOpen(q)'
  <2>1. TodoIsOpen(q) /\ \A i : KeyAt(q, i)' = KeyAt(q, i)
    BY <1>1, SameRows DEF SoloInv
  <2>2. q # r => pc'[q] = pc[q]
    BY <1>1
  <2> QED
    BY <1>1, <2>1, <2>2 DEF TodoIsOpen, IsOpen, Looping, Holding
<1> QED
    BY <1>3, <1>4, <1>5 DEF SoloInv

\* The part is as new as any, it overrules no answer, and the rows still to
\* send have none of its keys.
LEMMA PublishPartSolo ==
    ASSUME TypeOK, ChunkInv, RowsInv, SoloInv, Alone', NEW r \in Runs, PublishPart(r)
    PROVE  SoloInv'
<1> DEFINE rows == ChunkResults(r)
           part == [run |-> r, ts |-> draft[r], fp |-> job[r].fp, rows |-> rows]
<1>1. /\ parts' = parts \cup {part}
      /\ todo' = [todo EXCEPT ![r] = @ \ ChunkRows(r)]
      /\ UNCHANGED <<job, clock>>
      /\ pc[r] = "written" /\ pc'[r] = "running"
      /\ \A q \in Runs \ {r} : pc'[q] = pc[q]
    BY DEF PublishPart, Goto, TypeOK
<1>2. part.ts = draft[r] /\ part.fp = job[r].fp /\ part.rows = rows /\ DOMAIN rows = DOMAIN got[r]
    BY DEF ChunkResults
<1> HIDE DEF part, rows
<1>3. /\ DOMAIN got[r] = ChunkKeys(r) /\ draft[r] = clock
      /\ \A k \in DOMAIN got[r] : k[1] = job[r].fp
    BY <1>1 DEF ChunkInv, ChunkLoop, Holding, SoloInv, TimesPast, RowsInv, GotIsFaithful
<1>4. \A q \in Runs \ {r} : pc[q] \notin Busy
    BY <1>1, NobodyElse DEF SoloInv, Busy
<1>5. \A p \in parts' : p.ts <= clock
    BY <1>1, <1>2, <1>3 DEF SoloInv, TimesPast, TypeOK
<1>6. TimesPast'
    BY <1>1, <1>4, <1>5 DEF TimesPast, Busy
<1>7. OwnKeys'
    BY <1>1, <1>2, <1>3 DEF SoloInv, OwnKeys
<1>8. TodoIsOpen(r) /\ ChunkRows(r) \subseteq todo[r] /\ pc[r] \in Looping
    BY <1>1, ChunkIsPending DEF SoloInv, Looping, Holding
<1>9. \A p \in parts : \A k \in DOMAIN p.rows \cap ChunkKeys(r) : ~p.rows[k].ok
    BY <1>8 DEF TodoIsOpen, IsOpen, ChunkKeys
<1>10. OkIsLast'
  <2> SUFFICES ASSUME NEW p \in parts', NEW q \in parts',
                      NEW k \in DOMAIN p.rows \cap DOMAIN q.rows, p.rows[k].ok
               PROVE  q.ts <= p.ts
    BY DEF OkIsLast
  <2>1. CASE p = part
    BY <1>2, <1>3, <1>5, <2>1
  <2>2. CASE p \in parts /\ q = part
    BY <1>2, <1>3, <1>9, <2>2
  <2>3. CASE p \in parts /\ q \in parts
    BY <2>3 DEF SoloInv, OkIsLast
  <2> QED
    BY <1>1, <2>1, <2>2, <2>3
<1>11. TodoIsOpen(r)'
  <2>1. todo'[r] = todo[r] \ ChunkRows(r) /\ \A i : KeyAt(r, i)' = KeyAt(r, i)
    BY <1>1, SameRows DEF TypeOK
  <2>2. ASSUME NEW i \in todo'[r]
        PROVE  IsOpen(r, KeyAt(r, i))'
    <3>1. KeyAt(r, i) \notin ChunkKeys(r)
      BY <1>8, <2>1 DEF TodoIsOpen, ChunkKeys
    <3>2. \A p \in parts : KeyAt(r, i) \in DOMAIN p.rows => ~p.rows[KeyAt(r, i)].ok /\ job[r].retry
      BY <1>8, <2>1 DEF TodoIsOpen, IsOpen
    <3>3. \A p \in parts' : KeyAt(r, i) \in DOMAIN p.rows => p \in parts
      BY <1>1, <1>2, <1>3, <3>1
    <3> QED
      BY <1>1, <2>1, <3>2, <3>3 DEF IsOpen
  <2> QED
    BY <1>1, <1>8, <2>1, <2>2 DEF TodoIsOpen, Holding
<1>12. ASSUME NEW q \in Runs \ {r}
       PROVE  TodoIsOpen(q)'
    BY <1>1, <1>4 DEF TodoIsOpen, Looping, Holding, Busy
<1> QED
    BY <1>6, <1>7, <1>10, <1>11, <1>12 DEF SoloInv

LEMMA SoloStep ==
    ASSUME TypeOK, ChunkInv, RowsInv, SoloInv, MaxActive = 1, [Next]_vars
    PROVE  SoloInv'
<1>1. Alone'
    BY AloneStep DEF SoloInv
<1>2. ASSUME NEW r \in Runs, UNCHANGED <<job, parts, clock>>,
             \A q \in Runs \ {r} : pc'[q] = pc[q] /\ todo'[q] = todo[q] /\ draft'[q] = draft[q],
             pc'[r] \notin Looping
      PROVE  SoloInv'
    BY <1>1, <1>2, NothingStored DEF TodoIsOpen, Looping, Holding
<1>3. CASE UNCHANGED vars
  <2>1. OwnKeys' /\ OkIsLast' /\ TimesPast'
    BY <1>3 DEF vars, SoloInv, OwnKeys, OkIsLast, TimesPast
  <2>2. ASSUME NEW q \in Runs
        PROVE  TodoIsOpen(q)'
    <3>1. TodoIsOpen(q) /\ \A i : KeyAt(q, i)' = KeyAt(q, i)
      BY <1>3, SameRows DEF vars, SoloInv
    <3> QED
      BY <1>3, <3>1 DEF vars, TodoIsOpen, IsOpen
  <2> QED
    BY <1>1, <2>1, <2>2 DEF SoloInv
<1>4. ASSUME NEW r \in Runs, Start(r) \/ RefuseStore(r) \/ OpenStore(r) \/ Return(r)
      PROVE  SoloInv'
  <2>1. /\ UNCHANGED <<job, parts, clock, todo, draft>>
        /\ \A q \in Runs \ {r} : pc'[q] = pc[q]
        /\ pc'[r] \in {"opening", "refused", "loading", "done"}
    BY <1>4 DEF Start, RefuseStore, OpenStore, Return, Goto, TypeOK
  <2> QED
    BY <1>2, <2>1 DEF Looping, Holding
<1>5. ASSUME NEW r \in Runs, Crash(r) \/ CrashInFlight(r)
      PROVE  SoloInv'
  <2>1. /\ UNCHANGED <<job, parts, clock>> /\ Forget(r) /\ Goto(r, "crashed")
    BY <1>5 DEF Crash, CrashInFlight
  <2>2. /\ \A q \in Runs \ {r} : pc'[q] = pc[q] /\ todo'[q] = todo[q] /\ draft'[q] = draft[q]
        /\ pc'[r] = "crashed"
    BY <2>1 DEF Forget, Goto, TypeOK
  <2> QED
    BY <1>2, <2>1, <2>2 DEF Looping, Holding
<1>6. ASSUME NEW r \in Runs, LoadAndPlan(r) \/ CallBackend(r) \/ WritePart(r) \/ PublishPart(r)
      PROVE  SoloInv'
    BY <1>1, <1>6, LoadAndPlanSolo, CallBackendSolo, WritePartSolo, PublishPartSolo
<1> QED
    BY <1>3, <1>4, <1>5, <1>6 DEF Next, Step

LEMMA SoloInvHolds ==
    ASSUME MaxActive = 1
    PROVE  Spec => []SoloInv
<1>1. Init => SoloInv
    BY DEF Init, SoloInv, Alone, Active, TimesPast, OwnKeys, OkIsLast, TodoIsOpen,
           Looping, Holding, Busy, Idle
<1>2. TypeOK /\ ChunkInv /\ RowsInv /\ SoloInv /\ [Next]_vars => SoloInv'
    BY SoloStep
<1> QED
    BY <1>1, <1>2, TypeCorrect, ChunkInvHolds, RowsInvHolds, PTL DEF Spec

\* A run pays only for what the store does not answer: no key stored ok and,
\* with retry_failed=False, none stored as failed.  Of runs that follow one
\* another; two that overlap buy the same keys (PaysOnlyForPending; load_index,
\* plan_collapse, the chunk loop).
THEOREM ResumePaysOnlyForPending ==
    ASSUME MaxActive = 1
    PROVE  Spec => PaysOnlyForPending
<1> DEFINE Pays == \A r \in Runs : \A k \in sent'[r] \ sent[r] :
                      \A p \in parts : k \in DOMAIN p.rows => ~p.rows[k].ok /\ job[r].retry
<1>1. TypeOK /\ SoloInv /\ [Next]_vars => [Pays]_vars
  <2> SUFFICES ASSUME TypeOK, SoloInv, Next
               PROVE  Pays
    OBVIOUS
  <2>1. ASSUME NEW r \in Runs, pc[r] = "running", NEW k \in ChunkKeys(r)
        PROVE  IsOpen(r, k)
    BY <2>1, ChunkIsPending DEF SoloInv, TodoIsOpen, Looping, ChunkKeys
  <2>2. ASSUME NEW r \in Runs, NEW K, K \subseteq ChunkKeys(r), pc[r] = "running",
               sent' = [sent EXCEPT ![r] = @ \cup K]
        PROVE  Pays
    BY <2>1, <2>2 DEF IsOpen, TypeOK
  <2>3. ASSUME NEW r \in Runs, CallBackend(r)
        PROVE  Pays
    BY <2>2, <2>3 DEF CallBackend
  <2>4. ASSUME NEW r \in Runs, CrashInFlight(r)
        PROVE  Pays
    <3>1. PICK I \in SUBSET ChunkRows(r) :
              sent' = [sent EXCEPT ![r] = @ \cup {KeyAt(r, i) : i \in I}]
      BY <2>4 DEF CrashInFlight
    <3>2. {KeyAt(r, i) : i \in I} \subseteq ChunkKeys(r)
      BY DEF ChunkKeys
    <3> QED
      BY <2>2, <2>4, <3>1, <3>2 DEF CrashInFlight
  <2>5. CASE sent' = sent
    BY <2>5
  <2> QED
    BY <2>3, <2>4, <2>5 DEF Next, Start, Step, RefuseStore, OpenStore, LoadAndPlan, WritePart,
                            PublishPart, Return, Crash
<1> QED
    BY <1>1, TypeCorrect, SoloInvHolds, PTL DEF Spec, PaysOnlyForPending
-----------------------------------------------------------------------------
(***************************************************************************)
(* Runs that follow one another implement MemoStore.                       *)
(***************************************************************************)
Bought == UNION {DOMAIN got[r] : r \in Runs}

\* Only what a key's entries are tells its status.
LEMMA SameStatus ==
    ASSUME NEW k, Entries(k[1], k)' = Entries(k[1], k)
    PROVE  Status(k)' = Status(k)
BY DEF Status, Newest

LEMMA SameMemo ==
    ASSUME \A k \in Keys : Status(k)' = Status(k)
    PROVE  UNCHANGED [k \in Keys |-> Status(k)]
<1>1. [k \in Keys |-> Status(k)'] = [k \in Keys |-> Status(k)]
    OBVIOUS
<1> QED
    BY <1>1

LEMMA SameCardinality ==
    ASSUME NEW S
    PROVE  Memo!Cardinality(S) = Cardinality(S)
BY DEF Memo!Cardinality, Cardinality

\* Only the run that holds a chunk has bought anything.
LEMMA BoughtByOne ==
    ASSUME TypeOK, ChunkInv, Alone, NEW r \in Runs, pc[r] \in Busy
    PROVE  Bought = DOMAIN got[r] /\ \A q \in Runs \ {r} : DOMAIN got[q] = {}
<1>1. \A q \in Runs \ {r} : DOMAIN got[q] = {}
    BY NobodyElse DEF ChunkInv, ChunkLoop, Holding, Busy
<1> QED
    BY <1>1 DEF Bought

\* Nobody has, when that run forgets it.
LEMMA NothingBought ==
    ASSUME TypeOK, NEW r \in Runs, \A q \in Runs \ {r} : DOMAIN got[q] = {},
           got' = [got EXCEPT ![r] = <<>>]
    PROVE  Bought' = {}
<1>1. \A q \in Runs : DOMAIN got'[q] = {}
    BY DEF TypeOK
<1> QED
    BY <1>1 DEF Bought

\* The first rows of a nonempty set are some.
LEMMA ChunkIsSome ==
    ASSUME TypeOK, NEW r \in Runs, todo[r] # {}
    PROVE  ChunkKeys(r) # {}
<1>1. todo[r] \in SUBSET Nat
    BY DEF TypeOK
<1>2. PICK m \in todo[r] : \A n \in todo[r] : m <= n
    BY <1>1, LeastOf
<1>3. {j \in todo[r] : j < m} = {}
    BY <1>1, <1>2
<1>4. Cardinality({j \in todo[r] : j < m}) < FlushEvery
  <2>1. Cardinality({}) = 0
    BY FS_EmptySet
  <2>2. FlushEvery \in Nat \ {0}
    BY CheckpointAssumption
  <2> QED
    BY <1>3, <2>1, <2>2
<1>5. m \in ChunkRows(r)
    BY <1>4 DEF ChunkRows, First
<1> QED
    BY <1>5 DEF ChunkKeys

LEMMA BuysFromMemo ==
    ASSUME TypeOK, ChunkInv, SoloInv, NEW r \in Runs, CallBackend(r),
           NEW K, K = ChunkKeys(r)
    PROVE  Memo!Buy(K)
<1>1. /\ pc[r] = "running" /\ pc[r] \in Busy /\ todo[r] # {} /\ UNCHANGED parts
      /\ got' = [got EXCEPT ![r] = [k \in ChunkKeys(r) |-> Len(calls[k]) + 1]]
    BY DEF CallBackend, Busy
<1>2. Bought = {}
    BY <1>1, BoughtByOne DEF SoloInv, ChunkInv, ChunkLoop, Holding
<1>3. Bought' = ChunkKeys(r)
    BY <1>1, <1>2 DEF Bought, TypeOK
<1>4. ChunkKeys(r) # {} /\ Cardinality(ChunkKeys(r)) <= FlushEvery
    BY <1>1, ChunkIsSome, ChunkIsSmall
<1>5. ASSUME NEW k \in ChunkKeys(r)
      PROVE  k \in Keys /\ Status(k) # "answered"
  <2>1. IsOpen(r, k) /\ k \in Keys
    BY <1>1, ChunkIsPending DEF SoloInv, TodoIsOpen, Looping, ChunkKeys
  <2>2. \A e \in Entries(k[1], k) : ~e.ok
    BY <2>1 DEF Entries, IsOpen
  <2> QED
    BY <2>1, <2>2 DEF Status, Newest
<1>6. UNCHANGED [k \in Keys |-> Status(k)]
    BY <1>1, SameStatus, SameMemo DEF Entries
<1>7. \A k \in ChunkKeys(r) : [q \in Keys |-> Status(q)][k] # "answered"
    BY <1>5
<1> QED
    BY <1>2, <1>3, <1>4, <1>6, <1>7, SameCardinality DEF Memo!Buy, Bought

\* A part tells something of each of its keys and nothing of others.
LEMMA CommitsToMemo ==
    ASSUME TypeOK, ChunkInv, RowsInv, SoloInv, NEW r \in Runs, PublishPart(r)
    PROVE  Memo!Commit
<1> DEFINE rows == ChunkResults(r)
           part == [run |-> r, ts |-> draft[r], fp |-> job[r].fp, rows |-> rows]
<1>1. /\ parts' = parts \cup {part} /\ got' = [got EXCEPT ![r] = <<>>]
      /\ pc[r] = "written" /\ pc[r] \in Busy
    BY DEF PublishPart, Busy
<1>2. part.fp = job[r].fp /\ part.rows = rows /\ DOMAIN rows = DOMAIN got[r]
    BY DEF ChunkResults
<1> HIDE DEF part, rows
<1>3. /\ DOMAIN got[r] = ChunkKeys(r) /\ ChunkKeys(r) # {} /\ ChunkKeys(r) \subseteq Keys
      /\ \A k \in DOMAIN got[r] : k[1] = job[r].fp
    BY <1>1, ChunkIsSome, ChunkIsPending
       DEF ChunkInv, ChunkLoop, Holding, SoloInv, TodoIsOpen, Looping, RowsInv, GotIsFaithful
<1>4. Bought = ChunkKeys(r) /\ Bought' = {}
    BY <1>1, <1>3, BoughtByOne, NothingBought DEF SoloInv
<1>5. [k \in Keys |-> Status(k)]' = [k \in Keys |-> Status(k)']
    OBVIOUS
<1>6. ASSUME NEW k \in ChunkKeys(r)
      PROVE  Status(k)' \in Memo!Known
  <2>1. Entries(k[1], k)' # {}
    BY <1>1, <1>2, <1>3 DEF Entries
  <2> QED
    BY <2>1 DEF Status, Memo!Known
<1>7. ASSUME NEW k \in Keys \ ChunkKeys(r)
      PROVE  Status(k)' = Status(k)
  <2>1. Entries(k[1], k)' = Entries(k[1], k)
    BY <1>1, <1>2, <1>3 DEF Entries
  <2> QED
    BY <2>1, SameStatus
<1> DEFINE known == [k \in ChunkKeys(r) |-> Status(k)']
<1>8. known \in [ChunkKeys(r) -> Memo!Known]
    BY <1>6
<1>9. [k \in Keys |-> Status(k)'] =
          [k \in Keys |-> IF k \in ChunkKeys(r) THEN known[k] ELSE [q \in Keys |-> Status(q)][k]]
    BY <1>3, <1>7
<1> HIDE DEF known
<1>10. known \in [Bought -> Memo!Known]
    BY <1>4, <1>8
<1>11. [k \in Keys |-> Status(k)]' =
          [k \in Keys |-> IF k \in Bought THEN known[k] ELSE [q \in Keys |-> Status(q)][k]]
    BY <1>4, <1>5, <1>9
<1>12. Bought # {} /\ Bought' = {}
    BY <1>3, <1>4
<1> QED
    BY <1>10, <1>11, <1>12 DEF Memo!Commit, Bought

\* A crash loses what was bought and not stored, if anything.
LEMMA CrashLoses ==
    ASSUME TypeOK, ChunkInv, SoloInv, NEW r \in Runs, Crash(r) \/ CrashInFlight(r)
    PROVE  Memo!Lose \/ UNCHANGED <<[k \in Keys |-> Status(k)], Bought>>
<1>1. /\ UNCHANGED parts /\ got' = [got EXCEPT ![r] = <<>>] /\ pc[r] \in Busy
    BY DEF Crash, CrashInFlight, Forget, Busy
<1>2. UNCHANGED [k \in Keys |-> Status(k)]
    BY <1>1, SameStatus, SameMemo DEF Entries
<1>3. Bought' = {}
    BY <1>1, BoughtByOne, NothingBought DEF SoloInv
<1> QED
    BY <1>2, <1>3 DEF Memo!Lose, Bought

LEMMA MemoStep ==
    ASSUME TypeOK, ChunkInv, RowsInv, SoloInv, [Next]_vars
    PROVE  [Memo!Next]_<<[k \in Keys |-> Status(k)], Bought>>
<1>1. CASE UNCHANGED <<parts, got>>
  <2>1. UNCHANGED [k \in Keys |-> Status(k)]
    BY <1>1, SameStatus, SameMemo DEF Entries
  <2> QED
    BY <1>1, <2>1 DEF Bought
<1>2. CASE UNCHANGED vars
    BY <1>1, <1>2 DEF vars
<1>3. ASSUME NEW r \in Runs,
             \/ Start(r) \/ RefuseStore(r) \/ OpenStore(r) \/ LoadAndPlan(r)
             \/ WritePart(r) \/ Return(r)
      PROVE  UNCHANGED <<parts, got>>
    BY <1>3 DEF Start, RefuseStore, OpenStore, LoadAndPlan, WritePart, Return
<1>4. ASSUME NEW r \in Runs, CallBackend(r)
      PROVE  Memo!Next
  <2>1. PICK K \in SUBSET Keys : K = ChunkKeys(r)
    BY ChunkIsPending
  <2>2. Memo!Buy(K)
    BY <1>4, <2>1, BuysFromMemo
  <2> QED
    BY <2>2 DEF Memo!Next
<1>5. ASSUME NEW r \in Runs, PublishPart(r)
      PROVE  Memo!Next
    BY <1>5, CommitsToMemo DEF Memo!Next
<1>6. ASSUME NEW r \in Runs, Crash(r) \/ CrashInFlight(r)
      PROVE  [Memo!Next]_<<[k \in Keys |-> Status(k)], Bought>>
    BY <1>6, CrashLoses DEF Memo!Next
<1> QED
    BY <1>1, <1>2, <1>3, <1>4, <1>5, <1>6 DEF Next, Step

\* Runs that follow one another over an append-only directory, crashing where
\* they may, are a memo of the keys: chunks enter it whole or not at all, and
\* an answer is never bought again or hidden (ImplementsMemo; append,
\* load_index, the chunk loop).
THEOREM ResumeImplementsMemo ==
    ASSUME MaxActive = 1
    PROVE  Spec => ImplementsMemo
<1>1. Init => Memo!Init
  <2> SUFFICES ASSUME Init
               PROVE  Memo!Init
    OBVIOUS
  <2>1. \A k \in Keys : Status(k) = "unknown"
    BY DEF Init, Status, Entries
  <2>2. Bought = {}
    BY DEF Init, Bought
  <2> QED
    BY <2>1, <2>2 DEF Memo!Init, Bought
<1>2. TypeOK /\ ChunkInv /\ RowsInv /\ SoloInv /\ [Next]_vars
          => [Memo!Next]_<<[k \in Keys |-> Status(k)], UNION {DOMAIN got[r] : r \in Runs}>>
    BY MemoStep DEF Bought
<1> QED
    BY <1>1, <1>2, TypeCorrect, ChunkInvHolds, RowsInvHolds, SoloInvHolds, PTL
       DEF Spec, ImplementsMemo, Memo!Spec
=============================================================================
