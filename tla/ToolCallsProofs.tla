--------------------------- MODULE ToolCallsProofs ---------------------------
(***************************************************************************)
(* What is listed of a server's tools, and what a batch of calls tells of  *)
(* each of them, for any pages, any columns and any concurrency.           *)
(***************************************************************************)
EXTENDS ToolCalls, FiniteSetTheorems, WellFoundedInduction, TLAPS
-----------------------------------------------------------------------------
(***************************************************************************)
(* The definition of FirstPages is good: it has what it says.              *)
(***************************************************************************)
Pieces(f, m) == f = [n \in 0..m |-> IF n = 0 THEN <<>> ELSE f[n - 1] \o Pages[n]]

LEMMA PagesAreMany == Len(Pages) \in Nat \ {0} /\ DOMAIN Pages = 1..Len(Pages)
BY ToolAssumption

\* Of the numbers at which something fails there is a least one.
LEMMA LeastOf ==
    ASSUME NEW S \in SUBSET Nat, S # {}
    PROVE  \E m \in S : \A n \in S : m <= n
<1>1. PICK m \in S : \A n \in S : ~(<<n, m>> \in OpToRel(<, Nat))
    BY WFMin, NatLessThanWellFounded
<1>2. \A n \in S : ~(n < m)
    BY <1>1 DEF OpToRel
<1> QED
    BY <1>2, \A n \in S : n \in Nat

LEMMA PiecesExist ==
    ASSUME NEW m \in Nat
    PROVE  \E f : Pieces(f, m)
<1> DEFINE Bad == {n \in Nat : ~\E f : Pieces(f, n)}
<1> SUFFICES ASSUME Bad # {}
             PROVE  FALSE
    OBVIOUS
<1>1. PICK n \in Bad : \A l \in Bad : n <= l
  <2>1. Bad \in SUBSET Nat
    OBVIOUS
  <2> HIDE DEF Bad
  <2> QED
    BY <2>1, LeastOf
<1>2. n \in Nat /\ ~\E f : Pieces(f, n)
    OBVIOUS
<1>3. CASE n = 0
  <2> DEFINE g == [l \in 0..0 |-> <<>>]
  <2>1. g = [l \in 0..0 |-> IF l = 0 THEN <<>> ELSE g[l - 1] \o Pages[l]]
    OBVIOUS
  <2> HIDE DEF g
  <2> QED
    BY <1>2, <1>3, <2>1 DEF Pieces
<1>4. CASE n # 0
  <2>1. n - 1 \in Nat /\ n - 1 \notin Bad
    BY <1>1, <1>2, <1>4
  <2>2. PICK f : Pieces(f, n - 1)
    BY <2>1
  <2> DEFINE g == [l \in 0..n |-> IF l = n THEN f[n - 1] \o Pages[n] ELSE f[l]]
             h == [l \in 0..n |-> IF l = 0 THEN <<>> ELSE g[l - 1] \o Pages[l]]
  <2>3. ASSUME NEW l \in 0..n
        PROVE  g[l] = h[l]
    <3>1. CASE l = n
      <4>1. g[n - 1] = f[n - 1]
        BY <1>2, <1>4
      <4> QED
        BY <1>2, <1>4, <3>1, <4>1
    <3>2. CASE l # n /\ l # 0
      <4>1. l \in 0..(n - 1) /\ l - 1 \in 0..n /\ l - 1 # n
        BY <1>2, <3>2
      <4>2. f[l] = f[l - 1] \o Pages[l]
        BY <2>2, <3>2, <4>1 DEF Pieces
      <4> QED
        BY <3>2, <4>1, <4>2
    <3>3. CASE l = 0 /\ l # n
      <4>1. f[0] = <<>>
        BY <2>1, <2>2 DEF Pieces
      <4> QED
        BY <3>3, <4>1
    <3> QED
      BY <3>1, <3>2, <3>3
  <2>4. g = h
    BY <2>3
  <2>5. Pieces(g, n)
    <3> HIDE DEF g
    <3> QED
      BY <2>4 DEF Pieces
  <2> QED
    BY <1>2, <2>5
<1> QED
    BY <1>3, <1>4

LEMMA FirstPagesUnfolds ==
    /\ FirstPages[0] = <<>>
    /\ \A n \in 1..Len(Pages) : FirstPages[n] = FirstPages[n - 1] \o Pages[n]
<1>1. \E f : Pieces(f, Len(Pages))
    BY PagesAreMany, PiecesExist
<1>2. FirstPages = CHOOSE f : Pieces(f, Len(Pages))
    BY DEF FirstPages, Pieces
<1>3. Pieces(FirstPages, Len(Pages))
    BY <1>1, <1>2
<1> QED
    BY <1>3, PagesAreMany DEF Pieces

LEMMA FirstPagesAreTools ==
    ASSUME NEW m \in 0..Len(Pages)
    PROVE  FirstPages[m] \in Seq(Tools)
<1> DEFINE Bad == {n \in 0..Len(Pages) : FirstPages[n] \notin Seq(Tools)}
<1> SUFFICES ASSUME Bad # {}
             PROVE  FALSE
    OBVIOUS
<1>1. PICK n \in Bad : \A l \in Bad : n <= l
  <2>1. Bad \in SUBSET Nat
    BY PagesAreMany
  <2> HIDE DEF Bad
  <2> QED
    BY <2>1, LeastOf
<1>2. n # 0
  <2>1. <<>> \in Seq(Tools)
    OBVIOUS
  <2>2. FirstPages[0] \in Seq(Tools)
    BY <2>1, FirstPagesUnfolds
  <2> QED
    BY <2>2
<1>3. n \in 1..Len(Pages) /\ n - 1 \in 0..Len(Pages) /\ ~(n <= n - 1)
    BY <1>2, PagesAreMany
<1>4. FirstPages[n - 1] \in Seq(Tools)
  <2>1. n - 1 \notin Bad
    <3> HIDE DEF Bad
    <3> QED
      BY <1>1, <1>3
  <2> QED
    BY <1>3, <2>1
<1>5. Pages[n] \in Seq(Tools) /\ FirstPages[n] = FirstPages[n - 1] \o Pages[n]
  <2>1. Pages \in Seq(Seq(Tools)) /\ n \in DOMAIN Pages
    BY <1>3, PagesAreMany, ToolAssumption
  <2>2. Pages[n] \in Seq(Tools)
    BY <2>1
  <2> QED
    BY <1>3, <2>2, FirstPagesUnfolds
<1>6. FirstPages[n] \in Seq(Tools)
    BY <1>4, <1>5
<1> QED
    BY <1>6
-----------------------------------------------------------------------------
(***************************************************************************)
(* Types.  The calls of a row stay a sequence when its null calls go.      *)
(***************************************************************************)
Width(row) == \E n \in Nat : DOMAIN row = 1..n

Shaped ==
    \A r \in DOMAIN rows : r \in Nat /\ (rows[r] \in {Null, Unreadable} \/ Width(rows[r]))

Typed ==
    /\ pc \in {"listing", "submitted", "calling", "returned", "rendered", "raised"}
    /\ channel \in {"http", "stdio", None}
    /\ asked \in 0..Len(Pages)
    /\ cursor \in Nat
    /\ Shaped
    /\ task \in [Flat -> {"queued", "running"} \cup Over]
    /\ ran \in [Flat -> {0, 1}]
    /\ result \in [Flat -> {None, "timed_out"} \cup Over]

LEMMA CallsKeepShape ==
    ASSUME NEW row \in Seq(Call \cup {Null})
    PROVE  Width(Calls(row))
<1> DEFINE Kept == {i \in DOMAIN row : row[i] # Null}
<1>1. DOMAIN row = 1..Len(row) /\ Len(row) \in Nat
    OBVIOUS
<1>2. IsFiniteSet(Kept)
  <2>1. IsFiniteSet(1..Len(row)) /\ Kept \subseteq 1..Len(row)
    BY <1>1, FS_Interval
  <2> HIDE DEF Kept
  <2> QED
    BY <2>1, FS_Subset
<1>3. Cardinality(Kept) \in Nat
  <2> HIDE DEF Kept
  <2> QED
    BY <1>2, FS_CardinalityType
<1>4. DOMAIN Calls(row) = 1..Cardinality(Kept)
    BY DEF Calls
<1> HIDE DEF Kept
<1> QED
    BY <1>3, <1>4 DEF Width

\* A call's place is a pair of a row and a place in it.
LEMMA Places ==
    ASSUME NEW c \in Flat
    PROVE  /\ c[1] \in DOMAIN rows /\ rows[c[1]] \notin {Null, Unreadable}
           /\ c[2] \in DOMAIN rows[c[1]] /\ c = <<c[1], c[2]>>
BY DEF Flat, HasCalls
-----------------------------------------------------------------------------
(***************************************************************************)
(* The tools that are listed.                                              *)
(***************************************************************************)
Listed ==
    /\ pc = "listing" => channel # None
    /\ channel # None =>
          IF Crossed
          THEN specs = FirstPages[asked - 1] /\ cursor = 0
          ELSE specs = FirstPages[asked] /\ cursor = IF asked < Len(Pages) THEN asked + 1 ELSE 0

\* Whatever comes around it, the response to a request is what is found, but
\* for a request of the server's own that is read first over stdio.
LEMMA ResponseFound ==
    ASSUME NEW id \in Nat \ {0}, channel \in {"http", "stdio"}, NEW body \in Bodies(id)
    PROVE  Extract(body, id) = IF channel = "stdio" /\ body[1] = Ping(id) THEN 0 ELSE id
<1> DEFINE Hits == {n \in DOMAIN body : IF channel = "http" THEN body[n].page # 0
                                        ELSE body[n].id = id}
           Pick(n) == \A m \in Hits : IF channel = "http" THEN m <= n ELSE n <= m
           found == IF channel = "stdio" /\ body[1] = Ping(id) THEN 0 ELSE id
<1>1. \E k \in DOMAIN body : k \in Hits /\ Pick(k) /\ body[k].page = found /\ k \in Nat
  <2>1. \A e \in Noise : e.page = 0 /\ (e.id = id => e = Ping(id))
    BY DEF Noise, Progress, Ping
  <2>2. /\ Response(id).id = id /\ Response(id).page = id
        /\ Ping(id).id = id /\ Ping(id).page = 0 /\ Response(id) # Ping(id)
    BY DEF Response, Ping
  <2>3. CASE body = <<Response(id)>>
    <3>1. DOMAIN body = {1} /\ body[1] = Response(id)
      BY <2>3
    <3> QED
      BY <2>2, <3>1
  <2>4. ASSUME NEW e \in Noise, body = <<e, Response(id)>>
        PROVE  \E k \in DOMAIN body : k \in Hits /\ Pick(k) /\ body[k].page = found /\ k \in Nat
    <3>1. DOMAIN body = {1, 2} /\ body[1] = e /\ body[2] = Response(id)
      BY <2>4
    <3>2. CASE channel = "stdio" /\ e = Ping(id)
      <4>1. 1 \in Hits /\ body[1].page = found
        BY <2>2, <3>1, <3>2
      <4>2. Pick(1)
        BY <3>1, <3>2
      <4> QED
        BY <3>1, <4>1, <4>2
    <3>3. CASE ~(channel = "stdio" /\ e = Ping(id))
      <4>1. Hits = {2} /\ body[2].page = found
        BY <2>1, <2>2, <3>1, <3>3
      <4> QED
        BY <3>1, <4>1
    <3> QED
      BY <3>2, <3>3
  <2>5. ASSUME NEW e \in Noise, body = <<Response(id), e>>, channel = "http"
        PROVE  \E k \in DOMAIN body : k \in Hits /\ Pick(k) /\ body[k].page = found /\ k \in Nat
    <3>1. DOMAIN body = {1, 2} /\ body[1] = Response(id) /\ body[2] = e
      BY <2>5
    <3>2. Hits = {1} /\ body[1].page = found
      BY <2>1, <2>2, <2>5, <3>1
    <3> QED
      BY <3>1, <3>2
  <2> QED
    BY <2>3, <2>4, <2>5 DEF Bodies
<1>2. PICK k \in DOMAIN body : k \in Hits /\ Pick(k) /\ body[k].page = found /\ k \in Nat
    BY <1>1
<1>3. (CHOOSE n \in Hits : Pick(n)) = k
  <2>1. Hits \subseteq Nat
    <3>1. DOMAIN body \in {{1}, {1, 2}}
      BY DEF Bodies
    <3> QED
      BY <3>1
  <2>2. \A n \in Hits : Pick(n) => n = k
    BY <1>2, <2>1
  <2> HIDE DEF Hits, Pick
  <2> QED
    BY <1>2, <2>2
<1>4. Extract(body, id) = body[CHOOSE n \in Hits : Pick(n)].page
    BY DEF Extract
<1> QED
    BY <1>2, <1>3, <1>4

\* Over stdio a request of the server's own is read before the response.
LEMMA PingsComeFirst ==
    ASSUME NEW id \in Nat \ {0}, channel = "stdio", NEW body \in Bodies(id)
    PROVE  body[1] = Ping(id) <=> \E n \in DOMAIN body : body[n] = Ping(id)
<1>1. Response(id) # Ping(id)
    BY DEF Response, Ping
<1>2. CASE body = <<Response(id)>>
    BY <1>1, <1>2
<1>3. ASSUME NEW e \in Noise, body = <<e, Response(id)>>
      PROVE  body[1] = Ping(id) <=> \E n \in DOMAIN body : body[n] = Ping(id)
  <2>1. DOMAIN body = {1, 2} /\ body[1] = e /\ body[2] = Response(id)
    BY <1>3
  <2> QED
    BY <1>1, <2>1
<1> QED
    BY <1>2, <1>3 DEF Bodies

LEMMA ListPageLists ==
    ASSUME Typed, Listed, ListPage
    PROVE  Listed' /\ asked' \in 0..Len(Pages) /\ cursor' \in Nat
<1>1. PICK body \in Bodies(asked + 1) :
          /\ specs' = specs \o (IF Extract(body, asked + 1) = 0 THEN <<>> ELSE Pages[Extract(body, asked + 1)])
          /\ cursor' = IF Extract(body, asked + 1) \in 1..(Len(Pages) - 1)
                       THEN Extract(body, asked + 1) + 1 ELSE 0
          /\ heard' = body
    BY DEF ListPage
<1>2. channel \in {"http", "stdio"} /\ pc' = pc /\ channel' = channel /\ asked' = asked + 1
    BY DEF ListPage, Listed, Typed
<1>3. ~Crossed /\ specs = FirstPages[asked] /\ asked < Len(Pages)
    BY <1>2 DEF ListPage, Listed
<1>4. /\ asked \in Nat /\ Len(Pages) \in Nat /\ asked + 1 \in 1..Len(Pages) /\ asked + 1 \in Nat \ {0}
      /\ (asked + 1) - 1 = asked
    BY <1>3, PagesAreMany DEF Typed
<1>5. Extract(body, asked + 1) =
         IF channel = "stdio" /\ body[1] = Ping(asked + 1) THEN 0 ELSE asked + 1
    BY <1>2, <1>4, ResponseFound
<1>6. Crossed' <=> channel = "stdio" /\ body[1] = Ping(asked + 1)
  <2>1. CASE channel = "stdio"
    <3>1. body[1] = Ping(asked + 1) <=> \E n \in DOMAIN body : body[n] = Ping(asked + 1)
      BY <1>4, <2>1, PingsComeFirst
    <3> QED
      BY <1>1, <1>2, <2>1, <3>1 DEF Crossed
  <2> QED
    BY <1>2, <2>1 DEF Crossed
<1>7. CASE channel = "stdio" /\ body[1] = Ping(asked + 1)
  <2>1. Extract(body, asked + 1) = 0
    BY <1>5, <1>7
  <2>2. specs' = specs \o <<>> /\ cursor' = 0
    BY <1>1, <2>1
  <2>3. FirstPages[asked] \in Seq(Tools)
    BY <1>4, FirstPagesAreTools
  <2>4. specs' = FirstPages[asked' - 1]
    BY <1>2, <1>3, <1>4, <2>2, <2>3
  <2> QED
    BY <1>2, <1>4, <1>6, <1>7, <2>2, <2>4 DEF Listed
<1>8. CASE ~(channel = "stdio" /\ body[1] = Ping(asked + 1))
  <2>1. Extract(body, asked + 1) = asked + 1
    BY <1>5, <1>8
  <2>2. specs' = specs \o Pages[asked + 1]
    BY <1>1, <1>4, <2>1
  <2>3. cursor' = IF asked' < Len(Pages) THEN asked' + 1 ELSE 0
    BY <1>1, <1>2, <1>4, <2>1
  <2>4. FirstPages[asked + 1] = FirstPages[asked] \o Pages[asked + 1]
    BY <1>4, FirstPagesUnfolds
  <2>5. specs' = FirstPages[asked']
    BY <1>2, <1>3, <2>2, <2>4
  <2> QED
    BY <1>2, <1>4, <1>6, <1>8, <2>3, <2>5 DEF Listed
<1> QED
    BY <1>7, <1>8
-----------------------------------------------------------------------------
(***************************************************************************)
(* What is known of a call.  Its task and its record agree when the record *)
(* is not a timeout; a task says content only of what ran.                 *)
(***************************************************************************)
CallTrue(c) ==
    /\ task[c] = "queued" => ran[c] = 0
    /\ task[c] = "content" => ran[c] = 1
    /\ task[c] = "refused" => ran[c] = 0
    /\ Refused(At(c)) => task[c] \in {"queued", "refused"}
    /\ result[c] \in Over => result[c] = task[c]

NothingYet == \A c \in Flat : task[c] = "queued" /\ result[c] = None

(***************************************************************************)
(* The results column, and the message column made of it.                  *)
(***************************************************************************)
Results ==
    [r \in DOMAIN rows |->
        IF rows[r] = Null THEN Null
        ELSE IF rows[r] = Unreadable THEN <<RowError>>
        ELSE [k \in DOMAIN rows[r] |-> Entry(<<r, k>>)]]
Messages ==
    [r \in DOMAIN rows |->
        IF rows[r] = Null THEN Null
        ELSE IF rows[r] = Unreadable THEN <<Line(RowError)>>
        ELSE [k \in DOMAIN rows[r] |-> Line(Entry(<<r, k>>))]]

BatchTrue ==
    /\ pc \in {"listing", "submitted"} => NothingYet
    /\ pc \in {"returned", "rendered"} => \A c \in Flat : result[c] # None
    /\ pc = "returned" => out = Results
    /\ pc = "rendered" => out = Messages

ToolInv == Typed /\ Listed /\ (\A c \in Flat : CallTrue(c)) /\ BatchTrue

\* Verdicts are not mistaken for one another.
LEMMA VerdictsApart == None \notin Over /\ None # "timed_out" /\ None # "http" /\ None # "stdio"
BY ToolAssumption

LEMMA SamePlaces ==
    ASSUME rows' = rows
    PROVE  Flat' = Flat /\ \A c \in Flat : At(c)' = At(c)
BY DEF Flat, HasCalls, At

\* A refusal depends on the call, the target and what was listed.
LEMMA SameRefusals ==
    ASSUME UNCHANGED <<rows, target, specs>>, NEW c \in Flat
    PROVE  Refused(At(c))' <=> Refused(At(c))
BY DEF Refused, At, Known

\* A step of one call, with the batch where it is.
LEMMA OneCallMoves ==
    ASSUME ToolInv, UNCHANGED <<pc, target, listing, rows, out>>, NEW c \in Flat,
           Typed', CallTrue(c)', pc \notin {"listing", "submitted"},
           \A d \in Flat \ {c} : task'[d] = task[d] /\ ran'[d] = ran[d] /\ result'[d] = result[d],
           pc \in {"returned", "rendered"} => result'[c] = result[c]
    PROVE  ToolInv'
<1>1. Flat' = Flat
    BY SamePlaces
<1>2. ASSUME NEW d \in Flat \ {c}
      PROVE  CallTrue(d)'
    BY <1>2, SameRefusals DEF ToolInv, CallTrue, listing
<1>3. BatchTrue'
  <2>1. CASE pc \in {"returned", "rendered"}
    <3>1. result' = result
      BY <1>1, <2>1 DEF ToolInv, Typed
    <3>2. Results' = Results /\ Messages' = Messages
      BY <3>1 DEF Results, Messages, Entry
    <3> QED
      BY <1>1, <2>1, <3>1, <3>2 DEF ToolInv, BatchTrue
  <2>2. CASE pc \notin {"returned", "rendered"}
    BY <2>2 DEF BatchTrue
  <2> QED
    BY <2>1, <2>2
<1>4. Listed'
    BY DEF ToolInv, Listed, Crossed, listing
<1> QED
    BY <1>1, <1>2, <1>3, <1>4 DEF ToolInv

LEMMA StartTrue ==
    ASSUME ToolInv, NEW c \in Flat, Start(c)
    PROVE  ToolInv'
<1> USE DEF ToolInv, Typed
<1>1. /\ pc = "calling" /\ task[c] = "queued" /\ ran[c] = 0 /\ result[c] \notin Over
      /\ UNCHANGED <<pc, target, listing, rows, result, out>> /\ Flat' = Flat
    BY SamePlaces DEF Start, CallTrue, Over
<1>2. CASE Refused(At(c))
  <2>1. task' = [task EXCEPT ![c] = "refused"] /\ ran' = ran
    BY <1>2 DEF Start
  <2>2. Typed'
    BY <1>1, <2>1 DEF Shaped, Width, listing, Over
  <2>3. CallTrue(c)'
    BY <1>1, <2>1 DEF CallTrue
  <2> QED
    BY <1>1, <2>1, <2>2, <2>3, OneCallMoves
<1>3. CASE ~Refused(At(c))
  <2>1. /\ task' = [task EXCEPT ![c] = "running"]
        /\ ran' = IF target = "executor" THEN [ran EXCEPT ![c] = @ + 1] ELSE ran
    BY <1>3 DEF Start
  <2>2. ran' \in [Flat -> {0, 1}] /\ \A d \in Flat \ {c} : ran'[d] = ran[d]
    BY <1>1, <2>1
  <2>3. Typed'
    BY <1>1, <2>1, <2>2 DEF Shaped, Width, listing
  <2>4. CallTrue(c)'
    BY <1>1, <1>3, <2>1, SameRefusals DEF CallTrue, listing
  <2> QED
    BY <1>1, <2>1, <2>2, <2>3, <2>4, OneCallMoves
<1> QED
    BY <1>2, <1>3

LEMMA ServeTrue ==
    ASSUME ToolInv, NEW c \in Flat, Serve(c)
    PROVE  ToolInv'
<1> USE DEF ToolInv, Typed
<1>1. /\ task[c] \in {"running", "failed"} /\ pc \notin {"listing", "submitted"}
      /\ UNCHANGED <<pc, target, listing, rows, task, result, out>> /\ Flat' = Flat
      /\ ran' = [ran EXCEPT ![c] = 1]
    BY SamePlaces DEF Serve, BatchTrue, NothingYet
<1>2. Typed'
    BY <1>1 DEF Shaped, Width, listing
<1>3. CallTrue(c)'
    BY <1>1, SameRefusals DEF CallTrue, listing
<1> QED
    BY <1>1, <1>2, <1>3, OneCallMoves

LEMMA EndsTrue ==
    ASSUME ToolInv, NEW c \in Flat, Answer(c) \/ Expire(c)
    PROVE  ToolInv'
<1> USE DEF ToolInv, Typed
<1>1. PICK how \in {"content", "tool_error", "failed"} :
          /\ task' = [task EXCEPT ![c] = how]
          /\ how = "content" => ran[c] = 1
    BY DEF Answer, Expire
<1>2. /\ task[c] = "running" /\ pc \notin {"listing", "submitted"}
      /\ UNCHANGED <<pc, target, listing, rows, ran, result, out>> /\ Flat' = Flat
      /\ result[c] \notin Over /\ ~Refused(At(c))
    BY SamePlaces DEF Answer, Expire, BatchTrue, NothingYet, CallTrue, Over
<1>3. Typed'
    BY <1>1, <1>2 DEF Shaped, Width, listing, Over
<1>4. CallTrue(c)'
    BY <1>1, <1>2, SameRefusals DEF CallTrue, listing
<1> QED
    BY <1>1, <1>2, <1>3, <1>4, OneCallMoves

LEMMA RecordsTrue ==
    ASSUME ToolInv, NEW c \in Flat, Collect(c) \/ TimeOut(c)
    PROVE  ToolInv'
<1> USE DEF ToolInv, Typed
<1>1. PICK how \in Over \cup {"timed_out"} :
          /\ result' = [result EXCEPT ![c] = how]
          /\ how \in Over => how = task[c]
    BY DEF Collect, TimeOut, Over
<1>2. /\ pc = "calling"
      /\ UNCHANGED <<pc, target, listing, rows, task, ran, out>> /\ Flat' = Flat
    BY SamePlaces DEF Collect, TimeOut
<1>3. Typed'
    BY <1>1, <1>2 DEF Shaped, Width, listing
<1>4. CallTrue(c)'
    BY <1>1, <1>2, SameRefusals DEF CallTrue, listing
<1> QED
    BY <1>1, <1>2, <1>3, <1>4, OneCallMoves

\* A step of the batch, with the calls where they are.
LEMMA BatchMoves ==
    ASSUME ToolInv, UNCHANGED <<target, channel, rows, calls>>,
           Listed', asked' \in 0..Len(Pages), cursor' \in Nat,
           UNCHANGED specs \/ pc = "listing",
           pc' \in {"listing", "submitted", "calling", "returned", "rendered", "raised"},
           BatchTrue'
    PROVE  ToolInv'
<1> USE DEF ToolInv, Typed, calls
<1>1. Flat' = Flat
    BY SamePlaces
<1>2. Typed'
    BY <1>1 DEF Shaped, Width
<1>3. ASSUME NEW c \in Flat
      PROVE  CallTrue(c)'
  <2>1. CASE UNCHANGED specs
    BY <2>1, SameRefusals DEF CallTrue
  <2>2. CASE pc = "listing"
    <3>1. task[c] = "queued" /\ result[c] = None /\ ran[c] = 0
      BY <2>2 DEF BatchTrue, NothingYet, CallTrue
    <3> QED
      BY <3>1, VerdictsApart DEF CallTrue
  <2> QED
    BY <2>1, <2>2
<1> QED
    BY <1>1, <1>2, <1>3

\* Before the calls begin, nothing is recorded; when a batch is given up,
\* nothing is claimed.
LEMMA BeforeTrue ==
    ASSUME ToolInv, ListPage \/ ListFails \/ ListDone \/ Begin \/ ConnectFails
    PROVE  ToolInv'
<1>1. /\ UNCHANGED <<target, channel, rows, calls, out>>
      /\ pc \in {"listing", "submitted"}
      /\ pc' \in {"listing", "submitted", "calling", "raised"}
      /\ UNCHANGED specs \/ pc = "listing"
    BY DEF ListPage, ListFails, ListDone, Begin, ConnectFails, listing
<1>2. Listed' /\ asked' \in 0..Len(Pages) /\ cursor' \in Nat
  <2>1. CASE ListPage
    BY <2>1, ListPageLists DEF ToolInv
  <2>2. CASE ListFails \/ ListDone \/ Begin \/ ConnectFails
    BY <2>2 DEF ListFails, ListDone, Begin, ConnectFails, listing, ToolInv, Listed, Crossed, Typed
  <2> QED
    BY <2>1, <2>2
<1>3. Flat' = Flat
    BY <1>1, SamePlaces
<1>4. BatchTrue'
    BY <1>1, <1>3 DEF ToolInv, BatchTrue, NothingYet, calls
<1> QED
    BY <1>1, <1>2, <1>4, BatchMoves

\* A column of results is no null, so none of them is lost in the message.
LEMMA ResultsAreNoNull ==
    ASSUME ToolInv, \A c \in Flat : result[c] # None, NEW r \in DOMAIN rows, rows[r] # Null
    PROVE  Results[r] # Null
<1> USE DEF ToolInv, Typed
<1>1. CASE rows[r] = Unreadable
  <2>1. RowError \in Recorded
    BY DEF RowError, Recorded, Over
  <2>2. <<RowError>> \in Seq(Recorded)
    BY <2>1
  <2> QED
    BY <1>1, <2>2, ToolAssumption DEF Results
<1>2. CASE rows[r] # Unreadable
  <2>1. PICK n \in Nat : DOMAIN rows[r] = 1..n
    BY <1>2 DEF Shaped, Width
  <2> DEFINE row == [k \in 1..n |-> Entry(<<r, k>>)]
  <2>2. ASSUME NEW k \in 1..n
        PROVE  Entry(<<r, k>>) \in Recorded
    <3>1. <<r, k>> \in Flat /\ r \in Nat /\ k \in Nat
      BY <1>2, <2>1 DEF Flat, HasCalls, Shaped
    <3>2. result[<<r, k>>] \in Over \cup {"timed_out"}
      BY <3>1
    <3> QED
      BY <3>1, <3>2 DEF Entry, Recorded
  <2>3. row \in Seq(Recorded)
    BY <2>2
  <2>4. Results[r] = row
    BY <1>2, <2>1 DEF Results
  <2> QED
    BY <2>3, <2>4, ToolAssumption
<1> QED
    BY <1>1, <1>2

LEMMA ReturnTrue ==
    ASSUME ToolInv, Return
    PROVE  ToolInv'
<1>1. /\ UNCHANGED <<target, listing, rows, calls>> /\ pc' = "returned"
      /\ \A c \in Flat : result[c] # None
      /\ out' = Results
    BY DEF Return, Results
<1>2. Flat' = Flat /\ Results' = Results
    BY <1>1, SamePlaces DEF Results, Entry, calls
<1>3. BatchTrue'
    BY <1>1, <1>2 DEF BatchTrue, calls
<1>4. Listed' /\ asked' \in 0..Len(Pages) /\ cursor' \in Nat /\ UNCHANGED <<channel, specs>>
    BY <1>1 DEF ToolInv, Typed, Listed, Crossed, listing
<1> QED
    BY <1>1, <1>3, <1>4, BatchMoves

LEMMA SynthesizeTrue ==
    ASSUME ToolInv, Synthesize
    PROVE  ToolInv'
<1>1. /\ UNCHANGED <<target, listing, rows, calls>> /\ pc = "returned" /\ pc' = "rendered"
      /\ out = Results /\ \A c \in Flat : result[c] # None
    BY DEF Synthesize, ToolInv, BatchTrue
<1>2. Flat' = Flat /\ Messages' = Messages
    BY <1>1, SamePlaces DEF Messages, Entry, calls
<1>3. out' = [r \in DOMAIN rows |->
                  IF Results[r] = Null THEN Null ELSE [k \in DOMAIN Results[r] |-> Line(Results[r][k])]]
    BY <1>1 DEF Synthesize, Results
<1>4. ASSUME NEW r \in DOMAIN rows
      PROVE  out'[r] = Messages[r]
  <2>1. CASE rows[r] = Null
    BY <1>3, <2>1 DEF Results, Messages
  <2>2. CASE rows[r] # Null /\ rows[r] = Unreadable
    <3>1. Results[r] = <<RowError>> /\ Results[r] # Null
      BY <1>1, <2>2, ResultsAreNoNull DEF Results
    <3>2. out'[r] = [k \in {1} |-> Line(<<RowError>>[k])]
      BY <1>3, <3>1
    <3>3. out'[r] = <<Line(RowError)>>
      BY <3>2
    <3> QED
      BY <2>2, <3>3 DEF Messages
  <2>3. CASE rows[r] # Null /\ rows[r] # Unreadable
    <3>1. Results[r] = [k \in DOMAIN rows[r] |-> Entry(<<r, k>>)] /\ Results[r] # Null
      BY <1>1, <2>3, ResultsAreNoNull DEF Results
    <3> QED
      BY <1>3, <2>3, <3>1 DEF Messages
  <2> QED
    BY <2>1, <2>2, <2>3
<1>5. out' = Messages
  <2>1. Messages = [r \in DOMAIN rows |-> Messages[r]]
    BY DEF Messages
  <2>2. out' = [r \in DOMAIN rows |-> out'[r]]
    BY <1>3
  <2> QED
    BY <1>4, <2>1, <2>2
<1>6. BatchTrue'
    BY <1>1, <1>2, <1>5 DEF BatchTrue, calls
<1>7. Listed' /\ asked' \in 0..Len(Pages) /\ cursor' \in Nat /\ UNCHANGED <<channel, specs>>
    BY <1>1 DEF ToolInv, Typed, Listed, Crossed, listing
<1> QED
    BY <1>1, <1>6, <1>7, BatchMoves

LEMMA ToolInvInit == Init => ToolInv
<1> SUFFICES ASSUME Init
             PROVE  ToolInv
    OBVIOUS
<1>1. Shaped
  <2>1. PICK column \in Columns : rows = Serialize(column)
    BY DEF Init
  <2>2. column \in Seq({Null, Unreadable} \cup Seq(Call \cup {Null}))
    BY ToolAssumption
  <2>3. DOMAIN rows = 1..Len(column) /\ Len(column) \in Nat
    BY <2>1, <2>2 DEF Serialize
  <2>4. ASSUME NEW r \in DOMAIN rows
        PROVE  rows[r] \in {Null, Unreadable} \/ Width(rows[r])
    <3>1. column[r] \in {Null, Unreadable} \/ column[r] \in Seq(Call \cup {Null})
      BY <2>2, <2>3
    <3>2. rows[r] = IF column[r] \in {Null, Unreadable} THEN column[r] ELSE Calls(column[r])
      BY <2>1, <2>2, <2>3 DEF Serialize
    <3> QED
      BY <3>1, <3>2, CallsKeepShape
  <2> QED
    BY <2>3, <2>4 DEF Shaped
<1>2. Typed
    BY <1>1, PagesAreMany DEF Init, Typed
<1>3. Listed
  <2>1. ~Crossed
    BY DEF Init, Crossed
  <2> QED
    BY <2>1, FirstPagesUnfolds, PagesAreMany DEF Init, Listed
<1>4. \A c \in Flat : CallTrue(c)
    BY VerdictsApart DEF Init, CallTrue
<1>5. BatchTrue
    BY DEF Init, BatchTrue, NothingYet
<1> QED
    BY <1>2, <1>3, <1>4, <1>5 DEF ToolInv

LEMMA ToolInvStep ==
    ASSUME ToolInv, [Next]_vars
    PROVE  ToolInv'
<1>1. CASE UNCHANGED vars
  <2>1. UNCHANGED <<target, listing, rows, calls, pc, out, channel, specs, asked>> /\ Flat' = Flat
    BY <1>1, SamePlaces DEF vars, listing
  <2>2. Results' = Results /\ Messages' = Messages
    BY <2>1 DEF Results, Messages, Entry, calls
  <2>3. BatchTrue'
    BY <2>1, <2>2 DEF ToolInv, BatchTrue, NothingYet, calls
  <2> QED
    BY <2>1, <2>3, BatchMoves DEF ToolInv, Typed, Listed, Crossed, listing
<1>2. ASSUME NEW c \in Flat, CallStep(c) \/ Serve(c) \/ Answer(c)
      PROVE  ToolInv'
    BY <1>2, StartTrue, ServeTrue, EndsTrue, RecordsTrue DEF CallStep
<1>3. CASE ListPage \/ ListFails \/ ListDone \/ Begin \/ ConnectFails
    BY <1>3, BeforeTrue
<1>4. CASE Return \/ Synthesize
    BY <1>4, ReturnTrue, SynthesizeTrue
<1> QED
    BY <1>1, <1>2, <1>3, <1>4 DEF Next

LEMMA ToolInvHolds == Spec => []ToolInv
BY ToolInvInit, ToolInvStep, PTL DEF Spec
-----------------------------------------------------------------------------
\* Every page's tools are listed once and in order: over HTTP whatever the
\* server sends around its responses, over stdio until it uses the number of an
\* awaited response itself, which ends the listing short (ListedInFull;
\* mcp_tools, _parse_sse_response, _McpStdioSession.request).
THEOREM ListsInFull == Spec => []ListedInFull
<1>1. ToolInv => ListedInFull
    BY DEF ToolInv, Listed, ListedInFull
<1> QED
    BY <1>1, ToolInvHolds, PTL

\* Each call's entry stands at its own place, content stands for one
\* invocation and a refusal for none, and no failure reads as an answer
\* (RowsTellTheTruth; execute_tool_calls, _format_results_batch).
THEOREM RowsTellNothingElse == Spec => []RowsTellTheTruth
<1>1. ToolInv => RowsTellTheTruth
  <2> SUFFICES ASSUME ToolInv
               PROVE  RowsTellTheTruth
    OBVIOUS
  <2>1. \A c \in Flat : ran[c] <= 1
    BY DEF ToolInv, Typed
  <2>2. ASSUME pc \in {"returned", "rendered"}, NEW r \in DOMAIN rows
        PROVE  IF rows[r] = Null THEN out[r] = Null
               ELSE /\ DOMAIN out[r] = IF rows[r] = Unreadable THEN {1} ELSE DOMAIN rows[r]
                    /\ \A k \in DOMAIN out[r] :
                          IF rows[r] = Unreadable THEN out[r][k].of = None
                          ELSE out[r][k].of = <<r, k>>
    <3>1. CASE rows[r] = Null
      BY <2>2, <3>1 DEF ToolInv, BatchTrue, Results, Messages
    <3>2. CASE rows[r] # Null /\ rows[r] = Unreadable
      <4>1. out[r] = <<RowError>> \/ out[r] = <<Line(RowError)>>
        BY <2>2, <3>2 DEF ToolInv, BatchTrue, Results, Messages
      <4>2. DOMAIN out[r] = {1} /\ out[r][1].of = None
        BY <4>1 DEF Line, RowError
      <4> QED
        BY <3>2, <4>2
    <3>3. CASE rows[r] # Null /\ rows[r] # Unreadable
      <4>1. \/ out[r] = [k \in DOMAIN rows[r] |-> Entry(<<r, k>>)]
            \/ out[r] = [k \in DOMAIN rows[r] |-> Line(Entry(<<r, k>>))]
        BY <2>2, <3>3 DEF ToolInv, BatchTrue, Results, Messages
      <4>2. DOMAIN out[r] = DOMAIN rows[r]
        BY <4>1
      <4>3. ASSUME NEW k \in DOMAIN rows[r]
            PROVE  out[r][k].of = <<r, k>>
        <5>1. out[r][k] = Entry(<<r, k>>) \/ out[r][k] = Line(Entry(<<r, k>>))
          BY <4>1
        <5> QED
          BY <5>1 DEF Line, Entry
      <4> QED
        BY <3>3, <4>2, <4>3
    <3> QED
      BY <3>1, <3>2, <3>3
  <2>3. ASSUME NEW c \in Flat, pc \in {"returned", "rendered"}
        PROVE  /\ result[c] = "content" => ran[c] = 1
               /\ Refused(At(c)) => ran[c] = 0 /\ result[c] \in {"refused", "timed_out"}
    <3>1. CallTrue(c) /\ result[c] \in {"timed_out"} \cup Over
      BY <2>3 DEF ToolInv, BatchTrue, Typed
    <3> QED
      BY <3>1 DEF CallTrue, Over
  <2>4. ASSUME NEW c \in Flat, pc = "rendered"
        PROVE  out[c[1]][c[2]].says = "content" <=> result[c] = "content"
    <3>1. /\ c[1] \in DOMAIN rows /\ rows[c[1]] \notin {Null, Unreadable}
          /\ c[2] \in DOMAIN rows[c[1]] /\ c = <<c[1], c[2]>>
      BY Places
    <3>2. out[c[1]][c[2]] = Line(Entry(<<c[1], c[2]>>))
      BY <2>4, <3>1 DEF ToolInv, BatchTrue, Messages
    <3>3. out[c[1]][c[2]].says = IF result[c] = "content" THEN "content" ELSE "ERROR"
      BY <3>1, <3>2 DEF Line, Entry
    <3> QED
      BY <3>3
  <2> QED
    BY <2>1, <2>2, <2>3, <2>4 DEF RowsTellTheTruth
<1> QED
    BY <1>1, ToolInvHolds, PTL

\* What is recorded of a call is never changed, by a late answer or anything
\* else (VerdictIsFinal; future.result, call_tool).
THEOREM VerdictStaysFinal == Spec => VerdictIsFinal
<1> DEFINE Final == \A c \in DOMAIN result \cap DOMAIN result' :
                        result[c] # None => result'[c] = result[c]
<1>1. ToolInv /\ [Next]_vars => [Final]_vars
  <2> SUFFICES ASSUME ToolInv, Next
               PROVE  Final
    OBVIOUS
  <2>1. ASSUME NEW c \in Flat, Collect(c) \/ TimeOut(c)
        PROVE  Final
    <3>1. result[c] = None /\ \E how : result' = [result EXCEPT ![c] = how]
      BY <2>1 DEF Collect, TimeOut, Awaited
    <3> QED
      BY <3>1
  <2>2. CASE result' = result
    BY <2>2
  <2> QED
    BY <2>1, <2>2 DEF Next, CallStep, ListPage, ListFails, ListDone, Begin, ConnectFails, Return,
                      Synthesize, Start, Expire, Serve, Answer, calls
<1> QED
    BY <1>1, ToolInvHolds, PTL DEF Spec, VerdictIsFinal
=============================================================================
