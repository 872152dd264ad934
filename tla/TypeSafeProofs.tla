--------------------------- MODULE TypeSafeProofs ---------------------------
(***************************************************************************)
(* How the requests of an evaluation are retried, and what the column it   *)
(* returns shows, for every contract, column, window and budget of         *)
(* TypeSafe.                                                               *)
(***************************************************************************)
EXTENDS TypeSafe, FiniteSetTheorems, WellFoundedInduction, TLAPS

Heard == Statuses \cup {"success"}

\* All that was heard before the n-th answer was transient.
TransientBefore(q, n) == \A i \in 1 .. n - 1 : heard[q][i] \in Transient

(***************************************************************************)
(* What was heard of a request follows from where it is.  The property     *)
(* speaks of requests that are over; that they did not stop early, nor     *)
(* late, takes the count of attempts on the way.                           *)
(***************************************************************************)
Sending(q) ==
    LET n == Len(heard[q])
    IN /\ heard[q] \in Seq(Heard) /\ attempt[q] \in Nat /\ attempt[q] <= Budget
       /\ phase[q] \in {"waiting", "sent", "backing_off", "answered", "failed"}
       /\ TransientBefore(q, n)
       /\ phase[q] \in {"waiting", "sent"} =>
             n = attempt[q] /\ (n > 0 => heard[q][n] \in Transient)
       /\ phase[q] \in {"backing_off", "answered", "failed"} => n = attempt[q] + 1
       /\ phase[q] = "backing_off" => attempt[q] < Budget /\ heard[q][n] \in Transient
       /\ phase[q] = "answered" => heard[q][n] = "success"
       /\ phase[q] = "failed" => /\ heard[q][n] # "success"
                                 /\ n = Budget + 1 \/ heard[q][n] \notin Transient

SendingInv ==
    /\ DOMAIN phase = DOMAIN requests
    /\ DOMAIN attempt = DOMAIN requests
    /\ DOMAIN heard = DOMAIN requests
    /\ \A q \in DOMAIN requests : Sending(q)
-----------------------------------------------------------------------------
LEMMA SendingSuffices == SendingInv => RetriesAreSpentWell
<1> SUFFICES ASSUME SendingInv, NEW q \in DOMAIN requests
             PROVE  LET n == Len(heard[q])
                    IN /\ n <= Budget + 1
                       /\ \A i \in 1 .. n - 1 : heard[q][i] \in Transient
                       /\ phase[q] = "failed" => n = Budget + 1 \/ heard[q][n] \notin Transient
                       /\ phase[q] = "answered" <=> n > 0 /\ heard[q][n] = "success"
    BY DEF RetriesAreSpentWell
<1>1. Sending(q)
    BY DEF SendingInv
<1>2. Budget \in Nat /\ "success" \notin Transient
    BY TypeSafeAssumption DEF Transient
<1>3. Len(heard[q]) <= Budget + 1 /\ Len(heard[q]) \in Nat
    BY <1>1, <1>2 DEF Sending
<1>4. \A i \in 1 .. Len(heard[q]) - 1 : heard[q][i] \in Transient
    BY <1>1 DEF Sending, TransientBefore
<1>5. phase[q] = "answered" <=> Len(heard[q]) > 0 /\ heard[q][Len(heard[q])] = "success"
    BY <1>1, <1>2, <1>3 DEF Sending
<1>6. phase[q] = "failed" => Len(heard[q]) = Budget + 1 \/ heard[q][Len(heard[q])] \notin Transient
    BY <1>1 DEF Sending
<1> QED
    BY <1>3, <1>4, <1>5, <1>6

\* A step that leaves request q and what was heard of it alone.
LEMMA OtherRequests ==
    ASSUME NEW q, Sending(q),
           phase'[q] = phase[q], attempt'[q] = attempt[q], heard'[q] = heard[q]
    PROVE  Sending(q)'
BY DEF Sending, TransientBefore

LEMMA OneRequestMoves ==
    ASSUME SendingInv, NEW q \in DOMAIN requests, requests' = requests,
           /\ DOMAIN phase' = DOMAIN phase /\ DOMAIN attempt' = DOMAIN attempt
           /\ DOMAIN heard' = DOMAIN heard,
           \A p \in DOMAIN requests \ {q} :
               phase'[p] = phase[p] /\ attempt'[p] = attempt[p] /\ heard'[p] = heard[p],
           Sending(q)'
    PROVE  SendingInv'
<1>1. ASSUME NEW p \in DOMAIN requests, p # q
      PROVE  Sending(p)'
    BY <1>1, OtherRequests DEF SendingInv
<1> QED
    BY <1>1 DEF SendingInv

LEMMA BeginStarts ==
    ASSUME NEW plan, Begin(plan)
    PROVE  SendingInv'
<1>1. requests' = plan
    BY DEF Begin
<1>2. ASSUME NEW q \in DOMAIN plan
      PROVE  Sending(q)'
  <2>1. phase'[q] = "waiting" /\ attempt'[q] = 0 /\ heard'[q] = <<>>
    BY DEF Begin
  <2>2. <<>> \in Seq(Heard) /\ Len(<<>>) = 0
    OBVIOUS
  <2> QED
    BY <2>1, <2>2, TypeSafeAssumption DEF Sending, TransientBefore
<1> QED
    BY <1>1, <1>2 DEF SendingInv, Begin

\* One more answer is heard of a request that was sent.
LEMMA Hear ==
    ASSUME NEW q \in DOMAIN requests, SendingInv, phase[q] = "sent",
           NEW status \in Heard, heard' = [heard EXCEPT ![q] = Append(@, status)]
    PROVE  /\ heard'[q] \in Seq(Heard)
           /\ Len(heard[q]) = attempt[q] /\ Len(heard'[q]) = attempt[q] + 1
           /\ heard'[q][Len(heard'[q])] = status
           /\ \A i \in 1 .. Len(heard'[q]) - 1 : heard'[q][i] \in Transient
           /\ attempt[q] \in Nat /\ attempt[q] <= Budget
<1>1. Sending(q) /\ DOMAIN heard = DOMAIN requests
    BY DEF SendingInv
<1>2. /\ heard[q] \in Seq(Heard) /\ Len(heard[q]) = attempt[q]
      /\ attempt[q] \in Nat /\ attempt[q] <= Budget
      /\ \A i \in 1 .. Len(heard[q]) - 1 : heard[q][i] \in Transient
      /\ Len(heard[q]) > 0 => heard[q][Len(heard[q])] \in Transient
    BY <1>1 DEF Sending, TransientBefore
<1>3. heard'[q] = Append(heard[q], status)
    BY <1>1
<1>4. /\ heard'[q] \in Seq(Heard) /\ Len(heard'[q]) = attempt[q] + 1
      /\ heard'[q][Len(heard'[q])] = status
      /\ \A i \in 1 .. Len(heard[q]) : heard'[q][i] = heard[q][i]
    BY <1>2, <1>3
<1>5. \A i \in 1 .. Len(heard'[q]) - 1 : heard'[q][i] \in Transient
    BY <1>2, <1>4
<1> QED
    BY <1>2, <1>4, <1>5

LEMMA SucceedKeeps ==
    ASSUME SendingInv, NEW q \in DOMAIN requests, Succeed(q)
    PROVE  SendingInv'
<1>1. /\ phase[q] = "sent" /\ "success" \in Heard /\ requests' = requests
      /\ phase' = [phase EXCEPT ![q] = "answered"]
      /\ heard' = [heard EXCEPT ![q] = Append(@, "success")]
      /\ attempt' = attempt
    BY DEF Succeed, Heard
<1>2. phase'[q] = "answered"
    BY <1>1 DEF SendingInv
<1>3. Sending(q)'
    BY <1>1, <1>2, Hear DEF Sending, TransientBefore
<1> QED
    BY <1>1, <1>3, OneRequestMoves

LEMMA FailKeeps ==
    ASSUME SendingInv, NEW q \in DOMAIN requests, Fail(q)
    PROVE  SendingInv'
<1>1. PICK status \in Statuses :
          /\ heard' = [heard EXCEPT ![q] = Append(@, status)]
          /\ phase' = [phase EXCEPT ![q] =
                 IF IsRetryable(status) /\ attempt[q] < Budget THEN "backing_off" ELSE "failed"]
    BY DEF Fail
<1>2. phase[q] = "sent" /\ requests' = requests /\ attempt' = attempt
    BY DEF Fail
<1>3. /\ status \in Heard /\ status # "success"
      /\ IsRetryable(status) <=> status \in Transient
    BY DEF Statuses, Heard, IsRetryable, Transient
<1>4. /\ heard'[q] \in Seq(Heard) /\ Len(heard'[q]) = attempt[q] + 1
      /\ heard'[q][Len(heard'[q])] = status
      /\ \A i \in 1 .. Len(heard'[q]) - 1 : heard'[q][i] \in Transient
      /\ attempt[q] \in Nat /\ attempt[q] <= Budget
    BY <1>1, <1>2, <1>3, Hear
<1>5. phase'[q] = IF IsRetryable(status) /\ attempt[q] < Budget THEN "backing_off" ELSE "failed"
    BY <1>1 DEF SendingInv
<1>6. Sending(q)'
  <2>1. CASE status \in Transient /\ attempt[q] < Budget
    BY <2>1, <1>2, <1>3, <1>4, <1>5 DEF Sending, TransientBefore
  <2>2. CASE ~(status \in Transient /\ attempt[q] < Budget)
    <3>1. phase'[q] = "failed"
      BY <2>2, <1>3, <1>5
    <3>2. attempt[q] + 1 = Budget + 1 \/ status \notin Transient
      BY <2>2, <1>4, TypeSafeAssumption
    <3> QED
      BY <3>1, <3>2, <1>2, <1>3, <1>4 DEF Sending, TransientBefore
  <2> QED
    BY <2>1, <2>2
<1> QED
    BY <1>1, <1>2, <1>6, OneRequestMoves

\* Sending again is what a backoff is for; what was heard stays as it is.
LEMMA SendAndRetryKeep ==
    ASSUME SendingInv, NEW q \in DOMAIN requests, Send(q) \/ Retry(q)
    PROVE  SendingInv'
<1>1. /\ requests' = requests /\ heard' = heard
      /\ phase' = [phase EXCEPT ![q] = "sent"]
      /\ \/ phase[q] = "waiting" /\ attempt' = attempt
         \/ phase[q] = "backing_off" /\ attempt' = [attempt EXCEPT ![q] = @ + 1]
    BY DEF Send, Retry
<1>2. Sending(q) /\ phase'[q] = "sent"
    BY <1>1 DEF SendingInv
<1>3. Sending(q)'
  <2>1. CASE phase[q] = "waiting" /\ attempt' = attempt
    BY <2>1, <1>1, <1>2 DEF Sending, TransientBefore
  <2>2. CASE phase[q] = "backing_off" /\ attempt' = [attempt EXCEPT ![q] = @ + 1]
    <3>1. attempt'[q] = attempt[q] + 1
      BY <2>2 DEF SendingInv
    <3> QED
      BY <3>1, <2>2, <1>1, <1>2, TypeSafeAssumption DEF Sending, TransientBefore
  <2> QED
    BY <1>1, <2>1, <2>2
<1>4. /\ DOMAIN attempt' = DOMAIN attempt
      /\ \A p \in DOMAIN requests \ {q} : attempt'[p] = attempt[p]
    BY <1>1 DEF SendingInv
<1>5. /\ DOMAIN phase' = DOMAIN phase
      /\ \A p \in DOMAIN requests \ {q} : phase'[p] = phase[p]
    BY <1>1 DEF SendingInv
<1> QED
    BY <1>1, <1>3, <1>4, <1>5, OneRequestMoves

\* Steps that change nothing of the requests.
LEMMA QuietKeeps ==
    ASSUME SendingInv, UNCHANGED <<requests, phase, attempt, heard>>
    PROVE  SendingInv'
BY DEF SendingInv, Sending, TransientBefore

\* Whatever the server does, a request is tried again only after a transient
\* failure, at most Budget times, and is given up only for a definite answer or
\* with the budget spent (RetriesAreSpentWell; evaluate, is_retryable).
THEOREM RetriesStaySpentWell == Spec => []RetriesAreSpentWell
<1>1. Init => SendingInv
    BY DEF Init, SendingInv
<1>2. SendingInv /\ [Next]_vars => SendingInv'
  <2> SUFFICES ASSUME SendingInv, [Next]_vars
               PROVE  SendingInv'
    OBVIOUS
  <2>1. CASE UNCHANGED vars
    BY <2>1, QuietKeeps DEF vars, sending
  <2>2. CASE Refuse \/ Return
    BY <2>2, QuietKeeps DEF Refuse, Return, sending
  <2>3. CASE EvalRows \/ EvalEach
    BY <2>3, BeginStarts DEF EvalRows, EvalEach
  <2>4. ASSUME NEW q \in DOMAIN requests, Send(q) \/ Succeed(q) \/ Fail(q) \/ Retry(q)
        PROVE  SendingInv'
    BY <2>4, SendAndRetryKeep, SucceedKeeps, FailKeeps
  <2>5. ASSUME NEW q \in DOMAIN requests, Collect(q)
        PROVE  SendingInv'
    BY <2>5, QuietKeeps DEF Collect, sending
  <2> QED
    BY <2>1, <2>2, <2>3, <2>4, <2>5 DEF Next
<1> QED
    BY <1>1, <1>2, SendingSuffices, PTL DEF Spec
-----------------------------------------------------------------------------
(***************************************************************************)
(* Loops that append to a vector.                                          *)
(***************************************************************************)
\* A set of natural numbers that has 0 and the next of each it has, has them all.
LEMMA AllNumbers ==
    ASSUME NEW S, 0 \in S, \A n \in Nat : n \in S => n + 1 \in S
    PROVE  Nat \subseteq S
<1> DEFINE Bad == {n \in Nat : n \notin S}
<1> SUFFICES ASSUME Bad # {}
             PROVE  FALSE
    OBVIOUS
<1>1. PICK m \in Bad : \A n \in Bad : ~(<<n, m>> \in OpToRel(<, Nat))
  <2>1. Bad \subseteq Nat
    OBVIOUS
  <2> HIDE DEF Bad
  <2> QED
    BY <2>1, WFMin, NatLessThanWellFounded
<1>2. m \in Nat /\ m \notin S /\ m # 0
    OBVIOUS
<1>3. m - 1 \in Nat /\ m - 1 < m /\ (m - 1) + 1 = m
    BY <1>2
<1>4. m - 1 \notin Bad
    BY <1>1, <1>2, <1>3 DEF OpToRel
<1> QED
    BY <1>2, <1>3, <1>4

Joins(f, pieces, m) == f = [n \in 0 .. m |-> IF n = 0 THEN <<>> ELSE f[n - 1] \o pieces[n]]

LEMMA JoinsExist ==
    ASSUME NEW pieces, NEW m \in Nat
    PROVE  \E f : Joins(f, pieces, m)
<1> DEFINE S == {n \in Nat : \E f : Joins(f, pieces, n)}
<1>1. 0 \in S
  <2> DEFINE g == [l \in 0 .. 0 |-> <<>>]
  <2>1. g = [l \in 0 .. 0 |-> IF l = 0 THEN <<>> ELSE g[l - 1] \o pieces[l]]
    OBVIOUS
  <2> HIDE DEF g
  <2> QED
    BY <2>1 DEF Joins
<1>2. ASSUME NEW n \in Nat, n \in S
      PROVE  n + 1 \in S
  <2>1. PICK f : Joins(f, pieces, n)
    BY <1>2
  <2> DEFINE g == [l \in 0 .. n + 1 |-> IF l = n + 1 THEN f[n] \o pieces[n + 1] ELSE f[l]]
             h == [l \in 0 .. n + 1 |-> IF l = 0 THEN <<>> ELSE g[l - 1] \o pieces[l]]
  <2>2. ASSUME NEW l \in 0 .. n + 1
        PROVE  g[l] = h[l]
    <3>1. CASE l = n + 1
      <4>1. g[n] = f[n] /\ n \in 0 .. n + 1 /\ n + 1 # 0 /\ (n + 1) - 1 = n
        OBVIOUS
      <4>2. g[l] = f[n] \o pieces[n + 1]
        BY <3>1
      <4>3. h[l] = g[n] \o pieces[n + 1]
        <5> HIDE DEF g
        <5> QED
          BY <3>1, <4>1
      <4> QED
        BY <4>1, <4>2, <4>3
    <3>2. CASE l # n + 1 /\ l # 0
      <4>1. l \in 0 .. n /\ l - 1 \in 0 .. n + 1 /\ l - 1 # n + 1
        BY <3>2
      <4>2. f[l] = f[l - 1] \o pieces[l]
        BY <2>1, <3>2, <4>1 DEF Joins
      <4> QED
        BY <3>2, <4>1, <4>2
    <3>3. CASE l = 0
      <4>1. f[0] = <<>>
        BY <2>1 DEF Joins
      <4> QED
        BY <3>3, <4>1
    <3> QED
      BY <3>1, <3>2, <3>3
  <2>3. g = h
    BY <2>2
  <2>4. Joins(g, pieces, n + 1)
    <3> HIDE DEF g
    <3> QED
      BY <2>3 DEF Joins
  <2> HIDE DEF g, h
  <2> QED
    BY <2>4
<1> HIDE DEF S
<1>3. m \in S
    BY <1>1, <1>2, AllNumbers
<1> QED
    BY <1>3 DEF S

\* What has been appended before each turn and after the last.
LEMMA ConcatIs ==
    ASSUME NEW pieces, Len(pieces) \in Nat
    PROVE  \E f : /\ f[0] = <<>>
                  /\ \A n \in 1 .. Len(pieces) : f[n] = f[n - 1] \o pieces[n]
                  /\ Concat(pieces) = f[Len(pieces)]
<1> DEFINE m == Len(pieces)
           f == CHOOSE g : Joins(g, pieces, m)
<1>1. Joins(f, pieces, m)
    BY JoinsExist
<1>2. Concat(pieces) = f[m]
    BY DEF Concat, Joins
<1> HIDE DEF f
<1>3. f[0] = <<>> /\ \A n \in 1 .. m : f[n] = f[n - 1] \o pieces[n]
    BY <1>1 DEF Joins
<1> QED
    BY <1>2, <1>3

LEMMA Appended ==
    ASSUME NEW T, NEW s \in Seq(T), NEW t \in Seq(T)
    PROVE  /\ s \o t \in Seq(T) /\ Len(s) \in Nat /\ Len(t) \in Nat
           /\ Len(s \o t) = Len(s) + Len(t)
           /\ DOMAIN s = 1 .. Len(s) /\ DOMAIN t = 1 .. Len(t)
           /\ DOMAIN (s \o t) = 1 .. Len(s) + Len(t)
           /\ \A q \in 1 .. Len(s) : (s \o t)[q] = s[q]
           /\ \A k \in 1 .. Len(t) : (s \o t)[Len(s) + k] = t[k]
<1>1. /\ s \o t \in Seq(T) /\ Len(s) \in Nat /\ Len(t) \in Nat /\ Len(s \o t) = Len(s) + Len(t)
      /\ DOMAIN s = 1 .. Len(s) /\ DOMAIN t = 1 .. Len(t)
      /\ DOMAIN (s \o t) = 1 .. Len(s) + Len(t)
      /\ \A q \in 1 .. Len(s) + Len(t) : (s \o t)[q] = IF q <= Len(s) THEN s[q] ELSE t[q - Len(s)]
    OBVIOUS
<1>2. ASSUME NEW k \in 1 .. Len(t)
      PROVE  (s \o t)[Len(s) + k] = t[k]
  <2> DEFINE q == Len(s) + k
  <2>1. q \in 1 .. Len(s) + Len(t) /\ ~(q <= Len(s)) /\ q - Len(s) = k
    BY <1>1
  <2> HIDE DEF q
  <2>2. (s \o t)[q] = t[k]
    BY <1>1, <2>1
  <2> QED
    BY <2>2 DEF q
<1>3. \A q \in 1 .. Len(s) : (s \o t)[q] = s[q]
    BY <1>1
<1> QED
    BY <1>1, <1>2, <1>3
-----------------------------------------------------------------------------
(***************************************************************************)
(* The plan: the requests of a row follow one another without a gap, from  *)
(* its first line to its last.                                             *)
(***************************************************************************)
Base == IF each THEN 0 ELSE -1
Top(r) == IF each THEN column[r] ELSE 0
HasLines(r) == IF each THEN column[r] # Null ELSE column[r] = "state"

Request == [row : Nat, first : Int, last : Int]

InRow(request) ==
    /\ HasLines(request.row)
    /\ Base + 1 <= request.first /\ request.first <= request.last /\ request.last <= Top(request.row)

\* The requests planned when the rows up to n have been looked at.
PlanRight(plan, n) ==
    /\ plan \in Seq(Request)
    /\ \A q \in DOMAIN plan : plan[q].row \in 1 .. n /\ InRow(plan[q])
    /\ \A p, q \in DOMAIN plan : p < q /\ plan[p].row = plan[q].row => plan[p].last < plan[q].first
    /\ \A q \in DOMAIN plan :
          \/ plan[q].first = Base + 1
          \/ \E p \in DOMAIN plan : /\ p < q /\ plan[p].row = plan[q].row
                                    /\ plan[p].last = plan[q].first - 1
    /\ \A r \in 1 .. n : HasLines(r) /\ Top(r) > Base =>
          \E q \in DOMAIN plan : plan[q].row = r /\ plan[q].last = Top(r)

\* What row r adds to it.
PieceRight(piece, r) ==
    /\ piece \in Seq(Request)
    /\ \A q \in DOMAIN piece : piece[q].row = r /\ InRow(piece[q])
    /\ \A p, q \in DOMAIN piece : p < q => piece[p].last < piece[q].first
    /\ \A q \in DOMAIN piece :
          \/ piece[q].first = Base + 1
          \/ \E p \in DOMAIN piece : p < q /\ piece[p].last = piece[q].first - 1
    /\ HasLines(r) /\ Top(r) > Base => \E q \in DOMAIN piece : piece[q].last = Top(r)

LEMMA PlanGrows ==
    ASSUME NEW n \in Nat, NEW plan, PlanRight(plan, n), NEW piece, PieceRight(piece, n + 1)
    PROVE  PlanRight(plan \o piece, n + 1)
<1> DEFINE all == plan \o piece
           L == Len(plan)
           K == Len(piece)
<1>1. /\ all \in Seq(Request) /\ L \in Nat /\ K \in Nat
      /\ DOMAIN plan = 1 .. L /\ DOMAIN piece = 1 .. K /\ DOMAIN all = 1 .. L + K
      /\ \A q \in 1 .. L : all[q] = plan[q]
      /\ \A k \in 1 .. K : all[L + k] = piece[k]
    BY Appended DEF PlanRight, PieceRight
<1> HIDE DEF all, L, K
<1>2. ASSUME NEW q \in DOMAIN all
      PROVE  \/ q \in 1 .. L
             \/ q > L /\ \E k \in 1 .. K : q = L + k
  <2>1. CASE q <= L
    BY <1>1, <2>1
  <2>2. CASE ~(q <= L)
    <3>1. q - L \in 1 .. K /\ q = L + (q - L) /\ q > L
      BY <1>1, <2>2
    <3> QED
      BY <3>1
  <2> QED
    BY <2>1, <2>2
<1>3. ASSUME NEW k \in 1 .. K
      PROVE  L + k \in DOMAIN all /\ all[L + k].row = n + 1 /\ InRow(all[L + k])
  <2>1. L + k \in DOMAIN all /\ all[L + k] = piece[k] /\ k \in DOMAIN piece
    BY <1>1
  <2>2. piece[k].row = n + 1 /\ InRow(piece[k])
    BY <2>1 DEF PieceRight
  <2> QED
    BY <2>1, <2>2
<1>4. ASSUME NEW q \in 1 .. L
      PROVE  q \in DOMAIN all /\ all[q].row \in 1 .. n /\ InRow(all[q])
  <2>1. q \in DOMAIN all /\ all[q] = plan[q] /\ q \in DOMAIN plan
    BY <1>1
  <2>2. plan[q].row \in 1 .. n /\ InRow(plan[q])
    BY <2>1 DEF PlanRight
  <2> QED
    BY <2>1, <2>2
<1>5. \A q \in DOMAIN all : all[q].row \in 1 .. n + 1 /\ InRow(all[q])
  <2> TAKE q \in DOMAIN all
  <2>1. CASE q \in 1 .. L
    BY <1>4, <2>1
  <2>2. CASE \E k \in 1 .. K : q = L + k
    BY <1>3, <2>2
  <2> QED
    BY <1>2, <2>1, <2>2
<1>6. ASSUME NEW p \in DOMAIN all, NEW q \in DOMAIN all, p < q, all[p].row = all[q].row
      PROVE  all[p].last < all[q].first
  <2>1. CASE p \in 1 .. L /\ q \in 1 .. L
    BY <1>1, <1>6, <2>1 DEF PlanRight
  <2>2. CASE p \in 1 .. L /\ q \notin 1 .. L
    BY <1>2, <1>3, <1>4, <1>6, <2>2
  <2>3. CASE p \notin 1 .. L /\ q \in 1 .. L
    BY <1>1, <1>2, <1>6, <2>3
  <2>4. CASE p \notin 1 .. L /\ q \notin 1 .. L
    <3>1. PICK j \in 1 .. K : p = L + j
      BY <1>2, <2>4
    <3>2. PICK k \in 1 .. K : q = L + k
      BY <1>2, <2>4
    <3>3. j < k
      BY <1>1, <1>6, <3>1, <3>2
    <3>4. all[p] = piece[j] /\ all[q] = piece[k]
      BY <1>1, <3>1, <3>2
    <3> QED
      BY <1>1, <3>3, <3>4 DEF PieceRight
  <2> QED
    BY <2>1, <2>2, <2>3, <2>4
<1>7. ASSUME NEW q \in DOMAIN all
      PROVE  \/ all[q].first = Base + 1
             \/ \E p \in DOMAIN all : /\ p < q /\ all[p].row = all[q].row
                                      /\ all[p].last = all[q].first - 1
  <2>1. CASE q \in 1 .. L
    <3>1. q \in DOMAIN plan /\ all[q] = plan[q]
      BY <1>1, <2>1
    <3>2. ASSUME NEW p \in DOMAIN plan, p < q, plan[p].row = plan[q].row,
                 plan[p].last = plan[q].first - 1
          PROVE  \E j \in DOMAIN all : /\ j < q /\ all[j].row = all[q].row
                                       /\ all[j].last = all[q].first - 1
      <4>1. p \in DOMAIN all /\ all[p] = plan[p]
        BY <1>1
      <4> QED
        BY <3>1, <3>2, <4>1
    <3> QED
      BY <3>1, <3>2 DEF PlanRight
  <2>2. CASE q \notin 1 .. L
    <3>1. PICK k \in 1 .. K : q = L + k
      BY <1>2, <2>2
    <3>2. all[q] = piece[k]
      BY <1>1, <3>1
    <3>3. ASSUME NEW j \in 1 .. K, j < k, piece[j].last = piece[k].first - 1
          PROVE  \E p \in DOMAIN all : /\ p < q /\ all[p].row = all[q].row
                                       /\ all[p].last = all[q].first - 1
      <4>1. L + j < q /\ L + j \in DOMAIN all /\ all[L + j] = piece[j]
        BY <1>1, <1>3, <3>1, <3>3
      <4>2. all[L + j].row = all[q].row
        BY <1>3, <3>1
      <4> QED
        BY <3>2, <3>3, <4>1, <4>2
    <3> QED
      BY <1>1, <3>2, <3>3 DEF PieceRight
  <2> QED
    BY <2>1, <2>2
<1>8. ASSUME NEW r \in 1 .. n + 1, HasLines(r), Top(r) > Base
      PROVE  \E q \in DOMAIN all : all[q].row = r /\ all[q].last = Top(r)
  <2>1. CASE r \in 1 .. n
    <3>1. PICK q \in DOMAIN plan : plan[q].row = r /\ plan[q].last = Top(r)
      BY <1>8, <2>1 DEF PlanRight
    <3> QED
      BY <1>1, <1>4, <3>1
  <2>2. CASE r = n + 1
    <3>1. PICK k \in DOMAIN piece : piece[k].last = Top(r)
      BY <1>8, <2>2 DEF PieceRight
    <3> QED
      BY <1>1, <1>3, <2>2, <3>1
  <2> QED
    BY <2>1, <2>2
<1>9. PlanRight(all, n + 1)
    BY <1>1, <1>5, <1>6, <1>7, <1>8 DEF PlanRight
<1> QED
    BY <1>9 DEF all

\* If every row adds its own lines, the plan has them all.
LEMMA PlansAreRight ==
    ASSUME NEW pieces, NEW m \in Nat, DOMAIN pieces = 1 .. m, Len(pieces) = m,
           \A r \in 1 .. m : PieceRight(pieces[r], r)
    PROVE  PlanRight(Concat(pieces), m)
<1>1. PICK f : /\ f[0] = <<>>
               /\ \A n \in 1 .. m : f[n] = f[n - 1] \o pieces[n]
               /\ Concat(pieces) = f[m]
    BY ConcatIs
<1> DEFINE S == {n \in Nat : n <= m => PlanRight(f[n], n)}
<1>2. 0 \in S
  <2>1. f[0] \in Seq(Request) /\ DOMAIN f[0] = {} /\ 1 .. 0 = {}
    BY <1>1
  <2> QED
    BY <2>1 DEF PlanRight
<1>3. ASSUME NEW n \in Nat, n \in S
      PROVE  n + 1 \in S
  <2> SUFFICES ASSUME n + 1 <= m
               PROVE  PlanRight(f[n + 1], n + 1)
    OBVIOUS
  <2>1. PlanRight(f[n], n)
    BY <1>3
  <2>2. n + 1 \in 1 .. m /\ (n + 1) - 1 = n
    OBVIOUS
  <2>3. f[n + 1] = f[n] \o pieces[n + 1] /\ PieceRight(pieces[n + 1], n + 1)
    BY <1>1, <2>2
  <2> QED
    BY <2>1, <2>3, PlanGrows
<1> HIDE DEF S
<1>4. m \in S
    BY <1>2, <1>3, AllNumbers
<1> QED
    BY <1>1, <1>4 DEF S

\* A row's state is its only line.
LEMMA StatesAreRight ==
    ASSUME ~each, NEW r \in Nat
    PROVE  PieceRight(StateOf(r), r)
<1>1. CASE column[r] = "state"
  <2> DEFINE request == [row |-> r, first |-> 0, last |-> 0]
  <2>1. StateOf(r) = <<request>>
    BY <1>1 DEF StateOf
  <2>2. request \in Request /\ InRow(request)
    BY <1>1 DEF Request, InRow, HasLines, Base, Top
  <2>3. request.row = r /\ request.first = 0 /\ request.last = 0
    OBVIOUS
  <2> HIDE DEF request
  <2>4. /\ StateOf(r) \in Seq(Request) /\ DOMAIN StateOf(r) = {1}
        /\ StateOf(r)[1] = request
    BY <2>1, <2>2
  <2> QED
    BY <2>2, <2>3, <2>4 DEF PieceRight, Base, Top
<1>2. CASE column[r] # "state"
  <2>1. StateOf(r) = <<>> /\ ~HasLines(r)
    BY <1>2 DEF StateOf, HasLines
  <2>2. StateOf(r) \in Seq(Request) /\ DOMAIN StateOf(r) = {}
    BY <2>1
  <2> QED
    BY <2>1, <2>2 DEF PieceRight
<1> QED
    BY <1>1, <1>2

\* As many chunks of p segments as it takes to have c of them.
LEMMA ChunkNumbers ==
    ASSUME NEW c \in Nat, NEW p \in Nat \ {0}
    PROVE  LET n == (c + p - 1) \div p
           IN n \in Nat /\ c <= n * p /\ n * p <= c + p - 1 /\ (c > 0 => n >= 1)
<1> DEFINE a == c + p - 1
           n == a \div p
<1>1. a \in Nat
    OBVIOUS
<1>2. n \in Nat /\ p * n <= a /\ a < p * n + p
  <2> HIDE DEF a
  <2> QED
    BY <1>1
<1> HIDE DEF n
<1>3. n * p = p * n /\ n * p \in Nat
    BY <1>2
<1>4. c > 0 => n >= 1
    BY <1>2, <1>3
<1> QED
    BY <1>2, <1>3, <1>4 DEF n

LEMMA ChunksInOrder ==
    ASSUME NEW p \in Nat \ {0}, NEW j \in Nat, NEW k \in Nat, j < k
    PROVE  j * p <= (k - 1) * p /\ (k - 1) * p + p = k * p /\ j * p \in Nat /\ (k - 1) * p \in Nat
OBVIOUS

\* The chunks of a row have its segments between them.
LEMMA ChunksAreRight ==
    ASSUME each, NEW r \in Nat, column[r] \in Nat \cup {Null}, PerChunk \in Nat \ {0}
    PROVE  PieceRight(ChunksOf(r), r)
<1>1. CASE column[r] = Null
  <2>1. ChunksOf(r) = <<>> /\ ~HasLines(r)
    BY <1>1 DEF ChunksOf, HasLines
  <2>2. ChunksOf(r) \in Seq(Request) /\ DOMAIN ChunksOf(r) = {}
    BY <2>1
  <2> QED
    BY <2>1, <2>2 DEF PieceRight
<1>2. CASE column[r] # Null
  <2> DEFINE c == column[r]
             p == PerChunk
             n == (c + p - 1) \div p
             s == ChunksOf(r)
  <2>1. c \in Nat /\ p \in Nat \ {0} /\ HasLines(r) /\ Top(r) = c /\ Base = 0
    BY <1>2 DEF HasLines, Top, Base
  <2>2. n \in Nat /\ c <= n * p /\ n * p <= c + p - 1 /\ (c > 0 => n >= 1)
    <3> HIDE DEF c, p
    <3> QED
      BY <2>1, ChunkNumbers
  <2>3. s = [k \in 1 .. n |-> Chunk(r, k)]
    BY <1>2 DEF ChunksOf
  <2>4. \A k \in 1 .. n : /\ Chunk(r, k).row = r
                          /\ Chunk(r, k).first = (k - 1) * p + 1
                          /\ Chunk(r, k).last = IF k * p < c THEN k * p ELSE c
                          /\ Chunk(r, k) = [row |-> Chunk(r, k).row, first |-> Chunk(r, k).first,
                                            last |-> Chunk(r, k).last]
    BY DEF Chunk
  <2> HIDE DEF c, p, n
  <2>5. ASSUME NEW k \in 1 .. n
        PROVE  /\ (k - 1) * p \in Nat /\ (k - 1) * p + p = k * p
               /\ (k - 1) * p < c
    <3>1. k \in Nat /\ 0 < k /\ n - 1 \in Nat /\ k - 1 \in Nat
      BY <2>2
    <3>2. (k - 1) * p \in Nat /\ (k - 1) * p + p = k * p /\ k * p \in Nat
      BY <2>1, <3>1, ChunksInOrder
    <3>3. k * p <= n * p /\ n * p \in Nat
      <4>1. CASE k < n
        <5>1. k * p <= (n - 1) * p /\ (n - 1) * p + p = n * p /\ k * p \in Nat /\ (n - 1) * p \in Nat
          BY <2>1, <2>2, <3>1, <4>1, ChunksInOrder
        <5> QED
          BY <5>1, <2>1
      <4>2. CASE k = n
        BY <3>2, <4>2
      <4> QED
        BY <2>2, <4>1, <4>2
    <3> QED
      BY <2>1, <2>2, <3>2, <3>3
  <2>6. ASSUME NEW k \in 1 .. n
        PROVE  /\ s[k].row = r /\ s[k].first = (k - 1) * p + 1
               /\ s[k].last = IF k * p < c THEN k * p ELSE c
               /\ s[k] \in Request /\ InRow(s[k])
               /\ s[k].first \in Nat /\ s[k].last \in Nat
    <3>1. /\ s[k].row = r /\ s[k].first = (k - 1) * p + 1
          /\ s[k].last = IF k * p < c THEN k * p ELSE c
          /\ s[k] = [row |-> s[k].row, first |-> s[k].first, last |-> s[k].last]
      <4>1. s[k] = Chunk(r, k)
        BY <2>3
      <4> QED
        BY <4>1, <2>4
    <3> HIDE DEF s
    <3>2. s[k].first \in Nat /\ s[k].last \in Nat /\ 1 <= s[k].first
          /\ s[k].first <= s[k].last /\ s[k].last <= c
      BY <3>1, <2>5, <2>1
    <3>3. s[k] \in Request
      BY <3>1, <3>2 DEF Request
    <3> QED
      BY <3>1, <3>2, <3>3, <2>1 DEF InRow
  <2>7. s \in Seq(Request) /\ DOMAIN s = 1 .. n
    <3>1. s \in [1 .. n -> Request]
      BY <2>3, <2>6
    <3> QED
      BY <2>2, <3>1
  <2> HIDE DEF s
  <2>8. ASSUME NEW j \in 1 .. n, NEW k \in 1 .. n, j < k
        PROVE  s[j].last < s[k].first
    <3>1. j \in Nat /\ k \in Nat
      OBVIOUS
    <3>2. j * p <= (k - 1) * p /\ j * p \in Nat /\ (k - 1) * p \in Nat
      BY <2>1, <2>8, <3>1, ChunksInOrder
    <3>3. s[j].last <= j * p
      BY <2>1, <2>6, <3>2
    <3>4. s[k].first = (k - 1) * p + 1 /\ s[j].last \in Nat
      BY <2>6
    <3> QED
      BY <3>2, <3>3, <3>4
  <2>9. ASSUME NEW k \in 1 .. n
        PROVE  \/ s[k].first = Base + 1
               \/ \E j \in 1 .. n : j < k /\ s[j].last = s[k].first - 1
    <3>1. CASE k = 1
      <4>1. s[k].first = (1 - 1) * p + 1
        BY <2>6, <3>1
      <4> QED
        BY <2>1, <4>1
    <3>2. CASE k # 1
      <4> DEFINE j == k - 1
      <4>1. j \in 1 .. n /\ j < k
        BY <2>2, <3>2
      <4>2. s[k].first = j * p + 1 /\ j * p < c /\ j * p \in Nat
        BY <2>5, <2>6
      <4> HIDE DEF j
      <4>3. s[j].last = j * p
        BY <2>6, <4>1, <4>2
      <4> QED
        BY <4>1, <4>2, <4>3
    <3> QED
      BY <3>1, <3>2
  <2>10. Top(r) > Base => \E k \in 1 .. n : s[k].last = Top(r)
    <3> SUFFICES ASSUME c > 0
                 PROVE  \E k \in 1 .. n : s[k].last = c
      BY <2>1
    <3>1. n \in 1 .. n /\ c <= n * p
      BY <2>2
    <3>2. n * p \in Nat
      BY <2>1, <2>2
    <3>3. s[n].last = c
      BY <2>1, <2>6, <3>1, <3>2
    <3> QED
      BY <3>1, <3>3
  <2>11. \A k \in DOMAIN s : s[k].row = r /\ InRow(s[k])
    BY <2>6, <2>7
  <2>12. PieceRight(s, r)
    BY <2>7, <2>8, <2>9, <2>10, <2>11 DEF PieceRight
  <2> QED
    BY <2>12 DEF s
<1> QED
    BY <1>1, <1>2

LEMMA PerChunkIs ==
    ASSUME contract \in Contracts, Answerable, cap \in Int
    PROVE  PerChunk \in Nat \ {0}
<1>1. Len(contract) \in Nat \ {0}
  <2>1. Len(contract) \in Nat
    BY TypeSafeAssumption
  <2> QED
    BY <2>1 DEF Answerable
<1> DEFINE questions == IF cap < 1 THEN 1 ELSE cap
           segments == questions \div Len(contract)
<1>2. questions \in Nat
    OBVIOUS
<1> HIDE DEF questions
<1>3. segments \in Int
    BY <1>1, <1>2
<1>4. PerChunk = IF segments < 1 THEN 1 ELSE segments
    BY DEF PerChunk, questions
<1> HIDE DEF segments
<1> QED
    BY <1>3, <1>4
-----------------------------------------------------------------------------
(***************************************************************************)
(* What push_row writes for a row follows its chunks, so the place of a    *)
(* line is its number.                                                     *)
(***************************************************************************)
LEMMA EntriesAre ==
    ASSUME NEW T, NEW n, requests[n].first \in Int, requests[n].last \in Int,
           requests[n].first <= requests[n].last,
           \A line \in Int : Entry(n, line) \in T
    PROVE  LET m == requests[n].last - requests[n].first + 1
           IN /\ Entries(n) \in Seq(T) /\ Len(Entries(n)) = m
              /\ \A k \in 1 .. m : Entries(n)[k] = Entry(n, requests[n].first + k - 1)
<1> DEFINE first == requests[n].first
           m == requests[n].last - first + 1
<1>1. first \in Int /\ m \in Nat
    OBVIOUS
<1>2. Entries(n) = [k \in 1 .. m |-> Entry(n, first + k - 1)]
    BY DEF Entries
<1> HIDE DEF first, m
<1>3. \A k \in 1 .. m : first + k - 1 \in Int
    BY <1>1
<1>4. Entries(n) \in [1 .. m -> T]
    BY <1>2, <1>3
<1>5. Entries(n) \in Seq(T) /\ Len(Entries(n)) = m
    BY <1>1, <1>4
<1>6. \A k \in 1 .. m : Entries(n)[k] = Entry(n, first + k - 1)
    BY <1>2
<1> QED
    BY <1>5, <1>6 DEF first, m

\* When the requests up to n have been gone through, the row has its lines up
\* to the last of those that are its own, each in its place.
UpTo(r, n, s) ==
    /\ \A q \in 1 .. n : requests[q].row = r => requests[q].last - Base <= Len(s)
    /\ \A line \in Base + 1 .. Base + Len(s) :
          \E q \in 1 .. n : /\ requests[q].row = r /\ line \in Lines(q)
                            /\ s[line - Base] = Entry(q, line)

LEMMA OwnRequest ==
    ASSUME NEW T, \A q \in DOMAIN requests, line \in Int : Entry(q, line) \in T,
           PlanRight(requests, Len(column)), NEW r, NEW n \in Nat, n + 1 \in DOMAIN requests,
           requests[n + 1].row = r, Top(r) \in Int,
           NEW s \in Seq(T), UpTo(r, n, s)
    PROVE  s \o Entries(n + 1) \in Seq(T) /\ UpTo(r, n + 1, s \o Entries(n + 1))
<1> DEFINE N == n + 1
           L == Len(s)
           first == requests[N].first
           last == requests[N].last
           t == Entries(N)
           u == s \o t
           K == last - first + 1
<1>1. DOMAIN requests = 1 .. Len(requests) /\ Len(requests) \in Nat /\ 1 .. n \subseteq DOMAIN requests
    BY DEF PlanRight
<1>2. Base \in Int
    BY DEF Base
<1>3. \A q \in DOMAIN requests : /\ requests[q].first \in Int /\ requests[q].last \in Int
                                 /\ requests[q].first <= requests[q].last
                                 /\ Base + 1 <= requests[q].first
  <2> TAKE q \in DOMAIN requests
  <2>1. requests[q] \in Request /\ InRow(requests[q])
    BY DEF PlanRight
  <2> QED
    BY <2>1 DEF Request, InRow
<1>4. ASSUME NEW q \in 1 .. n, requests[q].row = r
      PROVE  requests[q].last < first
  <2>1. q \in DOMAIN requests /\ N \in DOMAIN requests /\ q < N /\ requests[q].row = requests[N].row
    BY <1>1, <1>4
  <2> QED
    BY <2>1 DEF PlanRight
<1>5. first = Base + 1 \/ \E q \in 1 .. n : requests[q].row = r /\ requests[q].last = first - 1
    BY <1>1 DEF PlanRight
<1>6. L \in Nat
    OBVIOUS
<1>7. first \in Int /\ last \in Int /\ first <= last /\ Base + 1 <= first /\ K \in Nat
    BY <1>3
<1>8. t \in Seq(T) /\ Len(t) = K /\ \A k \in 1 .. K : t[k] = Entry(N, first + k - 1)
    BY <1>7, EntriesAre
<1>9. /\ u \in Seq(T) /\ Len(u) = L + K
      /\ \A i \in 1 .. L : u[i] = s[i]
      /\ \A k \in 1 .. K : u[L + k] = t[k]
  <2> HIDE DEF t, K
  <2>1. /\ s \o t \in Seq(T) /\ Len(s \o t) = Len(s) + Len(t)
        /\ \A i \in 1 .. Len(s) : (s \o t)[i] = s[i]
        /\ \A k \in 1 .. Len(t) : (s \o t)[Len(s) + k] = t[k]
    <3>1. s \in Seq(T) /\ t \in Seq(T)
      BY <1>8
    <3> QED
      BY <3>1, Appended
  <2> QED
    BY <1>8, <2>1
<1>K. K = last - first + 1
    OBVIOUS
<1> HIDE DEF N, L, first, last, t, u, K
<1>10. Base + L <= first - 1
  <2> SUFFICES ASSUME L > 0
               PROVE  Base + L <= first - 1
    BY <1>2, <1>6, <1>7
  <2> DEFINE line == Base + L
  <2>1. line \in Base + 1 .. Base + L
    BY <1>2, <1>6
  <2> HIDE DEF line
  <2>2. PICK q \in 1 .. n : requests[q].row = r /\ line \in Lines(q)
    BY <2>1 DEF UpTo, L
  <2>3. requests[q].first \in Int /\ requests[q].last \in Int /\ requests[q].last < first
    BY <1>1, <1>3, <1>4, <2>2
  <2>4. line <= requests[q].last
    BY <2>2, <2>3 DEF Lines
  <2> QED
    BY <1>2, <1>6, <1>7, <2>1, <2>3, <2>4 DEF line
<1>11. first - 1 <= Base + L
  <2>1. CASE first = Base + 1
    BY <2>1, <1>2, <1>6
  <2>2. ASSUME NEW q \in 1 .. n, requests[q].row = r, requests[q].last = first - 1
        PROVE  first - 1 <= Base + L
    <3>1. requests[q].last - Base <= L
      BY <2>2 DEF UpTo, L
    <3> QED
      BY <1>2, <1>6, <1>7, <2>2, <3>1
  <2> QED
    BY <1>5, <2>1, <2>2
<1>12. /\ Base \in Int /\ L \in Nat /\ K \in Nat /\ Len(u) = L + K
       /\ first \in Int /\ last \in Int /\ first <= last /\ K = last - first + 1
       /\ Base + L = first - 1 /\ Base + Len(u) = last
  <2>1. Len(u) = L + K
    BY <1>9
  <2> QED
    BY <2>1, <1>2, <1>6, <1>7, <1>10, <1>11, <1>K
<1>13. ASSUME NEW q \in 1 .. n + 1, requests[q].row = r
       PROVE  requests[q].last - Base <= Len(u)
  <2>1. CASE q \in 1 .. n
    <3>1. requests[q].last < first /\ requests[q].last \in Int
      BY <1>1, <1>3, <1>4, <1>13, <2>1
    <3>2. requests[q].last < last
      BY <1>7, <3>1
    <3>3. last - Base = Len(u) /\ last \in Int /\ Base \in Int
      BY <1>12
    <3> QED
      BY <3>1, <3>2, <3>3
  <2>2. CASE q = n + 1
    <3>1. requests[q].last = last
      BY <2>2 DEF last, N
    <3> QED
      BY <1>12, <3>1
  <2> QED
    BY <2>1, <2>2
<1>14. ASSUME NEW line \in Base + 1 .. Base + Len(u)
       PROVE  \E q \in 1 .. n + 1 : /\ requests[q].row = r /\ line \in Lines(q)
                                    /\ u[line - Base] = Entry(q, line)
  <2>1. CASE line <= Base + L
    <3>1. line \in Base + 1 .. Base + L /\ line - Base \in 1 .. L
      BY <1>2, <1>6, <2>1
    <3>2. PICK q \in 1 .. n : /\ requests[q].row = r /\ line \in Lines(q)
                              /\ s[line - Base] = Entry(q, line)
      BY <3>1 DEF UpTo, L
    <3>3. u[line - Base] = s[line - Base]
      BY <1>9, <3>1
    <3> QED
      BY <3>2, <3>3
  <2>2. CASE line > Base + L
    <3> DEFINE k == line - (Base + L)
               i == line - Base
    <3>1. k \in 1 .. K /\ i = L + k /\ first + k - 1 = line /\ line \in Int
          /\ first <= line /\ line <= last
      BY <1>12, <1>14, <2>2
    <3> HIDE DEF k
    <3>2. u[L + k] = Entry(N, first + k - 1)
      BY <1>8, <1>9, <3>1
    <3>3. u[line - Base] = Entry(n + 1, line)
      BY <3>1, <3>2 DEF N
    <3>4. line \in Lines(n + 1)
      BY <1>7, <3>1 DEF Lines, first, last, N
    <3> QED
      BY <3>3, <3>4
  <2> QED
    BY <1>2, <1>6, <2>1, <2>2
<1>15. UpTo(r, n + 1, u)
    BY <1>13, <1>14 DEF UpTo
<1> QED
    BY <1>9, <1>15 DEF u, t, N

LEMMA OtherRequest ==
    ASSUME NEW T, NEW r, NEW n \in Nat, requests[n + 1].row # r,
           NEW s \in Seq(T), UpTo(r, n, s)
    PROVE  UpTo(r, n + 1, s)
<1>1. Len(s) \in Nat /\ Base \in Int
    BY DEF Base
<1>2. \A q \in 1 .. n + 1 : q \in 1 .. n \/ q = n + 1
    OBVIOUS
<1>3. 1 .. n \subseteq 1 .. n + 1
    OBVIOUS
<1>4. \A q \in 1 .. n + 1 : requests[q].row = r => requests[q].last - Base <= Len(s)
    BY <1>2 DEF UpTo
<1>5. ASSUME NEW line \in Base + 1 .. Base + Len(s)
      PROVE  \E q \in 1 .. n + 1 : /\ requests[q].row = r /\ line \in Lines(q)
                                   /\ s[line - Base] = Entry(q, line)
    BY <1>3, <1>5 DEF UpTo
<1> QED
    BY <1>4, <1>5 DEF UpTo

\* The lines of a row, in their places.
LEMMA LinesFollow ==
    ASSUME PlanRight(requests, Len(column)), Len(column) \in Nat,
           NEW r \in 1 .. Len(column), HasLines(r), Top(r) \in Int, Base <= Top(r)
    PROVE  /\ Len(LinesOf(r)) = Top(r) - Base
           /\ \A line \in Base + 1 .. Top(r) :
                 \E q \in DOMAIN requests : /\ requests[q].row = r /\ line \in Lines(q)
                                            /\ LinesOf(r)[line - Base] = Entry(q, line)
<1> DEFINE T == {Entry(q, line) : q \in DOMAIN requests, line \in Int}
           m == Len(requests)
           pieces == [n \in DOMAIN requests |-> IF requests[n].row = r THEN Entries(n) ELSE <<>>]
<1>1. DOMAIN requests = 1 .. m /\ m \in Nat
    BY DEF PlanRight
<1>2. \A q \in DOMAIN requests, line \in Int : Entry(q, line) \in T
    OBVIOUS
<1>3. Base \in Int
    BY DEF Base
<1>4. \A n \in 1 .. m : pieces[n] = IF requests[n].row = r THEN Entries(n) ELSE <<>>
    BY <1>1
<1>5. Len(pieces) = m
    BY <1>1
<1>6. LinesOf(r) = Concat(pieces)
    BY DEF LinesOf
<1> HIDE DEF T, m, pieces
<1>7. PICK f : /\ f[0] = <<>>
               /\ \A n \in 1 .. m : f[n] = f[n - 1] \o pieces[n]
               /\ Concat(pieces) = f[m]
    BY <1>1, <1>5, ConcatIs
<1> DEFINE S == {n \in Nat : n <= m => f[n] \in Seq(T) /\ UpTo(r, n, f[n])}
<1>8. 0 \in S
  <2>1. f[0] \in Seq(T) /\ Len(f[0]) = 0
    BY <1>7
  <2>2. UpTo(r, 0, f[0])
    BY <1>3, <2>1 DEF UpTo
  <2> QED
    BY <2>1, <2>2
<1>9. ASSUME NEW n \in Nat, n \in S
      PROVE  n + 1 \in S
  <2> SUFFICES ASSUME n + 1 <= m
               PROVE  f[n + 1] \in Seq(T) /\ UpTo(r, n + 1, f[n + 1])
    OBVIOUS
  <2>1. f[n] \in Seq(T) /\ UpTo(r, n, f[n])
    BY <1>1, <1>9
  <2>2. n + 1 \in 1 .. m /\ (n + 1) - 1 = n
    BY <1>1
  <2>3. f[n + 1] = f[n] \o pieces[n + 1]
    BY <1>7, <2>2
  <2>4. CASE requests[n + 1].row = r
    <3>1. f[n + 1] = f[n] \o Entries(n + 1) /\ n + 1 \in DOMAIN requests
      BY <1>1, <1>4, <2>2, <2>3, <2>4
    <3> QED
      BY <1>2, <2>1, <2>4, <3>1, OwnRequest
  <2>5. CASE requests[n + 1].row # r
    <3>1. f[n + 1] = f[n] \o <<>>
      BY <1>4, <2>2, <2>3, <2>5
    <3>2. f[n + 1] = f[n]
      BY <2>1, <3>1
    <3> QED
      BY <2>1, <2>5, <3>2, OtherRequest
  <2> QED
    BY <2>4, <2>5
<1> HIDE DEF S
<1>10. m \in S
    BY <1>1, <1>8, <1>9, AllNumbers
<1> DEFINE s == LinesOf(r)
           L == Len(s)
<1>11. s \in Seq(T) /\ UpTo(r, m, s)
    BY <1>1, <1>6, <1>7, <1>10 DEF S
<1> HIDE DEF s
<1>12. L \in Nat
    BY <1>11
<1>13. \A q \in DOMAIN requests : /\ requests[q].first \in Int /\ requests[q].last \in Int
                                  /\ requests[q].row = r => requests[q].last <= Top(r)
  <2> TAKE q \in DOMAIN requests
  <2>1. requests[q] \in Request /\ InRow(requests[q])
    BY DEF PlanRight
  <2> QED
    BY <2>1 DEF Request, InRow
<1>14. L <= Top(r) - Base
  <2> SUFFICES ASSUME L > 0
               PROVE  L <= Top(r) - Base
    BY <1>3, <1>12
  <2> DEFINE line == Base + L
  <2>1. line \in Base + 1 .. Base + L
    BY <1>3, <1>12
  <2> HIDE DEF line
  <2>2. PICK q \in 1 .. m : requests[q].row = r /\ line \in Lines(q)
    BY <1>11, <2>1 DEF UpTo
  <2>3. requests[q].first \in Int /\ requests[q].last \in Int /\ requests[q].last <= Top(r)
    BY <1>1, <1>13, <2>2
  <2>4. line <= requests[q].last
    BY <2>2, <2>3 DEF Lines
  <2> QED
    BY <1>3, <1>12, <2>1, <2>3, <2>4 DEF line
<1>15. Top(r) - Base <= L
  <2>1. CASE Top(r) > Base
    <3>1. PICK q \in DOMAIN requests : requests[q].row = r /\ requests[q].last = Top(r)
      BY <2>1 DEF PlanRight
    <3> QED
      BY <1>1, <1>11, <3>1 DEF UpTo
  <2> QED
    BY <1>3, <1>12, <2>1
<1>16. L = Top(r) - Base /\ Base + L = Top(r)
    BY <1>3, <1>12, <1>14, <1>15
<1> QED
    BY <1>1, <1>11, <1>16 DEF UpTo, s
-----------------------------------------------------------------------------
(***************************************************************************)
(* The column.  Its cells are computed from results, which the property    *)
(* does not mention: that the n-th result is the n-th request's, and says  *)
(* what became of it, has to be kept from the first to the last.           *)
(***************************************************************************)
Given ==
    /\ each \in BOOLEAN /\ contract \in Contracts
    /\ column \in (IF each THEN Documents ELSE States)
    /\ cap \in (IF each THEN MaxQuestions ELSE {0})

InHandOver ==
    /\ results \in Seq([of : Nat, how : Over])
    /\ Len(results) <= Len(requests)
    /\ \A n \in DOMAIN results : results[n] = [of |-> n, how |-> phase[n]]

AnswersInv ==
    /\ Given /\ InHandOver
    /\ DOMAIN phase = DOMAIN requests
    /\ pc \in {"planning", "raised", "running", "returned"}
    /\ pc \in {"planning", "raised"} => requests = <<>>
    /\ pc \in {"running", "returned"} => PlanRight(requests, Len(column))
    /\ pc = "returned" => /\ Len(results) = Len(requests)
                          /\ out = [r \in DOMAIN column |-> Cell(r)]

LEMMA RequestsNumbered ==
    ASSUME AnswersInv
    PROVE  /\ Len(requests) \in Nat /\ DOMAIN requests = 1 .. Len(requests)
           /\ Len(results) \in Nat /\ DOMAIN results = 1 .. Len(results)
<1>1. requests = <<>> \/ requests \in Seq(Request)
    BY DEF AnswersInv, PlanRight
<1>2. Len(requests) \in Nat /\ DOMAIN requests = 1 .. Len(requests)
  <2>1. CASE requests = <<>>
    BY <2>1
  <2>2. CASE requests \in Seq(Request)
    BY <2>2
  <2> QED
    BY <1>1, <2>1, <2>2
<1>3. results \in Seq([of : Nat, how : Over])
    BY DEF AnswersInv, InHandOver
<1> QED
    BY <1>2, <1>3

LEMMA ColumnIs ==
    ASSUME Given
    PROVE  /\ Len(column) \in Nat /\ DOMAIN column = 1 .. Len(column)
           /\ \A r \in DOMAIN column :
                 /\ each => column[r] \in Nat \cup {Null}
                 /\ ~each => column[r] \in {Null, "state", "malformed"}
<1>1. CASE each
  <2>1. column \in Seq(Nat \cup {Null})
    BY <1>1, TypeSafeAssumption DEF Given
  <2> QED
    BY <1>1, <2>1
<1>2. CASE ~each
  <2>1. column \in Seq({Null, "state", "malformed"})
    BY <1>2, TypeSafeAssumption DEF Given
  <2> QED
    BY <1>2, <2>1
<1> QED
    BY <1>1, <1>2

LEMMA PlansKeep ==
    ASSUME AnswersInv, EvalRows \/ EvalEach
    PROVE  AnswersInv'
<1>1. /\ pc = "planning" /\ pc' = "running" /\ UNCHANGED <<args, results>>
      /\ DOMAIN phase' = DOMAIN requests'
    BY DEF EvalRows, EvalEach, Begin
<1>2. Given /\ Given'
    BY <1>1 DEF AnswersInv, Given, args
<1>3. PlanRight(requests', Len(column))
  <2>1. Len(column) \in Nat /\ DOMAIN column = 1 .. Len(column)
    BY <1>2, ColumnIs
  <2>2. CASE EvalRows
    <3> DEFINE pieces == [r \in DOMAIN column |-> StateOf(r)]
    <3>1. ~each /\ requests' = Concat(pieces)
      BY <2>2 DEF EvalRows, Begin, PlanRows
    <3>2. DOMAIN pieces = 1 .. Len(column) /\ Len(pieces) = Len(column)
      BY <2>1
    <3>3. \A r \in 1 .. Len(column) : PieceRight(pieces[r], r)
      BY <2>1, <3>1, StatesAreRight
    <3> HIDE DEF pieces
    <3> QED
      BY <2>1, <3>1, <3>2, <3>3, PlansAreRight
  <2>3. CASE EvalEach
    <3> DEFINE pieces == [r \in DOMAIN column |-> ChunksOf(r)]
    <3>1. each /\ Answerable /\ requests' = Concat(pieces)
      BY <2>3 DEF EvalEach, Begin, PlanChunks
    <3>2. DOMAIN pieces = 1 .. Len(column) /\ Len(pieces) = Len(column)
      BY <2>1
    <3>3. PerChunk \in Nat \ {0}
      BY <1>2, <3>1, PerChunkIs, TypeSafeAssumption DEF Given
    <3>4. \A r \in 1 .. Len(column) : column[r] \in Nat \cup {Null}
      BY <1>2, <2>1, <3>1, ColumnIs
    <3>5. \A r \in 1 .. Len(column) : PieceRight(pieces[r], r)
      BY <2>1, <3>1, <3>3, <3>4, ChunksAreRight
    <3> HIDE DEF pieces
    <3> QED
      BY <2>1, <3>1, <3>2, <3>5, PlansAreRight
  <2> QED
    BY <2>2, <2>3
<1>4. PlanRight(requests, Len(column))'
    BY <1>1, <1>3 DEF PlanRight, InRow, HasLines, Base, Top, args
<1>5. InHandOver'
  <2>1. requests = <<>> /\ results' = results /\ results \in Seq([of : Nat, how : Over])
    BY <1>1 DEF AnswersInv, InHandOver
  <2>2. Len(results) = 0 /\ DOMAIN results = {} /\ Len(requests) = 0
    BY <2>1 DEF AnswersInv, InHandOver
  <2>3. requests' \in Seq(Request)
    BY <1>3 DEF PlanRight
  <2>4. Len(requests') \in Nat
    BY <2>3
  <2> QED
    BY <2>1, <2>2, <2>4 DEF InHandOver
<1> QED
    BY <1>1, <1>2, <1>4, <1>5 DEF AnswersInv

\* A request that is not over has no result yet, and in a column that is
\* returned every request is over.
LEMMA UnderwayKeeps ==
    ASSUME AnswersInv, NEW q \in DOMAIN requests, phase[q] \notin Over,
           UNCHANGED <<pc, args, requests, results, out>>,
           DOMAIN phase' = DOMAIN phase, \A p \in DOMAIN requests \ {q} : phase'[p] = phase[p]
    PROVE  AnswersInv'
<1>1. /\ Len(requests) \in Nat /\ DOMAIN requests = 1 .. Len(requests)
      /\ Len(results) \in Nat /\ DOMAIN results = 1 .. Len(results)
    BY RequestsNumbered
<1>2. /\ results \in Seq([of : Nat, how : Over]) /\ Len(results) <= Len(requests)
      /\ \A n \in DOMAIN results : results[n] = [of |-> n, how |-> phase[n]]
    BY DEF AnswersInv, InHandOver
<1>3. \A n \in DOMAIN results : phase[n] \in Over
  <2> TAKE n \in DOMAIN results
  <2>1. results[n].how = phase[n] /\ results[n] \in [of : Nat, how : Over]
    BY <1>2
  <2> QED
    BY <2>1
<1>4. q \notin DOMAIN results
    BY <1>3
<1>5. pc # "returned"
    BY <1>1, <1>4 DEF AnswersInv
<1>6. InHandOver'
  <2>1. \A n \in DOMAIN results : n \in DOMAIN requests \ {q}
    BY <1>1, <1>2, <1>4
  <2>2. \A n \in DOMAIN results : results[n] = [of |-> n, how |-> phase'[n]]
    BY <1>2, <2>1
  <2> QED
    BY <1>2, <2>2 DEF InHandOver
<1>7. Given'
    BY DEF AnswersInv, Given, args
<1>8. pc = "running" => PlanRight(requests, Len(column))'
    BY DEF AnswersInv, PlanRight, InRow, HasLines, Base, Top, args
<1> QED
    BY <1>5, <1>6, <1>7, <1>8 DEF AnswersInv

LEMMA RequestsKeep ==
    ASSUME AnswersInv, NEW q \in DOMAIN requests, Send(q) \/ Succeed(q) \/ Fail(q) \/ Retry(q)
    PROVE  AnswersInv'
<1>1. phase[q] \notin Over
    BY DEF Send, Succeed, Fail, Retry, Over
<1>2. UNCHANGED <<pc, args, requests, results, out>>
    BY DEF Send, Succeed, Fail, Retry
<1>3. \E to : phase' = [phase EXCEPT ![q] = to]
    BY DEF Send, Succeed, Fail, Retry
<1>4. DOMAIN phase' = DOMAIN phase /\ \A p \in DOMAIN requests \ {q} : phase'[p] = phase[p]
    BY <1>3 DEF AnswersInv
<1> QED
    BY <1>1, <1>2, <1>4, UnderwayKeeps

LEMMA CollectKeeps ==
    ASSUME AnswersInv, NEW q \in DOMAIN requests, Collect(q)
    PROVE  AnswersInv'
<1>1. /\ phase[q] \in Over /\ q = Len(results) + 1
      /\ results' = Append(results, [of |-> q, how |-> phase[q]])
      /\ UNCHANGED <<pc, args, requests, phase, out>>
    BY DEF Collect, InOrder, sending
<1>2. /\ Len(requests) \in Nat /\ DOMAIN requests = 1 .. Len(requests)
      /\ Len(results) \in Nat /\ DOMAIN results = 1 .. Len(results)
    BY RequestsNumbered
<1>3. /\ results \in Seq([of : Nat, how : Over])
      /\ \A n \in DOMAIN results : results[n] = [of |-> n, how |-> phase[n]]
    BY DEF AnswersInv, InHandOver
<1>4. pc # "returned" /\ q \in Nat
  <2>1. q \in 1 .. Len(requests) /\ q = Len(results) + 1
    BY <1>1, <1>2
  <2> DEFINE had == Len(results)
             all == Len(requests)
  <2>2. had \in Nat /\ all \in Nat
    BY <1>2
  <2> HIDE DEF had, all
  <2>3. had # all /\ q \in Nat
    BY <2>1, <2>2 DEF had, all
  <2> QED
    BY <2>3 DEF AnswersInv, had, all
<1>5. InHandOver'
  <2> DEFINE result == [of |-> q, how |-> phase[q]]
  <2>1. result \in [of : Nat, how : Over]
    BY <1>1, <1>4
  <2> HIDE DEF result
  <2>2. /\ results' \in Seq([of : Nat, how : Over]) /\ Len(results') = Len(results) + 1
        /\ \A n \in DOMAIN results : results'[n] = results[n]
        /\ results'[Len(results) + 1] = result
        /\ DOMAIN results' = 1 .. Len(results) + 1
    BY <1>1, <1>3, <2>1 DEF result
  <2>3. \A n \in DOMAIN results' : n \in DOMAIN results \/ n = q
    BY <1>1, <1>2, <2>2
  <2>4. \A n \in DOMAIN results' : results'[n] = [of |-> n, how |-> phase[n]]
    BY <1>1, <1>3, <2>2, <2>3 DEF result
  <2>5. Len(results') <= Len(requests)
    BY <1>1, <1>2, <2>2
  <2> QED
    BY <1>1, <2>2, <2>4, <2>5 DEF InHandOver
<1>6. Given' /\ pc' = pc /\ requests' = requests /\ DOMAIN phase' = DOMAIN requests'
    BY <1>1 DEF AnswersInv, Given, args
<1>7. pc = "running" => PlanRight(requests, Len(column))'
    BY <1>1 DEF AnswersInv, PlanRight, InRow, HasLines, Base, Top, args
<1> QED
    BY <1>4, <1>5, <1>6, <1>7 DEF AnswersInv

LEMMA CellsStay ==
    ASSUME UNCHANGED <<args, requests, answers, results>>, NEW r
    PROVE  Cell(r)' = Cell(r)
<1>1. \A n, line : Entry(n, line)' = Entry(n, line)
    BY DEF Entry
<1>2. \A n : Entries(n)' = Entries(n)
    BY <1>1 DEF Entries
<1>3. LinesOf(r)' = LinesOf(r)
    BY <1>2 DEF LinesOf
<1> QED
    BY <1>3 DEF Cell, args

LEMMA ReturnKeeps ==
    ASSUME AnswersInv, Return
    PROVE  AnswersInv'
<1>1. /\ pc = "running" /\ pc' = "returned" /\ Len(results) = Len(requests)
      /\ out' = [r \in DOMAIN column |-> Cell(r)]
      /\ UNCHANGED <<args, requests, phase, answers, results>>
    BY DEF Return, AllIn, sending
<1>2. Given' /\ InHandOver' /\ DOMAIN phase' = DOMAIN requests'
    BY <1>1 DEF AnswersInv, Given, InHandOver, args
<1>3. PlanRight(requests, Len(column))'
    BY <1>1 DEF AnswersInv, PlanRight, InRow, HasLines, Base, Top, args
<1>4. out' = [r \in DOMAIN column |-> Cell(r)]'
    BY <1>1, CellsStay DEF args
<1> QED
    BY <1>1, <1>2, <1>3, <1>4 DEF AnswersInv

LEMMA AnswersStutter ==
    ASSUME AnswersInv, UNCHANGED vars
    PROVE  AnswersInv'
<1>1. UNCHANGED <<pc, args, requests, phase, answers, results, out>>
    BY DEF vars, sending
<1>2. Given' /\ InHandOver' /\ DOMAIN phase' = DOMAIN requests'
    BY <1>1 DEF AnswersInv, Given, InHandOver, args
<1>3. pc \in {"running", "returned"} => PlanRight(requests, Len(column))'
    BY <1>1 DEF AnswersInv, PlanRight, InRow, HasLines, Base, Top, args
<1>4. pc = "returned" => out' = [r \in DOMAIN column |-> Cell(r)]'
    BY <1>1, CellsStay DEF AnswersInv, args
<1> QED
    BY <1>1, <1>2, <1>3, <1>4 DEF AnswersInv

\* In a state of the invariant the column is what it has to be.
LEMMA OneCovers ==
    ASSUME PlanRight(requests, Len(column)), NEW r, NEW line \in Int,
           NEW q \in DOMAIN requests, requests[q].row = r, line \in Lines(q)
    PROVE  CoveredBy(r, line) = {q}
<1>1. /\ DOMAIN requests = 1 .. Len(requests) /\ Len(requests) \in Nat
      /\ \A p \in DOMAIN requests : requests[p] \in Request
    BY DEF PlanRight
<1>2. \A p \in DOMAIN requests : requests[p].first \in Int /\ requests[p].last \in Int
    BY <1>1 DEF Request
<1>3. ASSUME NEW p \in CoveredBy(r, line)
      PROVE  p = q
  <2>1. p \in DOMAIN requests /\ requests[p].row = r /\ line \in Lines(p)
    BY DEF CoveredBy
  <2>2. /\ requests[p].first <= line /\ line <= requests[p].last
        /\ requests[q].first <= line /\ line <= requests[q].last
    BY <1>2, <2>1 DEF Lines
  <2>3. ~(p < q)
    <3> SUFFICES ASSUME p < q
                 PROVE  FALSE
      OBVIOUS
    <3>1. requests[p].last < requests[q].first
      BY <2>1 DEF PlanRight
    <3> QED
      BY <1>2, <2>1, <2>2, <3>1
  <2>4. ~(q < p)
    <3> SUFFICES ASSUME q < p
                 PROVE  FALSE
      OBVIOUS
    <3>1. requests[q].last < requests[p].first
      BY <2>1 DEF PlanRight
    <3> QED
      BY <1>2, <2>1, <2>2, <3>1
  <2> QED
    BY <1>1, <2>1, <2>3, <2>4
<1>4. q \in CoveredBy(r, line)
    BY DEF CoveredBy
<1> QED
    BY <1>3, <1>4

LEMMA AnswersSuffice == AnswersInv => EveryLineItsOwn
<1> SUFFICES ASSUME AnswersInv, pc = "returned", NEW r \in DOMAIN column
             PROVE  IF column[r] = Null THEN out[r] = Null
                    ELSE LET lines == IF each THEN 1 .. column[r] ELSE {0}
                         IN /\ Len(out[r]) = Cardinality(lines)
                            /\ \A line \in lines :
                                  LET shown == out[r][IF each THEN line ELSE 1]
                                      asked == CoveredBy(r, line)
                                  IN IF ~each /\ column[r] = "malformed"
                                     THEN asked = {} /\ shown = "error"
                                     ELSE \E q \in asked :
                                          /\ asked = {q}
                                          /\ shown = IF phase[q] = "failed" THEN "error"
                                                     ELSE IF line \in answers[q] THEN <<r, line>>
                                                     ELSE "blank"
    BY DEF EveryLineItsOwn
<1>1. /\ Given /\ PlanRight(requests, Len(column))
      /\ out[r] = Cell(r)
    BY DEF AnswersInv
<1>2. /\ Len(column) \in Nat /\ DOMAIN column = 1 .. Len(column)
      /\ each => column[r] \in Nat \cup {Null}
      /\ ~each => column[r] \in {Null, "state", "malformed"}
    BY <1>1, ColumnIs
<1>3. Cardinality({0}) = 1
    BY FS_Singleton
<1>4. CASE column[r] = Null
    BY <1>1, <1>4 DEF Cell
<1>5. CASE column[r] # Null /\ ~each /\ column[r] = "malformed"
  <2>1. out[r] = <<"error">>
    BY <1>1, <1>5 DEF Cell
  <2>2. Len(out[r]) = 1 /\ out[r][1] = "error"
    BY <2>1
  <2>3. CoveredBy(r, 0) = {}
    <3> SUFFICES ASSUME NEW q \in DOMAIN requests, requests[q].row = r
                 PROVE  FALSE
      BY DEF CoveredBy
    <3>1. HasLines(r)
      BY <1>1 DEF PlanRight, InRow
    <3> QED
      BY <1>5, <3>1 DEF HasLines
  <2> QED
    BY <1>3, <1>5, <2>2, <2>3
<1>6. CASE column[r] # Null /\ ~(~each /\ column[r] = "malformed")
  <2> DEFINE lines == IF each THEN 1 .. column[r] ELSE {0}
             Shown(q, line) == IF phase[q] = "failed" THEN "error"
                               ELSE IF line \in answers[q] THEN <<r, line>>
                               ELSE "blank"
  <2>1. HasLines(r) /\ Top(r) \in Int /\ Base <= Top(r) /\ r \in 1 .. Len(column)
    BY <1>2, <1>6 DEF HasLines, Top, Base
  <2>2. out[r] = LinesOf(r)
    BY <1>1, <1>6 DEF Cell
  <2>3. /\ Len(LinesOf(r)) = Top(r) - Base
        /\ \A line \in Base + 1 .. Top(r) :
              \E q \in DOMAIN requests : /\ requests[q].row = r /\ line \in Lines(q)
                                         /\ LinesOf(r)[line - Base] = Entry(q, line)
    BY <1>1, <1>2, <2>1, LinesFollow
  <2>4. /\ lines = Base + 1 .. Top(r) /\ lines \subseteq Int
        /\ \A line \in lines : (IF each THEN line ELSE 1) = line - Base
    <3>1. CASE each
      BY <1>2, <1>6, <3>1 DEF Base, Top
    <3>2. CASE ~each
      <4>1. lines = {0} /\ Base = -1 /\ Top(r) = 0
        BY <3>2 DEF Base, Top
      <4>2. {0} = Base + 1 .. Top(r)
        BY <4>1
      <4> QED
        BY <3>2, <4>1, <4>2
    <3> QED
      BY <3>1, <3>2
  <2>5. Cardinality(lines) = Top(r) - Base
    <3>1. CASE each
      <4>1. column[r] \in Nat /\ lines = 1 .. column[r] /\ Top(r) = column[r] /\ Base = 0
        BY <1>2, <1>6, <3>1 DEF Base, Top
      <4> HIDE DEF lines
      <4>2. Cardinality(1 .. column[r]) = column[r]
        <5> DEFINE c == column[r]
        <5>1. c \in Int
          BY <4>1
        <5> HIDE DEF c
        <5>2. Cardinality(1 .. c) = IF 1 > c THEN 0 ELSE c - 1 + 1
          BY <5>1, FS_Interval
        <5> QED
          BY <4>1, <5>2 DEF c
      <4> QED
        BY <4>1, <4>2
    <3>2. CASE ~each
      BY <1>3, <3>2 DEF Base, Top
    <3> QED
      BY <3>1, <3>2
  <2>6. ASSUME NEW line \in lines
        PROVE  \E q \in CoveredBy(r, line) :
                  /\ CoveredBy(r, line) = {q}
                  /\ out[r][IF each THEN line ELSE 1] = Shown(q, line)
    <3> HIDE DEF lines
    <3>1. PICK q \in DOMAIN requests : /\ requests[q].row = r /\ line \in Lines(q)
                                       /\ LinesOf(r)[line - Base] = Entry(q, line)
      BY <2>3, <2>4
    <3>2. CoveredBy(r, line) = {q}
      BY <1>1, <2>4, <3>1, OneCovers
    <3>3. results[q] = [of |-> q, how |-> phase[q]]
      BY RequestsNumbered DEF AnswersInv, InHandOver
    <3>4. Entry(q, line) = Shown(q, line)
      BY <3>1, <3>3 DEF Entry
    <3>5. out[r][IF each THEN line ELSE 1] = Shown(q, line)
      <4>1. (IF each THEN line ELSE 1) = line - Base
        BY <2>4
      <4> QED
        BY <2>2, <3>1, <3>4, <4>1
    <3> QED
      BY <3>2, <3>5
  <2>7. Len(out[r]) = Cardinality(lines)
    BY <2>2, <2>3, <2>5
  <2> QED
    BY <1>6, <2>6, <2>7
<1> QED
    BY <1>4, <1>5, <1>6

\* However the segments are packed into requests, and whatever becomes of
\* those, the column that comes back shows for every row and segment the answer
\* to its own question, or that it failed or was left out (EveryLineItsOwn;
\* build_states, plan_chunks, push_row).
THEOREM AnswersStayInPlace == Spec => []EveryLineItsOwn
<1>1. Init => AnswersInv
  <2> SUFFICES ASSUME Init
               PROVE  AnswersInv
    OBVIOUS
  <2>1. Given
    BY DEF Init, Given
  <2>2. InHandOver
    <3>1. results = <<>> /\ requests = <<>>
      BY DEF Init
    <3>2. <<>> \in Seq([of : Nat, how : Over]) /\ Len(<<>>) = 0 /\ DOMAIN <<>> = {}
      OBVIOUS
    <3> QED
      BY <3>1, <3>2 DEF InHandOver
  <2> QED
    BY <2>1, <2>2 DEF Init, AnswersInv
<1>2. AnswersInv /\ [Next]_vars => AnswersInv'
  <2> SUFFICES ASSUME AnswersInv, [Next]_vars
               PROVE  AnswersInv'
    OBVIOUS
  <2>1. CASE UNCHANGED vars
    BY <2>1, AnswersStutter
  <2>2. CASE Refuse
    <3>1. /\ pc = "planning" /\ pc' = "raised"
          /\ UNCHANGED <<args, requests, phase, results>>
      BY <2>2 DEF Refuse, sending
    <3> QED
      BY <3>1 DEF AnswersInv, Given, InHandOver, args
  <2>3. CASE EvalRows \/ EvalEach
    BY <2>3, PlansKeep
  <2>4. CASE Return
    BY <2>4, ReturnKeeps
  <2>5. ASSUME NEW q \in DOMAIN requests, Send(q) \/ Succeed(q) \/ Fail(q) \/ Retry(q)
        PROVE  AnswersInv'
    BY <2>5, RequestsKeep
  <2>6. ASSUME NEW q \in DOMAIN requests, Collect(q)
        PROVE  AnswersInv'
    BY <2>6, CollectKeeps
  <2> QED
    BY <2>1, <2>2, <2>3, <2>4, <2>5, <2>6 DEF Next
<1> QED
    BY <1>1, <1>2, AnswersSuffice, PTL DEF Spec
=============================================================================
