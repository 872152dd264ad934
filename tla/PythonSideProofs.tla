-------------------------- MODULE PythonSideProofs --------------------------
(***************************************************************************)
(* The parts written in Python.  LocalServing: requests stay local, an     *)
(* engine is built once, a cache is used for the tokens it was filled      *)
(* with, and every row shows the answer to its own prompt.  CodingSession: *)
(* a verified replay is the run, gold is what reviewers wrote, a codebook  *)
(* is a partition of its clusters, and a sample's quotas are fair.         *)
(***************************************************************************)
EXTENDS LocalServing, CodingSession, FiniteSetTheorems, FunctionTheorems,
        WellFoundedInduction, TLAPS
-----------------------------------------------------------------------------
(***************************************************************************)
(* Numbers and sequences                                                   *)
(***************************************************************************)
\* A set of natural numbers has a least one, and a bounded one a greatest.
LEMMA LeastOf ==
    ASSUME NEW S \in SUBSET Nat, S # {}
    PROVE  \E m \in S : \A n \in S : m <= n
<1>1. PICK m \in S : \A n \in S : ~(<<n, m>> \in OpToRel(<, Nat))
    BY WFMin, NatLessThanWellFounded
<1>2. \A n \in S : ~(n < m)
    BY <1>1 DEF OpToRel
<1>3. ASSUME NEW n \in S
      PROVE  m <= n
    BY <1>2, m \in Nat, n \in Nat
<1> QED
    BY <1>3

LEMMA GreatestOf ==
    ASSUME NEW S \in SUBSET Nat, S # {}, NEW b \in Nat, \A n \in S : n <= b
    PROVE  \E m \in S : \A n \in S : n <= m
<1> DEFINE T == {n \in 0..b : b - n \in S}
<1>1. T \in SUBSET Nat /\ T # {}
  <2>1. PICK n \in S : TRUE
    OBVIOUS
  <2>2. b - n \in 0..b /\ b - (b - n) = n
    BY <2>1
  <2>3. b - n \in T
    BY <2>1, <2>2
  <2>4. \A t \in T : t \in Nat
    OBVIOUS
  <2> HIDE DEF T
  <2> QED
    BY <2>3, <2>4
<1>2. PICK t \in T : \A u \in T : t <= u
    BY <1>1, LeastOf
<1>3. \A n \in S : b - n \in T
  <2> TAKE n \in S
  <2>1. b - n \in 0..b /\ b - (b - n) = n
    OBVIOUS
  <2> QED
    BY <2>1
<1>4. \A n \in S : n <= b - t
  <2> TAKE n \in S
  <2>1. t <= b - n
    <3> HIDE DEF T
    <3> QED
      BY ONLY <1>2, <1>3, n \in S
  <2>2. t \in Nat /\ n \in Nat
    BY <1>1
  <2> HIDE DEF T
  <2>3. n <= b - t
    BY ONLY <2>1, <2>2, b \in Nat
  <2> QED
    BY <2>3
<1> QED
    BY <1>2, <1>4

\* A set of natural numbers that has 0 and the next of each it has, has them all.
LEMMA AllNumbers ==
    ASSUME NEW S, 0 \in S, \A n \in Nat : n \in S => n + 1 \in S
    PROVE  Nat \subseteq S
<1> DEFINE Lacking == {n \in Nat : n \notin S}
<1> SUFFICES ASSUME Lacking # {}
             PROVE  FALSE
    OBVIOUS
<1>1. PICK m \in Lacking : \A n \in Lacking : ~(<<n, m>> \in OpToRel(<, Nat))
  <2>1. Lacking \subseteq Nat
    OBVIOUS
  <2> HIDE DEF Lacking
  <2> QED
    BY <2>1, WFMin, NatLessThanWellFounded
<1>2. m \in Nat /\ m \notin S /\ m # 0
    OBVIOUS
<1>3. m - 1 \in Nat /\ m - 1 < m /\ (m - 1) + 1 = m
    BY <1>2
<1>4. m - 1 \notin Lacking
    BY <1>1, <1>2, <1>3 DEF OpToRel
<1> QED
    BY <1>2, <1>3, <1>4

\* One sequence after another.
LEMMA Appended ==
    ASSUME NEW T, NEW s \in Seq(T), NEW t \in Seq(T)
    PROVE  /\ s \o t \in Seq(T) /\ Len(s) \in Nat /\ Len(t) \in Nat
           /\ Len(s \o t) = Len(s) + Len(t)
           /\ DOMAIN s = 1 .. Len(s) /\ DOMAIN t = 1 .. Len(t)
           /\ DOMAIN (s \o t) = 1 .. Len(s) + Len(t)
           /\ \A q \in 1 .. Len(s) : (s \o t)[q] = s[q]
           /\ \A k \in 1 .. Len(t) : (s \o t)[Len(s) + k] = t[k]
<1>1. /\ s \o t \in Seq(T) /\ Len(s) \in Nat /\ Len(t) \in Nat /\ Len(s \o t) = Len(s) + Len(t)
      /\ DOMAIN s = 1 .. Len(s) /\ DOMAIN t = 1 .. Len(t)
      /\ DOMAIN (s \o t) = 1 .. Len(s) + Len(t)
      /\ \A q \in 1 .. Len(s) + Len(t) : (s \o t)[q] = IF q <= Len(s) THEN s[q] ELSE t[q - Len(s)]
    OBVIOUS
<1>2. ASSUME NEW k \in 1 .. Len(t)
      PROVE  (s \o t)[Len(s) + k] = t[k]
  <2> DEFINE q == Len(s) + k
  <2>1. q \in 1 .. Len(s) + Len(t) /\ ~(q <= Len(s)) /\ q - Len(s) = k
    BY <1>1
  <2> HIDE DEF q
  <2>2. (s \o t)[q] = t[k]
    BY <1>1, <2>1
  <2> QED
    BY <2>2 DEF q
<1>3. \A q \in 1 .. Len(s) : (s \o t)[q] = s[q]
    BY <1>1
<1> QED
    BY <1>1, <1>2, <1>3

\* A function on 1 .. n is a sequence.
LEMMA LenIs ==
    ASSUME NEW T, NEW n \in Nat, NEW f, f \in [1 .. n -> T]
    PROVE  f \in Seq(T) /\ Len(f) = n
OBVIOUS

\* What FlattenSeq has put together after each piece.
Joins(f, pieces, m) ==
    f = [n \in 1 .. m |-> IF n = 1 THEN pieces[n] ELSE f[n - 1] \o pieces[n]]

LEMMA JoinsExist ==
    ASSUME NEW pieces, NEW m \in Nat
    PROVE  \E f : Joins(f, pieces, m)
<1> DEFINE S == {n \in Nat : \E f : Joins(f, pieces, n)}
<1>1. 0 \in S
  <2> DEFINE g == [l \in 1 .. 0 |-> <<>>]
  <2>1. g = [l \in 1 .. 0 |-> IF l = 1 THEN pieces[l] ELSE g[l - 1] \o pieces[l]]
    OBVIOUS
  <2> HIDE DEF g
  <2> QED
    BY <2>1 DEF Joins
<1>2. ASSUME NEW n \in Nat, n \in S
      PROVE  n + 1 \in S
  <2>1. PICK f : Joins(f, pieces, n)
    BY <1>2
  <2> DEFINE top == IF n = 0 THEN pieces[1] ELSE f[n] \o pieces[n + 1]
             g == [l \in 1 .. n + 1 |-> IF l = n + 1 THEN top ELSE f[l]]
             h == [l \in 1 .. n + 1 |-> IF l = 1 THEN pieces[l] ELSE g[l - 1] \o pieces[l]]
  <2>2. ASSUME NEW l \in 1 .. n + 1
        PROVE  g[l] = h[l]
    <3>1. CASE l = n + 1 /\ n = 0
      BY <3>1
    <3>2. CASE l = n + 1 /\ n # 0
      <4>1. n \in 1 .. n + 1 /\ n # n + 1 /\ (n + 1) - 1 = n /\ n + 1 # 1
        BY <3>2
      <4>2. g[n] = f[n] /\ g[l] = f[n] \o pieces[n + 1]
        BY <3>2, <4>1
      <4>3. h[l] = g[n] \o pieces[n + 1]
        <5> HIDE DEF g
        <5> QED
          BY <3>2, <4>1
      <4> QED
        BY <4>2, <4>3
    <3>3. CASE l # n + 1 /\ l # 1
      <4>1. l \in 1 .. n /\ l - 1 \in 1 .. n + 1 /\ l - 1 # n + 1
        BY <3>3
      <4>2. f[l] = f[l - 1] \o pieces[l]
        BY <2>1, <3>3, <4>1 DEF Joins
      <4>3. g[l] = f[l] /\ g[l - 1] = f[l - 1]
        BY <3>3, <4>1
      <4>4. h[l] = g[l - 1] \o pieces[l]
        <5> HIDE DEF g
        <5> QED
          BY <3>3
      <4> QED
        BY <4>2, <4>3, <4>4
    <3>4. CASE l = 1 /\ l # n + 1
      <4>1. l \in 1 .. n
        BY <3>4
      <4>2. f[1] = pieces[1]
        BY <2>1, <3>4, <4>1 DEF Joins
      <4> QED
        BY <3>4, <4>2
    <3> QED
      BY <3>1, <3>2, <3>3, <3>4
  <2>3. g = h
    BY <2>2
  <2>4. Joins(g, pieces, n + 1)
    <3> HIDE DEF g
    <3> QED
      BY <2>3 DEF Joins
  <2> HIDE DEF g, h
  <2> QED
    BY <2>4
<1> HIDE DEF S
<1>3. m \in S
    BY <1>1, <1>2, AllNumbers
<1> QED
    BY <1>3 DEF S

\* What holds before the first piece, and after a piece whenever it held before
\* it, holds of the whole: Right is the set of <<what is put together, pieces>>.
LEMMA FlattenIs ==
    ASSUME NEW T, NEW m \in Nat, NEW pieces \in [1 .. m -> Seq(T)], NEW Right,
           <<<<>>, 0>> \in Right,
           \A n \in 1 .. m : \A s \in Seq(T) :
              <<s, n - 1>> \in Right => <<s \o pieces[n], n>> \in Right
    PROVE  FlattenSeq(pieces) \in Seq(T) /\ <<FlattenSeq(pieces), m>> \in Right
<1> DEFINE f == CHOOSE g : Joins(g, pieces, m)
           S == {n \in Nat : n \in 1 .. m => f[n] \in Seq(T) /\ <<f[n], n>> \in Right}
<1>1. Len(pieces) = m /\ pieces \in Seq(Seq(T))
    BY LenIs
<1>2. Joins(f, pieces, m)
    BY JoinsExist
<1>3. CASE m = 0
  <2>1. pieces = <<>>
    BY <1>1, <1>3
  <2>2. FlattenSeq(pieces) = <<>>
    BY <1>1, <1>3, <2>1 DEF FlattenSeq
  <2> QED
    BY <1>3, <2>2
<1>4. CASE m # 0
  <2>1. FlattenSeq(pieces) = f[m]
    BY <1>1, <1>4 DEF FlattenSeq, Joins
  <2> HIDE DEF f
  <2>2. 0 \in S
    OBVIOUS
  <2>3. ASSUME NEW n \in Nat, n \in S
        PROVE  n + 1 \in S
    <3>1. CASE n + 1 \in 1 .. m /\ n = 0
      <4>1. f[1] = pieces[1] /\ pieces[1] \in Seq(T)
        BY <1>2, <3>1 DEF Joins
      <4>2. <<>> \in Seq(T) /\ <<>> \o pieces[1] = pieces[1]
        BY <4>1
      <4>3. <<<<>> \o pieces[1], 1>> \in Right
        <5>1. 1 \in 1 .. m /\ 1 - 1 = 0
          BY <3>1
        <5>2. <<<<>>, 1 - 1>> \in Right
          BY <5>1
        <5> QED
          BY <4>2, <5>1, <5>2
      <4>4. f[1] \in Seq(T) /\ <<f[1], 1>> \in Right
        BY ONLY <4>1, <4>2, <4>3, Zenon
      <4>5. n + 1 = 1 /\ n + 1 \in Nat
        BY <3>1
      <4> QED
        BY <4>4, <4>5, Zenon
    <3>2. CASE n + 1 \in 1 .. m /\ n # 0
      <4>1. n \in 1 .. m /\ (n + 1) - 1 = n /\ n + 1 # 1
        BY <3>2
      <4>2. f[n] \in Seq(T) /\ <<f[n], n>> \in Right
        BY <2>3, <4>1
      <4>3. f[n + 1] = f[n] \o pieces[n + 1] /\ pieces[n + 1] \in Seq(T)
        BY <1>2, <3>2, <4>1 DEF Joins
      <4>4. <<f[n] \o pieces[n + 1], n + 1>> \in Right
        BY <3>2, <4>1, <4>2
      <4>5. f[n] \o pieces[n + 1] \in Seq(T)
        BY <4>2, <4>3
      <4>6. f[n + 1] \in Seq(T) /\ <<f[n + 1], n + 1>> \in Right
        BY ONLY <4>3, <4>4, <4>5, Zenon
      <4>7. n + 1 \in Nat
        OBVIOUS
      <4> QED
        BY <4>6, <4>7, Zenon
    <3>3. CASE n + 1 \notin 1 .. m
      BY <3>3
    <3> QED
      BY <3>1, <3>2, <3>3
  <2> HIDE DEF S
  <2>4. m \in S
    BY <2>2, <2>3, AllNumbers
  <2> QED
    BY <1>4, <2>1, <2>4 DEF S
<1> QED
    BY <1>3, <1>4

\* The members of K up to n, in order.
Places(p, K, n) ==
    /\ \A i \in 1 .. Len(p) : p[i] \in 1 .. n /\ p[i] \in K
    /\ \A i, k \in 1 .. Len(p) : i < k => p[i] < p[k]
    /\ \A r \in 1 .. n : r \in K => \E i \in 1 .. Len(p) : p[i] = r

LEMMA NextPlace ==
    ASSUME NEW K, NEW n \in Nat, n >= 1, NEW p \in Seq(Nat), Places(p, K, n - 1), n \in K
    PROVE  /\ Append(p, n) \in Seq(Nat) /\ Len(Append(p, n)) = Len(p) + 1 /\ Len(p) \in Nat
           /\ Append(p, n)[Len(p) + 1] = n
           /\ \A i \in 1 .. Len(p) : Append(p, n)[i] = p[i]
           /\ Places(Append(p, n), K, n)
<1> DEFINE a == Append(p, n)
<1>1. /\ a \in Seq(Nat) /\ Len(a) = Len(p) + 1 /\ Len(p) \in Nat /\ a[Len(p) + 1] = n
      /\ \A i \in 1 .. Len(p) : a[i] = p[i] /\ p[i] \in Nat
  OBVIOUS
<1> HIDE DEF a
<1>2. ASSUME NEW i \in 1 .. Len(p) + 1
      PROVE  \/ i \in 1 .. Len(p) /\ a[i] = p[i] /\ p[i] \in 1 .. n - 1 /\ p[i] \in K
             \/ i = Len(p) + 1 /\ a[i] = n
  <2>1. i \in 1 .. Len(p) \/ i = Len(p) + 1
    BY <1>1
  <2> QED
    BY <1>1, <2>1 DEF Places
<1>3. ASSUME NEW i \in 1 .. Len(p) + 1
      PROVE  a[i] \in 1 .. n /\ a[i] \in K
  <2>1. CASE i = Len(p) + 1 /\ a[i] = n
    BY <2>1
  <2>2. CASE a[i] = p[i] /\ p[i] \in 1 .. n - 1 /\ p[i] \in K
    <3>1. p[i] \in 1 .. n
      BY <2>2
    <3> QED
      BY <2>2, <3>1
  <2> QED
    BY <1>2, <2>1, <2>2
<1>4. ASSUME NEW i \in 1 .. Len(p) + 1, NEW k \in 1 .. Len(p) + 1, i < k
      PROVE  a[i] < a[k]
  <2>1. i \in 1 .. Len(p)
    BY <1>1, <1>4
  <2>2. CASE k \in 1 .. Len(p)
    <3>1. p[i] < p[k]
      BY <1>4, <2>1, <2>2 DEF Places
    <3> QED
      BY <1>1, <2>1, <2>2, <3>1
  <2>3. CASE k = Len(p) + 1
    <3>1. p[i] \in 1 .. n - 1
      BY <2>1 DEF Places
    <3> QED
      BY <1>1, <2>1, <2>3, <3>1
  <2> QED
    BY <1>1, <2>2, <2>3
<1>5. ASSUME NEW r \in 1 .. n, r \in K
      PROVE  \E i \in 1 .. Len(p) + 1 : a[i] = r
  <2>1. CASE r = n
    BY <1>1, <2>1
  <2>2. CASE r # n
    <3>1. PICK i \in 1 .. Len(p) : p[i] = r
      BY <1>5, <2>2 DEF Places
    <3> QED
      BY <1>1, <3>1
  <2> QED
    BY <2>1, <2>2
<1>6. Places(a, K, n)
  BY <1>1, <1>3, <1>4, <1>5 DEF Places
<1> QED
  BY <1>1, <1>6 DEF a

\* What is left of s when only the places of K are kept; and those of K up to m.
Kept(s, K, m) == FlattenSeq([k \in 1 .. m |-> IF k \in K THEN <<s[k]>> ELSE <<>>])
InOrder(K, m) == FlattenSeq([k \in 1 .. m |-> IF k \in K THEN <<k>> ELSE <<>>])

\* q is s at the places p.
Keeps(q, p, s, K, n) ==
    /\ p \in Seq(Nat) /\ Places(p, K, n) /\ Len(p) = Len(q)
    /\ \A i \in 1 .. Len(p) : q[i] = s[p[i]]

LEMMA KeptIs ==
    ASSUME NEW T, NEW m \in Nat, NEW s \in [1 .. m -> T], NEW K
    PROVE  /\ Kept(s, K, m) \in Seq(T)
           /\ \E p : Keeps(Kept(s, K, m), p, s, K, m)
<1> DEFINE Piece(k) == IF k \in K THEN <<s[k]>> ELSE <<>>
           pieces == [k \in 1 .. m |-> Piece(k)]
           Good(q, n) == \E p : Keeps(q, p, s, K, n)
           Right == {w \in Seq(T) \X Nat : Good(w[1], w[2])}
<1>1. pieces \in [1 .. m -> Seq(T)]
  <2>1. ASSUME NEW k \in 1 .. m
        PROVE  Piece(k) \in Seq(T)
    OBVIOUS
  <2> HIDE DEF Piece
  <2> QED
    BY <2>1
<1>2. <<<<>>, 0>> \in Right
  <2> DEFINE e == <<>>
  <2>1. e \in Seq(T) /\ e \in Seq(Nat) /\ Places(e, K, 0) /\ Len(e) = 0
    BY DEF Places
  <2> HIDE DEF e
  <2>2. Keeps(e, e, s, K, 0)
    BY <2>1 DEF Keeps
  <2>3. <<e, 0>> \in Right
    <3>1. Good(e, 0)
      BY <2>2
    <3> DEFINE w == <<e, 0>>
    <3>a. e \in Seq(T) /\ 0 \in Nat
      BY <2>1
    <3>2. w \in Seq(T) \X Nat /\ w[1] = e /\ w[2] = 0
      BY ONLY <3>a
    <3> HIDE DEF Good, w
    <3>3. w \in Right
      BY <3>1, <3>2
    <3> QED
      BY <3>3 DEF w
  <2> QED
    BY <2>3 DEF e
<1>3. ASSUME NEW n \in 1 .. m, NEW q \in Seq(T), <<q, n - 1>> \in Right
      PROVE  <<q \o pieces[n], n>> \in Right
  <2>1. Good(q, n - 1) /\ n \in Nat /\ n >= 1 /\ s[n] \in T
    BY <1>3
  <2>a. PICK p : Keeps(q, p, s, K, n - 1)
    BY <2>1
  <2>2. /\ p \in Seq(Nat) /\ Places(p, K, n - 1) /\ Len(p) = Len(q)
        /\ \A i \in 1 .. Len(p) : q[i] = s[p[i]]
    BY <2>a DEF Keeps
  <2>3. CASE n \notin K
    <3>1. q \o pieces[n] = q
      BY <2>3
    <3>2. Places(p, K, n)
      BY <2>1, <2>2, <2>3 DEF Places
    <3>3. Good(q, n)
      <4>1. Keeps(q, p, s, K, n)
        BY <2>2, <3>2 DEF Keeps
      <4> QED
        BY <4>1
    <3> HIDE DEF Good
    <3> QED
      BY <2>1, <3>1, <3>3
  <2>4. CASE n \in K
    <3> DEFINE a == Append(p, n)
               b == Append(q, s[n])
    <3>1. /\ a \in Seq(Nat) /\ Len(a) = Len(p) + 1 /\ Len(p) \in Nat /\ a[Len(p) + 1] = n
          /\ \A i \in 1 .. Len(p) : a[i] = p[i]
          /\ Places(a, K, n)
      <4> HIDE DEF a
      <4> QED
        BY ONLY NextPlace, <2>1, <2>2, <2>4 DEF a
    <3>2. /\ q \o pieces[n] = b /\ b \in Seq(T) /\ Len(b) = Len(q) + 1 /\ b[Len(q) + 1] = s[n]
          /\ \A i \in 1 .. Len(q) : b[i] = q[i]
      BY <2>1, <2>4
    <3> HIDE DEF a, b
    <3>3. \A i \in 1 .. Len(b) : b[i] = s[a[i]]
      <4> TAKE i \in 1 .. Len(b)
      <4>1. i \in 1 .. Len(q) \/ i = Len(q) + 1
        BY <2>2, <3>1, <3>2
      <4> QED
        BY <2>2, <3>1, <3>2, <4>1
    <3>4. Good(b, n)
      <4>1. Keeps(b, a, s, K, n)
        BY <2>2, <3>1, <3>2, <3>3 DEF Keeps
      <4> QED
        BY <4>1
    <3> HIDE DEF Good
    <3> QED
      BY <2>1, <3>2, <3>4
  <2> QED
    BY <2>3, <2>4
<1> HIDE DEF pieces, Right
<1>4. FlattenSeq(pieces) \in Seq(T) /\ <<FlattenSeq(pieces), m>> \in Right
  BY <1>1, <1>2, <1>3, FlattenIs
<1>5. FlattenSeq(pieces) = Kept(s, K, m)
  BY DEF pieces, Kept
<1>6. Good(Kept(s, K, m), m)
  BY <1>4, <1>5 DEF Right
<1> QED
  BY <1>4, <1>5, <1>6

\* The places themselves.
LEMMA PlacesAre ==
    ASSUME NEW m \in Nat, NEW K
    PROVE  InOrder(K, m) \in Seq(1 .. m) /\ Places(InOrder(K, m), K, m)
<1> DEFINE same == [k \in 1 .. m |-> k]
           T == 1 .. m
           q == Kept(same, K, m)
<1>1. same \in [1 .. m -> T] /\ \A k \in 1 .. m : same[k] = k
  OBVIOUS
<1> HIDE DEF same, T
<1>2. /\ q \in Seq(T)
      /\ \E p : Keeps(q, p, same, K, m)
  BY ONLY <1>1, m \in Nat, KeptIs, Zenon
<1>3. q = InOrder(K, m)
  BY <1>1 DEF Kept, InOrder
<1> HIDE DEF q
<1>4. PICK p : Keeps(q, p, same, K, m)
  BY <1>2
<1>5. \A i \in 1 .. Len(q) : q[i] = p[i]
  BY <1>1, <1>4 DEF Keeps, Places
<1>6. Places(q, K, m)
  BY <1>4, <1>5 DEF Keeps, Places
<1> QED
  BY <1>2, <1>3, <1>6 DEF T
-----------------------------------------------------------------------------
(***************************************************************************)
(* Where a thread is                                                       *)
(***************************************************************************)
InUdf == {"lookup", "locking", "chunk", "waiting", "loading", "draining"}
Labels == InUdf \cup {"called", "built", "scanning", "matched", "done", "raised"}

\* What a thread is in the middle of tells its job.
Placed ==
    /\ job \in [Threads -> Jobs]
    /\ pc \in [Threads -> Labels]
    /\ \A t \in Threads :
          /\ pc[t] \in InUdf => job[t].kind \in Udfs
          /\ pc[t] = "built" => job[t].kind = "serve"
          /\ pc[t] \in {"scanning", "matched"} => job[t].kind = "reuse"

\* What a step of a UDF leaves alone.
LEMMA LocalWorkIs ==
    ASSUME NEW t \in Threads, LocalWork(t), Placed
    PROVE  /\ UNCHANGED <<env, job, endpoint, entries, hit, sent, cleared>>
           /\ job[t].kind \in Udfs
           /\ pc' \in [Threads -> Labels] /\ pc'[t] \in InUdf \cup {"done", "raised"}
           /\ \A u \in Threads \ {t} : pc'[u] = pc[u]
           /\ out' = out \/ \E column : out' = [out EXCEPT ![t] = column]
<1> USE DEF AfterUdf, LoadOnly, Goto, udf, Labels
<1>2. CASE Call(t)
  BY <1>2 DEF Call, Placed, InUdf
<1>3. CASE Lookup(t)
  BY <1>3 DEF Lookup, Placed, InUdf
<1>4. CASE GetEngine(t)
  BY <1>4 DEF GetEngine, Placed, InUdf
<1>5. CASE FindUnloaded(t) \/ AcquireLoadLock(t) \/ UnknownEngine(t)
  BY <1>5 DEF FindUnloaded, AcquireLoadLock, UnknownEngine, Working, Placed, InUdf
<1>6. CASE EnsureLoaded(t) \/ LoadFails(t)
  BY <1>6 DEF EnsureLoaded, LoadFails, Placed, InUdf
<1>7. CASE FakeChunk(t) \/ GenerateBatch(t) \/ EmbedChunk(t)
  BY <1>7 DEF FakeChunk, GenerateBatch, EmbedChunk, MlxReady, Ready, Working, Placed, InUdf
<1>8. CASE GenerateFails(t) \/ Insert(t)
  BY <1>8 DEF GenerateFails, Insert, MlxReady, Ready, Working, Placed, InUdf
<1>9. CASE Event(t) \/ CloseAndDecode(t) \/ Return(t)
  BY <1>9 DEF Event, CloseAndDecode, Return, Placed, InUdf
<1> QED
  BY <1>2, <1>3, <1>4, <1>5, <1>6, <1>7, <1>8, <1>9 DEF LocalWork

\* And a step of another job.
LEMMA SharedWorkIs ==
    ASSUME NEW t \in Threads, SharedWork(t), Placed
    PROVE  /\ UNCHANGED <<env, job, held, todo, got, tokens>>
           /\ job[t].kind \notin Udfs
           /\ pc' \in [Threads -> Labels] /\ pc'[t] \notin InUdf
           /\ pc'[t] = "built" => job[t].kind = "serve"
           /\ pc'[t] \in {"scanning", "matched"} => job[t].kind = "reuse"
           /\ \A u \in Threads \ {t} : pc'[u] = pc[u]
<1> USE DEF Untouched, Goto, udf, Labels, Placed, InUdf, Udfs
<1>1. CASE RegisterEngine(t) \/ ClearRegistry(t)
  BY <1>1 DEF RegisterEngine, ClearRegistry
<1>2. CASE InferenceLocalServer(t) \/ RefuseServer(t) \/ Request(t)
  BY <1>2 DEF InferenceLocalServer, RefuseServer, Request
<1>3. CASE PutEntry(t)
  BY <1>3 DEF PutEntry
<1>4. CASE GetExact(t)
  BY <1>4 DEF GetExact
<1>5. CASE Match(t) \/ Reuse(t)
  BY <1>5 DEF Match, Reuse
<1> QED
  BY <1>1, <1>2, <1>3, <1>4, <1>5 DEF SharedWork

LEMMA InitPlaces == ServingInit => Placed
BY DEF ServingInit, Placed, InUdf, Labels

LEMMA PlacesStay == Placed /\ [ServingNext]_servingVars => Placed'
<1> SUFFICES ASSUME Placed, [ServingNext]_servingVars
             PROVE  Placed'
    OBVIOUS
<1>1. ASSUME NEW t \in Threads, LocalWork(t)
      PROVE  Placed'
  BY <1>1, LocalWorkIs DEF Placed, InUdf
<1>2. ASSUME NEW t \in Threads, SharedWork(t)
      PROVE  Placed'
  BY <1>2, SharedWorkIs DEF Placed, InUdf
<1>3. CASE UNCHANGED servingVars
  BY <1>3 DEF servingVars, Placed
<1> QED
  BY <1>1, <1>2, <1>3 DEF ServingNext
-----------------------------------------------------------------------------
(***************************************************************************)
(* Requests                                                                *)
(***************************************************************************)
\* The hypothesis of RequestsNeverLeave: nobody gives the hosted service for a
\* local server.
LocalUrls == \A j \in Jobs : j.kind = "serve" => j.url # Default

EndpointInv ==
    /\ Placed
    /\ endpoint # Null => endpoint # Default
    /\ \A t \in Threads : pc[t] = "built" => endpoint # Null
    /\ RequestsStayLocal

LEMMA EndpointStays ==
    ASSUME LocalUrls, EndpointInv, [ServingNext]_servingVars
    PROVE  EndpointInv'
<1>1. Placed /\ Placed'
    BY PlacesStay DEF EndpointInv
<1>2. ASSUME NEW t \in Threads, LocalWork(t)
      PROVE  EndpointInv'
  BY <1>1, <1>2, LocalWorkIs DEF EndpointInv, RequestsStayLocal, InUdf
<1>3. ASSUME NEW t \in Threads, SharedWork(t)
      PROVE  EndpointInv'
  <2> USE DEF EndpointInv, RequestsStayLocal, Goto, Placed
  <2>1. CASE InferenceLocalServer(t)
    <3>1. job[t].url # Default /\ (job[t].url # Null \/ endpoint # Null)
          /\ (IF job[t].url = Null THEN UNCHANGED endpoint ELSE endpoint' = job[t].url)
          /\ UNCHANGED sent
      BY <2>1 DEF InferenceLocalServer, HasEndpoint, SetLocalEndpoint, LocalUrls
    <3>2. endpoint' # Default /\ endpoint' # Null
      BY <3>1
    <3> QED
      BY <1>1, <3>1, <3>2
  <2>2. CASE Request(t)
    BY <1>1, <1>3, <2>2, SharedWorkIs DEF Request
  <2>3. CASE ~InferenceLocalServer(t) /\ ~Request(t)
    <3>1. UNCHANGED <<endpoint, sent>> /\ pc'[t] # "built"
      BY <1>3, <2>3 DEF SharedWork, RegisterEngine, ClearRegistry, RefuseServer, PutEntry,
                        GetExact, Match, Reuse
    <3> QED
      BY <1>1, <1>3, <3>1, SharedWorkIs
  <2> QED
    BY <2>1, <2>2, <2>3
<1>4. CASE UNCHANGED servingVars
  BY <1>1, <1>4 DEF servingVars, EndpointInv, RequestsStayLocal
<1> QED
  BY <1>2, <1>3, <1>4 DEF ServingNext

\* Whatever threads share the process's endpoint and in whatever order they set
\* it, no request reaches the hosted service: an expression is only built when
\* there is an endpoint, and none is ever taken away.
THEOREM RequestsNeverLeave ==
    ASSUME LocalUrls
    PROVE  ServingSpec => []RequestsStayLocal
<1>1. ServingInit => EndpointInv
  <2> SUFFICES ASSUME ServingInit
               PROVE  EndpointInv
    OBVIOUS
  <2> QED
    BY InitPlaces DEF ServingInit, EndpointInv, RequestsStayLocal, Default
<1>2. EndpointInv /\ [ServingNext]_servingVars => EndpointInv'
    BY EndpointStays
<1>3. EndpointInv => RequestsStayLocal
    BY DEF EndpointInv
<1> QED
    BY <1>1, <1>2, <1>3, PTL DEF ServingSpec
-----------------------------------------------------------------------------
(***************************************************************************)
(* Engines                                                                 *)
(***************************************************************************)
EngineKeys == Keys \cup {j.key : j \in {i \in Jobs : i.kind = "register"}}
Engines == [key : EngineKeys, class : {"fake", "mlx"}, loads : {0, 1}, lock : Threads \cup {Null}]

MadeFor(key) == {i \in DOMAIN engines : engines[i].key = key}
InUse(key) == IF registry[key] = 0 THEN 0 ELSE 1
Registered == {t \in Threads : pc[t] = "done" /\ job[t].kind = "register"}

\* An engine that is not the registered one was there before a clear or before
\* another was put in by hand.
EnginesInv ==
    /\ Placed
    /\ engines \in Seq(Engines)
    /\ registry \in [Keys -> Nat]
    /\ cleared \in Nat
    /\ \A key \in Keys :
          Cardinality(MadeFor(key)) <= InUse(key) + cleared + Cardinality(Registered)

LEMMA SomeRegistered ==
    /\ IsFiniteSet(Registered) /\ Cardinality(Registered) \in Nat
    /\ LET all == {t \in Threads : job[t].kind = "register"}
       IN Cardinality(all) \in Nat /\ Cardinality(Registered) <= Cardinality(all)
<1> DEFINE all == {t \in Threads : job[t].kind = "register"}
<1>1. IsFiniteSet(all)
    BY LocalServingAssumption, FS_Subset, all \subseteq Threads
<1>2. Registered \subseteq all
    BY DEF Registered
<1> HIDE DEF all
<1>3. IsFiniteSet(Registered) /\ Cardinality(Registered) <= Cardinality(all)
    BY <1>1, <1>2, FS_Subset
<1>4. Cardinality(all) \in Nat /\ Cardinality(Registered) \in Nat
    BY <1>1, <1>3, FS_CardinalityType
<1> QED
    BY <1>3, <1>4 DEF all

LEMMA MadeIsFinite ==
    ASSUME engines \in Seq(Engines), NEW key
    PROVE  IsFiniteSet(MadeFor(key)) /\ Cardinality(MadeFor(key)) \in Nat
<1>1. DOMAIN engines = 1 .. Len(engines) /\ Len(engines) \in Nat
    OBVIOUS
<1>2. IsFiniteSet(1 .. Len(engines))
    BY <1>1, FS_Interval
<1>3. MadeFor(key) \subseteq 1 .. Len(engines)
    BY <1>1 DEF MadeFor
<1> QED
    BY <1>2, <1>3, FS_Subset, FS_CardinalityType

\* One more engine counts for its own key.
LEMMA OneMoreEngine ==
    ASSUME engines \in Seq(Engines), NEW e \in Engines, engines' = Append(engines, e), NEW key
    PROVE  /\ engines' \in Seq(Engines)
           /\ Cardinality(MadeFor(key))' =
                 Cardinality(MadeFor(key)) + (IF e.key = key THEN 1 ELSE 0)
<1> DEFINE n == Len(engines)
<1>1. /\ n \in Nat /\ DOMAIN engines = 1 .. n
      /\ engines' \in Seq(Engines) /\ DOMAIN engines' = 1 .. n + 1
      /\ \A i \in 1 .. n : engines'[i] = engines[i]
      /\ engines'[n + 1] = e
    OBVIOUS
<1> HIDE DEF n
<1>2. IsFiniteSet(MadeFor(key)) /\ Cardinality(MadeFor(key)) \in Nat
    BY MadeIsFinite
<1>3. CASE e.key = key
  <2>1. MadeFor(key)' = MadeFor(key) \cup {n + 1} /\ n + 1 \notin MadeFor(key)
    BY <1>1, <1>3 DEF MadeFor
  <2> QED
    BY <1>1, <1>2, <1>3, <2>1, FS_AddElement
<1>4. CASE e.key # key
  <2>1. MadeFor(key)' = MadeFor(key)
    BY <1>1, <1>4 DEF MadeFor
  <2> QED
    BY <1>1, <1>2, <1>4, <2>1
<1> QED
    BY <1>3, <1>4

\* A change of loads and locks leaves the count alone.
LEMMA SameKeys ==
    ASSUME engines' \in Seq(Engines), engines \in Seq(Engines), DOMAIN engines' = DOMAIN engines,
           \A i \in DOMAIN engines : engines'[i].key = engines[i].key, NEW key
    PROVE  Cardinality(MadeFor(key))' = Cardinality(MadeFor(key))
<1>1. MadeFor(key)' = MadeFor(key)
    BY DEF MadeFor
<1> QED
    BY <1>1

LEMMA BuildEngineIs ==
    ASSUME NEW key \in EngineKeys
    PROVE  BuildEngine(key) \in Engines /\ BuildEngine(key).key = key
BY DEF BuildEngine, Engines

LEMMA UdfKeys ==
    ASSUME NEW t \in Threads, job \in [Threads -> Jobs], job[t].kind \in Udfs
    PROVE  KeyOf(job[t]) \in Keys
BY DEF Keys

\* Who registers is done with it.
LEMMA RegisteredStay ==
    ASSUME Placed, NEW t \in Threads, LocalWork(t) \/ SharedWork(t), ~RegisterEngine(t)
    PROVE  Registered' = Registered
<1>1. CASE LocalWork(t)
  BY <1>1, LocalWorkIs DEF Registered, Udfs
<1>2. CASE SharedWork(t)
  <2>1. job[t].kind # "register"
    BY <1>2 DEF SharedWork, ClearRegistry, InferenceLocalServer, RefuseServer, Request, PutEntry,
                GetExact, Match, Reuse, Placed
  <2> QED
    BY <1>2, <2>1, SharedWorkIs DEF Registered
<1> QED
    BY <1>1, <1>2

\* The bound survives a step that leaves the registered threads and the count of
\* clears as they are, when an engine is made only for a key that has none.
LEMMA BoundKept ==
    ASSUME EnginesInv, Placed', engines' \in Seq(Engines), registry' \in [Keys -> Nat],
           cleared' = cleared, Registered' = Registered,
           \A key \in Keys : Cardinality(MadeFor(key))' - InUse(key)'
                                <= Cardinality(MadeFor(key)) - InUse(key)
    PROVE  EnginesInv'
<1>1. ASSUME NEW key \in Keys
      PROVE  /\ InUse(key) \in Nat /\ InUse(key)' \in Nat
             /\ Cardinality(MadeFor(key)) \in Nat /\ Cardinality(MadeFor(key))' \in Nat
  <2>1. IsFiniteSet(MadeFor(key))' /\ (Cardinality(MadeFor(key)) \in Nat)'
    <3>1. \A k : IsFiniteSet(MadeFor(k))' /\ (Cardinality(MadeFor(k)) \in Nat)'
      <4>1. /\ DOMAIN engines' = 1 .. Len(engines') /\ Len(engines') \in Nat
        OBVIOUS
      <4>2. IsFiniteSet(1 .. Len(engines'))
        BY <4>1, FS_Interval
      <4> TAKE k
      <4>3. MadeFor(k)' \subseteq 1 .. Len(engines')
        BY <4>1 DEF MadeFor
      <4> QED
        BY <4>2, <4>3, FS_Subset, FS_CardinalityType
    <3> QED
      BY <3>1
  <2> QED
    BY <2>1, MadeIsFinite DEF InUse, EnginesInv
<1>2. Cardinality(Registered) \in Nat
    BY SomeRegistered
<1>3. \A key \in Keys :
          Cardinality(MadeFor(key))' <= InUse(key)' + cleared' + Cardinality(Registered)'
  <2> TAKE key \in Keys
  <2>1. Cardinality(Registered)' = Cardinality(Registered)
    OBVIOUS
  <2> QED
    BY <1>1, <1>2, <2>1 DEF EnginesInv
<1> QED
    BY <1>3 DEF EnginesInv

LEMMA GetEngineKeeps ==
    ASSUME EnginesInv, NEW t \in Threads, GetEngine(t), Placed'
    PROVE  EnginesInv'
<1> DEFINE key == KeyOf(job[t])
<1>1. key \in Keys /\ job[t].kind \in Udfs
    BY UdfKeys DEF GetEngine, EnginesInv, Placed, InUdf
<1>2. cleared' = cleared /\ Registered' = Registered
    BY RegisteredStay DEF GetEngine, EnginesInv, LocalWork, RegisterEngine
<1>3. CASE registry[key] # 0
  <2>1. UNCHANGED <<engines, registry>>
    BY <1>3 DEF GetEngine, Missing
  <2> QED
    BY <1>2, <2>1, BoundKept DEF EnginesInv, MadeFor, InUse
<1>4. CASE registry[key] = 0
  <2>1. /\ engines' = Append(engines, BuildEngine(key))
        /\ registry' = [registry EXCEPT ![key] = Len(engines) + 1]
    BY <1>4 DEF GetEngine, Missing
  <2>2. BuildEngine(key) \in Engines /\ BuildEngine(key).key = key
    BY <1>1, BuildEngineIs DEF EngineKeys
  <2>3. engines' \in Seq(Engines) /\ registry' \in [Keys -> Nat] /\ registry'[key] # 0
    BY <1>1, <2>1, <2>2 DEF EnginesInv
  <2>4. ASSUME NEW k \in Keys
        PROVE  Cardinality(MadeFor(k))' - InUse(k)' <= Cardinality(MadeFor(k)) - InUse(k)
    <3>1. /\ Cardinality(MadeFor(k))' = Cardinality(MadeFor(k)) + (IF key = k THEN 1 ELSE 0)
          /\ Cardinality(MadeFor(k)) \in Nat
      BY <2>1, <2>2, OneMoreEngine, MadeIsFinite DEF EnginesInv
    <3>2. InUse(k)' = InUse(k) + (IF key = k THEN 1 ELSE 0) /\ InUse(k) \in Nat
      BY <1>1, <1>4, <2>1, <2>3 DEF InUse, EnginesInv
    <3> QED
      BY <3>1, <3>2
  <2> QED
    BY <1>2, <2>3, <2>4, BoundKept
<1> QED
    BY <1>3, <1>4

LEMMA RegisterKeeps ==
    ASSUME EnginesInv, NEW t \in Threads, RegisterEngine(t), Placed'
    PROVE  EnginesInv'
<1> DEFINE key == job[t].key
           e == [BuildEngine(key) EXCEPT !.class = "fake"]
<1>1. /\ pc[t] = "called" /\ job[t].kind = "register" /\ cleared' = cleared /\ job' = job
      /\ engines' = Append(engines, e)
      /\ registry' = [registry EXCEPT ![key] = Len(engines) + 1]
      /\ pc' = [pc EXCEPT ![t] = "done"]
    BY DEF RegisterEngine, Goto
<1>2. e \in Engines /\ e.key = key
  <2>1. key \in EngineKeys
    BY <1>1 DEF EngineKeys, EnginesInv, Placed
  <2> QED
    BY <2>1, BuildEngineIs DEF Engines
<1>3. engines' \in Seq(Engines) /\ registry' \in [Keys -> Nat]
  <2> HIDE DEF e
  <2>1. engines' \in Seq(Engines) /\ Len(engines) + 1 \in Nat
    BY <1>1, <1>2 DEF EnginesInv
  <2> QED
    BY <1>1, <2>1 DEF EnginesInv
<1>4. Registered' = Registered \cup {t} /\ t \notin Registered
    BY <1>1 DEF Registered, EnginesInv, Placed
<1>5. /\ Cardinality(Registered)' = Cardinality(Registered) + 1
      /\ Cardinality(Registered) \in Nat
    BY <1>4, SomeRegistered, FS_AddElement
<1>6. ASSUME NEW k \in Keys
      PROVE  Cardinality(MadeFor(k))' <= InUse(k)' + cleared' + Cardinality(Registered)'
  <2>1. /\ Cardinality(MadeFor(k))' = Cardinality(MadeFor(k)) + (IF key = k THEN 1 ELSE 0)
        /\ Cardinality(MadeFor(k)) \in Nat
    BY <1>1, <1>2, OneMoreEngine, MadeIsFinite DEF EnginesInv
  <2>2. InUse(k)' >= InUse(k) /\ InUse(k) \in Nat /\ InUse(k)' \in Nat
    BY <1>1, <1>3 DEF InUse, EnginesInv
  <2>3. /\ Cardinality(MadeFor(k)) <= InUse(k) + cleared + Cardinality(Registered)
        /\ cleared \in Nat
    BY DEF EnginesInv
  <2>4. Cardinality(MadeFor(k))' <= Cardinality(MadeFor(k)) + 1
    BY <2>1
  <2> QED
    BY <1>1, <1>5, <2>1, <2>2, <2>3, <2>4
<1> QED
    BY <1>1, <1>3, <1>6 DEF EnginesInv

LEMMA ClearKeeps ==
    ASSUME EnginesInv, NEW t \in Threads, ClearRegistry(t), Placed'
    PROVE  EnginesInv'
<1>1. /\ registry' = [k \in Keys |-> IF k[1] = job[t].of THEN 0 ELSE registry[k]]
      /\ cleared' = cleared + 1 /\ engines' = engines
      /\ Registered' = Registered
    BY RegisteredStay DEF ClearRegistry, SharedWork, EnginesInv, RegisterEngine
<1>2. ASSUME NEW k \in Keys
      PROVE  Cardinality(MadeFor(k))' <= InUse(k)' + cleared' + Cardinality(Registered)'
  <2>1. MadeFor(k)' = MadeFor(k) /\ Cardinality(MadeFor(k)) \in Nat
    BY <1>1, MadeIsFinite DEF MadeFor, EnginesInv
  <2>2. InUse(k) \in {0, 1} /\ InUse(k)' \in {0, 1}
    BY DEF InUse
  <2>3. Cardinality(Registered) \in Nat /\ Cardinality(Registered)' = Cardinality(Registered)
    BY <1>1, SomeRegistered
  <2> QED
    BY <1>1, <2>1, <2>2, <2>3 DEF EnginesInv
<1> QED
    BY <1>1, <1>2 DEF EnginesInv

LEMMA EngineAt ==
    ASSUME engines \in Seq(Engines), NEW i \in DOMAIN engines
    PROVE  /\ engines[i] \in Engines /\ engines[i].loads \in {0, 1}
           /\ \A lock \in Threads \cup {Null} : [engines[i] EXCEPT !.lock = lock] \in Engines
           /\ [engines[i] EXCEPT !.loads = 1] \in Engines
<1>1. engines[i] \in Engines
    OBVIOUS
<1> QED
    BY <1>1 DEF Engines

LEMMA OneEngineChanges ==
    ASSUME engines \in Seq(Engines), NEW i, NEW e, engines' = [engines EXCEPT ![i] = e],
           i \in DOMAIN engines => e \in Engines /\ e.key = engines[i].key
    PROVE  /\ engines' \in Seq(Engines) /\ DOMAIN engines' = DOMAIN engines
           /\ \A k \in DOMAIN engines : engines'[k].key = engines[k].key
<1>1. /\ DOMAIN engines = 1 .. Len(engines) /\ Len(engines) \in Nat
      /\ \A k \in DOMAIN engines : engines[k] \in Engines
    OBVIOUS
<1>2. /\ DOMAIN engines' = DOMAIN engines
      /\ \A k \in DOMAIN engines : engines'[k] = IF k = i THEN e ELSE engines[k]
    OBVIOUS
<1>3. engines' = [k \in 1 .. Len(engines) |-> IF k = i THEN e ELSE engines[k]]
    BY <1>1
<1>4. engines' \in [1 .. Len(engines) -> Engines]
    BY <1>1, <1>3
<1>5. engines' \in Seq(Engines)
    BY <1>1, <1>4
<1>6. \A k \in DOMAIN engines : engines'[k].key = engines[k].key
    BY <1>2
<1> QED
    BY <1>2, <1>5, <1>6

\* Only three actions touch the registry or the count of clears; of the others,
\* those that touch an engine change its loads or its lock.
LEMMA QuietSteps ==
    ASSUME EnginesInv, NEW t \in Threads, LocalWork(t) \/ SharedWork(t),
           ~GetEngine(t), ~RegisterEngine(t), ~ClearRegistry(t)
    PROVE  /\ UNCHANGED <<registry, cleared>>
           /\ engines' \in Seq(Engines) /\ DOMAIN engines' = DOMAIN engines
           /\ \A i \in DOMAIN engines : engines'[i].key = engines[i].key
<1> USE DEF AfterUdf, LoadOnly, Untouched, udf
<1>1. CASE AcquireLoadLock(t)
  <2>1. engines' = [engines EXCEPT ![held[t]] = [engines[held[t]] EXCEPT !.lock = t]]
    BY <1>1 DEF AcquireLoadLock
  <2>2. held[t] \in DOMAIN engines =>
            [engines[held[t]] EXCEPT !.lock = t] \in Engines
            /\ [engines[held[t]] EXCEPT !.lock = t].key = engines[held[t]].key
    BY EngineAt DEF EnginesInv, Engines
  <2> QED
    BY <1>1, <2>1, <2>2, OneEngineChanges DEF AcquireLoadLock, EnginesInv
<1>2. CASE EnsureLoaded(t)
  <2> DEFINE h == held[t]
             n == IF engines[h].loads > 0 THEN engines[h].loads ELSE engines[h].loads + 1
             once == [engines[h] EXCEPT !.loads = n]
             e == [once EXCEPT !.lock = Null]
  <2>1. engines' = [engines EXCEPT ![h] = e]
    <3>1. engines' = [[engines EXCEPT ![h] = once] EXCEPT
                         ![h] = [[engines EXCEPT ![h] = once][h] EXCEPT !.lock = Null]]
      BY <1>2 DEF EnsureLoaded, Loaded, Mine
    <3> HIDE DEF once, h
    <3>2. DOMAIN engines = 1 .. Len(engines)
      BY DEF EnginesInv
    <3>3. CASE h \in DOMAIN engines
      BY <3>1, <3>2, <3>3
    <3>4. CASE h \notin DOMAIN engines
      BY <3>1, <3>2, <3>4
    <3> QED
      BY <3>3, <3>4
  <2>2. h \in DOMAIN engines => e \in Engines /\ e.key = engines[h].key
    <3> SUFFICES ASSUME h \in DOMAIN engines
                 PROVE  e \in Engines /\ e.key = engines[h].key
      OBVIOUS
    <3>1. engines[h] \in Engines /\ engines[h].loads \in {0, 1}
      BY EngineAt DEF EnginesInv
    <3>2. n = 1
      BY <3>1
    <3> HIDE DEF n, h
    <3> QED
      BY <3>1, <3>2 DEF Engines
  <2> HIDE DEF e, h
  <2>3. /\ engines' \in Seq(Engines) /\ DOMAIN engines' = DOMAIN engines
        /\ \A k \in DOMAIN engines : engines'[k].key = engines[k].key
    BY <2>1, <2>2, OneEngineChanges DEF EnginesInv
  <2> QED
    BY <1>2, <2>3 DEF EnsureLoaded
<1>3. CASE LoadFails(t)
  <2>1. engines' = [engines EXCEPT ![held[t]] = [engines[held[t]] EXCEPT !.lock = Null]]
    BY <1>3 DEF LoadFails, ReleaseLock
  <2>2. held[t] \in DOMAIN engines =>
            [engines[held[t]] EXCEPT !.lock = Null] \in Engines
            /\ [engines[held[t]] EXCEPT !.lock = Null].key = engines[held[t]].key
    BY EngineAt DEF EnginesInv, Engines
  <2> QED
    BY <1>3, <2>1, <2>2, OneEngineChanges DEF LoadFails, EnginesInv
<1>4. CASE Call(t) \/ Lookup(t) \/ UnknownEngine(t) \/ FindUnloaded(t)
  BY <1>4 DEF Call, Lookup, UnknownEngine, FindUnloaded, EnginesInv
<1>5. CASE FakeChunk(t) \/ GenerateBatch(t) \/ GenerateFails(t) \/ Insert(t) \/ EmbedChunk(t)
  BY <1>5 DEF FakeChunk, GenerateBatch, GenerateFails, Insert, EmbedChunk, EnginesInv
<1>6. CASE Event(t) \/ CloseAndDecode(t) \/ Return(t)
  BY <1>6 DEF Event, CloseAndDecode, Return, EnginesInv
<1>7. CASE InferenceLocalServer(t) \/ RefuseServer(t) \/ Request(t) \/ PutEntry(t)
  BY <1>7 DEF InferenceLocalServer, RefuseServer, Request, PutEntry, EnginesInv
<1>8. CASE GetExact(t) \/ Match(t) \/ Reuse(t)
  BY <1>8 DEF GetExact, Match, Reuse, EnginesInv
<1> QED
  BY <1>1, <1>2, <1>3, <1>4, <1>5, <1>6, <1>7, <1>8 DEF LocalWork, SharedWork

LEMMA EnginesStay ==
    ASSUME EnginesInv, [ServingNext]_servingVars
    PROVE  EnginesInv'
<1>1. Placed'
    BY PlacesStay DEF EnginesInv
<1>2. ASSUME NEW t \in Threads, LocalWork(t) \/ SharedWork(t)
      PROVE  EnginesInv'
  <2>1. CASE GetEngine(t)
    BY <1>1, <2>1, GetEngineKeeps
  <2>2. CASE RegisterEngine(t)
    BY <1>1, <2>2, RegisterKeeps
  <2>3. CASE ClearRegistry(t)
    BY <1>1, <2>3, ClearKeeps
  <2>4. CASE ~GetEngine(t) /\ ~RegisterEngine(t) /\ ~ClearRegistry(t)
    <3>1. /\ UNCHANGED <<registry, cleared>>
          /\ engines' \in Seq(Engines) /\ DOMAIN engines' = DOMAIN engines
          /\ \A i \in DOMAIN engines : engines'[i].key = engines[i].key
      BY <1>2, <2>4, QuietSteps
    <3>2. Registered' = Registered
      BY <1>2, <2>4, RegisteredStay DEF EnginesInv
    <3>3. ASSUME NEW k \in Keys
          PROVE  Cardinality(MadeFor(k))' - InUse(k)' <= Cardinality(MadeFor(k)) - InUse(k)
      <4>1. Cardinality(MadeFor(k))' = Cardinality(MadeFor(k)) /\ Cardinality(MadeFor(k)) \in Nat
        BY <3>1, SameKeys, MadeIsFinite DEF EnginesInv
      <4>2. InUse(k)' = InUse(k) /\ InUse(k) \in Nat
        BY <3>1 DEF InUse
      <4> QED
        BY <4>1, <4>2
    <3> QED
      BY <1>1, <3>1, <3>2, <3>3, BoundKept DEF EnginesInv
  <2> QED
    BY <2>1, <2>2, <2>3, <2>4
<1>3. CASE UNCHANGED servingVars
  BY <1>1, <1>3 DEF servingVars, EnginesInv, MadeFor, InUse, Registered
<1> QED
  BY <1>2, <1>3 DEF ServingNext

\* However many threads race for however many engines, one engine at most is
\* made for a key between two changes of the registry, and a model is loaded
\* once: the look under each lock is repeated.
THEOREM EnginesAreBuiltOnce == ServingSpec => []BuiltOnce
<1>1. ServingInit => EnginesInv
  <2> SUFFICES ASSUME ServingInit
               PROVE  EnginesInv
    OBVIOUS
  <2>1. engines = <<>> /\ registry = [k \in Keys |-> 0] /\ cleared = 0
    BY DEF ServingInit
  <2>2. \A key : MadeFor(key) = {}
    BY <2>1 DEF MadeFor
  <2>3. \A key \in Keys : Cardinality(MadeFor(key)) = 0 /\ InUse(key) = 0
    BY <2>1, <2>2, FS_EmptySet DEF InUse
  <2>4. Cardinality(Registered) \in Nat
    BY SomeRegistered
  <2> QED
    BY <2>1, <2>3, <2>4, InitPlaces DEF EnginesInv
<1>2. EnginesInv /\ [ServingNext]_servingVars => EnginesInv'
    BY EnginesStay
<1>3. EnginesInv => BuiltOnce
  <2> SUFFICES ASSUME EnginesInv
               PROVE  BuiltOnce
    OBVIOUS
  <2>1. ASSUME NEW i \in DOMAIN engines
        PROVE  engines[i].loads <= 1
    <3>1. engines[i].loads \in {0, 1}
      BY EngineAt DEF EnginesInv
    <3> QED
      BY <3>1
  <2>2. ASSUME NEW k \in Keys
        PROVE  Cardinality(MadeFor(k)) <=
                  1 + cleared + Cardinality({t \in Threads : job[t].kind = "register"})
    <3>1. InUse(k) \in {0, 1} /\ Cardinality(MadeFor(k)) \in Nat
      BY MadeIsFinite DEF InUse, EnginesInv
    <3> QED
      BY <3>1, SomeRegistered DEF EnginesInv
  <2> QED
    BY <2>1, <2>2 DEF BuiltOnce, MadeFor
<1> QED
    BY <1>1, <1>2, <1>3, PTL DEF ServingSpec
-----------------------------------------------------------------------------
(***************************************************************************)
(* The prefix store                                                        *)
(***************************************************************************)
\* The hypothesis of ReusedCachesFit: what the tokenizer gives for an empty text,
\* such as a mark of the beginning, it gives at the start of every text.
EmptyStarts == \A text \in Seq(STRING) : IsPrefix(Encode(<<>>), Encode(text))

\* What put may have stored.
Stored ==
    {[model |-> j.model, prefix |-> j.prefix, cache |-> Encode(j.prefix)] :
        j \in {i \in Jobs : i.kind = "put"}}

HitSound(t) ==
    LET e == hit[t].entry
    IN /\ e \in Stored /\ e.model = job[t].model
       /\ hit[t].class = "exact" => e.prefix = job[t].prefix
       /\ hit[t].class = "extend" => StrictPrefix(e.prefix, job[t].prefix)

CachesFit(t) ==
    \A i \in DOMAIN job[t].suffixes :
        /\ out[t][i].model = job[t].model
        /\ IsPrefix(out[t][i].cache, Encode(job[t].prefix \o job[t].suffixes[i]))

\* A hit outlives the entry's place in the store, so that what match found is
\* said of the hit.
ReuseInv ==
    /\ Placed
    /\ entries \in Seq(Stored)
    /\ DOMAIN hit = Threads /\ DOMAIN out = Threads
    /\ \A t \in Threads : hit[t] # <<>> => HitSound(t)
    /\ \A t \in Threads : job[t].kind = "reuse" /\ out[t] # <<>> => CachesFit(t)

LEMMA StoredIs ==
    ASSUME NEW e \in Stored
    PROVE  e.cache = Encode(e.prefix) /\ e.prefix \in Seq(STRING)
BY LocalServingAssumption DEF Stored

LEMMA HeldIs ==
    ASSUME entries \in Seq(Stored), NEW model, NEW prefix
    PROVE  \A e \in Held(model, prefix) : e \in Stored /\ e.model = model /\ e.prefix = prefix
BY DEF Held, SameKey, Range

LEMMA OthersAre ==
    ASSUME entries \in Seq(Stored), NEW model, NEW prefix
    PROVE  Others(model, prefix) \in Seq(Stored)
<1> DEFINE at == {i \in DOMAIN entries : SameKey(model, prefix, entries[i])}
           i == CHOOSE k \in at : TRUE
<1>1. Others(model, prefix) = IF at = {} THEN entries ELSE RemoveAt(entries, i)
    BY DEF Others
<1>2. CASE at = {}
    BY <1>1, <1>2
<1>3. CASE at # {}
  <2>1. i \in at
    BY <1>3
  <2>2. i \in 1 .. Len(entries) /\ Len(entries) \in Nat
    BY <2>1
  <2> HIDE DEF i, at
  <2>3. RemoveAt(entries, i) = SubSeq(entries, 1, i - 1) \o SubSeq(entries, i + 1, Len(entries))
    BY DEF RemoveAt
  <2>4. SubSeq(entries, 1, i - 1) \in Seq(Stored)
    <3>1. \A k \in 1 .. i - 1 : k \in 1 .. Len(entries)
      BY <2>2
    <3> QED
      BY <2>2, <3>1
  <2>5. SubSeq(entries, i + 1, Len(entries)) \in Seq(Stored)
    BY <2>2
  <2> QED
    BY <1>1, <1>3, <2>3, <2>4, <2>5
<1> QED
    BY <1>2, <1>3

LEMMA PutStores ==
    ASSUME entries \in Seq(Stored), NEW j \in Jobs, j.kind = "put", Put(j.model, j.prefix)
    PROVE  entries' \in Seq(Stored)
<1> DEFINE e == [model |-> j.model, prefix |-> j.prefix, cache |-> Encode(j.prefix)]
           grown == Append(Others(j.model, j.prefix), e)
           over == Len(grown) - MaxEntries
<1>1. e \in Stored
    BY DEF Stored
<1>2. grown \in Seq(Stored)
  <2> HIDE DEF e
  <2> QED
    BY <1>1, OthersAre
<1>3. entries' = IF over > 0 THEN SubSeq(grown, over + 1, Len(grown)) ELSE grown
    BY DEF Put
<1> HIDE DEF grown
<1>4. over \in Int /\ Len(grown) \in Nat
    BY <1>2, PrefixCacheAssumption
<1>5. over > 0 => SubSeq(grown, over + 1, Len(grown)) \in Seq(Stored)
    BY <1>2, <1>4
<1> QED
    BY <1>2, <1>3, <1>5

LEMMA TouchStores ==
    ASSUME entries \in Seq(Stored), NEW model, NEW prefix, Touch(model, prefix)
    PROVE  entries' \in Seq(Stored)
<1> DEFINE e == CHOOSE h \in Held(model, prefix) : TRUE
<1>1. CASE Held(model, prefix) = {}
    BY <1>1 DEF Touch
<1>2. CASE Held(model, prefix) # {}
  <2>1. e \in Stored
    BY <1>2, HeldIs
  <2>2. entries' = Append(Others(model, prefix), e)
    BY <1>2 DEF Touch
  <2> HIDE DEF e
  <2> QED
    BY <2>1, <2>2, OthersAre
<1> QED
    BY <1>1, <1>2

\* The longest of the prefixes exists, as none is longer than the text.
LEMMA BestIs ==
    ASSUME entries \in Seq(Stored), NEW model, NEW prefix \in Seq(STRING),
           Extending(model, prefix) # {}
    PROVE  Best(model, prefix) \in Extending(model, prefix)
<1> DEFINE E == Extending(model, prefix)
           S == {Len(e.prefix) : e \in E}
<1>1. \A e \in E : e \in Stored /\ Len(e.prefix) \in Nat /\ Len(e.prefix) <= Len(prefix)
  <2> TAKE e \in E
  <2>1. e \in Stored /\ Classify(e.prefix, prefix) = "extend"
    BY DEF Extending, Range
  <2>2. IsPrefix(e.prefix, prefix)
    BY <2>1 DEF Classify, StrictPrefix
  <2> QED
    BY <2>1, <2>2, StoredIs DEF IsPrefix
<1> HIDE DEF E
<1>2. S \in SUBSET Nat /\ Len(prefix) \in Nat /\ \A n \in S : n <= Len(prefix)
    BY <1>1
<1>a. S # {}
  <2>1. PICK e \in E : TRUE
    BY DEF E
  <2> QED
    BY <2>1
<1>3. PICK m \in S : \A n \in S : n <= m
  <2> HIDE DEF S
  <2> QED
    BY <1>2, <1>a, GreatestOf
<1>4. \E e \in E : \A d \in E : Len(d.prefix) <= Len(e.prefix)
    BY <1>3
<1> QED
    BY <1>4 DEF Best, E

\* What match says is so of the hit, whatever has happened to the store.
LEMMA MatchedSound ==
    ASSUME ReuseInv, Placed', NEW t \in Threads, GetExact(t) \/ Match(t)
    PROVE  ReuseInv'
<1> DEFINE m == job[t].model
           p == job[t].prefix
<1>1. job[t].kind = "reuse" /\ job' = job /\ out' = out
    BY DEF GetExact, Match, Untouched, ReuseInv, Placed
<1>2. p \in Seq(STRING)
    BY <1>1, LocalServingAssumption DEF ReuseInv, Placed
<1>3. entries' \in Seq(Stored)
    BY TouchStores DEF GetExact, Match, ReuseInv
<1>4. \/ hit' = hit
      \/ \E class \in {"exact", "extend"}, e \in Stored :
            /\ hit' = [hit EXCEPT ![t] = [class |-> class, entry |-> e]]
            /\ e.model = m
            /\ class = "exact" => e.prefix = p
            /\ class = "extend" => StrictPrefix(e.prefix, p)
  <2>1. CASE GetExact(t)
    <3> DEFINE e == CHOOSE h \in Held(m, p) : TRUE
    <3>1. CASE Held(m, p) = {}
      BY <2>1, <3>1 DEF GetExact
    <3>2. CASE Held(m, p) # {}
      <4>1. hit' = [hit EXCEPT ![t] = [class |-> "exact", entry |-> e]]
        BY <2>1, <3>2 DEF GetExact
      <4>2. e \in Stored /\ e.model = m /\ e.prefix = p
        BY <3>2, HeldIs DEF ReuseInv
      <4> HIDE DEF e
      <4> QED
        BY <4>1, <4>2
    <3> QED
      BY <3>1, <3>2
  <2>2. CASE Match(t)
    <3>1. CASE Extending(m, p) = {}
      BY <2>2, <3>1 DEF Match
    <3>2. CASE Extending(m, p) # {}
      <4>1. hit' = [hit EXCEPT ![t] = [class |-> "extend", entry |-> Best(m, p)]]
        BY <2>2, <3>2 DEF Match
      <4>2. Best(m, p) \in Extending(m, p)
        BY <1>2, <3>2, BestIs DEF ReuseInv
      <4>3. /\ Best(m, p) \in Stored /\ Best(m, p).model = m
            /\ StrictPrefix(Best(m, p).prefix, p)
        BY <4>2 DEF Extending, Classify, Range, ReuseInv
      <4> QED
        BY <4>1, <4>3
    <3> QED
      BY <3>1, <3>2
  <2> QED
    BY <2>1, <2>2
<1>5. DOMAIN hit' = Threads /\ \A u \in Threads : hit'[u] # <<>> => HitSound(u)'
    BY <1>1, <1>4 DEF ReuseInv, HitSound
<1> QED
    BY <1>1, <1>3, <1>5 DEF ReuseInv, CachesFit

\* Only an exact match is used, and only when every seam is a token boundary.
LEMMA ReusedFit ==
    ASSUME EmptyStarts, ReuseInv, Placed', NEW t \in Threads, Reuse(t)
    PROVE  ReuseInv'
<1> DEFINE e == hit[t].entry
           s == job[t].suffixes
           caches == IF hit[t] # <<>> /\ hit[t].class = "exact" THEN CheckedBatchCaches(e, s)
                     ELSE <<>>
<1>1. /\ job[t].kind = "reuse" /\ UNCHANGED <<job, entries, hit>>
      /\ out' = [out EXCEPT ![t] = caches]
    BY DEF Reuse, Untouched, ReuseInv, Placed
<1>2. ASSUME caches # <<>>
      PROVE  CachesFit(t)'
  <2>1. /\ hit[t] # <<>> /\ hit[t].class = "exact" /\ caches = [i \in DOMAIN s |-> e]
        /\ \A i \in DOMAIN s : VerifyTokenBoundary(e.prefix, s[i])
    BY <1>2 DEF CheckedBatchCaches
  <2>2. e.model = job[t].model /\ e.prefix = job[t].prefix /\ e.cache = Encode(e.prefix)
    BY <2>1, StoredIs DEF ReuseInv, HitSound
  <2>3. ASSUME NEW i \in DOMAIN s
        PROVE  IsPrefix(Encode(e.prefix), Encode(e.prefix \o s[i]))
    <3>1. s[i] \in Seq(STRING)
      BY <1>1, LocalServingAssumption DEF ReuseInv, Placed
    <3>2. CASE e.prefix = <<>>
      <4>1. <<>> \o s[i] = s[i]
        BY <3>1
      <4> QED
        BY <3>1, <3>2, <4>1 DEF EmptyStarts
    <3> QED
      BY <2>1, <3>2 DEF VerifyTokenBoundary
  <2>4. out'[t] = [i \in DOMAIN s |-> e]
    BY <1>1, <2>1 DEF ReuseInv
  <2> HIDE DEF e, caches
  <2> QED
    BY <1>1, <2>2, <2>3, <2>4 DEF CachesFit
<1>3. /\ DOMAIN out' = Threads /\ out'[t] = caches
      /\ \A u \in Threads \ {t} : out'[u] = out[u]
    BY <1>1 DEF ReuseInv
<1> HIDE DEF caches
<1> QED
    BY <1>1, <1>2, <1>3 DEF ReuseInv, HitSound, CachesFit

LEMMA ReuseStays ==
    ASSUME EmptyStarts, ReuseInv, [ServingNext]_servingVars
    PROVE  ReuseInv'
<1>1. Placed'
    BY PlacesStay DEF ReuseInv
<1>2. ASSUME NEW t \in Threads, LocalWork(t)
      PROVE  ReuseInv'
  <2>1. /\ UNCHANGED <<job, entries, hit>> /\ job[t].kind \in Udfs
        /\ out' = out \/ \E column : out' = [out EXCEPT ![t] = column]
    BY <1>2, LocalWorkIs DEF ReuseInv
  <2>2. DOMAIN out' = Threads /\ \A u \in Threads \ {t} : out'[u] = out[u]
    BY <2>1 DEF ReuseInv
  <2> QED
    BY <1>1, <2>1, <2>2 DEF ReuseInv, HitSound, CachesFit, Udfs
<1>3. ASSUME NEW t \in Threads, SharedWork(t)
      PROVE  ReuseInv'
  <2>1. CASE GetExact(t) \/ Match(t)
    BY <1>1, <2>1, MatchedSound
  <2>2. CASE Reuse(t)
    BY <1>1, <2>2, ReusedFit
  <2>3. CASE PutEntry(t)
    <3>1. /\ UNCHANGED <<job, hit, out>> /\ job[t].kind = "put" /\ job[t] \in Jobs
          /\ Put(job[t].model, job[t].prefix)
      BY <2>3 DEF PutEntry, Untouched, ReuseInv, Placed
    <3>2. entries' \in Seq(Stored)
      BY <3>1, PutStores DEF ReuseInv
    <3> QED
      BY <1>1, <3>1, <3>2 DEF ReuseInv, HitSound, CachesFit
  <2>4. CASE ~GetExact(t) /\ ~Match(t) /\ ~Reuse(t) /\ ~PutEntry(t)
    <3>1. UNCHANGED <<job, entries, hit, out>>
      BY <1>3, <2>4 DEF SharedWork, RegisterEngine, ClearRegistry, InferenceLocalServer,
                        RefuseServer, Request, Untouched
    <3> QED
      BY <1>1, <3>1 DEF ReuseInv, HitSound, CachesFit
  <2> QED
    BY <2>1, <2>2, <2>3, <2>4
<1>4. CASE UNCHANGED servingVars
  BY <1>1, <1>4 DEF servingVars, ReuseInv, HitSound, CachesFit
<1> QED
  BY <1>2, <1>3, <1>4 DEF ServingNext

\* Whoever puts and evicts meanwhile, the caches a batch is given are its own
\* model's and what each of its rows' tokens begin with, and what match offers to
\* extend is a strict prefix.
THEOREM ReusedCachesFit ==
    ASSUME EmptyStarts
    PROVE  ServingSpec => []ReuseIsSound
<1>1. ServingInit => ReuseInv
    BY InitPlaces DEF ServingInit, ReuseInv
<1>2. ReuseInv /\ [ServingNext]_servingVars => ReuseInv'
    BY ReuseStays
<1>3. ReuseInv => ReuseIsSound
    BY DEF ReuseInv, ReuseIsSound, HitSound, CachesFit
<1> QED
    BY <1>1, <1>2, <1>3, PTL DEF ServingSpec

\* How many chunks there are, and which one a row is in.
LEMMA ChunkNumbers ==
    ASSUME NEW c \in Nat, NEW p \in Nat \ {0}
    PROVE  LET n == (c + p - 1) \div p
           IN n \in Nat /\ c <= n * p /\ n * p <= c + p - 1 /\ (c > 0 => n >= 1)
<1> DEFINE a == c + p - 1
           n == a \div p
<1>1. a \in Nat
    OBVIOUS
<1>2. n \in Nat /\ p * n <= a /\ a < p * n + p
  <2> HIDE DEF a
  <2> QED
    BY <1>1
<1> HIDE DEF n
<1>3. n * p = p * n /\ n * p \in Nat
    BY <1>2
<1>4. c > 0 => n >= 1
    BY <1>2, <1>3
<1> QED
    BY <1>2, <1>3, <1>4 DEF n

-----------------------------------------------------------------------------
(***************************************************************************)
(* Columns and chunks                                                      *)
(***************************************************************************)
\* The rows up to n that are not null, in order.
Fills(s, n, j) ==
    /\ \A i \in 1 .. Len(s) : s[i] <= n /\ j.column[s[i]] # Null
    /\ \A i, k \in 1 .. Len(s) : i < k => s[i] < s[k]
    /\ \A r \in 1 .. n : j.column[r] # Null => \E i \in 1 .. Len(s) : s[i] = r

LEMMA PositionsAre ==
    ASSUME NEW j \in Jobs, j.kind \in Udfs
    PROVE  /\ Len(j.column) \in Nat /\ DOMAIN j.column = 1 .. Len(j.column)
           /\ Positions(j) \in Seq(1 .. Len(j.column)) /\ Fills(Positions(j), Len(j.column), j)
<1> DEFINE m == Len(j.column)
           T == 1 .. m
           Piece(r) == IF j.column[r] = Null THEN <<>> ELSE <<r>>
           pieces == [r \in 1 .. m |-> Piece(r)]
           Right == {w \in Seq(T) \X Nat : Fills(w[1], w[2], j)}
<1>1. m \in Nat /\ DOMAIN j.column = 1 .. m
    BY LocalServingAssumption
<1>2. Positions(j) = FlattenSeq(pieces)
    BY <1>1 DEF Positions
<1>3. pieces \in [1 .. m -> Seq(T)]
  <2>1. ASSUME NEW r \in T
        PROVE  Piece(r) \in Seq(T)
    <3> HIDE DEF T
    <3> QED
      OBVIOUS
  <2> HIDE DEF Piece
  <2> QED
    BY <2>1
<1>4. <<<<>>, 0>> \in Right
  <2>1. <<>> \in Seq(T) /\ Fills(<<>>, 0, j)
    BY DEF Fills
  <2> QED
    BY <2>1
<1>5. ASSUME NEW n \in 1 .. m, NEW s \in Seq(T), <<s, n - 1>> \in Right
      PROVE  <<s \o pieces[n], n>> \in Right
  <2>1. Fills(s, n - 1, j) /\ n \in Nat
    BY <1>5
  <2>2. CASE j.column[n] = Null
    <3>1. s \o pieces[n] = s
      BY <2>2
    <3>2. Fills(s, n, j)
      BY <2>1, <2>2 DEF Fills
    <3> QED
      BY <2>1, <3>1, <3>2
  <2>3. CASE j.column[n] # Null
    <3> DEFINE a == Append(s, n)
    <3>1. s \o pieces[n] = a
      BY <2>3
    <3>2. /\ a \in Seq(T) /\ Len(a) = Len(s) + 1 /\ Len(s) \in Nat /\ a[Len(s) + 1] = n
          /\ \A i \in 1 .. Len(s) : a[i] = s[i] /\ s[i] \in Nat
      OBVIOUS
    <3> HIDE DEF a
    <3>a. ASSUME NEW i \in 1 .. Len(s) + 1
          PROVE  \/ i \in 1 .. Len(s) /\ a[i] = s[i] /\ s[i] \in Nat /\ s[i] <= n - 1
                                  /\ j.column[s[i]] # Null
                 \/ i = Len(s) + 1 /\ a[i] = n
      <4>1. i \in 1 .. Len(s) \/ i = Len(s) + 1
        BY <3>2
      <4> QED
        BY <2>1, <3>2, <4>1 DEF Fills
    <3>3. ASSUME NEW i \in 1 .. Len(s) + 1
          PROVE  a[i] <= n /\ j.column[a[i]] # Null
      <4> DEFINE x == a[i]
                 y == s[i]
      <4>1. CASE /\ x = y /\ y \in Nat /\ y <= n - 1
                 /\ j.column[y] # Null
        <5>1. j.column[x] # Null
          BY <4>1
        <5> HIDE DEF x, y
        <5>2. x <= n
          BY ONLY <4>1, n \in Nat, <2>1
        <5> QED
          BY <5>1, <5>2 DEF x
      <4>2. CASE x = n
        <5>1. j.column[x] # Null
          BY <2>3, <4>2
        <5> HIDE DEF x
        <5>2. x <= n
          BY ONLY <4>2, n \in Nat, <2>1
        <5> QED
          BY <5>1, <5>2 DEF x
      <4> QED
        BY <3>a, <4>1, <4>2
    <3>4. ASSUME NEW i \in 1 .. Len(s) + 1, NEW k \in 1 .. Len(s) + 1, i < k
          PROVE  a[i] < a[k]
      <4>1. i \in 1 .. Len(s)
        BY <3>2, <3>4
      <4>2. CASE k \in 1 .. Len(s)
        <5>1. s[i] < s[k]
          BY <2>1, <3>4, <4>1, <4>2 DEF Fills
        <5> QED
          BY <3>2, <4>1, <4>2, <5>1
      <4>3. CASE k = Len(s) + 1
        <5>1. s[i] <= n - 1
          BY <2>1, <4>1 DEF Fills
        <5> QED
          BY <2>1, <3>2, <4>1, <4>3, <5>1
      <4> QED
        BY <3>2, <4>2, <4>3
    <3>5. ASSUME NEW r \in 1 .. n, j.column[r] # Null
          PROVE  \E i \in 1 .. Len(s) + 1 : a[i] = r
      <4>1. CASE r = n
        BY <3>2, <4>1
      <4>2. CASE r # n
        BY <2>1, <3>2, <3>5, <4>2 DEF Fills
      <4> QED
        BY <4>1, <4>2
    <3>6. Fills(a, n, j)
      BY <3>2, <3>3, <3>4, <3>5 DEF Fills
    <3> QED
      BY <2>1, <3>1, <3>2, <3>6
  <2> QED
    BY <2>2, <2>3
<1> HIDE DEF pieces, Right
<1>6. FlattenSeq(pieces) \in Seq(T) /\ <<FlattenSeq(pieces), m>> \in Right
  <2> HIDE DEF m, T
  <2>1. m \in Nat
    BY <1>1
  <2> QED
    BY <2>1, <1>3, <1>4, <1>5, FlattenIs
<1> QED
    BY <1>1, <1>2, <1>6 DEF Right

\* Prompt p is that of row Positions(j)[p], and is some row's.
LEMMA PromptsAre ==
    ASSUME NEW j \in Jobs, j.kind \in Udfs
    PROVE  /\ Prompts(j) \in Seq(Seq(STRING)) /\ Len(Prompts(j)) = Len(Positions(j))
           /\ \A p \in 1 .. Len(Prompts(j)) :
                 /\ Positions(j)[p] \in DOMAIN j.column
                 /\ j.column[Positions(j)[p]] # Null
                 /\ Prompts(j)[p] = j.system \o j.column[Positions(j)[p]]
<1> DEFINE s == Positions(j)
           m == Len(s)
           Prompt(p) == BuildPrompt(j.column[s[p]], j.system)
<1>1. /\ s \in Seq(1 .. Len(j.column)) /\ DOMAIN j.column = 1 .. Len(j.column)
      /\ \A p \in 1 .. Len(s) : j.column[s[p]] # Null
    BY PositionsAre DEF Fills
<1>2. Prompts(j) = [p \in 1 .. m |-> Prompt(p)]
    BY <1>1 DEF Prompts
<1> HIDE DEF s
<1>3. m \in Nat /\ \A p \in 1 .. m : s[p] \in 1 .. Len(j.column)
    BY <1>1
<1>4. ASSUME NEW p \in 1 .. m
      PROVE  Prompt(p) = j.system \o j.column[s[p]] /\ Prompt(p) \in Seq(STRING)
  <2>1. j.column[s[p]] # Null /\ s[p] \in DOMAIN j.column
    BY <1>1, <1>3
  <2>2. j.column[s[p]] \in Seq(STRING) /\ j.system \in Seq(STRING)
    BY <2>1, LocalServingAssumption
  <2>3. Prompt(p) = j.system \o j.column[s[p]]
    BY <2>1 DEF BuildPrompt
  <2>4. j.system \o j.column[s[p]] \in Seq(STRING)
    BY <2>2
  <2> QED
    BY <2>3, <2>4
<1> HIDE DEF Prompt, m
<1>a. Prompts(j) \in [1 .. m -> Seq(STRING)]
    BY <1>2, <1>4
<1>5. Prompts(j) \in Seq(Seq(STRING)) /\ Len(Prompts(j)) = m
    BY <1>3, <1>a, LenIs
<1> QED
    BY <1>1, <1>2, <1>3, <1>4, <1>5 DEF m, s

\* A sequence cut in two is put together again.
LEMMA SubSeqIs ==
    ASSUME NEW T, NEW s \in Seq(T), NEW a \in 0 .. Len(s), NEW b \in 0 .. Len(s), a <= b
    PROVE  /\ SubSeq(s, a + 1, b) \in Seq(T) /\ Len(SubSeq(s, a + 1, b)) = b - a
           /\ \A i \in 1 .. b - a : SubSeq(s, a + 1, b)[i] = s[a + i]
<1>1. \A i \in a + 1 .. b : i \in 1 .. Len(s)
    OBVIOUS
<1>2. SubSeq(s, a + 1, b) \in Seq(T)
    BY <1>1
<1> QED
    BY <1>2

LEMMA CutJoins ==
    ASSUME NEW T, NEW s \in Seq(T), NEW a \in 0 .. Len(s), NEW b \in 0 .. Len(s), a <= b
    PROVE  SubSeq(s, 1, a) \o SubSeq(s, a + 1, b) = SubSeq(s, 1, b)
<1> DEFINE u == SubSeq(s, 1, a)
           v == SubSeq(s, a + 1, b)
           w == SubSeq(s, 1, b)
<1>1. /\ u \in Seq(T) /\ Len(u) = a /\ \A i \in 1 .. a : u[i] = s[i]
      /\ w \in Seq(T) /\ Len(w) = b /\ \A i \in 1 .. b : w[i] = s[i]
  <2>1. a \in 0 .. Len(s) /\ b \in 0 .. Len(s) /\ 0 \in 0 .. Len(s) /\ 0 + 1 = 1
        /\ 0 <= a /\ 0 <= b /\ a - 0 = a /\ b - 0 = b /\ \A i \in Nat : 0 + i = i
    OBVIOUS
  <2>2. /\ SubSeq(s, 0 + 1, a) \in Seq(T) /\ Len(SubSeq(s, 0 + 1, a)) = a - 0
        /\ \A i \in 1 .. a - 0 : SubSeq(s, 0 + 1, a)[i] = s[0 + i]
    BY <2>1, SubSeqIs
  <2>3. /\ SubSeq(s, 0 + 1, b) \in Seq(T) /\ Len(SubSeq(s, 0 + 1, b)) = b - 0
        /\ \A i \in 1 .. b - 0 : SubSeq(s, 0 + 1, b)[i] = s[0 + i]
    BY <2>1, SubSeqIs
  <2> QED
    BY <2>1, <2>2, <2>3
<1>2. v \in Seq(T) /\ Len(v) = b - a /\ \A i \in 1 .. b - a : v[i] = s[a + i]
    BY SubSeqIs
<1> HIDE DEF u, v, w
<1>3. /\ u \o v \in Seq(T) /\ Len(u \o v) = b
      /\ \A i \in 1 .. a : (u \o v)[i] = u[i]
      /\ \A i \in 1 .. b - a : (u \o v)[a + i] = v[i]
  <2>1. a + (b - a) = b /\ b \in Nat /\ a \in Nat
    OBVIOUS
  <2>2. /\ u \o v \in Seq(T) /\ Len(u \o v) = Len(u) + Len(v)
        /\ \A i \in 1 .. Len(u) : (u \o v)[i] = u[i]
        /\ \A i \in 1 .. Len(v) : (u \o v)[Len(u) + i] = v[i]
    <3>1. u \in Seq(T) /\ v \in Seq(T)
      BY <1>1, <1>2
    <3> QED
      BY ONLY <3>1, Appended, SMTT(30)
  <2> QED
    BY <1>1, <1>2, <2>1, <2>2
<1>4. ASSUME NEW i \in 1 .. b
      PROVE  (u \o v)[i] = w[i]
  <2>1. CASE i <= a
    BY <1>1, <1>3, <2>1
  <2>2. CASE ~(i <= a)
    <3>1. PICK c \in 1 .. b - a : i = a + c
      <4>1. i - a \in 1 .. b - a /\ i = a + (i - a)
        BY <2>2
      <4> QED
        BY <4>1
    <3>2. (u \o v)[i] = v[c] /\ v[c] = s[i]
      BY <1>2, <1>3, <3>1
    <3>3. w[i] = s[i]
      BY <1>1
    <3> QED
      BY <3>2, <3>3
  <2> QED
    BY <2>1, <2>2
<1>5. u \o v = w
    BY <1>1, <1>3, <1>4
<1> QED
    BY <1>5 DEF u, v, w

\* The pieces are what is left of the items after the first d, in order.
CutFrom(pieces, items, d) ==
    \E cuts \in [0 .. Len(pieces) -> 0 .. Len(items)] :
        /\ cuts[0] = d /\ cuts[Len(pieces)] = Len(items)
        /\ \A k \in 1 .. Len(pieces) :
              cuts[k - 1] <= cuts[k] /\ pieces[k] = SubSeq(items, cuts[k - 1] + 1, cuts[k])

\* Pieces cut from the beginning make the whole.
LEMMA CutsFlatten ==
    ASSUME NEW T, NEW s \in Seq(T), NEW pieces \in Seq(Seq(T)), CutFrom(pieces, s, 0)
    PROVE  FlattenSeq(pieces) = s
<1> DEFINE m == Len(pieces)
<1>1. PICK cuts \in [0 .. m -> 0 .. Len(s)] :
          /\ cuts[0] = 0 /\ cuts[m] = Len(s)
          /\ \A k \in 1 .. m :
                cuts[k - 1] <= cuts[k] /\ pieces[k] = SubSeq(s, cuts[k - 1] + 1, cuts[k])
    BY DEF CutFrom
<1>2. m \in Nat /\ pieces \in [1 .. m -> Seq(T)] /\ Len(s) \in Nat
    OBVIOUS
<1> HIDE DEF m
<1> DEFINE Right == {<<SubSeq(s, 1, cuts[k]), k>> : k \in 0 .. m}
<1>3. <<<<>>, 0>> \in Right
  <2>1. SubSeq(s, 1, cuts[0]) = <<>> /\ 0 \in 0 .. m
    BY <1>1, <1>2
  <2> QED
    BY <2>1
<1>4. ASSUME NEW k \in 1 .. m, NEW x \in Seq(T), <<x, k - 1>> \in Right
      PROVE  <<x \o pieces[k], k>> \in Right
  <2>1. x = SubSeq(s, 1, cuts[k - 1])
    BY <1>4
  <2>2. /\ k - 1 \in 0 .. m /\ k \in 0 .. m
        /\ cuts[k - 1] \in 0 .. Len(s) /\ cuts[k] \in 0 .. Len(s) /\ cuts[k - 1] <= cuts[k]
    BY <1>1, <1>2
  <2>3. x \o pieces[k] = SubSeq(s, 1, cuts[k])
    BY <1>1, <2>1, <2>2, CutJoins
  <2> QED
    BY <2>2, <2>3
<1>5. <<FlattenSeq(pieces), m>> \in Right
  <2> HIDE DEF Right
  <2> QED
    BY <1>2, <1>3, <1>4, FlattenIs
<1>6. FlattenSeq(pieces) = SubSeq(s, 1, Len(s))
    BY <1>1, <1>5
<1> QED
    BY <1>6

\* Slices cut from the beginning to the end.
LEMMA SlicesAre ==
    ASSUME NEW T, NEW s \in Seq(T), NEW n \in Nat \ {0}
    PROVE  Slices(s, n) \in Seq(Seq(T)) /\ CutFrom(Slices(s, n), s, 0)
<1> DEFINE L == Len(s)
           c == (L + n - 1) \div n
           Border(k) == IF k * n < L THEN k * n ELSE L
           Piece(k) == SubSeq(s, (k - 1) * n + 1, Border(k))
           cuts == [k \in 0 .. c |-> Border(k)]
<1>1. L \in Nat
    OBVIOUS
<1>2. c \in Nat /\ L <= c * n /\ c * n <= L + n - 1
  <2> HIDE DEF L
  <2> QED
    BY <1>1, ChunkNumbers
<1>3. Slices(s, n) = [k \in 1 .. c |-> Piece(k)]
    BY DEF Slices
<1> HIDE DEF c
<1>4. ASSUME NEW k \in 0 .. c
      PROVE  k * n \in Nat /\ Border(k) \in 0 .. L
  <2>1. k * n \in Nat
    OBVIOUS
  <2> HIDE DEF L
  <2> QED
    BY <1>1, <2>1
<1>5. ASSUME NEW k \in 1 .. c
      PROVE  /\ (k - 1) * n \in Nat /\ Border(k - 1) = (k - 1) * n /\ Border(k - 1) <= Border(k)
             /\ Border(k) \in 0 .. L /\ Border(k - 1) \in 0 .. L
  <2>1. k - 1 \in Nat /\ k \in Nat /\ k - 1 \in 0 .. c /\ k \in 0 .. c
    BY <1>2
  <2>2. (k - 1) * n \in Nat /\ k * n \in Nat /\ (k - 1) * n + n = k * n
    BY <2>1
  <2>3. k * n <= c * n /\ c * n \in Nat
    <3>1. c - k \in Nat /\ (c - k) * n \in Nat /\ (c - k) * n + k * n = c * n
      BY <1>2, <2>1
    <3> QED
      BY <2>2, <3>1
  <2>4. (k - 1) * n < L
    <3> HIDE DEF L
    <3> QED
      BY <1>1, <1>2, <2>2, <2>3
  <2>5. Border(k - 1) = (k - 1) * n
    <3> HIDE DEF L
    <3> QED
      BY <2>4
  <2>6. Border(k - 1) <= Border(k)
    <3> HIDE DEF L
    <3> QED
      BY <1>1, <2>2, <2>4
  <2> QED
    BY <1>4, <2>1, <2>2, <2>5, <2>6
<1> HIDE DEF Border
<1>6. ASSUME NEW k \in 1 .. c
      PROVE  Piece(k) \in Seq(T) /\ Piece(k) = SubSeq(s, Border(k - 1) + 1, Border(k))
  <2>1. Piece(k) = SubSeq(s, Border(k - 1) + 1, Border(k))
    BY <1>5
  <2>2. SubSeq(s, Border(k - 1) + 1, Border(k)) \in Seq(T)
    BY <1>5, SubSeqIs
  <2> QED
    BY <2>1, <2>2
<1> HIDE DEF Piece
<1>7. Slices(s, n) \in [1 .. c -> Seq(T)]
    BY <1>3, <1>6
<1>8. Slices(s, n) \in Seq(Seq(T)) /\ Len(Slices(s, n)) = c
    BY <1>2, <1>7, LenIs
<1>9. Border(0) = 0 /\ Border(c) = L
  <2>1. 0 * n = 0 /\ ~(c * n < L)
    BY <1>1, <1>2
  <2> HIDE DEF L
  <2> QED
    BY <1>1, <2>1 DEF Border
<1>10. cuts \in [0 .. c -> 0 .. L]
    BY <1>4
<1>11. /\ cuts[0] = 0 /\ cuts[c] = L
       /\ \A k \in 1 .. c : /\ cuts[k - 1] <= cuts[k]
                            /\ Slices(s, n)[k] = SubSeq(s, cuts[k - 1] + 1, cuts[k])
  <2>1. 0 \in 0 .. c /\ c \in 0 .. c /\ \A k \in 1 .. c : k - 1 \in 0 .. c /\ k \in 0 .. c
    BY <1>2
  <2> QED
    BY <1>3, <1>5, <1>6, <1>9, <2>1
<1> HIDE DEF cuts
<1>12. CutFrom(Slices(s, n), s, 0)
    BY <1>8, <1>10, <1>11 DEF CutFrom
<1> QED
    BY <1>8, <1>12

\* The column's prompts are cut into chunks.
LEMMA ChunksAre ==
    ASSUME NEW j \in Jobs, j.kind \in Udfs
    PROVE  ChunksOf(j) \in Seq(Seq(Seq(STRING))) /\ CutFrom(ChunksOf(j), Prompts(j), 0)
<1> DEFINE P == Prompts(j)
           n == IF j.kind = "embed" THEN j.size ELSE DefaultChunk
           size == IF n <= 0 THEN DefaultChunk ELSE n
<1>1. P \in Seq(Seq(STRING)) /\ Len(P) \in Nat
  <2>1. P \in Seq(Seq(STRING))
    BY PromptsAre
  <2> QED
    BY <2>1
<1>2. n \in Int /\ size \in Nat \ {0}
    BY LocalServingAssumption
<1>3. ChunksOf(j) = IF Len(P) <= n THEN <<P>> ELSE Slices(P, size)
    BY DEF ChunksOf
<1> HIDE DEF P, n, size
<1>4. CASE Len(P) <= n
  <2> DEFINE cuts == [k \in 0 .. 1 |-> IF k = 0 THEN 0 ELSE Len(P)]
  <2>1. <<P>> \in Seq(Seq(Seq(STRING))) /\ Len(<<P>>) = 1 /\ <<P>>[1] = P
    BY <1>1
  <2>2. cuts \in [0 .. 1 -> 0 .. Len(P)] /\ cuts[0] = 0 /\ cuts[1] = Len(P)
    BY <1>1
  <2>3. P = SubSeq(P, 1, Len(P))
    BY <1>1
  <2>4. ASSUME NEW k \in 1 .. 1
        PROVE  cuts[k - 1] <= cuts[k] /\ <<P>>[k] = SubSeq(P, cuts[k - 1] + 1, cuts[k])
    BY <1>1, <2>1, <2>2, <2>3, k = 1
  <2> HIDE DEF cuts
  <2>5. CutFrom(<<P>>, P, 0)
    BY <2>1, <2>2, <2>4 DEF CutFrom
  <2> QED
    BY <1>3, <1>4, <2>1, <2>5 DEF P
<1>5. CASE ~(Len(P) <= n)
  <2>1. Slices(P, size) \in Seq(Seq(Seq(STRING))) /\ CutFrom(Slices(P, size), P, 0)
    BY <1>1, <1>2, SlicesAre
  <2> QED
    BY <1>3, <1>5, <2>1 DEF P
<1> QED
    BY <1>4, <1>5

-----------------------------------------------------------------------------
(***************************************************************************)
(* The collapsed prefill                                                   *)
(***************************************************************************)
\* The prefix every row agrees on exists, as no row is longer than itself.
LEMMA CommonIs ==
    ASSUME NEW T, NEW rows \in Seq(Seq(T)), rows # <<>>
    PROVE  /\ CommonTokenPrefixLen(rows) \in 0 .. Len(rows[1])
           /\ Agree(rows, CommonTokenPrefixLen(rows))
<1> DEFINE S == {n \in Nat : Agree(rows, n)}
           L == Len(rows[1])
<1>1. 1 \in DOMAIN rows /\ L \in Nat /\ \A r \in DOMAIN rows : rows[r] \in Seq(T)
    OBVIOUS
<1>2. 0 \in S
  <2>1. \A r \in DOMAIN rows : 0 <= Len(rows[r]) /\ SubSeq(rows[r], 1, 0) = <<>>
    BY <1>1
  <2> QED
    BY <1>1, <2>1 DEF Agree
<1>3. \A n \in S : n <= L
    BY <1>1 DEF Agree
<1> HIDE DEF L
<1>4. PICK m \in S : \A n \in S : n <= m
  <2>1. S \in SUBSET Nat /\ S # {}
    BY <1>2
  <2> HIDE DEF S
  <2> QED
    BY <1>1, <1>3, <2>1, GreatestOf
<1>5. m \in 0 .. L /\ Agree(rows, m) /\ ~Agree(rows, m + 1)
  <2>1. m + 1 \notin S /\ m + 1 \in Nat
    BY <1>4
  <2> QED
    BY <1>1, <1>3, <2>1
<1> HIDE DEF S
<1> QED
    BY <1>5 DEF CommonTokenPrefixLen, L

\* So does the largest part of it that leaves every row a token.
LEMMA ClampedIs ==
    ASSUME NEW T, NEW rows \in Seq(Seq(T)), rows # <<>>
    PROVE  /\ Clamped(rows) \in Int /\ Clamped(rows) <= CommonTokenPrefixLen(rows)
           /\ \A r \in DOMAIN rows : Clamped(rows) < Len(rows[r])
<1> DEFINE S == {Len(rows[r]) : r \in DOMAIN rows}
           c == CommonTokenPrefixLen(rows)
<1>1. c \in Nat
    BY CommonIs
<1>2. S \in SUBSET Nat /\ S # {}
  <2>1. 1 \in DOMAIN rows /\ \A r \in DOMAIN rows : rows[r] \in Seq(T)
    OBVIOUS
  <2>2. \A r \in DOMAIN rows : Len(rows[r]) \in Nat
    BY <2>1
  <2> QED
    BY <2>1, <2>2
<1>3. PICK m \in S : \A n \in S : m <= n
  <2> HIDE DEF S
  <2> QED
    BY <1>2, LeastOf
<1>4. PICK q \in DOMAIN rows : Len(rows[q]) = m
    OBVIOUS
<1>5. m \in Nat /\ \A r \in DOMAIN rows : Len(rows[r]) \in Nat /\ m <= Len(rows[r])
    BY <1>2, <1>3
<1> DEFINE n == IF c < m THEN c ELSE m - 1
<1> HIDE DEF c, S
<1>6. /\ n \in -1 .. c /\ \A r \in DOMAIN rows : n < Len(rows[r])
      /\ n = c \/ \E r \in DOMAIN rows : Len(rows[r]) = n + 1
  <2>1. n \in -1 .. c /\ n < m /\ n \in Int
    BY <1>1, <1>5
  <2>2. n = c \/ Len(rows[q]) = n + 1
    BY <1>1, <1>4, <1>5
  <2> HIDE DEF n
  <2> QED
    BY <1>5, <2>1, <2>2
<1> HIDE DEF n
<1>7. /\ Clamped(rows) \in -1 .. c
      /\ \A r \in DOMAIN rows : Clamped(rows) < Len(rows[r])
    BY <1>6 DEF Clamped, c
<1> QED
    BY <1>1, <1>7 DEF c

\* Rows that agree on a prefix agree on what is shorter.
LEMMA AgreeLess ==
    ASSUME NEW T, NEW rows \in Seq(Seq(T)), NEW c \in Nat, Agree(rows, c), NEW n \in 0 .. c,
           NEW r \in DOMAIN rows
    PROVE  n <= Len(rows[r]) /\ SubSeq(rows[1], 1, n) = SubSeq(rows[r], 1, n)
<1> DEFINE u == rows[1]
           v == rows[r]
<1>1. u \in Seq(T) /\ v \in Seq(T)
    OBVIOUS
<1>2. c <= Len(v) /\ SubSeq(v, 1, c) = SubSeq(u, 1, c) /\ c <= Len(u)
  <2>1. 1 \in DOMAIN rows
    OBVIOUS
  <2> QED
    BY <2>1 DEF Agree
<1> HIDE DEF u, v
<1>3. \A i \in 1 .. c : SubSeq(v, 1, c)[i] = v[i] /\ SubSeq(u, 1, c)[i] = u[i]
    BY <1>1, <1>2
<1>4. \A i \in 1 .. n : u[i] = v[i]
    BY <1>2, <1>3
<1>5. /\ SubSeq(u, 1, n) \in Seq(T) /\ Len(SubSeq(u, 1, n)) = n
      /\ \A i \in 1 .. n : SubSeq(u, 1, n)[i] = u[i]
    BY <1>1, <1>2
<1>6. /\ SubSeq(v, 1, n) \in Seq(T) /\ Len(SubSeq(v, 1, n)) = n
      /\ \A i \in 1 .. n : SubSeq(v, 1, n)[i] = v[i]
    BY <1>1, <1>2
<1>7. SubSeq(u, 1, n) = SubSeq(v, 1, n)
    BY <1>4, <1>5, <1>6
<1>8. n <= Len(v)
    BY <1>1, <1>2
<1> QED
    BY <1>7, <1>8 DEF u, v

\* The cache prefilled slice by slice is that of the whole prefix.
LEMMA PrefillIs ==
    ASSUME NEW T, NEW prefix \in Seq(T)
    PROVE  PrefillPromptCache(prefix) = prefix
<1>1. /\ Slices(prefix, PrefillStepSize) \in Seq(Seq(T))
      /\ CutFrom(Slices(prefix, PrefillStepSize), prefix, 0)
    BY SlicesAre, CollapsedPrefillAssumption
<1> QED
    BY <1>1, CutsFlatten DEF PrefillPromptCache

\* What each row is generated from is the row, with the prefix prefilled once
\* for all or not.
LEMMA CollapsedIs ==
    ASSUME NEW T, NEW rows \in Seq(Seq(T))
    PROVE  LET b == CollapsedBatchGenerate(rows)
           IN /\ DOMAIN b.rows = DOMAIN rows
              /\ \A p \in DOMAIN rows : BatchGenerate(b.caches, b.rows)[p] = rows[p]
<1> DEFINE plan == PlanCollapsedPrefill(rows)
           b == CollapsedBatchGenerate(rows)
           n == Clamped(rows)
<1>1. \A p \in DOMAIN rows : rows[p] \in Seq(T) /\ <<>> \o rows[p] = rows[p]
  <2>1. \A s \in Seq(T) : <<>> \o s = s
    OBVIOUS
  <2> QED
    BY <2>1
<1>2. CASE plan = NoPlan
  <2>1. b = [caches |-> [r \in DOMAIN rows |-> <<>>], rows |-> rows]
    BY <1>2 DEF CollapsedBatchGenerate
  <2>2. b.rows = rows /\ \A p \in DOMAIN rows : b.caches[p] = <<>>
    BY <2>1
  <2> HIDE DEF b
  <2> QED
    BY <1>1, <2>2 DEF BatchGenerate, b
<1>3. CASE plan # NoPlan
  <2>1. plan = SplitAt(rows, n) /\ ~(n < MinPrefixTokens)
    BY <1>3 DEF PlanCollapsedPrefill
  <2>2. b = [caches |-> ReplicatePrefixCaches(PrefillPromptCache(plan.prefix), Len(rows)),
             rows   |-> plan.suffixes]
    BY <1>3 DEF CollapsedBatchGenerate
  <2>3. /\ plan.prefix = SubSeq(rows[1], 1, n)
        /\ plan.suffixes = [r \in DOMAIN rows |-> SubSeq(rows[r], n + 1, Len(rows[r]))]
    <3> HIDE DEF plan, n
    <3> QED
      BY <2>1 DEF SplitAt
  <2>4. /\ b.rows = plan.suffixes
        /\ b.caches = [i \in 1 .. Len(rows) |-> PrefillPromptCache(plan.prefix)]
    BY <2>2 DEF ReplicatePrefixCaches
  <2> HIDE DEF b, plan, n
  <2>5. ASSUME NEW p \in DOMAIN rows
        PROVE  BatchGenerate(b.caches, b.rows)[p] = rows[p]
    <3> DEFINE c == CommonTokenPrefixLen(rows)
               L == Len(rows[p])
    <3>1. rows # <<>>
      OBVIOUS
    <3>2. n \in Int /\ n <= c /\ n < L
      BY <3>1, ClampedIs DEF n
    <3>3. c \in 0 .. Len(rows[1]) /\ Agree(rows, c)
      BY <3>1, CommonIs
    <3>4. 1 \in DOMAIN rows /\ rows[1] \in Seq(T) /\ rows[p] \in Seq(T) /\ L \in Nat
      OBVIOUS
    <3> HIDE DEF c, L
    <3>5. n \in Nat /\ n > 0
      BY <2>1, <3>2, CollapsedPrefillAssumption
    <3>6. c \in Nat /\ n \in 0 .. c
      BY <3>2, <3>3, <3>5
    <3>7. SubSeq(rows[1], 1, n) = SubSeq(rows[p], 1, n)
      BY <3>3, <3>6, AgreeLess
    <3>8. SubSeq(rows[p], 1, n) \in Seq(T)
      BY <3>2, <3>4, <3>5 DEF L
    <3>9. b.caches[p] = SubSeq(rows[p], 1, n)
      <4>1. plan.prefix = SubSeq(rows[p], 1, n)
        BY <2>3, <3>7
      <4>2. PrefillPromptCache(plan.prefix) = SubSeq(rows[p], 1, n)
        BY <4>1, <3>8, PrefillIs
      <4>3. p \in 1 .. Len(rows)
        OBVIOUS
      <4> QED
        BY <2>4, <4>2, <4>3
    <3>10. b.rows[p] = SubSeq(rows[p], n + 1, L)
      BY <2>3, <2>4 DEF L
    <3>11. n \in 0 .. Len(rows[p]) /\ L \in 0 .. Len(rows[p]) /\ n <= L
      BY <3>2, <3>4, <3>5 DEF L
    <3>12. Len(SubSeq(rows[p], n + 1, L)) = L - n
      BY <3>4, <3>11, SubSeqIs
    <3>13. b.rows[p] # <<>>
      <4>1. Len(b.rows[p]) # 0
        BY <3>2, <3>4, <3>5, <3>10, <3>12
      <4> QED
        BY <4>1
    <3>14. SubSeq(rows[p], 1, n) \o SubSeq(rows[p], n + 1, L) = SubSeq(rows[p], 1, L)
      BY <3>4, <3>11, CutJoins
    <3>15. SubSeq(rows[p], 1, L) = rows[p]
      BY <3>4 DEF L
    <3>16. DOMAIN b.rows = DOMAIN rows
      BY <2>3, <2>4
    <3>17. BatchGenerate(b.caches, b.rows)[p] = b.caches[p] \o b.rows[p]
      BY <3>13, <3>16 DEF BatchGenerate
    <3> QED
      BY <3>9, <3>10, <3>14, <3>15, <3>17
  <2>6. DOMAIN b.rows = DOMAIN rows
    BY <2>3, <2>4
  <2> QED
    BY <2>5, <2>6 DEF b
<1> QED
    BY <1>2, <1>3

-----------------------------------------------------------------------------
(***************************************************************************)
(* Rows and answers                                                        *)
(***************************************************************************)
\* The hypothesis of RowsShowTheirAnswer: a tokenizer gives a sequence of tokens.
Tokenizer(T) == \A text \in Seq(STRING) : Encode(text) \in Seq(T)

Replies(j, T) ==
    IF j.kind = "embed" THEN Seq(T) \cup {Null}
    ELSE [text : Seq(T) \cup {Failed}, input : Nat, output : Nat]

\* The answer to a prompt, or an error of its own.
AnswersPrompt(j, prompt, a) ==
    LET own == Encode(prompt)
    IN IF j.kind = "embed" THEN a = own \/ (IsBad(prompt) /\ a = Null)
       ELSE \/ a = [text |-> own, input |-> IF j.usage THEN Len(own) ELSE 0,
                    output |-> IF j.usage THEN Len(own) ELSE 0]
            \/ IsBad(prompt) /\ a.text = Failed

AllAnswered(j, prompts, answers) ==
    /\ Len(answers) = Len(prompts)
    /\ \A p \in 1 .. Len(answers) : AnswersPrompt(j, prompts[p], answers[p])

RowsRight(j, column) ==
    /\ Len(column) = Len(j.column)
    /\ \A r \in DOMAIN j.column :
          IF j.column[r] = Null THEN column[r] = Null
          ELSE AnswersPrompt(j, j.system \o j.column[r], column[r])

\* The answers so far are those to the first prompts, the chunks to come are cut
\* from the others.
Progress(t, T) ==
    /\ todo[t] \in Seq(Seq(Seq(STRING))) /\ got[t] \in Seq(Replies(job[t], T))
    /\ CutFrom(todo[t], Prompts(job[t]), Len(got[t]))
    /\ \A p \in 1 .. Len(got[t]) : AnswersPrompt(job[t], Prompts(job[t])[p], got[t][p])

\* What the generator has given of each row is how the row begins.
Draining(t, T) ==
    /\ todo[t] # <<>> /\ job[t].kind = "complete"
    /\ DOMAIN tokens[t] = DOMAIN Chunk(t)
    /\ \A uid \in DOMAIN tokens[t] :
          tokens[t][uid] \in Seq(T) /\ IsPrefix(tokens[t][uid], Encode(Chunk(t)[uid]))

RowOk(t, T) ==
    job[t].kind \in Udfs =>
        /\ pc[t] = "called" => got[t] = <<>>
        /\ pc[t] \in InUdf => Progress(t, T)
        /\ pc[t] = "draining" => Draining(t, T)
        /\ pc[t] = "done" => RowsRight(job[t], out[t])

RowsInv(T) ==
    /\ Placed
    /\ DOMAIN todo = Threads /\ DOMAIN got = Threads
    /\ DOMAIN tokens = Threads /\ DOMAIN out = Threads
    /\ \A t \in Threads : RowOk(t, T)

\* The answers are scattered to the rows they are about.
LEMMA ScatterRight ==
    ASSUME NEW j \in Jobs, j.kind \in Udfs, NEW answers,
           DOMAIN answers = 1 .. Len(Prompts(j)),
           \A p \in DOMAIN answers : AnswersPrompt(j, Prompts(j)[p], answers[p])
    PROVE  RowsRight(j, Scatter(j, answers))
<1> DEFINE s == Positions(j)
           m == Len(j.column)
           column == Scatter(j, answers)
<1>1. /\ m \in Nat /\ DOMAIN j.column = 1 .. m
      /\ s \in Seq(1 .. m) /\ Fills(s, m, j)
    BY PositionsAre
<1>2. /\ Len(Prompts(j)) = Len(s) /\ Len(s) \in Nat
      /\ \A p \in 1 .. Len(s) : Prompts(j)[p] = j.system \o j.column[s[p]]
  <2>1. Len(s) \in Nat
    <3> HIDE DEF s
    <3> QED
      BY <1>1
  <2>2. /\ Len(Prompts(j)) = Len(s)
        /\ \A p \in 1 .. Len(Prompts(j)) : Prompts(j)[p] = j.system \o j.column[s[p]]
    BY PromptsAre
  <2> QED
    BY <2>1, <2>2
<1>3. column = [r \in 1 .. m |->
                   IF \E p \in DOMAIN answers : s[p] = r
                   THEN answers[CHOOSE p \in DOMAIN answers : s[p] = r]
                   ELSE Null]
    BY <1>1 DEF Scatter
<1> HIDE DEF column, s, m
<1>4. Len(column) = m
  <2> DEFINE R == {column[r] : r \in 1 .. m}
  <2>1. column = [r \in 1 .. m |-> column[r]] /\ \A r \in 1 .. m : column[r] \in R
    BY <1>3
  <2> HIDE DEF R
  <2>2. column \in [1 .. m -> R]
    BY <2>1
  <2> QED
    BY <1>1, <2>2, LenIs
<1>5. ASSUME NEW r \in 1 .. m, j.column[r] = Null
      PROVE  column[r] = Null
  <2>1. ~\E p \in DOMAIN answers : s[p] = r
    BY <1>1, <1>2, <1>5 DEF Fills
  <2> QED
    BY <1>3, <2>1
<1>6. ASSUME NEW r \in 1 .. m, j.column[r] # Null
      PROVE  AnswersPrompt(j, j.system \o j.column[r], column[r])
  <2> DEFINE p == CHOOSE q \in DOMAIN answers : s[q] = r
  <2>1. \E q \in DOMAIN answers : s[q] = r
    BY <1>1, <1>2, <1>6 DEF Fills
  <2>2. p \in DOMAIN answers /\ s[p] = r
    BY <2>1
  <2>3. column[r] = answers[p]
    BY <1>3, <2>1
  <2> HIDE DEF p
  <2>4. Prompts(j)[p] = j.system \o j.column[r]
    BY <1>2, <2>2
  <2> QED
    BY <2>2, <2>3, <2>4
<1> QED
    BY <1>1, <1>4, <1>5, <1>6 DEF RowsRight, column, m

\* The first of the chunks to come starts where the answers end.
LEMMA CutTail ==
    ASSUME NEW T, NEW items \in Seq(T), NEW pieces \in Seq(Seq(T)), pieces # <<>>, NEW d,
           CutFrom(pieces, items, d)
    PROVE  \E e \in 0 .. Len(items) :
              /\ d \in 0 .. Len(items) /\ d <= e
              /\ Head(pieces) = SubSeq(items, d + 1, e)
              /\ CutFrom(Tail(pieces), items, e)
<1> DEFINE m == Len(pieces)
           rest == Tail(pieces)
<1>1. PICK cuts \in [0 .. m -> 0 .. Len(items)] :
          /\ cuts[0] = d /\ cuts[m] = Len(items)
          /\ \A k \in 1 .. m :
                cuts[k - 1] <= cuts[k] /\ pieces[k] = SubSeq(items, cuts[k - 1] + 1, cuts[k])
    BY DEF CutFrom
<1>2. /\ m \in Nat /\ m >= 1 /\ Len(rest) = m - 1 /\ Head(pieces) = pieces[1]
      /\ \A k \in 1 .. m - 1 : rest[k] = pieces[k + 1]
    OBVIOUS
<1> HIDE DEF m, rest
<1> DEFINE later == [k \in 0 .. m - 1 |-> cuts[k + 1]]
<1>3. /\ later \in [0 .. m - 1 -> 0 .. Len(items)]
      /\ later[0] = cuts[1] /\ later[m - 1] = Len(items)
      /\ \A k \in 0 .. m - 1 : later[k] = cuts[k + 1]
  <2>1. \A k \in 0 .. m - 1 : k + 1 \in 0 .. m
    BY <1>2
  <2>2. 0 \in 0 .. m - 1 /\ m - 1 \in 0 .. m - 1 /\ (m - 1) + 1 = m /\ 0 + 1 = 1
    BY <1>2
  <2> QED
    BY <1>1, <2>1, <2>2
<1> HIDE DEF later
<1>4. ASSUME NEW k \in 1 .. m - 1
      PROVE  later[k - 1] <= later[k] /\ rest[k] = SubSeq(items, later[k - 1] + 1, later[k])
  <2>1. /\ k - 1 \in 0 .. m - 1 /\ k \in 0 .. m - 1 /\ k + 1 \in 1 .. m
        /\ (k - 1) + 1 = k /\ (k + 1) - 1 = k
    BY <1>2
  <2>2. later[k - 1] = cuts[k] /\ later[k] = cuts[k + 1]
    BY <1>3, <2>1
  <2>3. cuts[k] <= cuts[k + 1] /\ pieces[k + 1] = SubSeq(items, cuts[k] + 1, cuts[k + 1])
    BY <1>1, <2>1
  <2> QED
    BY <1>2, <2>2, <2>3
<1>5. CutFrom(rest, items, cuts[1])
  <2>1. /\ later \in [0 .. Len(rest) -> 0 .. Len(items)]
        /\ later[0] = cuts[1] /\ later[Len(rest)] = Len(items)
        /\ \A k \in 1 .. Len(rest) :
              later[k - 1] <= later[k] /\ rest[k] = SubSeq(items, later[k - 1] + 1, later[k])
    BY <1>2, <1>3, <1>4
  <2> QED
    BY <2>1 DEF CutFrom
<1>6. 1 \in 1 .. m /\ 1 \in 0 .. m /\ 0 \in 0 .. m /\ 1 - 1 = 0
    BY <1>2
<1>7. /\ cuts[1] \in 0 .. Len(items) /\ d \in 0 .. Len(items) /\ d <= cuts[1]
      /\ Head(pieces) = SubSeq(items, d + 1, cuts[1])
    BY <1>1, <1>2, <1>6
<1> QED
    BY <1>5, <1>7 DEF rest

\* The answers to a chunk are added to those there are.
LEMMA YieldKeeps ==
    ASSUME NEW T, NEW t \in Threads, job[t] \in Jobs, job[t].kind \in Udfs,
           DOMAIN todo = Threads, DOMAIN got = Threads,
           Progress(t, T), todo[t] # <<>>, NEW answers \in Seq(Replies(job[t], T)),
           AllAnswered(job[t], Chunk(t), answers), Yield(t, answers), job' = job
    PROVE  Progress(t, T)'
<1> DEFINE P == Prompts(job[t])
           g == got[t]
           d == Len(g)
           all == g \o answers
<1>1. P \in Seq(Seq(STRING))
    BY PromptsAre
<1>2. /\ g \in Seq(Replies(job[t], T)) /\ CutFrom(todo[t], P, d) /\ todo[t] \in Seq(Seq(Seq(STRING)))
      /\ \A p \in 1 .. d : AnswersPrompt(job[t], P[p], g[p])
    BY DEF Progress
<1>3. got'[t] = all /\ todo'[t] = Tail(todo[t])
    BY DEF Yield
<1> HIDE DEF P
<1>4. PICK e \in 0 .. Len(P) : /\ d \in 0 .. Len(P) /\ d <= e
                               /\ Head(todo[t]) = SubSeq(P, d + 1, e)
                               /\ CutFrom(Tail(todo[t]), P, e)
  <2> HIDE DEF d
  <2> QED
    BY <1>1, <1>2, CutTail
<1>5. /\ Len(answers) = e - d
      /\ \A p \in 1 .. e - d : AnswersPrompt(job[t], P[d + p], answers[p])
  <2>1. /\ Len(SubSeq(P, d + 1, e)) = e - d
        /\ \A p \in 1 .. e - d : SubSeq(P, d + 1, e)[p] = P[d + p]
    BY <1>1, <1>4, SubSeqIs
  <2>2. AllAnswered(job[t], SubSeq(P, d + 1, e), answers)
    BY <1>4 DEF Chunk
  <2> HIDE DEF d
  <2> QED
    BY <2>1, <2>2 DEF AllAnswered
<1>6. /\ all \in Seq(Replies(job[t], T)) /\ d \in Nat /\ Len(all) = d + Len(answers)
      /\ \A p \in 1 .. d : all[p] = g[p]
      /\ \A p \in 1 .. Len(answers) : all[d + p] = answers[p]
  <2> HIDE DEF g
  <2> QED
    BY <1>2, Appended
<1> HIDE DEF all, d, g
<1>7. Len(all) = e
    BY <1>4, <1>5, <1>6
<1>8. ASSUME NEW p \in 1 .. e
      PROVE  AnswersPrompt(job[t], P[p], all[p])
  <2>1. CASE p <= d
    <3>1. p \in 1 .. d
      BY <1>6, <2>1
    <3> QED
      BY <1>2, <1>6, <3>1
  <2>2. CASE ~(p <= d)
    <3>1. p - d \in 1 .. e - d /\ p = d + (p - d)
      BY <1>4, <1>6, <2>2
    <3>2. PICK c \in 1 .. e - d : p = d + c
      BY <3>1
    <3>3. AnswersPrompt(job[t], P[p], answers[c]) /\ all[p] = answers[c]
      BY <1>5, <1>6, <3>2
    <3> QED
      BY <3>3
  <2> QED
    BY <2>1, <2>2
<1>9. Tail(todo[t]) \in Seq(Seq(Seq(STRING)))
    BY <1>2
<1> QED
    BY <1>3, <1>4, <1>6, <1>7, <1>8, <1>9 DEF Progress, P

-----------------------------------------------------------------------------
(***************************************************************************)
(* The answers an engine gives to a chunk                                  *)
(***************************************************************************)
\* A text as it is returned answers its prompt, if it was made from it or the
\* prompt's own failure.
LEMMA UsageAnswers ==
    ASSUME NEW T, Tokenizer(T), NEW j, j.kind # "embed", NEW prompt \in Seq(STRING), NEW text,
           text = Encode(prompt) \/ (IsBad(prompt) /\ text = Failed)
    PROVE  /\ GenerateWithUsage(j, prompt, text) \in Replies(j, T)
           /\ AnswersPrompt(j, prompt, GenerateWithUsage(j, prompt, text))
<1>1. Encode(prompt) \in Seq(T) /\ Len(Encode(prompt)) \in Nat
  <2>1. Encode(prompt) \in Seq(T)
    BY DEF Tokenizer
  <2> QED
    BY <2>1
<1>2. text \in Seq(T) \cup {Failed} /\ Len(text) \in Nat
    BY <1>1 DEF Failed
<1>3. GenerateWithUsage(j, prompt, text) \in Replies(j, T)
    BY <1>1, <1>2 DEF GenerateWithUsage, Replies
<1>4. AnswersPrompt(j, prompt, GenerateWithUsage(j, prompt, text))
    BY DEF GenerateWithUsage, AnswersPrompt
<1> QED
    BY <1>3, <1>4

\* A reply for every prompt of a chunk makes the chunk answered.
LEMMA RepliesMake ==
    ASSUME NEW T, NEW j, NEW chunk \in Seq(Seq(STRING)), NEW answers,
           answers = [p \in DOMAIN chunk |-> answers[p]],
           \A p \in DOMAIN chunk : /\ answers[p] \in Replies(j, T)
                                   /\ AnswersPrompt(j, chunk[p], answers[p])
    PROVE  answers \in Seq(Replies(j, T)) /\ AllAnswered(j, chunk, answers)
<1>1. Len(chunk) \in Nat /\ DOMAIN chunk = 1 .. Len(chunk)
    OBVIOUS
<1> DEFINE R == Replies(j, T)
<1> HIDE DEF R
<1>2. answers \in [1 .. Len(chunk) -> R]
    BY <1>1 DEF R
<1>3. answers \in Seq(R) /\ Len(answers) = Len(chunk)
    BY <1>1, <1>2, LenIs
<1> QED
    BY <1>1, <1>3 DEF AllAnswered, R

LEMMA EncodeRows ==
    ASSUME NEW T, Tokenizer(T), NEW chunk \in Seq(Seq(STRING))
    PROVE  [p \in DOMAIN chunk |-> Encode(chunk[p])] \in Seq(Seq(T))
<1>1. Len(chunk) \in Nat /\ DOMAIN chunk = 1 .. Len(chunk)
    OBVIOUS
<1>2. \A p \in DOMAIN chunk : Encode(chunk[p]) \in Seq(T)
    BY DEF Tokenizer
<1> DEFINE S == Seq(T)
<1> HIDE DEF S
<1>3. [p \in DOMAIN chunk |-> Encode(chunk[p])] \in [1 .. Len(chunk) -> S]
    BY <1>1, <1>2 DEF S
<1>4. [p \in DOMAIN chunk |-> Encode(chunk[p])] \in Seq(S)
    BY <1>1, <1>3, LenIs
<1> QED
    BY <1>4 DEF S

\* Whichever way a batch is generated, each row is continued from itself.
LEMMA BatchTextsAre ==
    ASSUME NEW T, NEW rows \in Seq(Seq(T)), NEW fed \in BatchTexts(rows)
    PROVE  DOMAIN fed = DOMAIN rows /\ \A p \in DOMAIN rows : fed[p] = rows[p]
<1>1. CASE fed = BatchGenerate([p \in DOMAIN rows |-> <<>>], rows)
  <2>1. \A p \in DOMAIN rows : rows[p] \in Seq(T) /\ <<>> \o rows[p] = rows[p]
    <3>1. \A s \in Seq(T) : <<>> \o s = s
      OBVIOUS
    <3> QED
      BY <3>1
  <2> QED
    BY <1>1, <2>1 DEF BatchGenerate
<1>2. CASE fed = BatchGenerate(CollapsedBatchGenerate(rows).caches,
                                 CollapsedBatchGenerate(rows).rows)
  <2> DEFINE b == CollapsedBatchGenerate(rows)
  <2>1. /\ DOMAIN b.rows = DOMAIN rows
        /\ \A p \in DOMAIN rows : BatchGenerate(b.caches, b.rows)[p] = rows[p]
    BY CollapsedIs
  <2>2. DOMAIN BatchGenerate(b.caches, b.rows) = DOMAIN b.rows
    BY DEF BatchGenerate
  <2> HIDE DEF b
  <2> QED
    BY <1>2, <2>1, <2>2 DEF b
<1> QED
    BY <1>1, <1>2 DEF BatchTexts

LEMMA FakeAnswers ==
    ASSUME NEW T, Tokenizer(T), NEW j, j.kind # "embed", NEW chunk \in Seq(Seq(STRING))
    PROVE  /\ FakeGenerate(j, chunk) \in Seq(Replies(j, T))
           /\ AllAnswered(j, chunk, FakeGenerate(j, chunk))
<1> DEFINE a == FakeGenerate(j, chunk)
           Text(p) == IF IsBad(chunk[p]) THEN Failed ELSE Encode(chunk[p])
<1>1. a = [p \in DOMAIN chunk |-> GenerateWithUsage(j, chunk[p], Text(p))]
    BY DEF FakeGenerate
<1> HIDE DEF a
<1>2. ASSUME NEW p \in DOMAIN chunk
      PROVE  a[p] \in Replies(j, T) /\ AnswersPrompt(j, chunk[p], a[p])
  <2>1. chunk[p] \in Seq(STRING)
    OBVIOUS
  <2>2. Text(p) = Encode(chunk[p]) \/ (IsBad(chunk[p]) /\ Text(p) = Failed)
    OBVIOUS
  <2> HIDE DEF Text
  <2>3. a[p] = GenerateWithUsage(j, chunk[p], Text(p))
    BY <1>1
  <2> QED
    BY <2>1, <2>2, <2>3, UsageAnswers
<1>3. a = [p \in DOMAIN chunk |-> a[p]]
    BY <1>1
<1> QED
    BY <1>2, <1>3, RepliesMake DEF a

LEMMA BatchAnswers ==
    ASSUME NEW T, Tokenizer(T), NEW j, j.kind # "embed", NEW chunk \in Seq(Seq(STRING)),
           NEW fed \in BatchTexts([p \in DOMAIN chunk |-> Encode(chunk[p])])
    PROVE  LET a == [p \in DOMAIN fed |-> GenerateWithUsage(j, chunk[p], fed[p])]
           IN a \in Seq(Replies(j, T)) /\ AllAnswered(j, chunk, a)
<1> DEFINE a == [p \in DOMAIN fed |-> GenerateWithUsage(j, chunk[p], fed[p])]
           rows == [p \in DOMAIN chunk |-> Encode(chunk[p])]
<1>1. DOMAIN rows = DOMAIN chunk /\ \A p \in DOMAIN chunk : rows[p] = Encode(chunk[p])
    OBVIOUS
<1>2. DOMAIN fed = DOMAIN rows /\ \A p \in DOMAIN rows : fed[p] = rows[p]
  <2>1. rows \in Seq(Seq(T))
    BY EncodeRows
  <2> HIDE DEF rows
  <2> QED
    BY <2>1, BatchTextsAre DEF rows
<1>3. a = [p \in DOMAIN chunk |-> a[p]] /\ \A p \in DOMAIN chunk :
                                              a[p] = GenerateWithUsage(j, chunk[p], fed[p])
  <2> HIDE DEF rows
  <2> QED
    BY <1>1, <1>2
<1> HIDE DEF a, rows
<1>4. ASSUME NEW p \in DOMAIN chunk
      PROVE  a[p] \in Replies(j, T) /\ AnswersPrompt(j, chunk[p], a[p])
  <2>1. chunk[p] \in Seq(STRING)
    OBVIOUS
  <2>2. fed[p] = Encode(chunk[p])
    BY <1>1, <1>2
  <2> QED
    BY <1>3, <2>1, <2>2, UsageAnswers
<1> QED
    BY <1>3, <1>4, RepliesMake DEF a

LEMMA EmbedAnswers ==
    ASSUME NEW T, Tokenizer(T), NEW j, j.kind = "embed", NEW chunk \in Seq(Seq(STRING)), NEW a,
           a = FakeEmbed(chunk) \/ a = Embed(chunk)
    PROVE  a \in Seq(Replies(j, T)) /\ AllAnswered(j, chunk, a)
<1>1. \A p \in DOMAIN chunk : Encode(chunk[p]) \in Seq(T)
  <2>1. \A p \in DOMAIN chunk : chunk[p] \in Seq(STRING)
    OBVIOUS
  <2> QED
    BY <2>1 DEF Tokenizer
<1>2. /\ a = [p \in DOMAIN chunk |-> a[p]]
      /\ \A p \in DOMAIN chunk : \/ a[p] = Encode(chunk[p])
                                 \/ IsBad(chunk[p]) /\ a[p] = Null
    BY DEF FakeEmbed, Embed, EmbedBatch
<1>3. ASSUME NEW p \in DOMAIN chunk
      PROVE  a[p] \in Replies(j, T) /\ AnswersPrompt(j, chunk[p], a[p])
    BY <1>1, <1>2 DEF Replies, AnswersPrompt
<1> QED
    BY <1>2, <1>3, RepliesMake

-----------------------------------------------------------------------------
(***************************************************************************)
(* The steps of a column                                                   *)
(***************************************************************************)
\* What a step of t must leave behind.
LEMMA RowStep ==
    ASSUME NEW T, NEW t \in Threads, RowsInv(T), Placed', job' = job,
           DOMAIN todo' = Threads, DOMAIN got' = Threads,
           DOMAIN tokens' = Threads, DOMAIN out' = Threads,
           \A u \in Threads \ {t} : /\ todo'[u] = todo[u] /\ got'[u] = got[u]
                                    /\ tokens'[u] = tokens[u] /\ out'[u] = out[u]
                                    /\ pc'[u] = pc[u],
           RowOk(t, T)'
    PROVE  RowsInv(T)'
<1>1. ASSUME NEW u \in Threads \ {t}
      PROVE  RowOk(u, T)'
  <2>1. RowOk(u, T)
    BY DEF RowsInv
  <2> QED
    BY <2>1 DEF RowOk, Progress, Draining, Chunk
<1> QED
    BY <1>1 DEF RowsInv

\* A step that leaves the column's own state as it is.
LEMMA RowQuiet ==
    ASSUME NEW T, NEW t \in Threads, RowsInv(T), Placed', job' = job,
           UNCHANGED <<todo, got, tokens, out>>,
           \A u \in Threads \ {t} : pc'[u] = pc[u],
           job[t].kind \in Udfs => /\ pc'[t] \in InUdf => pc[t] \in InUdf
                                   /\ pc'[t] \notin {"called", "draining", "done"} \/ pc'[t] = pc[t]
    PROVE  RowsInv(T)'
<1>1. RowOk(t, T)
    BY DEF RowsInv
<1>2. RowOk(t, T)'
    BY <1>1 DEF RowOk, Progress, Draining, Chunk
<1> QED
    BY <1>2, RowStep DEF RowsInv

LEMMA CallKeeps ==
    ASSUME NEW T, RowsInv(T), Placed', NEW t \in Threads, Call(t)
    PROVE  RowsInv(T)'
<1> DEFINE j == job[t]
<1>1. /\ j \in Jobs /\ j.kind \in Udfs /\ got[t] = <<>> /\ pc[t] = "called"
      /\ UNCHANGED <<job, got, tokens>> /\ DOMAIN pc = Threads
    BY DEF Call, RowsInv, RowOk, Placed
<1>2. CASE Prompts(j) = <<>>
  <2>1. /\ pc' = [pc EXCEPT ![t] = "done"] /\ todo' = todo
        /\ out' = [out EXCEPT ![t] = Scatter(j, <<>>)]
    BY <1>2 DEF Call, Goto
  <2>2. RowsRight(j, Scatter(j, <<>>))
    <3>1. DOMAIN <<>> = 1 .. Len(Prompts(j))
      BY <1>2
    <3> QED
      BY <1>1, <3>1, ScatterRight
  <2>3. pc'[t] = "done" /\ out'[t] = Scatter(j, <<>>)
    BY <1>1, <2>1 DEF RowsInv
  <2>4. RowOk(t, T)'
    BY <1>1, <2>2, <2>3 DEF RowOk, InUdf
  <2> QED
    BY <1>1, <2>1, <2>4, RowStep DEF RowsInv
<1>3. CASE Prompts(j) # <<>>
  <2>1. /\ pc' = [pc EXCEPT ![t] = "lookup"] /\ out' = out
        /\ todo' = [todo EXCEPT ![t] = ChunksOf(j)]
    BY <1>3 DEF Call, Goto
  <2>2. ChunksOf(j) \in Seq(Seq(Seq(STRING))) /\ CutFrom(ChunksOf(j), Prompts(j), 0)
    BY <1>1, ChunksAre
  <2>3. pc'[t] = "lookup" /\ todo'[t] = ChunksOf(j) /\ got'[t] = <<>> /\ job'[t] = j
    BY <1>1, <2>1 DEF RowsInv
  <2>4. Len(<<>>) = 0 /\ <<>> \in Seq(Replies(j, T))
    OBVIOUS
  <2> HIDE DEF j
  <2>5. Progress(t, T)'
    BY <2>2, <2>3, <2>4 DEF Progress
  <2>6. RowOk(t, T)'
    BY <2>3, <2>5 DEF RowOk
  <2> QED
    BY <1>1, <2>1, <2>6, RowStep DEF RowsInv
<1> QED
    BY <1>2, <1>3

\* A chunk is answered.
LEMMA AnsweredKeeps ==
    ASSUME NEW T, RowsInv(T), Placed', NEW t \in Threads, job[t].kind \in Udfs, pc[t] \in InUdf,
           todo[t] # <<>>, NEW answers \in Seq(Replies(job[t], T)),
           AllAnswered(job[t], Chunk(t), answers), Yield(t, answers),
           UNCHANGED <<job, out>>, DOMAIN tokens' = Threads,
           \A u \in Threads \ {t} : tokens'[u] = tokens[u] /\ pc'[u] = pc[u],
           pc'[t] = "chunk"
    PROVE  RowsInv(T)'
<1>1. job[t] \in Jobs /\ DOMAIN todo = Threads /\ DOMAIN got = Threads /\ Progress(t, T)
    BY DEF RowsInv, Placed, RowOk
<1>2. Progress(t, T)'
    BY <1>1, YieldKeeps
<1>3. RowOk(t, T)'
    BY <1>2 DEF RowOk
<1>4. /\ DOMAIN todo' = Threads /\ DOMAIN got' = Threads
      /\ \A u \in Threads \ {t} : todo'[u] = todo[u] /\ got'[u] = got[u]
    BY <1>1 DEF Yield
<1> QED
    BY <1>3, <1>4, RowStep DEF RowsInv

\* A chunk to come is a sequence of texts.
LEMMA ChunkIs ==
    ASSUME NEW T, NEW t \in Threads, Progress(t, T), todo[t] # <<>>
    PROVE  Chunk(t) \in Seq(Seq(STRING))
<1>1. todo[t] \in Seq(Seq(Seq(STRING)))
    BY DEF Progress
<1> QED
    BY <1>1 DEF Chunk

LEMMA ChunkKeeps ==
    ASSUME NEW T, Tokenizer(T), RowsInv(T), Placed', NEW t \in Threads,
           FakeChunk(t) \/ GenerateBatch(t) \/ EmbedChunk(t)
    PROVE  RowsInv(T)'
<1>1. /\ pc[t] = "chunk" /\ todo[t] # <<>> /\ job[t].kind \in Udfs
      /\ UNCHANGED <<job, out, pc, tokens>>
    BY DEF FakeChunk, GenerateBatch, EmbedChunk, MlxReady, Ready, Working, AfterUdf, Udfs
<1>2. Progress(t, T) /\ Chunk(t) \in Seq(Seq(STRING))
    BY <1>1, ChunkIs DEF RowsInv, RowOk, InUdf
<1>3. ASSUME NEW answers, answers \in Seq(Replies(job[t], T)),
             AllAnswered(job[t], Chunk(t), answers), Yield(t, answers)
      PROVE  RowsInv(T)'
    BY <1>1, <1>3, AnsweredKeeps DEF RowsInv, InUdf
<1>4. CASE FakeChunk(t)
  <2>1. Yield(t, FakeGenerate(job[t], Chunk(t))) /\ job[t].kind # "embed"
    BY <1>4 DEF FakeChunk
  <2> QED
    BY <1>2, <1>3, <2>1, FakeAnswers
<1>5. CASE GenerateBatch(t)
  <2> DEFINE chunk == Chunk(t)
             rows == [p \in DOMAIN chunk |-> Encode(chunk[p])]
  <2>1. job[t].kind # "embed"
    BY <1>5 DEF GenerateBatch, MlxReady
  <2>2. PICK fed \in BatchTexts(rows) :
            Yield(t, [p \in DOMAIN fed |-> GenerateWithUsage(job[t], chunk[p], fed[p])])
    BY <1>5 DEF GenerateBatch
  <2> HIDE DEF chunk
  <2>3. LET a == [p \in DOMAIN fed |-> GenerateWithUsage(job[t], chunk[p], fed[p])]
        IN a \in Seq(Replies(job[t], T)) /\ AllAnswered(job[t], chunk, a)
    BY <1>2, <2>1, BatchAnswers DEF chunk
  <2> QED
    BY <1>3, <2>2, <2>3 DEF chunk
<1>6. CASE EmbedChunk(t)
  <2>1. PICK a : /\ a = FakeEmbed(Chunk(t)) \/ a = Embed(Chunk(t))
                 /\ Yield(t, a) /\ job[t].kind = "embed"
    BY <1>6 DEF EmbedChunk
  <2> QED
    BY <1>2, <1>3, <2>1, EmbedAnswers
<1> QED
    BY <1>4, <1>5, <1>6

LEMMA InsertKeeps ==
    ASSUME NEW T, Tokenizer(T), RowsInv(T), Placed', NEW t \in Threads, Insert(t)
    PROVE  RowsInv(T)'
<1>1. /\ pc[t] = "chunk" /\ todo[t] # <<>> /\ job[t].kind = "complete"
      /\ UNCHANGED <<job, out, todo, got>>
      /\ tokens' = [tokens EXCEPT ![t] = [uid \in DOMAIN Chunk(t) |-> <<>>]]
      /\ pc' = [pc EXCEPT ![t] = "draining"] /\ DOMAIN pc = Threads
    BY DEF Insert, MlxReady, Ready, Working, AfterUdf, Goto, RowsInv, Placed
<1>2. Progress(t, T) /\ Chunk(t) \in Seq(Seq(STRING))
    BY <1>1, ChunkIs DEF RowsInv, RowOk, InUdf, Udfs
<1>3. tokens'[t] = [uid \in DOMAIN Chunk(t) |-> <<>>] /\ pc'[t] = "draining"
    BY <1>1 DEF RowsInv
<1>4. ASSUME NEW uid \in DOMAIN Chunk(t)
      PROVE  <<>> \in Seq(T) /\ IsPrefix(<<>>, Encode(Chunk(t)[uid]))
  <2> DEFINE s == Encode(Chunk(t)[uid])
  <2>1. s \in Seq(T)
    BY <1>2 DEF Tokenizer
  <2> HIDE DEF s
  <2>2. Len(<<>>) = 0 /\ SubSeq(<<>>, 1, 0) = <<>> /\ SubSeq(s, 1, 0) = <<>> /\ 0 <= Len(s)
    BY <2>1
  <2> QED
    BY <2>2 DEF IsPrefix, s
<1>5. Draining(t, T)' /\ Progress(t, T)'
    BY <1>1, <1>2, <1>3, <1>4 DEF Draining, Progress, Chunk
<1>6. RowOk(t, T)'
    BY <1>3, <1>5 DEF RowOk
<1> QED
    BY <1>1, <1>6, RowStep DEF RowsInv

\* One more token of a row.
LEMMA NextToken ==
    ASSUME NEW T, NEW s \in Seq(T), NEW whole \in Seq(T), IsPrefix(s, whole), Len(s) < Len(whole)
    PROVE  Append(s, whole[Len(s) + 1]) \in Seq(T)
           /\ IsPrefix(Append(s, whole[Len(s) + 1]), whole)
<1> DEFINE n == Len(s)
           x == whole[n + 1]
           a == Append(s, x)
<1>1. n \in Nat /\ n + 1 \in 1 .. Len(whole) /\ Len(whole) \in Nat
    OBVIOUS
<1>2. SubSeq(s, 1, n) = SubSeq(whole, 1, n)
    BY DEF IsPrefix
<1>3. \A i \in 1 .. n : s[i] = whole[i]
  <2>1. \A i \in 1 .. n : SubSeq(s, 1, n)[i] = s[i] /\ SubSeq(whole, 1, n)[i] = whole[i]
    OBVIOUS
  <2> QED
    BY <1>2, <2>1
<1>4. x \in T
    BY <1>1
<1>5. /\ a \in Seq(T) /\ Len(a) = n + 1 /\ a[n + 1] = x
      /\ \A i \in 1 .. n : a[i] = s[i]
  <2> HIDE DEF x
  <2> QED
    BY <1>4
<1>6. \A i \in 1 .. n + 1 : a[i] = whole[i]
  <2>1. a[n + 1] = whole[n + 1]
    BY <1>5
  <2> HIDE DEF a, n, x
  <2>2. ASSUME NEW i \in 1 .. n PROVE a[i] = whole[i]
    BY ONLY <1>3, <1>5, <2>2
  <2>3. \A i \in 1 .. n + 1 : i \in 1 .. n \/ i = n + 1
    BY <1>1
  <2> QED
    BY ONLY <2>1, <2>2, <2>3
<1> HIDE DEF a, n, x
<1>7. /\ SubSeq(a, 1, n + 1) \in Seq(T) /\ Len(SubSeq(a, 1, n + 1)) = n + 1
      /\ \A i \in 1 .. n + 1 : SubSeq(a, 1, n + 1)[i] = a[i]
    BY <1>1, <1>5
<1>8. /\ SubSeq(whole, 1, n + 1) \in Seq(T) /\ Len(SubSeq(whole, 1, n + 1)) = n + 1
      /\ \A i \in 1 .. n + 1 : SubSeq(whole, 1, n + 1)[i] = whole[i]
    BY <1>1
<1>9. SubSeq(a, 1, n + 1) = SubSeq(whole, 1, n + 1)
    BY <1>6, <1>7, <1>8
<1>10. IsPrefix(a, whole)
    BY <1>1, <1>5, <1>9 DEF IsPrefix
<1> QED
    BY <1>5, <1>10 DEF a, x, n

LEMMA EventKeeps ==
    ASSUME NEW T, Tokenizer(T), RowsInv(T), Placed', NEW t \in Threads, Event(t)
    PROVE  RowsInv(T)'
<1>1. /\ pc[t] = "draining" /\ job[t].kind \in Udfs
      /\ UNCHANGED <<job, out, todo, got, pc>>
    BY DEF Event, AfterUdf, RowsInv, Placed, InUdf
<1>2. Progress(t, T) /\ Draining(t, T) /\ Chunk(t) \in Seq(Seq(STRING))
    BY <1>1, ChunkIs DEF RowsInv, RowOk, InUdf, Draining
<1>3. PICK uid \in DOMAIN tokens[t] :
          /\ Len(tokens[t][uid]) < Len(Encode(Chunk(t)[uid]))
          /\ tokens' = [tokens EXCEPT ![t][uid] =
                           Append(@, Encode(Chunk(t)[uid])[Len(@) + 1])]
    BY DEF Event, Rest
<1> DEFINE s == tokens[t][uid]
           whole == Encode(Chunk(t)[uid])
           more == Append(s, whole[Len(s) + 1])
<1>4. s \in Seq(T) /\ IsPrefix(s, whole) /\ whole \in Seq(T)
    BY <1>2 DEF Draining, Tokenizer
<1>5. more \in Seq(T) /\ IsPrefix(more, whole)
  <2> HIDE DEF s, whole
  <2> QED
    BY <1>3, <1>4, NextToken DEF s, whole
<1>6. tokens' = [tokens EXCEPT ![t] = [tokens[t] EXCEPT ![uid] = more]]
    BY <1>3
<1> HIDE DEF more
<1>7. /\ tokens'[t] = [tokens[t] EXCEPT ![uid] = more] /\ DOMAIN tokens' = Threads
      /\ \A u \in Threads \ {t} : tokens'[u] = tokens[u]
    BY <1>6 DEF RowsInv
<1>8. DOMAIN tokens'[t] = DOMAIN tokens[t] /\ Chunk(t)' = Chunk(t)
    BY <1>1, <1>7 DEF Chunk
<1>9. ASSUME NEW i \in DOMAIN tokens[t]
      PROVE  tokens'[t][i] \in Seq(T) /\ IsPrefix(tokens'[t][i], Encode(Chunk(t)[i]))
  <2>1. CASE i = uid
    BY <1>5, <1>7, <2>1
  <2>2. CASE i # uid
    BY <1>2, <1>7, <2>2 DEF Draining
  <2> QED
    BY <2>1, <2>2
<1>10. Draining(t, T)' /\ Progress(t, T)'
    BY <1>1, <1>2, <1>8, <1>9 DEF Draining, Progress
<1>11. RowOk(t, T)'
    BY <1>1, <1>10 DEF RowOk
<1> QED
    BY <1>1, <1>7, <1>11, RowStep DEF RowsInv

\* A prefix that is not shorter is the whole.
LEMMA WholePrefix ==
    ASSUME NEW T, NEW s \in Seq(T), NEW whole \in Seq(T), IsPrefix(s, whole),
           ~(Len(s) < Len(whole))
    PROVE  s = whole
<1>1. Len(s) = Len(whole) /\ SubSeq(s, 1, Len(s)) = SubSeq(whole, 1, Len(whole))
    BY DEF IsPrefix
<1>2. SubSeq(s, 1, Len(s)) = s /\ SubSeq(whole, 1, Len(whole)) = whole
    OBVIOUS
<1> QED
    BY <1>1, <1>2

LEMMA CloseKeeps ==
    ASSUME NEW T, Tokenizer(T), RowsInv(T), Placed', NEW t \in Threads, CloseAndDecode(t)
    PROVE  RowsInv(T)'
<1> DEFINE chunk == Chunk(t)
           Text(p) == IF IsBad(chunk[p]) THEN Failed ELSE tokens[t][p]
           a == [p \in DOMAIN chunk |-> GenerateWithUsage(job[t], chunk[p], Text(p))]
<1>1. /\ pc[t] = "draining" /\ job[t].kind \in Udfs
      /\ \A uid \in DOMAIN tokens[t] : ~(Len(tokens[t][uid]) < Len(Encode(chunk[uid])))
      /\ Yield(t, a) /\ tokens' = [tokens EXCEPT ![t] = <<>>]
      /\ pc' = [pc EXCEPT ![t] = "chunk"] /\ UNCHANGED <<job, out>>
    BY DEF CloseAndDecode, AfterUdf, RowsInv, Placed, InUdf, Goto, Rest
<1>2. Progress(t, T) /\ Draining(t, T) /\ chunk \in Seq(Seq(STRING)) /\ job[t].kind = "complete"
    BY <1>1, ChunkIs DEF RowsInv, RowOk, InUdf, Draining
<1>3. ASSUME NEW p \in DOMAIN chunk
      PROVE  tokens[t][p] = Encode(chunk[p])
  <2>1. /\ tokens[t][p] \in Seq(T) /\ IsPrefix(tokens[t][p], Encode(chunk[p]))
        /\ ~(Len(tokens[t][p]) < Len(Encode(chunk[p])))
    BY <1>1, <1>2 DEF Draining
  <2>2. Encode(chunk[p]) \in Seq(T)
    BY <1>2 DEF Tokenizer
  <2> QED
    BY <2>1, <2>2, WholePrefix
<1>4. a = [p \in DOMAIN chunk |-> a[p]]
      /\ \A p \in DOMAIN chunk : a[p] = GenerateWithUsage(job[t], chunk[p], Text(p))
    OBVIOUS
<1> HIDE DEF a, chunk
<1>5. ASSUME NEW p \in DOMAIN chunk
      PROVE  a[p] \in Replies(job[t], T) /\ AnswersPrompt(job[t], chunk[p], a[p])
  <2>1. chunk[p] \in Seq(STRING) /\ job[t].kind # "embed"
    BY <1>2
  <2>2. Text(p) = Encode(chunk[p]) \/ (IsBad(chunk[p]) /\ Text(p) = Failed)
    BY <1>3
  <2> HIDE DEF Text
  <2> QED
    BY <1>4, <2>1, <2>2, UsageAnswers
<1>6. a \in Seq(Replies(job[t], T)) /\ AllAnswered(job[t], chunk, a)
    BY <1>2, <1>4, <1>5, RepliesMake
<1>7. /\ DOMAIN tokens' = Threads /\ pc'[t] = "chunk"
      /\ \A u \in Threads \ {t} : tokens'[u] = tokens[u] /\ pc'[u] = pc[u]
    BY <1>1 DEF RowsInv, Placed
<1>8. todo[t] # <<>> /\ pc[t] \in InUdf
    BY <1>1, <1>2 DEF Draining, InUdf
<1> QED
    BY <1>1, <1>6, <1>7, <1>8, AnsweredKeeps DEF chunk

\* With no chunk to come, every prompt is answered.
LEMMA ReturnKeeps ==
    ASSUME NEW T, RowsInv(T), Placed', NEW t \in Threads, Return(t)
    PROVE  RowsInv(T)'
<1> DEFINE j == job[t]
           g == got[t]
<1>1. /\ pc[t] = "chunk" /\ todo[t] = <<>> /\ j.kind \in Udfs /\ j \in Jobs
      /\ out' = [out EXCEPT ![t] = Scatter(j, g)] /\ got' = [got EXCEPT ![t] = <<>>]
      /\ pc' = [pc EXCEPT ![t] = "done"] /\ UNCHANGED <<job, todo, tokens>>
    BY DEF Return, RowsInv, Placed, InUdf, Goto
<1>2. /\ g \in Seq(Replies(j, T)) /\ CutFrom(<<>>, Prompts(j), Len(g))
      /\ \A p \in 1 .. Len(g) : AnswersPrompt(j, Prompts(j)[p], g[p])
    BY <1>1 DEF RowsInv, RowOk, InUdf, Progress
<1>3. Len(g) = Len(Prompts(j))
    BY <1>2 DEF CutFrom
<1>4. DOMAIN g = 1 .. Len(g)
  <2> HIDE DEF g
  <2> QED
    BY <1>2
<1>5. RowsRight(j, Scatter(j, g))
  <2> HIDE DEF g, j
  <2> QED
    BY <1>1, <1>2, <1>3, <1>4, ScatterRight
<1>6. /\ pc'[t] = "done" /\ out'[t] = Scatter(j, g)
      /\ DOMAIN out' = Threads /\ DOMAIN got' = Threads
      /\ \A u \in Threads \ {t} : out'[u] = out[u] /\ got'[u] = got[u] /\ pc'[u] = pc[u]
    BY <1>1 DEF RowsInv, Placed
<1>7. RowOk(t, T)'
    BY <1>1, <1>5, <1>6 DEF RowOk, InUdf
<1> QED
    BY <1>1, <1>6, <1>7, RowStep DEF RowsInv

LEMMA RowsStay ==
    ASSUME NEW T, Tokenizer(T), RowsInv(T), [ServingNext]_servingVars
    PROVE  RowsInv(T)'
<1>1. Placed /\ Placed'
    BY PlacesStay DEF RowsInv
<1>2. ASSUME NEW t \in Threads, LocalWork(t)
      PROVE  RowsInv(T)'
  <2>1. job' = job /\ \A u \in Threads \ {t} : pc'[u] = pc[u]
    BY <1>1, <1>2, LocalWorkIs
  <2>2. CASE Lookup(t) \/ GetEngine(t) \/ UnknownEngine(t)
    <3>1. /\ UNCHANGED <<todo, got, tokens, out>> /\ pc[t] \in InUdf
          /\ pc'[t] \in {"locking", "chunk", "raised"}
      BY <1>1, <2>2 DEF Lookup, GetEngine, UnknownEngine, Goto, udf, InUdf, Placed
    <3> QED
      BY <1>1, <2>1, <3>1, RowQuiet
  <2>3. CASE FindUnloaded(t) \/ AcquireLoadLock(t) \/ EnsureLoaded(t) \/ LoadFails(t)
    <3>1. /\ UNCHANGED <<todo, got, tokens, out>> /\ pc[t] \in InUdf
          /\ pc'[t] \in {"waiting", "loading", "chunk", "raised"}
      BY <1>1, <2>3 DEF FindUnloaded, AcquireLoadLock, EnsureLoaded, LoadFails, Working,
                        LoadOnly, AfterUdf, Goto, InUdf, Placed
    <3> QED
      BY <1>1, <2>1, <3>1, RowQuiet
  <2>4. CASE GenerateFails(t)
    <3>1. UNCHANGED <<todo, got, tokens, out>> /\ pc'[t] = "raised"
      BY <1>1, <2>4 DEF GenerateFails, AfterUdf, Goto, Placed
    <3> QED
      BY <1>1, <2>1, <3>1, RowQuiet DEF InUdf
  <2>5. CASE Call(t)
    BY <1>1, <2>5, CallKeeps
  <2>6. CASE FakeChunk(t) \/ GenerateBatch(t) \/ EmbedChunk(t)
    BY <1>1, <2>6, ChunkKeeps
  <2>7. CASE Insert(t)
    BY <1>1, <2>7, InsertKeeps
  <2>8. CASE Event(t)
    BY <1>1, <2>8, EventKeeps
  <2>9. CASE CloseAndDecode(t)
    BY <1>1, <2>9, CloseKeeps
  <2>10. CASE Return(t)
    BY <1>1, <2>10, ReturnKeeps
  <2> QED
    BY <1>2, <2>2, <2>3, <2>4, <2>5, <2>6, <2>7, <2>8, <2>9, <2>10 DEF LocalWork
<1>3. ASSUME NEW t \in Threads, SharedWork(t)
      PROVE  RowsInv(T)'
  <2>1. /\ UNCHANGED <<job, todo, got, tokens>> /\ job[t].kind \notin Udfs
        /\ \A u \in Threads \ {t} : pc'[u] = pc[u]
    BY <1>1, <1>3, SharedWorkIs
  <2>2. DOMAIN out' = Threads /\ \A u \in Threads \ {t} : out'[u] = out[u]
    BY <1>3 DEF SharedWork, RegisterEngine, ClearRegistry, InferenceLocalServer, RefuseServer,
                Request, PutEntry, GetExact, Match, Reuse, RowsInv
  <2>3. RowOk(t, T)'
    BY <2>1 DEF RowOk
  <2> QED
    BY <1>1, <2>1, <2>2, <2>3, RowStep DEF RowsInv
<1>4. CASE UNCHANGED servingVars
  BY <1>1, <1>4 DEF servingVars, udf, RowsInv, RowOk, Progress, Draining, Chunk
<1> QED
  BY <1>2, <1>3, <1>4 DEF ServingNext

\* Every row of a column shows the answer to its own prompt, or an error of its
\* own: nulls, chunks of any size, a prefix prefilled once for all, the generator's
\* order of events and whatever other threads do move nothing.
THEOREM RowsShowTheirAnswer ==
    ASSUME NEW T, Tokenizer(T)
    PROVE  ServingSpec => []RowsAnswerTheirPrompt
<1>1. ServingInit => RowsInv(T)
  <2> SUFFICES ASSUME ServingInit
               PROVE  RowsInv(T)
    OBVIOUS
  <2>1. \A t \in Threads : RowOk(t, T)
    BY DEF ServingInit, RowOk, InUdf
  <2> QED
    BY <2>1, InitPlaces DEF ServingInit, RowsInv
<1>2. RowsInv(T) /\ [ServingNext]_servingVars => RowsInv(T)'
    BY RowsStay
<1>3. RowsInv(T) => RowsAnswerTheirPrompt
    BY DEF RowsInv, RowOk, RowsRight, AnswersPrompt, RowsAnswerTheirPrompt
<1> QED
    BY <1>1, <1>2, <1>3, PTL DEF ServingSpec
-----------------------------------------------------------------------------
(***************************************************************************)
(* Manifests                                                               *)
(***************************************************************************)
\* A null is no hash.
NoneIsNoHash == \A x : None # <<"sha256", x>>

LEMMA HashIsInjective ==
    ASSUME NoneIsNoHash, NEW x, NEW y, Hash(x) = Hash(y)
    PROVE  x = y
<1>1. CASE x # None /\ y # None
  <2>1. <<"sha256", x>> = <<"sha256", y>>
    BY <1>1 DEF Hash
  <2>2. <<"sha256", x>>[2] = x /\ <<"sha256", y>>[2] = y
    OBVIOUS
  <2> QED
    BY <2>1, <2>2
<1>2. CASE x = None \/ y = None
  BY <1>2 DEF Hash, NoneIsNoHash
<1> QED
  BY <1>1, <1>2

\* The manifest of a run of c that keeps no texts.
Blank(c, e) == BuildManifest(c, e, FALSE, FALSE)

\* What a manifest of a run says, whatever else it keeps, and that it is signed.
LEMMA BuiltManifest ==
    ASSUME NEW c, NEW e, NEW usage, NEW keep, NEW m, m = BuildManifest(c, e, usage, keep)
    PROVE  /\ "id" \in DOMAIN m /\ m.id = ManifestId(HashedFields(m))
           /\ HashedFields(m) = HashedFields(Blank(c, e))
           /\ Blank(c, e).symbol = c.symbol /\ Blank(c, e).provider = ProviderOf(c.provider)
           /\ Blank(c, e).model = ModelOf(c.model) /\ Blank(c, e).system = Hash(c.system)
           /\ Blank(c, e).version = VersionOf(e)
           /\ Blank(c, e).endpoint = EndpointInput(c.provider, e)
           /\ Blank(c, e).fingerprint =
                Fingerprint(c.symbol, c.provider, c.model, c.response, c.system,
                            EndpointInput(c.provider, e))
<1> DEFINE url == EndpointInput(c.provider, e)
           Bare(u, s) ==
             [format |-> FormatVersion, version |-> VersionOf(e), symbol |-> c.symbol,
             provider |-> ProviderOf(c.provider), model |-> ModelOf(c.model),
             fingerprint |-> Fingerprint(c.symbol, c.provider, c.model, c.response, c.system, url),
             system |-> Hash(c.system), template |-> Hash(c.template),
             name |-> NameOf(c.response), schema |-> Hash(SchemaOf(c.response)),
             endpoint |-> url, usage |-> u,
             texts |-> s, id |-> None]
           Texts == IF keep THEN [system |-> c.system, template |-> c.template] ELSE None
           Sign(r) == [r EXCEPT !.id = ManifestId(HashedFields(r))]
<1> DEFINE no == FALSE
<1>1. m = Sign(Bare(usage, Texts)) /\ Blank(c, e) = Sign(Bare(no, None))
  BY DEF BuildManifest, Blank
<1> HIDE DEF no
<1>2. ASSUME NEW u, NEW s
      PROVE  LET r == Bare(u, s) IN
             /\ DOMAIN Sign(r) = HashedNames \cup {"usage", "texts", "id"}
             /\ DOMAIN r = HashedNames \cup {"usage", "texts", "id"}
             /\ Sign(r).id = ManifestId(HashedFields(r))
             /\ \A f \in HashedNames \cup {"usage"} : Sign(r)[f] = r[f]
  <2> DEFINE r == Bare(u, s)
             h == ManifestId(HashedFields(r))
  <2>1. DOMAIN r = HashedNames \cup {"usage", "texts", "id"}
    BY DEF HashedNames
  <2>2. \A f \in HashedNames \cup {"usage"} : f # "id"
    BY DEF HashedNames
  <2>3. Sign(r) = [f \in DOMAIN r |-> IF f = "id" THEN h ELSE r[f]]
    <3> HIDE DEF r, h
    <3> SUFFICES [r EXCEPT !["id"] = h] = [f \in DOMAIN r |-> IF f = "id" THEN h ELSE r[f]]
      BY DEF h
    <3> QED
      OBVIOUS
  <2> HIDE DEF r, h
  <2>4. /\ DOMAIN Sign(r) = DOMAIN r /\ Sign(r).id = h
        /\ \A f \in HashedNames \cup {"usage"} : Sign(r)[f] = r[f]
    BY <2>1, <2>2, <2>3
  <2> QED
    BY <2>1, <2>4 DEF r, h
<1>3. ASSUME NEW u, NEW s
      PROVE  HashedFields(Sign(Bare(u, s))) = HashedFields(Bare(u, s))
  <2> HIDE DEF Bare
  <2> QED
    BY <1>2 DEF HashedFields
<1>4. HashedFields(Bare(usage, Texts)) = HashedFields(Bare(no, None))
  <2>1. \A f \in HashedNames : Bare(usage, Texts)[f] = Bare(no, None)[f]
    <3> HIDE DEF Texts
    <3> QED
      BY DEF HashedNames
  <2> HIDE DEF Bare, Texts
  <2> QED
    BY <2>1 DEF HashedFields
<1>5. \A f \in HashedNames : Blank(c, e)[f] = Bare(no, None)[f]
  <2> HIDE DEF Bare, Sign
  <2> QED
    BY <1>1, <1>2
<1>6. /\ Blank(c, e).symbol = c.symbol /\ Blank(c, e).provider = ProviderOf(c.provider)
      /\ Blank(c, e).model = ModelOf(c.model) /\ Blank(c, e).system = Hash(c.system)
      /\ Blank(c, e).version = VersionOf(e)
      /\ Blank(c, e).endpoint = EndpointInput(c.provider, e)
      /\ Blank(c, e).fingerprint =
           Fingerprint(c.symbol, c.provider, c.model, c.response, c.system,
                       EndpointInput(c.provider, e))
  <2> DEFINE b == Bare(no, None)
  <2>1. /\ b.symbol = c.symbol /\ b.provider = ProviderOf(c.provider)
        /\ b.model = ModelOf(c.model) /\ b.system = Hash(c.system) /\ b.version = VersionOf(e)
        /\ b.endpoint = EndpointInput(c.provider, e)
        /\ b.fingerprint = Fingerprint(c.symbol, c.provider, c.model, c.response, c.system,
                                       EndpointInput(c.provider, e))
    OBVIOUS
  <2> HIDE DEF Bare
  <2>2. \A f \in {"version", "symbol", "provider", "model", "system", "endpoint", "fingerprint"} :
            Blank(c, e)[f] = b[f]
    BY <1>5 DEF HashedNames
  <2> HIDE DEF b
  <2> QED
    BY <2>1, <2>2
<1>7. m.id = ManifestId(HashedFields(m)) /\ "id" \in DOMAIN m
  <2> HIDE DEF Bare, Texts, Sign
  <2>1. m = Sign(Bare(usage, Texts))
    BY <1>1
  <2>2. /\ Sign(Bare(usage, Texts)).id = ManifestId(HashedFields(Bare(usage, Texts)))
        /\ "id" \in DOMAIN Sign(Bare(usage, Texts))
    BY <1>2
  <2> QED
    BY <2>1, <2>2, <1>3
<1>8. HashedFields(m) = HashedFields(Blank(c, e))
  <2> HIDE DEF Bare, Texts, Sign
  <2>1. HashedFields(m) = HashedFields(Bare(usage, Texts))
    BY <1>1, <1>3
  <2>2. HashedFields(Blank(c, e)) = HashedFields(Bare(no, None))
    BY <1>1, <1>3
  <2> QED
    BY <2>1, <2>2, <1>4
<1> QED
  BY <1>6, <1>7, <1>8
-----------------------------------------------------------------------------
(***************************************************************************)
(* A replay is the same request                                            *)
(***************************************************************************)
StudyStages == {"start", "induced", "labelled", "exported", "reviewed", "imported", "tuned"}

\* What the manifest of the recorded run has to say, and its id.
RunFields == HashedFields(Blank(run.config, run.environment))
Signed(m) == "id" \in DOMAIN m /\ m.id = ManifestId(RunFields)

\* Whatever has been done to the file, its id is the run's; and the manifest in
\* memory says what the run's says.
ReplayInv ==
    /\ stage \in StudyStages => tmp = None /\ file = None /\ replayed = None
    /\ stage \notin StudyStages => run.config.model # ModelOf(None)
    /\ stage \in {"recorded", "loaded"} =>
         Signed(manifest) /\ HashedFields(manifest) = RunFields
    /\ stage = "saving" => Signed(tmp)
    /\ file # None => Signed(file)
    /\ ReplayIsTheSameRequest

LEMMA EditsKeepTheId ==
    ASSUME NEW m, Signed(m), NEW n \in Edits(m)
    PROVE  Signed(n)
BY DEF Edits, Signed

\* What a verified replay sends and warns of.
SameRequest(call, drift, e) ==
    LET theirs == [call EXCEPT !.usage = run.usage]
        ours   == OriginalCall(run.config, run.cache, run.usage)
    IN /\ [theirs EXCEPT !.system = ours.system] = ours
       /\ theirs = ours <=>
            ~(run.cache /\ run.config.symbol = "inference_async" /\ run.config.system # None)
       /\ "version" \in drift <=> e.version \notin {None, VersionOf(run.environment)}
       /\ run.config.provider # None =>
            ("endpoint" \in drift <=>
               EndpointInput(run.config.provider, e)
                 # EndpointInput(run.config.provider, run.environment))

\* A verified replay of a manifest that says what the run's does.
LEMMA VerifiedReplay ==
    ASSUME NoneIsNoHash, HashedFields(manifest) = RunFields, run.config.model # ModelOf(None),
           NEW inputs, ~Diverges(manifest, inputs)
    PROVE  SameRequest(ReplayCall(manifest, inputs), DriftOf(manifest, environment), environment)
<1> DEFINE c == run.config
           built == Blank(c, run.environment)
           seen == EndpointInput(c.provider, run.environment)
<1>1. /\ built.symbol = c.symbol /\ built.provider = ProviderOf(c.provider)
      /\ built.model = ModelOf(c.model) /\ built.version = VersionOf(run.environment)
      /\ built.endpoint = seen
      /\ built.fingerprint = Fingerprint(c.symbol, c.provider, c.model, c.response, c.system, seen)
  <2> HIDE DEF c
  <2> QED
    BY BuiltManifest
<1> HIDE DEF built
<1>2. \A f \in HashedNames : manifest[f] = built[f]
  <2>1. HashedFields(manifest) = HashedFields(built)
    BY DEF RunFields, built
  <2>2. \A f \in HashedNames : HashedFields(manifest)[f] = manifest[f] /\ HashedFields(built)[f] = built[f]
    BY DEF HashedFields
  <2> QED
    BY <2>1, <2>2
<1>3. /\ manifest.symbol = c.symbol /\ manifest.provider = ProviderOf(c.provider)
      /\ manifest.model = ModelOf(c.model) /\ manifest.version = VersionOf(run.environment)
      /\ manifest.endpoint = seen
      /\ manifest.fingerprint = Fingerprint(c.symbol, c.provider, c.model, c.response, c.system, seen)
  <2> HIDE DEF c, seen
  <2> QED
    BY <1>1, <1>2 DEF HashedNames
<1>4. inputs.response = c.response
  <2> DEFINE Imprint(s, p, d, r, t, u) ==
               [symbol |-> s, provider |-> ProviderOf(p), model |-> ModelOf(d),
                response |-> r, system |-> t, endpoint |-> u]
             theirs == Imprint(manifest.symbol, manifest.provider, manifest.model, inputs.response,
                             inputs.system, manifest.endpoint)
             ours == Imprint(c.symbol, c.provider, c.model, c.response, c.system, seen)
  <2>1. Hash(theirs) = Hash(ours)
    BY <1>3 DEF Diverges, Fingerprint
  <2>2. theirs.response = inputs.response /\ ours.response = c.response
    OBVIOUS
  <2> HIDE DEF theirs, ours
  <2>3. theirs = ours
    BY <2>1, HashIsInjective
  <2> QED
    BY <2>2, <2>3
<1>5. ModelArgument(manifest) = c.model
  BY <1>3 DEF ModelArgument, ModelOf
<1> DEFINE call == [ReplayCall(manifest, inputs) EXCEPT !.usage = run.usage]
           prompt == SystemSent(c.symbol, run.cache, c.system)
           Sends(system) == [symbol |-> c.symbol, provider |-> ProviderOf(c.provider),
                            model |-> c.model, response |-> c.response, system |-> system,
                            usage |-> run.usage]
<1>6. call = Sends(None)
  <2> HIDE DEF c
  <2> QED
    BY <1>3, <1>4, <1>5 DEF ReplayCall, SystemSent
<1>7. OriginalCall(c, run.cache, run.usage) = Sends(prompt)
  BY DEF OriginalCall
<1>8. [Sends(None) EXCEPT !.system = Sends(prompt).system] = Sends(prompt)
  <2> HIDE DEF c, prompt
  <2> QED
    OBVIOUS
<1>9. Sends(None) = Sends(prompt) <=> prompt = None
  <2>1. Sends(None).system = None /\ Sends(prompt).system = prompt
    OBVIOUS
  <2> QED
    BY <2>1
<1>10. prompt = None <=> ~(run.cache /\ c.symbol = "inference_async" /\ c.system # None)
  <2> HIDE DEF c
  <2> QED
    BY DEF SystemSent
<1> HIDE DEF call, Sends, prompt
<1>11. "version" \in DriftOf(manifest, environment) <=>
         environment.version \notin {None, VersionOf(run.environment)}
  BY <1>3 DEF DriftOf
<1>12. ASSUME c.provider # None
       PROVE  "endpoint" \in DriftOf(manifest, environment) <=>
                EndpointInput(c.provider, environment) # seen
  <2> HIDE DEF c, seen
  <2> QED
    BY <1>3, <1>12 DEF DriftOf, ProviderOf
<1> QED
  BY <1>6, <1>7, <1>8, <1>9, <1>10, <1>11, <1>12 DEF SameRequest, call

LEMMA ReplayInit == Init => ReplayInv
BY DEF Init, ReplayInv, ReplayIsTheSameRequest, StudyStages

\* The property says nothing of the file, and the rest stays.
LEMMA SameReplay ==
    ASSUME ReplayIsTheSameRequest, run' = run, replayed' = replayed
    PROVE  ReplayIsTheSameRequest'
BY DEF ReplayIsTheSameRequest

LEMMA SameRunFields ==
    ASSUME run' = run
    PROVE  RunFields' = RunFields /\ \A m : Signed(m) => Signed(m)'
BY DEF RunFields, Signed

LEMMA StudyReplays ==
    ASSUME ReplayInv, Induce \/ Label \/ Export \/ Review \/ Import \/ Retune
    PROVE  ReplayInv'
<1>1. /\ stage \in StudyStages /\ stage' \in StudyStages
      /\ UNCHANGED record
  BY DEF StudyStages, Induce, Label, Export, Review, Import, Retune
<1>2. /\ stage' \notin {"recorded", "loaded", "saving"}
      /\ tmp' = None /\ file' = None /\ replayed' = None
  BY <1>1 DEF StudyStages, ReplayInv, record
<1> QED
  BY <1>1, <1>2 DEF ReplayInv, ReplayIsTheSameRequest

LEMMA RecordRunReplays ==
    ASSUME ReplayInv, RecordRun
    PROVE  ReplayInv'
<1> DEFINE With(c, t) == [c EXCEPT !.template = t]
<1>0. PICK c \in Configs, t \in {IF stage = "tuned" THEN "tuned" ELSE None} :
        \E cache, usage, storeTexts \in BOOLEAN :
           /\ manifest' = BuildManifest(With(c, t), environment, usage, storeTexts)
           /\ run' = [config |-> With(c, t), cache |-> cache, usage |-> usage,
                       environment |-> environment]
  BY DEF RecordRun
<1> DEFINE config == With(c, t)
<1>1. PICK cache, usage, storeTexts :
           /\ manifest' = BuildManifest(config, environment, usage, storeTexts)
           /\ run' = [config |-> config, cache |-> cache, usage |-> usage,
                       environment |-> environment]
  <2> HIDE DEF With
  <2> QED
    BY <1>0, Zenon
<1>2. /\ stage \in StudyStages /\ stage' = "recorded"
      /\ tmp' = tmp /\ file' = file /\ replayed' = replayed
  BY DEF RecordRun, StudyStages
<1>3. config.model # ModelOf(None)
  <2>1. DOMAIN c = {"symbol", "provider", "model", "system", "response", "template"}
        /\ c.model # ModelOf(None)
    BY SessionAssumption
  <2> QED
    BY <2>1
<1>4. run'.config = config /\ run'.environment = environment
  <2> HIDE DEF config
  <2> QED
    BY <1>1
<1>5. /\ "id" \in DOMAIN manifest' /\ manifest'.id = ManifestId(HashedFields(manifest'))
      /\ HashedFields(manifest') = HashedFields(Blank(config, environment))
  <2> HIDE DEF config
  <2> QED
    BY <1>1, BuiltManifest
<1> HIDE DEF config
<1>6. RunFields' = HashedFields(Blank(config, environment))
  BY <1>4 DEF RunFields
<1>7. Signed(manifest)' /\ HashedFields(manifest)' = RunFields'
  <2>1. HashedFields(manifest)' = HashedFields(manifest')
    BY DEF HashedFields
  <2> QED
    BY <1>5, <1>6, <2>1 DEF Signed
<1> QED
  BY <1>2, <1>3, <1>4, <1>7 DEF ReplayInv, StudyStages, ReplayIsTheSameRequest

LEMMA SaveReplays ==
    ASSUME ReplayInv, WriteTmp \/ ReplaceFile \/ Exit \/ ChangeEnvironment
    PROVE  ReplayInv'
<1>1. stage \notin StudyStages /\ stage' \notin StudyStages /\ run' = run /\ replayed' = replayed
  BY DEF WriteTmp, ReplaceFile, Exit, ChangeEnvironment, StudyStages, record
<1>2. stage' \notin {"recorded", "loaded"}
  BY DEF WriteTmp, ReplaceFile, Exit, ChangeEnvironment
<1>3. file' # None => Signed(file)'
  <2>1. CASE ReplaceFile
    BY <1>1, <2>1, SameRunFields DEF ReplaceFile, ReplayInv, Signed
  <2>2. CASE ~ReplaceFile
    BY <1>1, <2>2, SameRunFields DEF WriteTmp, Exit, ChangeEnvironment, ReplayInv, record, Signed
  <2> QED
    BY <2>1, <2>2
<1>4. stage' = "saving" => Signed(tmp)'
  BY <1>1, SameRunFields DEF WriteTmp, ReplaceFile, Exit, ChangeEnvironment, ReplayInv, Signed
<1>5. run'.config.model # ModelOf(None)
  BY <1>1 DEF ReplayInv
<1>6. ReplayIsTheSameRequest'
  BY <1>1, SameReplay DEF ReplayInv
<1> QED
  BY <1>1, <1>2, <1>3, <1>4, <1>5, <1>6 DEF ReplayInv

LEMMA EditFileReplays ==
    ASSUME ReplayInv, EditFile
    PROVE  ReplayInv'
<1>1. /\ stage = "away" /\ stage' = "edited" /\ run' = run /\ replayed' = replayed
      /\ file # None /\ file' \in Edits(file)
  BY DEF EditFile
<1>2. Signed(file)'
  <2>1. Signed(file)
    BY <1>1 DEF ReplayInv
  <2>2. "id" \in DOMAIN file' /\ file'.id = ManifestId(RunFields)
    BY <1>1, <2>1, EditsKeepTheId DEF Signed
  <2> QED
    BY <1>1, <2>2, SameRunFields DEF Signed
<1>3. run'.config.model # ModelOf(None)
  BY <1>1 DEF ReplayInv, StudyStages
<1>4. ReplayIsTheSameRequest'
  BY <1>1, SameReplay DEF ReplayInv
<1> QED
  BY <1>1, <1>2, <1>3, <1>4 DEF ReplayInv, StudyStages

\* The load lets a file pass whose id is its content's; its id is the run's.
LEMMA LoadReplays ==
    ASSUME ReplayInv, Load, NoneIsNoHash
    PROVE  ReplayInv'
<1>1. /\ stage \in {"away", "edited"} /\ stage' = "loaded" /\ manifest' = file
      /\ run' = run /\ replayed' = replayed /\ file' = file
      /\ file # None /\ ManifestId(HashedFields(file)) = file.id
  BY DEF Load, LoadRefuses
<1>2. Signed(file)
  BY <1>1 DEF ReplayInv
<1>3. HashedFields(file) = RunFields
  <2>1. Hash(HashedFields(file)) = Hash(RunFields)
    BY <1>1, <1>2 DEF Signed, ManifestId
  <2> QED
    BY <2>1, HashIsInjective
<1>4. Signed(manifest)' /\ Signed(file)' /\ HashedFields(manifest)' = RunFields'
  BY <1>1, <1>2, <1>3, SameRunFields DEF Signed, HashedFields
<1>5. run'.config.model # ModelOf(None)
  BY <1>1 DEF ReplayInv, StudyStages
<1>6. ReplayIsTheSameRequest'
  BY <1>1, SameReplay DEF ReplayInv
<1> QED
  BY <1>1, <1>4, <1>5, <1>6 DEF ReplayInv, StudyStages

LEMMA ReplayReplays ==
    ASSUME ReplayInv, Replay, NoneIsNoHash
    PROVE  ReplayInv'
<1>1. /\ stage \in {"recorded", "loaded"} /\ stage' = stage /\ run' = run
      /\ manifest' = manifest /\ tmp' = tmp /\ file' = file
  BY DEF Replay
<1>2. PICK inputs, verify :
        /\ verify \in BOOLEAN
        /\ verify => ~Diverges(manifest, inputs)
        /\ replayed' = [call |-> ReplayCall(manifest, inputs), verified |-> verify,
                        warned |-> IF verify THEN DriftOf(manifest, environment) ELSE {},
                        environment |-> environment]
  BY DEF Replay
<1>3. HashedFields(manifest) = RunFields /\ run.config.model # ModelOf(None)
  BY <1>1 DEF ReplayInv, StudyStages
<1>4. ReplayIsTheSameRequest'
  <2> DEFINE call == ReplayCall(manifest, inputs)
             drift == DriftOf(manifest, environment)
  <2>1. ASSUME verify
        PROVE  SameRequest(call, drift, environment)
    BY <1>2, <1>3, <2>1, VerifiedReplay
  <2> HIDE DEF call, drift
  <2>2. /\ replayed'.verified = verify /\ replayed'.call = call
        /\ replayed'.environment = environment /\ (verify => replayed'.warned = drift)
    BY <1>2 DEF drift, call
  <2>3. ASSUME verify
        PROVE  SameRequest(replayed'.call, replayed'.warned, replayed'.environment)
    BY <2>1, <2>2, <2>3
  <2> QED
    BY <1>1, <2>2, <2>3 DEF ReplayIsTheSameRequest, SameRequest
<1>5. (Signed(manifest) /\ HashedFields(manifest) = RunFields)'
  BY <1>1, SameRunFields DEF ReplayInv, Signed, HashedFields
<1>6. file' # None => Signed(file)'
  BY <1>1, SameRunFields DEF ReplayInv, Signed
<1>7. stage' \notin StudyStages /\ stage' # "saving"
  BY <1>1 DEF StudyStages
<1> QED
  BY <1>1, <1>3, <1>4, <1>5, <1>6, <1>7 DEF ReplayInv

\* A replay that was verified sends the recorded run's request, whatever was done
\* to the file and whatever its caller gives again, but for the system prompt a run
\* with cache= sent; and it warns of another version and of another endpoint.
\* load_manifest and _verify_replay_inputs let nothing else through.
THEOREM VerifiedReplaysAreTheRun ==
    ASSUME NoneIsNoHash
    PROVE  Spec => []ReplayIsTheSameRequest
<1>1. Init => ReplayInv
  BY ReplayInit
<1>2. ReplayInv /\ [Next]_vars => ReplayInv'
  <2> SUFFICES ASSUME ReplayInv, [Next]_vars
               PROVE  ReplayInv'
    OBVIOUS
  <2>1. CASE Induce \/ Label \/ Export \/ Review \/ Import \/ Retune
    BY <2>1, StudyReplays
  <2>2. CASE RecordRun
    BY <2>2, RecordRunReplays
  <2>3. CASE WriteTmp \/ ReplaceFile \/ Exit \/ ChangeEnvironment
    BY <2>3, SaveReplays
  <2>4. CASE EditFile
    BY <2>4, EditFileReplays
  <2>5. CASE Load
    BY <2>5, LoadReplays
  <2>6. CASE Replay
    BY <2>6, ReplayReplays
  <2>7. CASE UNCHANGED vars
    <3>1. /\ stage' = stage /\ run' = run /\ manifest' = manifest /\ tmp' = tmp
          /\ file' = file /\ replayed' = replayed
      BY <2>7 DEF vars, record
    <3> QED
      BY <3>1, SameRunFields, SameReplay DEF ReplayInv, Signed, HashedFields
  <2> QED
    BY <2>1, <2>2, <2>3, <2>4, <2>5, <2>6, <2>7 DEF Next
<1>3. ReplayInv => ReplayIsTheSameRequest
  BY DEF ReplayInv
<1> QED
  BY <1>1, <1>2, <1>3, PTL DEF Spec
-----------------------------------------------------------------------------
(***************************************************************************)
(* Corrections                                                             *)
(***************************************************************************)
InReview == {"labelled", "exported", "reviewed", "imported"}

\* The sheet is about the frame's rows and at most one other; an import is what
\* the last sheet said.
GoldInv ==
    /\ stage \in InReview => DOMAIN labels = FrameRows
    /\ stage \in {"exported", "reviewed", "imported"} => DOMAIN cells \subseteq 1 .. N + 1
    /\ stage = "exported" => DOMAIN cells \subseteq FrameRows
    /\ stage = "imported" => DOMAIN corrected = FrameRows
    /\ GoldIsWhatReviewersWrote

LEMMA ImportedIs ==
    ASSUME DOMAIN labels = FrameRows, DOMAIN cells \subseteq 1 .. N + 1
    PROVE  LET i == ImportCorrections(labels, corrected, cells)
           IN /\ DOMAIN i.corrected = FrameRows
              /\ \A r \in FrameRows :
                    i.corrected[r] = IF r \in DOMAIN cells THEN cells[r] ELSE NoValue
              /\ i.reviewed + i.unmatched = Cardinality(ReviewedIds(cells))
              /\ i.reviewed + i.unreviewed = N
<1> DEFINE i == ImportCorrections(labels, corrected, cells)
           col == [id \in DOMAIN labels |-> Joined(corrected, cells, id)]
           ids == ReviewedIds(cells)
           seen == {id \in DOMAIN labels : col[id] # NoValue}
<1>1. /\ i.corrected = col /\ i.reviewed = Cardinality(seen)
      /\ i.unmatched = Cardinality(ids \ DOMAIN labels)
      /\ i.unreviewed = Cardinality(DOMAIN labels) - Cardinality(seen)
  BY DEF ImportCorrections
<1>2. \A r \in FrameRows : col[r] = IF r \in DOMAIN cells THEN cells[r] ELSE NoValue
  BY DEF Joined, ReviewedIds
<1>3. seen = ids \cap FrameRows
  BY <1>2 DEF ReviewedIds
<1>4. IsFiniteSet(ids) /\ IsFiniteSet(FrameRows) /\ Cardinality(FrameRows) = N
  <2>1. IsFiniteSet(1 .. N + 1) /\ ids \subseteq 1 .. N + 1
    BY SessionAssumption, FS_Interval DEF ReviewedIds
  <2>2. IsFiniteSet(1 .. N) /\ Cardinality(1 .. N) = N
    BY SessionAssumption, FS_Interval
  <2> QED
    BY <2>1, <2>2, FS_Subset DEF FrameRows
<1> HIDE DEF ids, seen, col, i
<1>5. /\ Cardinality(ids \ FrameRows) = Cardinality(ids) - Cardinality(ids \cap FrameRows)
      /\ Cardinality(ids) \in Nat /\ IsFiniteSet(ids \cap FrameRows)
  BY <1>4, FS_Difference, FS_Subset, FS_CardinalityType
<1>6. Cardinality(ids \cap FrameRows) \in Nat
  BY <1>5, FS_CardinalityType
<1> QED
  BY <1>1, <1>2, <1>3, <1>4, <1>5, <1>6, SessionAssumption DEF i, col, ids

\* The trainset: the corrected rows in order, each with its correction.
LEMMA TrainsetIs ==
    ASSUME NEW column, DOMAIN column = FrameRows
    PROVE  LET t == Trainset(column)
           IN /\ DOMAIN t = 1 .. Len(t) /\ Len(t) \in Nat
              /\ \A k \in 1 .. Len(t) :
                    t[k].row \in FrameRows /\ t[k].gold = column[t[k].row] /\ t[k].gold # NoValue
              /\ \A j, k \in 1 .. Len(t) : j < k => t[j].row < t[k].row
              /\ t \in Seq({[row |-> r, gold |-> column[r]] : r \in FrameRows})
<1> DEFINE K == {r \in FrameRows : column[r] # NoValue}
           rows == InOrder(K, N)
           T == {[row |-> r, gold |-> column[r]] : r \in FrameRows}
           t == [k \in DOMAIN rows |-> [row |-> rows[k], gold |-> column[rows[k]]]]
<1>1. Trainset(column) = t
  <2>1. FlattenSeq([r \in DOMAIN column |-> IF column[r] # NoValue THEN <<r>> ELSE <<>>]) = rows
    BY DEF InOrder, FrameRows
  <2> HIDE DEF rows
  <2> QED
    BY <2>1 DEF Trainset
<1>2. rows \in Seq(FrameRows) /\ Places(rows, K, N)
  <2> HIDE DEF K
  <2> QED
    BY PlacesAre, SessionAssumption DEF FrameRows
<1> HIDE DEF rows
<1>3. DOMAIN rows = 1 .. Len(rows) /\ Len(rows) \in Nat
  BY <1>2
<1>4. \A k \in 1 .. Len(rows) : rows[k] \in K
  BY <1>2 DEF Places
<1>5. t \in [1 .. Len(rows) -> T]
  BY <1>3, <1>4
<1>6. t \in Seq(T) /\ Len(t) = Len(rows)
  <2> HIDE DEF T, t
  <2> QED
    BY <1>3, <1>5, LenIs
<1>7. \A k \in 1 .. Len(rows) : t[k].row = rows[k] /\ t[k].gold = column[rows[k]]
  BY <1>3
<1>8. \A j, k \in 1 .. Len(rows) : j < k => rows[j] < rows[k]
  BY <1>2 DEF Places
<1> HIDE DEF t
<1> QED
  BY <1>1, <1>3, <1>4, <1>5, <1>6, <1>7, <1>8

LEMMA CompiledIs ==
    ASSUME NEW T, NEW t \in Seq(T), t # <<>>, NEW predictions
    PROVE  LET d == Compile(t, predictions)
           IN /\ d # <<>> /\ DOMAIN d \subseteq 1 .. Len(t)
              /\ \A k \in DOMAIN d : d[k].row = t[k].row /\ d[k].answer = t[k].gold
<1> DEFINE budget == IF MaxDemos < 1 THEN 1 ELSE MaxDemos
           l == IF budget < Len(t) THEN budget ELSE Len(t)
           taken == SubSeq(t, 1, l)
<1>1. l \in 1 .. Len(t) /\ Len(t) \in Nat
  <2>1. Len(t) \in Nat /\ Len(t) # 0
    OBVIOUS
  <2> QED
    BY <2>1, ReviewSampleAssumption
<1> HIDE DEF l
<1>2. DOMAIN taken = 1 .. l /\ \A k \in 1 .. l : taken[k] = t[k]
  BY <1>1
<1>3. Compile(t, predictions) =
         [k \in DOMAIN taken |->
            [row |-> taken[k].row, answer |-> Shown(taken[k], predictions[taken[k].row])]]
  BY DEF Compile, l
<1> HIDE DEF taken
<1>4. DOMAIN Compile(t, predictions) = 1 .. l
  BY <1>2, <1>3
<1>5. Compile(t, predictions) # <<>>
  BY <1>1, <1>4
<1>6. ASSUME NEW k \in 1 .. l
      PROVE  LET d == Compile(t, predictions) IN d[k].row = t[k].row /\ d[k].answer = t[k].gold
  BY <1>2, <1>3 DEF Shown
<1> QED
  BY <1>1, <1>4, <1>5, <1>6
LEMMA GoldInit == Init => GoldInv
BY DEF Init, GoldInv, GoldIsWhatReviewersWrote, InReview

LEMMA LabelGold ==
    ASSUME GoldInv, Label
    PROVE  GoldInv'
<1>1. stage' = "labelled" /\ DOMAIN labels' = FrameRows
  BY DEF Label
<1> QED
  BY <1>1 DEF GoldInv, GoldIsWhatReviewersWrote, InReview

LEMMA ExportGold ==
    ASSUME GoldInv, Export
    PROVE  GoldInv'
<1>1. /\ stage \in InReview /\ stage' = "exported" /\ labels' = labels
      /\ \E sample \in SUBSET FrameRows : cells' = [id \in sample |-> NoValue]
  BY DEF Export, InReview
<1>2. DOMAIN cells' \subseteq FrameRows /\ DOMAIN labels' = FrameRows
  BY <1>1 DEF GoldInv
<1>3. FrameRows \subseteq 1 .. N + 1
  BY SessionAssumption DEF FrameRows
<1> QED
  BY <1>1, <1>2, <1>3 DEF GoldInv, GoldIsWhatReviewersWrote, InReview

LEMMA ReviewGold ==
    ASSUME GoldInv, Review
    PROVE  GoldInv'
<1>1. /\ stage = "exported" /\ stage' = "reviewed" /\ labels' = labels
      /\ DOMAIN cells' \subseteq DOMAIN cells \cup {N + 1}
  BY DEF Review
<1>2. DOMAIN labels' = FrameRows
  BY <1>1 DEF GoldInv, InReview
<1>3. DOMAIN cells' \subseteq 1 .. N + 1
  BY <1>1, SessionAssumption DEF GoldInv, FrameRows
<1> QED
  BY <1>1, <1>2, <1>3 DEF GoldInv, GoldIsWhatReviewersWrote

LEMMA ImportGold ==
    ASSUME GoldInv, Import
    PROVE  GoldInv'
<1> DEFINE i == ImportCorrections(labels, corrected, cells)
<1>1. /\ stage = "reviewed" /\ stage' = "imported" /\ labels' = labels /\ cells' = cells
      /\ result' = i /\ corrected' = i.corrected
  BY DEF Import
<1>2. DOMAIN labels = FrameRows /\ DOMAIN cells \subseteq 1 .. N + 1
  BY <1>1 DEF GoldInv, InReview
<1>3. /\ DOMAIN i.corrected = FrameRows
      /\ \A r \in FrameRows :
            i.corrected[r] = IF r \in DOMAIN cells THEN cells[r] ELSE NoValue
      /\ i.reviewed + i.unmatched = Cardinality(ReviewedIds(cells))
      /\ i.reviewed + i.unreviewed = N
  BY <1>2, ImportedIs
<1> HIDE DEF i
<1>4. ReviewedIds(cells)' = ReviewedIds(cells)
  BY <1>1 DEF ReviewedIds
<1> QED
  BY <1>1, <1>2, <1>3, <1>4 DEF GoldInv, GoldIsWhatReviewersWrote

LEMMA RetuneGold ==
    ASSUME GoldInv, Retune
    PROVE  GoldInv'
<1> DEFINE t == Trainset(corrected)
           T == {[row |-> r, gold |-> corrected[r]] : r \in FrameRows}
<1>1. /\ stage = "imported" /\ stage' = "tuned" /\ cells' = cells /\ t # <<>>
      /\ \E p : demos' = Compile(t, p)
  BY DEF Retune
<1>2. /\ DOMAIN corrected = FrameRows
      /\ \A r \in FrameRows : corrected[r] = IF r \in DOMAIN cells THEN cells[r] ELSE NoValue
  BY <1>1 DEF GoldInv, GoldIsWhatReviewersWrote
<1>3. /\ DOMAIN t = 1 .. Len(t) /\ Len(t) \in Nat
      /\ \A k \in 1 .. Len(t) :
            t[k].row \in FrameRows /\ t[k].gold = corrected[t[k].row] /\ t[k].gold # NoValue
      /\ \A j, k \in 1 .. Len(t) : j < k => t[j].row < t[k].row
      /\ t \in Seq(T)
  BY <1>2, TrainsetIs
<1> HIDE DEF t, T
<1>4. /\ demos' # <<>> /\ DOMAIN demos' \subseteq 1 .. Len(t)
      /\ \A k \in DOMAIN demos' : demos'[k].row = t[k].row /\ demos'[k].answer = t[k].gold
  BY <1>1, <1>3, CompiledIs
<1>5. \A k \in DOMAIN demos' :
         demos'[k].answer = cells[demos'[k].row] /\ demos'[k].answer # NoValue
  BY <1>2, <1>3, <1>4
<1>6. \A j, k \in DOMAIN demos' : j < k => demos'[j].row < demos'[k].row
  BY <1>3, <1>4
<1> QED
  BY <1>1, <1>4, <1>5, <1>6 DEF GoldInv, GoldIsWhatReviewersWrote, InReview

\* The corrections in a frame are those of the sheet imported last, counted once
\* each, and a retuned prompt shows what a reviewer wrote for the row: for any
\* number of rows and rounds, and whatever the frame already had.
THEOREM GoldIsTheReviewers == Spec => []GoldIsWhatReviewersWrote
<1>1. Init => GoldInv
  BY GoldInit
<1>2. GoldInv /\ [Next]_vars => GoldInv'
  <2> SUFFICES ASSUME GoldInv, [Next]_vars
               PROVE  GoldInv'
    OBVIOUS
  <2>1. CASE Label
    BY <2>1, LabelGold
  <2>2. CASE Export
    BY <2>2, ExportGold
  <2>3. CASE Review
    BY <2>3, ReviewGold
  <2>4. CASE Import
    BY <2>4, ImportGold
  <2>5. CASE Retune
    BY <2>5, RetuneGold
  <2>6. CASE Induce \/ RecordRun
    <3>1. stage' \notin InReview /\ stage' # "tuned"
      BY <2>6 DEF Induce, RecordRun, InReview
    <3> QED
      BY <3>1 DEF GoldInv, GoldIsWhatReviewersWrote, InReview
  <2>7. CASE WriteTmp \/ ReplaceFile \/ Exit \/ EditFile \/ ChangeEnvironment \/ Load \/ Replay
    <3>1. stage' \notin InReview /\ stage' # "tuned"
      BY <2>7 DEF WriteTmp, ReplaceFile, Exit, EditFile, ChangeEnvironment, Load, Replay, InReview
    <3> QED
      BY <3>1 DEF GoldInv, GoldIsWhatReviewersWrote, InReview
  <2>8. CASE UNCHANGED vars
    BY <2>8 DEF vars, study, GoldInv, GoldIsWhatReviewersWrote, ReviewedIds
  <2> QED
    BY <2>1, <2>2, <2>3, <2>4, <2>5, <2>6, <2>7, <2>8 DEF Next
<1>3. GoldInv => GoldIsWhatReviewersWrote
  BY DEF GoldInv
<1> QED
  BY <1>1, <1>2, <1>3, PTL DEF Spec
-----------------------------------------------------------------------------
(***************************************************************************)
(* Clusters and their rows                                                 *)
(***************************************************************************)
LEMMA WiderSeq ==
    ASSUME NEW S, NEW T, S \subseteq T, NEW s \in Seq(S)
    PROVE  s \in Seq(T)
<1>1. Len(s) \in Nat /\ s \in [1 .. Len(s) -> S]
  OBVIOUS
<1>2. s \in [1 .. Len(s) -> T]
  BY <1>1
<1> QED
  BY ONLY <1>1, <1>2, LenIs

LEMMA CountUpTo ==
    ASSUME NEW n \in Nat
    PROVE  IsFiniteSet(1 .. n) /\ Cardinality(1 .. n) = n
<1>1. 1 \in Int /\ n \in Int
  OBVIOUS
<1>2. IsFiniteSet(1 .. n) /\ Cardinality(1 .. n) = IF 1 > n THEN 0 ELSE n - 1 + 1
  BY ONLY <1>1, FS_Interval
<1> QED
  BY <1>2

\* As many places as members.
LEMMA PlacesCount ==
    ASSUME NEW m \in Nat, NEW K \in SUBSET (1 .. m), NEW p \in Seq(1 .. m), Places(p, K, m)
    PROVE  Len(p) = Cardinality(K) /\ Elements(p) = K
<1> DEFINE n == Len(p)
<1>1. n \in Nat /\ DOMAIN p = 1 .. n
  OBVIOUS
<1>2. \A i \in 1 .. n : p[i] \in K
  BY DEF Places
<1>3. p \in [1 .. n -> K]
  BY <1>1, <1>2
<1>4. p \in Bijection(1 .. n, K)
  <2>1. ASSUME NEW i \in 1 .. n, NEW k \in 1 .. n, p[i] = p[k]
        PROVE  i = k
    <3>1. p[i] \in Nat
      BY <1>2
    <3>2. ~(i < k) /\ ~(k < i)
      BY <2>1, <3>1 DEF Places
    <3> QED
      BY <3>2
  <2>2. \A r \in K : \E i \in 1 .. n : p[i] = r
    BY DEF Places
  <2> HIDE DEF n
  <2> QED
    BY <1>3, <2>1, <2>2 DEF Bijection, Injection, Surjection, IsInjective
<1>5. IsFiniteSet(1 .. n) /\ Cardinality(1 .. n) = n
  BY <1>1, CountUpTo
<1>6. Cardinality(K) = Cardinality(1 .. n)
  <2> HIDE DEF n
  <2> QED
    BY <1>4, <1>5, FS_Bijection DEF ExistsBijection
<1>7. Elements(p) = K
  <2>1. \A r \in K : \E i \in 1 .. n : p[i] = r
    BY DEF Places
  <2> QED
    BY <1>1, <1>2, <2>1 DEF Elements
<1> QED
  BY <1>5, <1>6, <1>7

\* The rows of some clusters.
RowsIn(c, A) == {r \in 1 .. Len(c) : c[r] \in A}

LEMMA RowsAdd ==
    ASSUME NEW c \in Seq(Nat), NEW A, NEW B, A \cap B = {}
    PROVE  /\ Cardinality(RowsIn(c, A)) \in Nat
           /\ RowsIn(c, A \cup B) = RowsIn(c, A) \cup RowsIn(c, B)
           /\ RowsIn(c, A) \cap RowsIn(c, B) = {}
           /\ Cardinality(RowsIn(c, A \cup B)) =
                Cardinality(RowsIn(c, A)) + Cardinality(RowsIn(c, B))
<1>1. IsFiniteSet(1 .. Len(c))
  BY FS_Interval
<1>2. RowsIn(c, A) \subseteq 1 .. Len(c) /\ RowsIn(c, B) \subseteq 1 .. Len(c)
  BY DEF RowsIn
<1>3. IsFiniteSet(RowsIn(c, A)) /\ IsFiniteSet(RowsIn(c, B))
  BY <1>1, <1>2, FS_Subset
<1>4. /\ RowsIn(c, A \cup B) = RowsIn(c, A) \cup RowsIn(c, B)
      /\ RowsIn(c, A) \cap RowsIn(c, B) = {}
  BY DEF RowsIn
<1>5. Cardinality({}) = 0
  BY FS_EmptySet
<1>6. Cardinality(RowsIn(c, A)) \in Nat /\ Cardinality(RowsIn(c, B)) \in Nat
  BY <1>3, FS_CardinalityType
<1>7. Cardinality(RowsIn(c, A) \cup RowsIn(c, B)) =
        Cardinality(RowsIn(c, A)) + Cardinality(RowsIn(c, B)) - Cardinality({})
  BY <1>3, <1>4, FS_Union
<1>8. Cardinality(RowsIn(c, A) \cup RowsIn(c, B)) =
        Cardinality(RowsIn(c, A)) + Cardinality(RowsIn(c, B))
  <2> DEFINE a == Cardinality(RowsIn(c, A))
             b == Cardinality(RowsIn(c, B))
  <2>1. a \in Nat /\ b \in Nat /\ Cardinality(RowsIn(c, A) \cup RowsIn(c, B)) = a + b - 0
    BY <1>5, <1>6, <1>7
  <2> HIDE DEF a, b
  <2>2. a + b - 0 = a + b
    BY <2>1
  <2> QED
    BY <2>1, <2>2 DEF a, b
<1> QED
  BY ONLY <1>4, <1>6, <1>8

\* Members lists the rows of a cluster.
LEMMA MembersAre ==
    ASSUME NEW c \in Seq(Nat), NEW k
    PROVE  /\ Members(c, k) \in Seq(1 .. Len(c)) /\ Places(Members(c, k), RowsIn(c, {k}), Len(c))
           /\ Len(Members(c, k)) = Cardinality(RowsIn(c, {k}))
           /\ Elements(Members(c, k)) = RowsIn(c, {k})
<1> DEFINE m == Len(c)
           K == RowsIn(c, {k})
<1>1. m \in Nat /\ DOMAIN c = 1 .. m /\ K \in SUBSET (1 .. m)
  BY DEF RowsIn
<1>2. Members(c, k) = InOrder(K, m)
  <2>1. \A r \in 1 .. m : c[r] = k <=> r \in K
    BY DEF RowsIn
  <2> HIDE DEF K, m
  <2>2. [r \in DOMAIN c |-> IF c[r] = k THEN <<r>> ELSE <<>>]
          = [r \in 1 .. m |-> IF r \in K THEN <<r>> ELSE <<>>]
    BY <1>1, <2>1
  <2> QED
    BY <2>2 DEF Members, InOrder
<1> HIDE DEF K, m
<1>3. InOrder(K, m) \in Seq(1 .. m) /\ Places(InOrder(K, m), K, m)
  BY <1>1, PlacesAre
<1>4. Len(InOrder(K, m)) = Cardinality(K) /\ Elements(InOrder(K, m)) = K
  BY <1>1, <1>3, PlacesCount
<1> QED
  BY <1>2, <1>3, <1>4 DEF K, m

\* The clusters in order.
Ids(c) == InOrder(ClustersOf(c), Max(ClustersOf(c) \cup {0}))

LEMMA ValuesAreBounded ==
    ASSUME NEW c \in Seq(Nat)
    PROVE  \E b \in Nat : \A r \in 1 .. Len(c) : c[r] <= b
<1> DEFINE S == {n \in Nat : n <= Len(c) => \E b \in Nat : \A r \in 1 .. n : c[r] <= b}
<1>1. 0 \in S
  <2>1. \A r \in 1 .. 0 : c[r] <= 0
    OBVIOUS
  <2> QED
    BY <2>1
<1>2. ASSUME NEW n \in Nat, n \in S
      PROVE  n + 1 \in S
  <2> SUFFICES ASSUME n + 1 <= Len(c)
               PROVE  \E b \in Nat : \A r \in 1 .. n + 1 : c[r] <= b
    OBVIOUS
  <2>1. PICK b \in Nat : \A r \in 1 .. n : c[r] <= b
    BY <1>2
  <2>2. c[n + 1] \in Nat /\ \A r \in 1 .. n : c[r] \in Nat
    OBVIOUS
  <2> DEFINE d == b + c[n + 1]
  <2>3. d \in Nat /\ b <= d /\ c[n + 1] <= d
    BY <2>2
  <2> HIDE DEF d
  <2>4. \A r \in 1 .. n + 1 : c[r] <= d
    <3> TAKE r \in 1 .. n + 1
    <3>1. CASE r = n + 1
      BY <2>3, <3>1
    <3>2. CASE r # n + 1
      <4>1. r \in 1 .. n
        BY <3>2
      <4> QED
        BY <2>1, <2>2, <2>3, <4>1
    <3> QED
      BY <3>1, <3>2
  <2> QED
    BY <2>3, <2>4
<1> HIDE DEF S
<1>3. Len(c) \in S
  BY <1>1, <1>2, AllNumbers
<1> QED
  BY <1>3 DEF S

LEMMA IdsAre ==
    ASSUME NEW c \in Seq(Nat)
    PROVE  /\ Ids(c) \in Seq(Nat) /\ Elements(Ids(c)) = ClustersOf(c)
           /\ \A i, k \in 1 .. Len(Ids(c)) : i # k => Ids(c)[i] # Ids(c)[k]
<1> DEFINE found == ClustersOf(c)
           S == found \cup {0}
           m == Max(S)
<1>1. found \subseteq Nat \ {0} /\ S \in SUBSET Nat /\ S # {}
  BY DEF ClustersOf
<1>2. m \in S /\ \A n \in S : n <= m
  <2>1. PICK b \in Nat : \A r \in 1 .. Len(c) : c[r] <= b
    BY ValuesAreBounded
  <2>2. \A n \in S : n <= b
    BY <2>1 DEF ClustersOf
  <2> HIDE DEF S
  <2>3. \E x \in S : \A n \in S : n <= x
    BY <1>1, <2>1, <2>2, GreatestOf
  <2>4. \E x \in S : \A n \in S : x >= n
    BY <1>1, <2>3
  <2>5. m \in S /\ \A n \in S : m >= n
    BY <2>4 DEF Max
  <2> QED
    BY <1>1, <2>5
<1>3. m \in Nat /\ found \in SUBSET (1 .. m)
  <2>1. m \in Nat
    BY <1>1, <1>2
  <2>2. \A n \in found : n \in Nat /\ n # 0 /\ n <= m
    BY <1>1, <1>2
  <2> HIDE DEF m, found
  <2> QED
    BY <2>1, <2>2
<1>4. Ids(c) = InOrder(found, m)
  BY DEF Ids
<1> HIDE DEF found, m
<1>5. InOrder(found, m) \in Seq(1 .. m) /\ Places(InOrder(found, m), found, m)
  BY <1>3, PlacesAre
<1>6. Elements(InOrder(found, m)) = found
  BY <1>3, <1>5, PlacesCount
<1>7. Ids(c) \in Seq(Nat)
  <2>1. 1 .. m \subseteq Nat
    OBVIOUS
  <2> QED
    BY <1>4, <1>5, <2>1, WiderSeq
<1>8. ASSUME NEW i \in 1 .. Len(Ids(c)), NEW k \in 1 .. Len(Ids(c)), i # k
      PROVE  Ids(c)[i] # Ids(c)[k]
  <2>1. Ids(c)[i] \in Nat /\ Ids(c)[k] \in Nat /\ (i < k \/ k < i)
    BY <1>7, <1>8
  <2>2. \A x, y \in 1 .. Len(Ids(c)) : x < y => Ids(c)[x] < Ids(c)[y]
    BY <1>4, <1>5 DEF Places
  <2> QED
    BY <2>1, <2>2
<1> QED
  BY <1>4, <1>6, <1>7, <1>8 DEF found
-----------------------------------------------------------------------------
(***************************************************************************)
(* The entries of a codebook                                               *)
(***************************************************************************)
LEMMA CutIs ==
    ASSUME NEW T, NEW s \in Seq(T), NEW b \in Nat
    PROVE  /\ Cut(s, b) \in Seq(T) /\ Len(Cut(s, b)) \in Nat
           /\ Len(Cut(s, b)) <= b /\ Len(Cut(s, b)) <= Len(s)
           /\ (Len(Cut(s, b)) = b \/ Len(Cut(s, b)) = Len(s))
           /\ \A i \in 1 .. Len(Cut(s, b)) : Cut(s, b)[i] = s[i]
           /\ Elements(Cut(s, b)) \subseteq Elements(s)
<1> DEFINE l == IF b < Len(s) THEN b ELSE Len(s)
           q == SubSeq(s, 1, l)
<1>1. Len(s) \in Nat /\ DOMAIN s = 1 .. Len(s)
  OBVIOUS
<1>2. l \in Nat /\ l <= b /\ l <= Len(s)
  BY <1>1
<1>2a. l = b \/ l = Len(s)
  OBVIOUS
<1> HIDE DEF l
<1>3. q \in Seq(T) /\ Len(q) = l /\ DOMAIN q = 1 .. l
  BY <1>1, <1>2
<1>4. \A i \in 1 .. l : q[i] = s[i]
  BY <1>1, <1>2
<1> HIDE DEF q
<1>5. Elements(q) \subseteq Elements(s)
  BY <1>1, <1>2, <1>3, <1>4 DEF Elements
<1> QED
  BY <1>2, <1>2a, <1>3, <1>4, <1>5 DEF l, q, Cut

Entries(C, X) == [code : C, clusters : Seq(Nat), size : Nat, exemplars : Seq(X)]

\* The texts that the naming call of a cluster is shown, and where they stand.
Few(c, k) == DOMAIN Members(c, k) \cap (1 .. NExemplars)
Named(c, t, k) == {t[Members(c, k)[i]] : i \in Few(c, k)}
NamedOf(c, t, A) == UNION {Named(c, t, k) : k \in A}

\* An entry is as large as its clusters; it shows what their naming calls were
\* shown, all of the first's, all of all unless it is full, and no text again
\* but where the first's stand.
EntryOk(c, t, e) ==
    /\ Len(e.clusters) > 0
    /\ e.size = Cardinality(RowsIn(c, Elements(e.clusters)))
    /\ Elements(e.exemplars) \subseteq NamedOf(c, t, Elements(e.clusters))
    /\ Named(c, t, e.clusters[1]) \subseteq Elements(e.exemplars)
    /\ Len(e.exemplars) <= 2 * NExemplars
    /\ Len(e.exemplars) < 2 * NExemplars =>
         NamedOf(c, t, Elements(e.clusters)) \subseteq Elements(e.exemplars)
    /\ \A j, k \in 1 .. Len(e.exemplars) :
         j < k /\ e.exemplars[j] = e.exemplars[k] => k \in Few(c, e.clusters[1])

\* An entry of one cluster shows all.
ShowsAll(c, t, e) == Elements(e.exemplars) = NamedOf(c, t, Elements(e.clusters))

LEMMA EntryOfIs ==
    ASSUME NEW c \in Seq(Nat), NEW X, NEW t \in Seq(X), Len(t) = Len(c),
           NEW k \in ClustersOf(c), NEW C, NEW code \in C
    PROVE  /\ EntryOf(c, t, k, code) \in Entries(C, X) /\ EntryOk(c, t, EntryOf(c, t, k, code))
           /\ EntryOf(c, t, k, code).clusters = <<k>>
           /\ Elements(EntryOf(c, t, k, code).exemplars) = Named(c, t, k)
<1> DEFINE rows == Members(c, k)
           K == RowsIn(c, {k})
           nearest == Cut(rows, NExemplars)
           l == Len(nearest)
           shown == [i \in DOMAIN nearest |-> t[nearest[i]]]
           e == EntryOf(c, t, k, code)
<1>0. rows \in Seq(1 .. Len(c)) /\ Len(rows) = Cardinality(K)
  BY MembersAre
<1>2. e = [code |-> code, clusters |-> <<k>>, size |-> Len(rows), exemplars |-> shown]
  BY DEF EntryOf
<1>3. Named(c, t, k) = {t[rows[i]] : i \in Few(c, k)} /\ Few(c, k) = DOMAIN rows \cap (1 .. NExemplars)
  BY DEF Named, Few
<1> HIDE DEF rows
<1>1. /\ rows \in Seq(1 .. Len(c)) /\ Len(rows) = Cardinality(K)
      /\ Len(rows) \in Nat /\ DOMAIN rows = 1 .. Len(rows)
  <2> HIDE DEF K
  <2> QED
    BY <1>0
<1>4. /\ nearest \in Seq(1 .. Len(c)) /\ l \in Nat /\ l <= NExemplars
      /\ l <= Len(rows) /\ (l = NExemplars \/ l = Len(rows))
      /\ \A i \in 1 .. l : nearest[i] = rows[i]
  <2>1. rows \in Seq(1 .. Len(c)) /\ NExemplars \in Nat
    BY <1>1, CodebookAssumption
  <2> QED
    BY ONLY <2>1, CutIs
<1>5. DOMAIN nearest = 1 .. l /\ \A i \in 1 .. l : nearest[i] \in 1 .. Len(c)
  BY <1>4
<1> HIDE DEF nearest, l
<1>6. shown \in [1 .. l -> X] /\ \A i \in 1 .. l : shown[i] = t[rows[i]]
  <2>1. \A i \in 1 .. Len(c) : t[i] \in X
    OBVIOUS
  <2> QED
    BY <1>4, <1>5, <2>1
<1> HIDE DEF shown
<1>7. shown \in Seq(X) /\ Len(shown) = l
  BY ONLY <1>4, <1>6, LenIs
<1>8. Few(c, k) = 1 .. l
  <2>1. NExemplars \in Nat
    BY CodebookAssumption
  <2> QED
    BY ONLY <1>1, <1>3, <1>4, <2>1
<1>9. Elements(shown) = Named(c, t, k)
  <2>1. DOMAIN shown = 1 .. l
    BY <1>6
  <2>2. Elements(shown) = {shown[i] : i \in 1 .. l}
    BY <2>1 DEF Elements
  <2>3. Named(c, t, k) = {t[rows[i]] : i \in 1 .. l}
    BY <1>3, <1>8
  <2> QED
    BY <1>6, <2>2, <2>3
<1>10. k \in Nat /\ <<k>> \in Seq(Nat) /\ Len(<<k>>) = 1 /\ <<k>>[1] = k
  <2>1. k \in Nat
    BY DEF ClustersOf
  <2> QED
    BY <2>1
<1>11. Elements(<<k>>) = {k}
  BY DEF Elements
<1>12. NamedOf(c, t, {k}) = Named(c, t, k)
  BY DEF NamedOf
<1> HIDE DEF e, K
<1>13. e.clusters = <<k>> /\ e.size = Cardinality(K) /\ e.exemplars = shown
  BY <1>1, <1>2
<1>14. EntryOk(c, t, e)
  <2>1. l <= 2 * NExemplars
    BY <1>4, CodebookAssumption
  <2>2. Len(e.clusters) > 0 /\ e.clusters[1] = k /\ Elements(e.clusters) = {k}
    BY <1>10, <1>11, <1>13
  <2>3. e.size = Cardinality(RowsIn(c, Elements(e.clusters)))
    BY <1>13, <2>2 DEF K
  <2>4. /\ Elements(e.exemplars) = Named(c, t, k) /\ Len(e.exemplars) = l
        /\ NamedOf(c, t, Elements(e.clusters)) = Named(c, t, k)
    BY <1>7, <1>9, <1>12, <1>13, <2>2
  <2>5. \A i, j \in 1 .. Len(e.exemplars) : j \in Few(c, e.clusters[1])
    BY <1>8, <2>2, <2>4
  <2> QED
    BY <2>1, <2>2, <2>3, <2>4, <2>5 DEF EntryOk
<1>15. e \in Entries(C, X)
  BY <1>1, <1>2, <1>7, <1>10 DEF Entries
<1> QED
  BY <1>9, <1>13, <1>14, <1>15 DEF e

LEMMA JoinedElements ==
    ASSUME NEW T, NEW s \in Seq(T), NEW t \in Seq(T)
    PROVE  Elements(s \o t) = Elements(s) \cup Elements(t)
<1>1. /\ s \o t \in Seq(T) /\ Len(s) \in Nat /\ Len(t) \in Nat
      /\ DOMAIN s = 1 .. Len(s) /\ DOMAIN t = 1 .. Len(t)
      /\ DOMAIN (s \o t) = 1 .. Len(s) + Len(t)
      /\ \A q \in 1 .. Len(s) : (s \o t)[q] = s[q]
      /\ \A k \in 1 .. Len(t) : (s \o t)[Len(s) + k] = t[k]
  BY Appended
<1> DEFINE u == s \o t
<1> HIDE DEF u
<1>2. ASSUME NEW i \in 1 .. Len(s) + Len(t)
      PROVE  u[i] \in Elements(s) \cup Elements(t)
  <2>1. CASE i <= Len(s)
    <3>1. i \in 1 .. Len(s)
      BY <1>1, <2>1
    <3> QED
      BY <1>1, <3>1 DEF Elements, u
  <2>2. CASE ~(i <= Len(s))
    <3>1. PICK k \in 1 .. Len(t) : i = Len(s) + k
      <4>1. i - Len(s) \in 1 .. Len(t) /\ i = Len(s) + (i - Len(s))
        BY <1>1, <2>2
      <4> QED
        BY <4>1
    <3> QED
      BY <1>1, <3>1 DEF Elements, u
  <2> QED
    BY <2>1, <2>2
<1>3. \A i \in DOMAIN s : i \in DOMAIN u /\ u[i] = s[i]
  BY <1>1 DEF u
<1>4. \A k \in DOMAIN t : Len(s) + k \in DOMAIN u /\ u[Len(s) + k] = t[k]
  BY <1>1 DEF u
<1>5. DOMAIN u = 1 .. Len(s) + Len(t)
  BY <1>1 DEF u
<1>6. Elements(u) \subseteq Elements(s) \cup Elements(t)
  BY <1>2, <1>5 DEF Elements
<1>7. Elements(s) \subseteq Elements(u) /\ Elements(t) \subseteq Elements(u)
  BY <1>3, <1>4 DEF Elements
<1> QED
  BY <1>6, <1>7 DEF u

\* Where an element is there for the first time.
LEMMA FirstPlace ==
    ASSUME NEW t, NEW k \in Nat, k >= 1
    PROVE  \E j \in 1 .. k : t[j] = t[k] /\ \A i \in 1 .. j - 1 : t[i] # t[k]
<1> DEFINE S == {j \in Nat : j >= 1 /\ t[j] = t[k]}
<1>1. PICK m \in S : \A n \in S : ~(<<n, m>> \in OpToRel(<, Nat))
  <2>1. S \subseteq Nat /\ k \in S
    OBVIOUS
  <2> HIDE DEF S
  <2> QED
    BY <2>1, WFMin, NatLessThanWellFounded
<1>2. \A n \in S : ~(n < m)
  BY <1>1 DEF OpToRel
<1>3. m \in 1 .. k
  BY <1>2
<1>4. \A i \in 1 .. m - 1 : t[i] # t[k]
  BY <1>2
<1> QED
  BY <1>3, <1>4

\* What is not there yet is appended: nothing is lost, and what is there again
\* was there before.
LEMMA CombinedIs ==
    ASSUME NEW X, NEW s \in Seq(X), NEW t \in Seq(X)
    PROVE  /\ Combined(s, t) \in Seq(X)
           /\ Elements(Combined(s, t)) = Elements(s) \cup Elements(t)
           /\ Len(Combined(s, t)) \in Nat /\ Len(s) \in Nat /\ Len(Combined(s, t)) >= Len(s)
           /\ \A q \in 1 .. Len(s) : Combined(s, t)[q] = s[q]
           /\ \A i, k \in 1 .. Len(Combined(s, t)) :
                 i < k /\ Combined(s, t)[i] = Combined(s, t)[k] => k <= Len(s)
<1> DEFINE New(k) == t[k] \notin Elements(s) /\ \A j \in 1 .. k - 1 : t[j] # t[k]
           K == {k \in 1 .. Len(t) : New(k)}
           m == Len(t)
           new == Kept(t, K, m)
           all == Combined(s, t)
<1>1. /\ Len(s) \in Nat /\ m \in Nat /\ t \in [1 .. m -> X]
      /\ DOMAIN s = 1 .. Len(s) /\ DOMAIN t = 1 .. m
  OBVIOUS
<1>2. all = s \o new
  <2>1. \A k \in 1 .. m : (t[k] \notin Range(s) /\ \A j \in 1 .. k - 1 : t[j] # t[k]) <=> k \in K
    BY DEF Range, Elements
  <2> HIDE DEF K, m
  <2>2. [k \in DOMAIN t |-> IF t[k] \notin Range(s) /\ \A j \in 1 .. k - 1 : t[j] # t[k]
                            THEN <<t[k]>> ELSE <<>>]
          = [k \in 1 .. m |-> IF k \in K THEN <<t[k]>> ELSE <<>>]
    BY <1>1, <2>1
  <2> QED
    BY <2>2 DEF Kept, Combined
<1> HIDE DEF all
<1>3. new \in Seq(X) /\ \E p : Keeps(new, p, t, K, m)
  <2> HIDE DEF K, m
  <2> QED
    BY ONLY <1>1, KeptIs, Zenon
<1>4. PICK p : Keeps(new, p, t, K, m)
  BY <1>3
<1> HIDE DEF new
<1>5. /\ Len(p) = Len(new) /\ Len(new) \in Nat /\ DOMAIN new = 1 .. Len(new)
      /\ \A i \in 1 .. Len(new) : p[i] \in K /\ new[i] = t[p[i]]
      /\ \A i, k \in 1 .. Len(new) : i < k => p[i] < p[k]
      /\ \A r \in 1 .. m : r \in K => \E i \in 1 .. Len(new) : p[i] = r
  <2> HIDE DEF K
  <2> QED
    BY <1>3, <1>4 DEF Keeps, Places
<1>6. ASSUME NEW i \in 1 .. Len(new), NEW k \in 1 .. Len(new), i < k
      PROVE  new[i] # new[k]
  <2>1. p[i] \in 1 .. Len(t) /\ p[k] \in 1 .. Len(t) /\ New(p[k])
    BY <1>5
  <2>2. p[i] < p[k]
    BY <1>5, <1>6
  <2>3. p[i] \in 1 .. p[k] - 1
    BY <2>1, <2>2
  <2>4. t[p[i]] # t[p[k]]
    BY <2>1, <2>3
  <2> QED
    BY <1>5, <2>4
<1>7. \A i \in 1 .. Len(new) : new[i] \in Elements(t) /\ new[i] \notin Elements(s)
  BY <1>1, <1>5 DEF Elements
<1>8. ASSUME NEW k \in 1 .. m
      PROVE  t[k] \in Elements(s) \cup Elements(new)
  <2> SUFFICES ASSUME t[k] \notin Elements(s)
               PROVE  t[k] \in Elements(new)
    OBVIOUS
  <2>1. PICK j \in 1 .. k : t[j] = t[k] /\ \A i \in 1 .. j - 1 : t[i] # t[k]
    <3>1. k \in Nat /\ k >= 1
      BY <1>1
    <3> QED
      BY ONLY <3>1, FirstPlace
  <2>2. j \in 1 .. m
    BY <1>1
  <2>3. j \in K
    BY <2>1, <2>2
  <2>4. PICK i \in 1 .. Len(new) : p[i] = j
    BY <1>5, <2>2, <2>3
  <2>5. new[i] = t[k]
    BY <1>5, <2>1, <2>4
  <2> QED
    BY <1>5, <2>5 DEF Elements
<1> HIDE DEF New, K
<1>9. /\ all \in Seq(X) /\ Len(all) = Len(s) + Len(new)
      /\ \A q \in 1 .. Len(s) : all[q] = s[q]
      /\ \A k \in 1 .. Len(new) : all[Len(s) + k] = new[k]
  <2>1. /\ s \o new \in Seq(X) /\ Len(s \o new) = Len(s) + Len(new)
        /\ \A q \in 1 .. Len(s) : (s \o new)[q] = s[q]
        /\ \A k \in 1 .. Len(new) : (s \o new)[Len(s) + k] = new[k]
    BY ONLY s \in Seq(X), <1>3, Appended
  <2> QED
    BY ONLY <1>2, <2>1, Zenon
<1>10. Elements(all) = Elements(s) \cup Elements(new)
  <2>1. Elements(s \o new) = Elements(s) \cup Elements(new)
    BY ONLY s \in Seq(X), <1>3, JoinedElements
  <2> QED
    BY ONLY <1>2, <2>1, Zenon
<1>11. Elements(new) \subseteq Elements(t) /\ Elements(t) \subseteq Elements(s) \cup Elements(new)
  <2>1. Elements(new) \subseteq Elements(t)
    BY <1>5, <1>7 DEF Elements
  <2>2. Elements(t) = {t[k] : k \in 1 .. m}
    BY <1>1 DEF Elements
  <2> QED
    BY <1>8, <2>1, <2>2
<1>12. ASSUME NEW i \in 1 .. Len(all), NEW k \in 1 .. Len(all), i < k, all[i] = all[k]
       PROVE  k <= Len(s)
  <2> SUFFICES ASSUME ~(k <= Len(s))
               PROVE  FALSE
    OBVIOUS
  <2>1. PICK d \in 1 .. Len(new) : k = Len(s) + d
    <3>1. k - Len(s) \in 1 .. Len(new) /\ k = Len(s) + (k - Len(s))
      BY <1>1, <1>5, <1>9
    <3> QED
      BY <3>1
  <2>2. CASE i <= Len(s)
    <3>1. i \in 1 .. Len(s)
      BY <1>1, <2>2
    <3>2. all[i] \in Elements(s)
      BY <1>1, <1>9, <3>1 DEF Elements
    <3> QED
      BY <1>7, <1>9, <1>12, <2>1, <3>2
  <2>3. CASE ~(i <= Len(s))
    <3>1. PICK j \in 1 .. Len(new) : i = Len(s) + j
      <4>1. i - Len(s) \in 1 .. Len(new) /\ i = Len(s) + (i - Len(s))
        BY <1>1, <1>5, <1>9, <2>3
      <4> QED
        BY <4>1
    <3>2. j < d
      BY <1>1, <1>12, <2>1, <3>1
    <3>3. new[j] # new[d] /\ all[i] = new[j] /\ all[k] = new[d]
      BY ONLY <1>6, <1>9, <2>1, <3>1, <3>2
    <3> QED
      BY <1>12, <3>3
  <2> QED
    BY <2>2, <2>3
<1>13. Len(all) \in Nat /\ Len(all) >= Len(s)
  BY ONLY <1>1, <1>5, <1>9
<1> QED
  BY <1>1, <1>9, <1>10, <1>11, <1>12, <1>13 DEF all

\* An entry of other clusters merged into one: it shows all that their naming
\* calls were shown.
LEMMA MergedIs ==
    ASSUME NEW c \in Seq(Nat), NEW X, NEW t, NEW C,
           NEW x \in Entries(C, X), NEW e \in Entries(C, X),
           EntryOk(c, t, x), EntryOk(c, t, e), ShowsAll(c, t, e),
           Elements(x.clusters) \cap Elements(e.clusters) = {}
    PROVE  /\ Merged(x, e) \in Entries(C, X) /\ EntryOk(c, t, Merged(x, e))
           /\ Merged(x, e).code = x.code
           /\ Elements(Merged(x, e).clusters) = Elements(x.clusters) \cup Elements(e.clusters)
<1> DEFINE s == x.exemplars
           r == e.exemplars
           all == Combined(s, r)
           A == Elements(x.clusters)
           B == Elements(e.clusters)
           shown == Cut(all, 2 * NExemplars)
           y == Merged(x, e)
           first == x.clusters[1]
<1>1. /\ s \in Seq(X) /\ r \in Seq(X) /\ x.clusters \in Seq(Nat) /\ e.clusters \in Seq(Nat)
      /\ x.size \in Nat /\ e.size \in Nat /\ x.code \in C
  BY DEF Entries
<1>2. y = [code |-> x.code, clusters |-> x.clusters \o e.clusters, size |-> x.size + e.size,
           exemplars |-> shown]
  <2>1. y = [x EXCEPT !.clusters = x.clusters \o e.clusters, !.size = x.size + e.size,
                      !.exemplars = shown]
    BY DEF Merged
  <2> HIDE DEF shown, y, s, r, all, A, B
  <2> QED
    BY <2>1 DEF Entries
<1>3. /\ Len(x.clusters) > 0
      /\ x.size = Cardinality(RowsIn(c, A)) /\ e.size = Cardinality(RowsIn(c, B))
      /\ Elements(s) \subseteq NamedOf(c, t, A) /\ Elements(r) = NamedOf(c, t, B)
      /\ Named(c, t, first) \subseteq Elements(s)
      /\ Len(s) <= 2 * NExemplars
      /\ Len(s) < 2 * NExemplars => NamedOf(c, t, A) \subseteq Elements(s)
      /\ \A j, k \in 1 .. Len(s) : j < k /\ s[j] = s[k] => k \in Few(c, first)
  BY DEF EntryOk, ShowsAll
<1> HIDE DEF s, r
<1>4. /\ all \in Seq(X) /\ Elements(all) = Elements(s) \cup Elements(r)
      /\ Len(all) \in Nat /\ Len(s) \in Nat /\ Len(all) >= Len(s)
      /\ \A q \in 1 .. Len(s) : all[q] = s[q]
      /\ \A j, k \in 1 .. Len(all) : j < k /\ all[j] = all[k] => k <= Len(s)
  BY ONLY <1>1, CombinedIs
<1> HIDE DEF all
<1>5. 2 * NExemplars \in Nat
  BY CodebookAssumption
<1>6. /\ shown \in Seq(X) /\ Len(shown) \in Nat
      /\ Len(shown) <= 2 * NExemplars /\ Len(shown) <= Len(all)
      /\ (Len(shown) = 2 * NExemplars \/ Len(shown) = Len(all))
      /\ \A i \in 1 .. Len(shown) : shown[i] = all[i]
      /\ Elements(shown) \subseteq Elements(all)
  BY ONLY <1>4, <1>5, CutIs
<1>7. DOMAIN shown = 1 .. Len(shown) /\ DOMAIN all = 1 .. Len(all) /\ DOMAIN s = 1 .. Len(s)
  BY <1>1, <1>4, <1>6
<1> HIDE DEF shown
<1>8. Len(s) <= Len(shown)
  BY ONLY <1>3, <1>4, <1>5, <1>6
<1>9. Cardinality(RowsIn(c, A \cup B)) = x.size + e.size
  <2>1. A \cap B = {}
    OBVIOUS
  <2> HIDE DEF A, B
  <2> QED
    BY <1>3, <2>1, RowsAdd
<1>10. NamedOf(c, t, A \cup B) = NamedOf(c, t, A) \cup NamedOf(c, t, B)
  <2> HIDE DEF A, B
  <2> QED
    BY DEF NamedOf
<1>11. Elements(x.clusters \o e.clusters) = A \cup B
  BY <1>1, JoinedElements
<1>12. /\ x.clusters \o e.clusters \in Seq(Nat)
       /\ Len(x.clusters \o e.clusters) > 0 /\ (x.clusters \o e.clusters)[1] = first
  <2> DEFINE p == x.clusters
             q == e.clusters
  <2>1. p \in Seq(Nat) /\ q \in Seq(Nat) /\ Len(p) > 0
    BY <1>1, <1>3
  <2> HIDE DEF p, q
  <2>2. /\ p \o q \in Seq(Nat) /\ Len(p) \in Nat /\ Len(q) \in Nat
        /\ Len(p \o q) = Len(p) + Len(q)
        /\ \A i \in 1 .. Len(p) : (p \o q)[i] = p[i]
    BY ONLY <2>1, Appended
  <2>3. Len(p \o q) > 0 /\ (p \o q)[1] = p[1]
    BY ONLY <2>1, <2>2
  <2> QED
    BY <2>2, <2>3 DEF p, q
<1> HIDE DEF y, A, B, first
<1>13. y \in Entries(C, X)
  <2> DEFINE q == x.clusters \o e.clusters
             n == x.size + e.size
  <2>1. x.code \in C /\ q \in Seq(Nat) /\ n \in Nat /\ shown \in Seq(X)
    BY <1>1, <1>6, <1>12
  <2>2. y = [code |-> x.code, clusters |-> q, size |-> n, exemplars |-> shown]
    BY <1>2
  <2> HIDE DEF q, n
  <2> QED
    BY ONLY <2>1, <2>2 DEF Entries
<1>14. /\ y.code = x.code /\ y.clusters = x.clusters \o e.clusters /\ y.size = x.size + e.size
       /\ y.exemplars = shown
  BY <1>2
<1>15. Elements(y.clusters) = A \cup B /\ Len(y.clusters) > 0 /\ y.clusters[1] = first
  BY <1>11, <1>12, <1>14
<1>16. Elements(s) \subseteq Elements(shown)
  <2>1. \A q \in 1 .. Len(s) : q \in 1 .. Len(shown) /\ shown[q] = s[q]
    BY <1>4, <1>6, <1>8
  <2> QED
    BY <1>7, <2>1 DEF Elements
<1>17. Len(shown) < 2 * NExemplars => NamedOf(c, t, A \cup B) \subseteq Elements(shown)
  <2> SUFFICES ASSUME Len(shown) < 2 * NExemplars
               PROVE  NamedOf(c, t, A \cup B) \subseteq Elements(shown)
    OBVIOUS
  <2>1. Len(shown) = Len(all) /\ Len(s) < 2 * NExemplars
    BY ONLY <1>4, <1>5, <1>6, <1>8, Len(shown) < 2 * NExemplars
  <2>2. Elements(all) \subseteq Elements(shown)
    BY <1>6, <1>7, <2>1 DEF Elements
  <2> QED
    BY <1>3, <1>4, <1>10, <2>1, <2>2
<1>18. ASSUME NEW j \in 1 .. Len(shown), NEW k \in 1 .. Len(shown), j < k, shown[j] = shown[k]
       PROVE  k \in Few(c, first)
  <2>1. j \in 1 .. Len(all) /\ k \in 1 .. Len(all)
    BY <1>4, <1>6
  <2>2. all[j] = all[k]
    BY <1>6, <1>18
  <2>3. k <= Len(s)
    BY <1>4, <1>18, <2>1, <2>2
  <2>4. j \in 1 .. Len(s) /\ k \in 1 .. Len(s)
    BY <1>4, <1>18, <2>1, <2>3
  <2>5. s[j] = s[k]
    BY <1>4, <2>2, <2>4
  <2> QED
    BY <1>3, <1>18, <2>4, <2>5
<1>19. EntryOk(c, t, y)
  <2>1. Elements(shown) \subseteq NamedOf(c, t, A \cup B)
    BY <1>3, <1>4, <1>6, <1>10
  <2>2. Named(c, t, first) \subseteq Elements(shown)
    BY <1>3, <1>16
  <2> QED
    BY <1>6, <1>9, <1>14, <1>15, <1>17, <1>18, <2>1, <2>2 DEF EntryOk
<1> QED
  BY <1>13, <1>14, <1>15, <1>19 DEF y, A, B

\* A codebook of the clusters A.
BookOk(c, t, b, A) ==
    /\ \A i \in 1 .. Len(b) : EntryOk(c, t, b[i]) /\ Elements(b[i].clusters) \subseteq A
    /\ \A k \in A : \E i \in 1 .. Len(b) : k \in Elements(b[i].clusters)
    /\ \A i, j \in 1 .. Len(b) : i # j =>
          /\ Normalize(b[i].code) # Normalize(b[j].code)
          /\ Elements(b[i].clusters) \cap Elements(b[j].clusters) = {}

LEMMA MergeKeeps ==
    ASSUME NEW c \in Seq(Nat), NEW X, NEW t, NEW C, NEW b \in Seq(Entries(C, X)), NEW A, BookOk(c, t, b, A),
           NEW e \in Entries(C, X), EntryOk(c, t, e), NEW k, Elements(e.clusters) = {k}, k \notin A,
           ShowsAll(c, t, e)
    PROVE  /\ MergeEntry(b, e) \in Seq(Entries(C, X)) /\ MergeEntry(b, e) # <<>>
           /\ BookOk(c, t, MergeEntry(b, e), A \cup {k})
<1> DEFINE same == {i \in DOMAIN b : KeyOfCode(b[i].code) = KeyOfCode(e.code)}
           T == Entries(C, X)
           n == Len(b)
           d == MergeEntry(b, e)
<1>1. n \in Nat /\ DOMAIN b = 1 .. n /\ \A i \in 1 .. n : b[i] \in T
  OBVIOUS
<1>2. \A i \in 1 .. n : k \notin Elements(b[i].clusters)
  BY DEF BookOk
<1>3. CASE same = {}
  <2>1. d = Append(b, e)
    BY <1>3 DEF MergeEntry
  <2>2. \A i \in 1 .. n : Normalize(b[i].code) # Normalize(e.code)
    BY <1>1, <1>3 DEF KeyOfCode
  <2> HIDE DEF T, d, same
  <2>3. /\ d \in Seq(T) /\ Len(d) = n + 1 /\ d[n + 1] = e
        /\ \A i \in 1 .. n : d[i] = b[i]
    <3>1. e \in T /\ b \in Seq(T)
      BY DEF T
    <3> QED
      BY ONLY <2>1, <3>1, <1>1
  <2>4. ASSUME NEW i \in 1 .. n + 1
        PROVE  (i \in 1 .. n /\ d[i] = b[i]) \/ (i = n + 1 /\ d[i] = e)
    BY <1>1, <2>3
  <2> HIDE DEF n
  <2>5. \A i \in 1 .. Len(d) : EntryOk(c, t, d[i]) /\ Elements(d[i].clusters) \subseteq A \cup {k}
    BY <2>3, <2>4 DEF BookOk, n
  <2>6. \A l \in A \cup {k} : \E i \in 1 .. Len(d) : l \in Elements(d[i].clusters)
    <3> TAKE l \in A \cup {k}
    <3>1. CASE l = k
      <4>1. n + 1 \in 1 .. Len(d)
        BY <1>1, <2>3
      <4> QED
        BY <2>3, <3>1, <4>1
    <3>2. CASE l \in A
      <4>1. PICK i \in 1 .. n : l \in Elements(b[i].clusters)
        BY <3>2 DEF BookOk, n
      <4>2. i \in 1 .. Len(d)
        BY <1>1, <2>3
      <4> QED
        BY <2>3, <4>1, <4>2
    <3> QED
      BY <3>1, <3>2
  <2>7. \A i, j \in 1 .. Len(d) : i # j =>
          /\ Normalize(d[i].code) # Normalize(d[j].code)
          /\ Elements(d[i].clusters) \cap Elements(d[j].clusters) = {}
    <3> SUFFICES ASSUME NEW i \in 1 .. n + 1, NEW j \in 1 .. n + 1, i # j
                 PROVE  /\ Normalize(d[i].code) # Normalize(d[j].code)
                        /\ Elements(d[i].clusters) \cap Elements(d[j].clusters) = {}
      BY <2>3
    <3>1. CASE i \in 1 .. n /\ j \in 1 .. n
      BY <2>3, <3>1 DEF BookOk, n
    <3>2. CASE i \in 1 .. n /\ j = n + 1
      BY <1>2, <2>2, <2>3, <3>2
    <3>3. CASE i = n + 1 /\ j \in 1 .. n
      BY <1>2, <2>2, <2>3, <3>3
    <3> QED
      BY <2>4, <3>1, <3>2, <3>3
  <2>8. d # <<>>
    BY <1>1, <2>3
  <2>9. BookOk(c, t, d, A \cup {k})
    BY <2>5, <2>6, <2>7 DEF BookOk
  <2> QED
    BY <2>3, <2>8, <2>9 DEF d, T
<1>4. CASE same # {}
  <2> DEFINE i == CHOOSE i \in same : TRUE
             y == Merged(b[i], e)
  <2>1. i \in same
    BY <1>4
  <2>2. d = [b EXCEPT ![i] = y]
    BY <1>4 DEF MergeEntry
  <2>3. i \in 1 .. n
    BY <1>1, <2>1
  <2> HIDE DEF i, same, d
  <2>4. /\ b[i] \in T /\ EntryOk(c, t, b[i]) /\ k \notin Elements(b[i].clusters)
    BY <1>1, <1>2, <2>3 DEF BookOk
  <2>5. /\ y \in T /\ EntryOk(c, t, y) /\ y.code = b[i].code
        /\ Elements(y.clusters) = Elements(b[i].clusters) \cup {k}
    <3>1. Elements(b[i].clusters) \cap Elements(e.clusters) = {}
      BY <2>4
    <3> DEFINE x == b[i]
    <3>2. x \in Entries(C, X) /\ EntryOk(c, t, x) /\ Elements(x.clusters) \cap Elements(e.clusters) = {}
      BY <2>4, <3>1
    <3> HIDE DEF x
    <3> HIDE DEF T, n
    <3>3. /\ Merged(x, e) \in Entries(C, X) /\ EntryOk(c, t, Merged(x, e))
          /\ Merged(x, e).code = x.code
          /\ Elements(Merged(x, e).clusters) = Elements(x.clusters) \cup Elements(e.clusters)
      BY ONLY <3>2, MergedIs, EntryOk(c, t, e), ShowsAll(c, t, e), c \in Seq(Nat),
              e \in Entries(C, X), SMTT(60)
    <3> QED
      BY <3>3 DEF x, T
  <2> HIDE DEF y, T
  <2>6. /\ d \in Seq(T) /\ Len(d) = n /\ d[i] = y
        /\ \A j \in 1 .. n : j # i => d[j] = b[j]
    <3>1. b \in Seq(T) /\ y \in T
      BY <2>5 DEF T
    <3> QED
      BY ONLY <1>1, <2>2, <2>3, <3>1
  <2> HIDE DEF n
  <2>7. \A j \in 1 .. Len(d) : EntryOk(c, t, d[j]) /\ Elements(d[j].clusters) \subseteq A \cup {k}
    <3> TAKE j \in 1 .. Len(d)
    <3>1. CASE j = i
      BY <2>3, <2>5, <2>6, <3>1 DEF BookOk, n
    <3>2. CASE j # i
      BY <2>6, <3>2 DEF BookOk, n
    <3> QED
      BY <3>1, <3>2
  <2>8. \A l \in A \cup {k} : \E j \in 1 .. Len(d) : l \in Elements(d[j].clusters)
    <3> TAKE l \in A \cup {k}
    <3>1. CASE l = k
      BY <2>3, <2>5, <2>6, <3>1
    <3>2. CASE l \in A
      <4>1. PICK j \in 1 .. n : l \in Elements(b[j].clusters)
        BY <3>2 DEF BookOk, n
      <4>2. l \in Elements(d[j].clusters)
        BY <2>5, <2>6, <4>1
      <4> QED
        BY <2>6, <4>2
    <3> QED
      BY <3>1, <3>2
  <2>9. \A j, h \in 1 .. Len(d) : j # h =>
          /\ Normalize(d[j].code) # Normalize(d[h].code)
          /\ Elements(d[j].clusters) \cap Elements(d[h].clusters) = {}
    <3> SUFFICES ASSUME NEW j \in 1 .. n, NEW h \in 1 .. n, j # h
                 PROVE  /\ Normalize(d[j].code) # Normalize(d[h].code)
                        /\ Elements(d[j].clusters) \cap Elements(d[h].clusters) = {}
      BY <2>6
    <3>1. /\ Normalize(b[j].code) # Normalize(b[h].code)
          /\ Elements(b[j].clusters) \cap Elements(b[h].clusters) = {}
      BY DEF BookOk, n
    <3>2. CASE j = i
      <4>1. d[h] = b[h] /\ d[j] = y
        BY <2>6, <3>2
      <4>2. k \notin Elements(b[h].clusters)
        BY <1>2
      <4> QED
        BY <2>5, <3>1, <3>2, <4>1, <4>2
    <3>3. CASE h = i
      <4>1. d[j] = b[j] /\ d[h] = y
        BY <2>6, <3>3
      <4>2. k \notin Elements(b[j].clusters)
        BY <1>2
      <4> QED
        BY <2>5, <3>1, <3>3, <4>1, <4>2
    <3>4. CASE j # i /\ h # i
      BY <2>6, <3>1, <3>4
    <3> QED
      BY <3>2, <3>3, <3>4
  <2>10. d # <<>>
    BY <1>1, <2>3, <2>6
  <2>11. BookOk(c, t, d, A \cup {k})
    BY <2>7, <2>8, <2>9 DEF BookOk
  <2> QED
    BY <2>6, <2>10, <2>11 DEF d, T
<1> QED
  BY <1>3, <1>4

\* The loop over the entries.
Merging(f, given, m) ==
    f = [n \in 0 .. m |-> IF n = 0 THEN <<>> ELSE MergeEntry(f[n - 1], given[n])]

LEMMA MergingExists ==
    ASSUME NEW given, NEW m \in Nat
    PROVE  \E f : Merging(f, given, m)
<1> DEFINE S == {n \in Nat : \E f : Merging(f, given, n)}
<1>1. 0 \in S
  <2> DEFINE g == [l \in 0 .. 0 |-> <<>>]
  <2>1. g = [l \in 0 .. 0 |-> IF l = 0 THEN <<>> ELSE MergeEntry(g[l - 1], given[l])]
    OBVIOUS
  <2> HIDE DEF g
  <2> QED
    BY <2>1 DEF Merging
<1>2. ASSUME NEW n \in Nat, n \in S
      PROVE  n + 1 \in S
  <2>1. PICK f : Merging(f, given, n)
    BY <1>2
  <2> DEFINE top == MergeEntry(f[n], given[n + 1])
             g == [l \in 0 .. n + 1 |-> IF l = n + 1 THEN top ELSE f[l]]
             h == [l \in 0 .. n + 1 |-> IF l = 0 THEN <<>> ELSE MergeEntry(g[l - 1], given[l])]
  <2>2. ASSUME NEW l \in 0 .. n + 1
        PROVE  g[l] = h[l]
    <3>1. CASE l = n + 1
      <4>1. n \in 0 .. n + 1 /\ n # n + 1 /\ (n + 1) - 1 = n /\ n + 1 # 0
        OBVIOUS
      <4>2. g[n] = f[n] /\ g[l] = top
        BY <3>1, <4>1
      <4>3. h[l] = MergeEntry(g[n], given[n + 1])
        <5> HIDE DEF g
        <5> QED
          BY <3>1, <4>1
      <4> QED
        BY <4>2, <4>3
    <3>2. CASE l # n + 1 /\ l # 0
      <4>1. l \in 0 .. n /\ l - 1 \in 0 .. n + 1 /\ l - 1 # n + 1
        BY <3>2
      <4>2. f[l] = MergeEntry(f[l - 1], given[l])
        BY <2>1, <3>2, <4>1 DEF Merging
      <4>3. g[l] = f[l] /\ g[l - 1] = f[l - 1]
        BY <3>2, <4>1
      <4>4. h[l] = MergeEntry(g[l - 1], given[l])
        <5> HIDE DEF g
        <5> QED
          BY <3>2
      <4> QED
        BY <4>2, <4>3, <4>4
    <3>3. CASE l = 0
      <4>1. f[0] = <<>>
        BY <2>1 DEF Merging
      <4> QED
        BY <3>3, <4>1
    <3> QED
      BY <3>1, <3>2, <3>3
  <2>3. g = h
    BY <2>2
  <2>4. Merging(g, given, n + 1)
    <3> HIDE DEF g
    <3> QED
      BY <2>3 DEF Merging
  <2> HIDE DEF g, h
  <2> QED
    BY <2>4
<1> HIDE DEF S
<1>3. m \in S
  BY <1>1, <1>2, AllNumbers
<1> QED
  BY <1>3 DEF S

\* What holds of the empty book, and of a book with an entry merged into it
\* whenever it held of the book, holds of the whole.
LEMMA DedupeIs ==
    ASSUME NEW given, Len(given) \in Nat, NEW Right, <<<<>>, 0>> \in Right,
           \A n \in 1 .. Len(given) : \A b :
              <<b, n - 1>> \in Right => <<MergeEntry(b, given[n]), n>> \in Right
    PROVE  <<DedupeCodebookEntries(given), Len(given)>> \in Right
<1> DEFINE m == Len(given)
           f == CHOOSE g : Merging(g, given, m)
           S == {n \in Nat : n <= m => <<f[n], n>> \in Right}
<1>1. Merging(f, given, m)
  BY MergingExists
<1>2. DedupeCodebookEntries(given) = f[m]
  BY DEF DedupeCodebookEntries, Merging
<1> HIDE DEF f
<1>3. 0 \in S
  <2>1. f[0] = <<>>
    BY <1>1 DEF Merging
  <2> QED
    BY <2>1
<1>4. ASSUME NEW n \in Nat, n \in S
      PROVE  n + 1 \in S
  <2> SUFFICES ASSUME n + 1 <= m
               PROVE  <<f[n + 1], n + 1>> \in Right
    OBVIOUS
  <2>1. n + 1 \in 1 .. m /\ n + 1 \in 0 .. m /\ n + 1 # 0 /\ (n + 1) - 1 = n /\ n <= m
    OBVIOUS
  <2>2. f[n + 1] = MergeEntry(f[n], given[n + 1])
    BY <1>1, <2>1 DEF Merging
  <2>3. <<f[n], n>> \in Right
    BY <1>4, <2>1
  <2>4. <<f[n], (n + 1) - 1>> \in Right
    BY <2>1, <2>3
  <2>5. <<MergeEntry(f[n], given[n + 1]), n + 1>> \in Right
    BY <2>1, <2>4
  <2> QED
    BY <2>2, <2>5
<1> HIDE DEF S
<1>5. m \in S
  BY <1>3, <1>4, AllNumbers
<1> QED
  BY <1>2, <1>5 DEF S

\* The codebook of a clustering.
LEMMA InducedIs ==
    ASSUME NEW c \in Seq(Nat), NEW X, NEW t \in Seq(X), Len(t) = Len(c),
           ClustersOf(c) # {}, NEW naming
    PROVE  LET b == DedupeCodebookEntries(InduceEntries(c, t, naming))
               C == {naming[k] : k \in ClustersOf(c)}
           IN b \in Seq(Entries(C, X)) /\ b # <<>> /\ BookOk(c, t, b, ClustersOf(c))
<1> DEFINE ids == Ids(c)
           m == Len(ids)
           C == {naming[k] : k \in ClustersOf(c)}
           es == InduceEntries(c, t, naming)
           Upto(n) == {ids[k] : k \in 1 .. n}
           Good(b, n) == /\ b \in Seq(Entries(C, X)) /\ n \in Nat /\ BookOk(c, t, b, Upto(n))
                         /\ n > 0 => b # <<>>
           Right == {w \in Seq(Entries(C, X)) \X Nat : Good(w[1], w[2])}
<1>1. /\ ids \in Seq(Nat) /\ Elements(ids) = ClustersOf(c)
      /\ \A i, k \in 1 .. m : i # k => ids[i] # ids[k]
  BY IdsAre
<1>2. m \in Nat /\ DOMAIN ids = 1 .. m /\ Upto(m) = ClustersOf(c)
  <2>1. m \in Nat /\ DOMAIN ids = 1 .. m
    BY <1>1
  <2> QED
    BY <1>1, <2>1 DEF Elements
<1>3. m > 0
  <2>1. m = 0 => Upto(m) = {}
    OBVIOUS
  <2> HIDE DEF m, Upto
  <2> QED
    BY <1>2, <2>1
<1>4. es = [k \in 1 .. m |-> EntryOf(c, t, ids[k], naming[ids[k]])]
  <2>1. FlattenSeq([k \in 1 .. Max(ClustersOf(c) \cup {0}) |->
                      IF k \in ClustersOf(c) THEN <<k>> ELSE <<>>]) = ids
    BY DEF Ids, InOrder
  <2> HIDE DEF ids
  <2>2. es = [k \in DOMAIN ids |-> EntryOf(c, t, ids[k], naming[ids[k]])]
    BY <2>1 DEF InduceEntries
  <2> QED
    BY <1>2, <2>2
<1> HIDE DEF ids, es
<1>5. ASSUME NEW k \in 1 .. m
      PROVE  /\ es[k] \in Entries(C, X) /\ EntryOk(c, t, es[k])
             /\ Elements(es[k].clusters) = {ids[k]}
             /\ ShowsAll(c, t, es[k])
  <2>1. ids[k] \in ClustersOf(c) /\ naming[ids[k]] \in C
    BY <1>1, <1>2 DEF Elements
  <2> DEFINE i == ids[k]
             code == naming[i]
  <2>2. es[k] = EntryOf(c, t, i, code)
    BY <1>4
  <2>3. i \in ClustersOf(c) /\ code \in C
    BY <2>1
  <2> HIDE DEF i, code, C
  <2>4. /\ EntryOf(c, t, i, code) \in Entries(C, X) /\ EntryOk(c, t, EntryOf(c, t, i, code))
        /\ EntryOf(c, t, i, code).clusters = <<i>>
        /\ Elements(EntryOf(c, t, i, code).exemplars) = Named(c, t, i)
    BY <2>3, EntryOfIs
  <2>5. Elements(<<i>>) = {i} /\ NamedOf(c, t, {i}) = Named(c, t, i)
    BY DEF Elements, NamedOf
  <2> QED
    BY <2>2, <2>4, <2>5 DEF i, ShowsAll
<1>6. es \in [1 .. m -> Entries(C, X)]
  <2> HIDE DEF C, m
  <2> QED
    BY <1>4, <1>5
<1>7. Len(es) = m
  <2> DEFINE E == Entries(C, X)
  <2> HIDE DEF E, m
  <2>1. es \in [1 .. m -> E] /\ m \in Nat
    BY <1>2, <1>6 DEF E
  <2> QED
    BY ONLY <2>1, LenIs
<1> HIDE DEF m, C
<1>8. <<<<>>, 0>> \in Right
  <2> DEFINE e == <<>>
  <2>1. e \in Seq(Entries(C, X)) /\ Len(e) = 0
    OBVIOUS
  <2>2. Upto(0) = {}
    OBVIOUS
  <2> HIDE DEF e, Upto
  <2>3. BookOk(c, t, e, Upto(0))
    BY <2>1, <2>2 DEF BookOk
  <2>4. Good(e, 0)
    BY <2>1, <2>3
  <2> HIDE DEF Good
  <2> DEFINE w == <<e, 0>>
  <2>a. e \in Seq(Entries(C, X)) /\ 0 \in Nat
    BY <2>1
  <2>5. w \in Seq(Entries(C, X)) \X Nat /\ w[1] = e /\ w[2] = 0
    BY ONLY <2>a
  <2> HIDE DEF w
  <2>6. w \in Right
    BY <2>4, <2>5
  <2> QED
    BY <2>6 DEF w, e
<1>9. ASSUME NEW n \in 1 .. m, NEW b, <<b, n - 1>> \in Right
      PROVE  <<MergeEntry(b, es[n]), n>> \in Right
  <2> DEFINE k == ids[n]
             d == MergeEntry(b, es[n])
  <2>1. b \in Seq(Entries(C, X)) /\ BookOk(c, t, b, Upto(n - 1)) /\ n \in Nat
    <3> DEFINE w == <<b, n - 1>>
    <3>1. w[1] = b /\ w[2] = n - 1
      OBVIOUS
    <3>2. w \in Right
      BY <1>9
    <3> HIDE DEF w, Upto
    <3>3. w \in Seq(Entries(C, X)) \X Nat /\ Good(w[1], w[2])
      <4> HIDE DEF Good
      <4> QED
        BY <3>2
    <3>4. b \in Seq(Entries(C, X)) /\ Good(b, n - 1)
      <4> HIDE DEF Good
      <4> QED
        BY <3>1, <3>3
    <3>5. n \in Nat
      BY <1>2
    <3> QED
      BY <3>4, <3>5
  <2>2. k \notin Upto(n - 1)
    <3> SUFFICES ASSUME NEW i \in 1 .. n - 1, ids[i] = ids[n]
                 PROVE  FALSE
      OBVIOUS
    <3>1. i \in 1 .. m /\ i # n
      BY <1>2
    <3> QED
      BY <1>1, <3>1 DEF m
  <2>3. Upto(n) = Upto(n - 1) \cup {k}
    <3>1. \A i : i \in 1 .. n <=> (i \in 1 .. n - 1 \/ i = n)
      BY <2>1
    <3> QED
      BY <3>1
  <2>4. es[n] \in Entries(C, X) /\ EntryOk(c, t, es[n]) /\ Elements(es[n].clusters) = {k}
        /\ ShowsAll(c, t, es[n])
    BY <1>5
  <2> HIDE DEF Upto, k
  <2>5. /\ d \in Seq(Entries(C, X)) /\ d # <<>>
        /\ BookOk(c, t, d, Upto(n - 1) \cup {k})
    BY ONLY <2>1, <2>2, <2>4, MergeKeeps, c \in Seq(Nat)
  <2> HIDE DEF d
  <2>6. Good(d, n)
    BY <2>1, <2>3, <2>5
  <2> HIDE DEF Good
  <2> QED
    BY <2>1, <2>5, <2>6 DEF d
<1> HIDE DEF Right
<1>10. <<DedupeCodebookEntries(es), m>> \in Right
  BY <1>2, <1>7, <1>8, <1>9, DedupeIs
<1>11. Good(DedupeCodebookEntries(es), m)
  <2> HIDE DEF Good
  <2> QED
    BY <1>10 DEF Right
<1> HIDE DEF Upto
<1> QED
  BY <1>2, <1>3, <1>11 DEF es, C

\* What CodebookPartitions says of one entry.
EntryShows(c, t, e) ==
    LET clusters == Elements(e.clusters)
        first    == e.clusters[1]
        shown    == e.exemplars
    IN /\ e.size = Cardinality({r \in DOMAIN c : c[r] \in clusters})
       /\ Elements(shown) \subseteq NamedOf(c, t, clusters)
       /\ Named(c, t, first) \subseteq Elements(shown)
       /\ Len(shown) <= 2 * NExemplars
       /\ Len(shown) < 2 * NExemplars => NamedOf(c, t, clusters) \subseteq Elements(shown)
       /\ \A j, k \in DOMAIN shown : j < k /\ shown[j] = shown[k] => k \in Few(c, first)

LEMMA BookPartitions ==
    ASSUME NEW c \in Seq(Nat), NEW X, NEW t, NEW C, NEW b \in Seq(Entries(C, X)), b # <<>>,
           BookOk(c, t, b, ClustersOf(c))
    PROVE  /\ \A k \in ClustersOf(c) :
                 Cardinality({i \in DOMAIN b : k \in Elements(b[i].clusters)}) = 1
           /\ \A i \in DOMAIN b : EntryShows(c, t, b[i])
           /\ \A i, j \in DOMAIN b : i # j => Normalize(b[i].code) # Normalize(b[j].code)
           /\ ~TaxonomyRaises(b)
<1>1. DOMAIN b = 1 .. Len(b) /\ DOMAIN c = 1 .. Len(c)
  OBVIOUS
<1>2. ASSUME NEW k \in ClustersOf(c)
      PROVE  Cardinality({i \in DOMAIN b : k \in Elements(b[i].clusters)}) = 1
  <2> DEFINE I == {i \in DOMAIN b : k \in Elements(b[i].clusters)}
  <2>1. PICK i \in 1 .. Len(b) : k \in Elements(b[i].clusters)
    BY DEF BookOk
  <2>2. \A j \in 1 .. Len(b) :
           j # i => Elements(b[j].clusters) \cap Elements(b[i].clusters) = {}
    BY <2>1 DEF BookOk
  <2>3. I = {i}
    BY ONLY <1>1, <2>1, <2>2
  <2>4. Cardinality({i}) = 1
    BY FS_Singleton
  <2> HIDE DEF I
  <2>5. Cardinality(I) = 1
    BY <2>3, <2>4
  <2> QED
    BY <2>5 DEF I
<1>3. ASSUME NEW i \in DOMAIN b
      PROVE  EntryShows(c, t, b[i])
  <2>1. EntryOk(c, t, b[i]) /\ b[i] \in Entries(C, X)
    BY <1>1 DEF BookOk
  <2> DEFINE e == b[i]
  <2>2. EntryOk(c, t, e) /\ e.exemplars \in Seq(X)
    BY <2>1 DEF Entries
  <2> HIDE DEF e
  <2>3. DOMAIN e.exemplars = 1 .. Len(e.exemplars)
    BY <2>2
  <2>4. RowsIn(c, Elements(e.clusters)) = {r \in DOMAIN c : c[r] \in Elements(e.clusters)}
    BY <1>1 DEF RowsIn
  <2>5. EntryShows(c, t, e)
    BY <2>2, <2>3, <2>4 DEF EntryOk, EntryShows
  <2> QED
    BY <2>5 DEF e
<1>4. \A i, j \in DOMAIN b : i # j => Normalize(b[i].code) # Normalize(b[j].code)
  BY <1>1 DEF BookOk
<1>5. ~TaxonomyRaises(b)
  BY <1>4 DEF TaxonomyRaises
<1> QED
  BY <1>2, <1>3, <1>4, <1>5

\* induce_codebook: in every induced codebook each cluster is in one entry; an entry
\* is as large as its clusters and shows what their naming calls were shown, all of
\* the first's and all of all unless it is full, no text again but the first's
\* repeats; and no two codes are alike.
THEOREM CodebooksPartition == Spec => []CodebookPartitions
<1>1. Init => CodebookPartitions
  BY DEF Init, CodebookPartitions
<1>2. CodebookPartitions /\ [Next]_vars => CodebookPartitions'
  <2> SUFFICES ASSUME CodebookPartitions, [Next]_vars
               PROVE  CodebookPartitions'
    OBVIOUS
  <2>1. CASE Induce
    <3>1. PICK c \in Clusterings, t \in Columns :
             /\ ClustersOf(c) # {} /\ Len(t) = Len(c) /\ clustering' = c /\ texts' = t
             /\ \E named \in [ClustersOf(c) -> Names \cup {NoValue}] :
                  book' = DedupeCodebookEntries(InduceEntries(c, t,
                            [k \in DOMAIN named |-> IF named[k] = NoValue THEN Unnamed(k) ELSE named[k]]))
      BY <2>1 DEF Induce
    <3> DEFINE X == Range(t)
    <3>2. c \in Seq(Nat) /\ t \in Seq(X)
      BY SessionAssumption
    <3> HIDE DEF X
    <3>3. PICK naming : book' = DedupeCodebookEntries(InduceEntries(c, t, naming))
      BY <3>1
    <3> DEFINE C == {naming[k] : k \in ClustersOf(c)}
               b == book'
    <3>4. b \in Seq(Entries(C, X)) /\ b # <<>> /\ BookOk(c, t, b, ClustersOf(c))
      BY <3>1, <3>2, <3>3, InducedIs
    <3> HIDE DEF C, b
    <3>5. /\ \A k \in ClustersOf(c) :
               Cardinality({i \in DOMAIN b : k \in Elements(b[i].clusters)}) = 1
          /\ \A i \in DOMAIN b : EntryShows(c, t, b[i])
          /\ \A i, j \in DOMAIN b : i # j => Normalize(b[i].code) # Normalize(b[j].code)
          /\ ~TaxonomyRaises(b)
      BY ONLY <3>2, <3>4, BookPartitions
    <3>6. /\ \A k : ShownOf(k)' = Named(c, t, k)
          /\ \A k : DOMAIN Members(c, k) \cap (1 .. NExemplars) = Few(c, k)
      BY <3>1 DEF ShownOf, Named, Few
    <3>7. \A A : UNION {ShownOf(k)' : k \in A} = NamedOf(c, t, A)
      BY <3>6 DEF NamedOf
    <3> QED
      BY <3>1, <3>5, <3>6, <3>7 DEF CodebookPartitions, EntryShows, b
  <2>2. CASE Label
    BY <2>2 DEF Label, CodebookPartitions
  <2>3. CASE Export
    BY <2>3 DEF Export, CodebookPartitions
  <2>4. CASE Review
    BY <2>4 DEF Review, CodebookPartitions
  <2>5. CASE Import
    BY <2>5 DEF Import, CodebookPartitions
  <2>6. CASE Retune
    BY <2>6 DEF Retune, CodebookPartitions
  <2>7. CASE RecordRun
    BY <2>7 DEF RecordRun, CodebookPartitions
  <2>8. CASE WriteTmp
    BY <2>8 DEF WriteTmp, CodebookPartitions
  <2>9. CASE ReplaceFile
    BY <2>9 DEF ReplaceFile, CodebookPartitions
  <2>10. CASE Exit
    BY <2>10 DEF Exit, CodebookPartitions
  <2>11. CASE EditFile
    BY <2>11 DEF EditFile, CodebookPartitions
  <2>12. CASE ChangeEnvironment
    BY <2>12 DEF ChangeEnvironment, CodebookPartitions, study
  <2>13. CASE Load
    BY <2>13 DEF Load, CodebookPartitions
  <2>14. CASE Replay
    BY <2>14 DEF Replay, CodebookPartitions, study
  <2>15. CASE UNCHANGED vars
    <3>1. stage' = stage /\ clustering' = clustering /\ texts' = texts /\ book' = book
      BY <2>15 DEF vars, study
    <3>2. \A k : ShownOf(k)' = ShownOf(k)
      BY <3>1 DEF ShownOf
    <3>3. \A A : UNION {ShownOf(k)' : k \in A} = UNION {ShownOf(k) : k \in A}
      BY <3>2
    <3> QED
      BY <3>1, <3>2, <3>3 DEF CodebookPartitions
  <2> QED
    BY <2>1, <2>2, <2>3, <2>4, <2>5, <2>6, <2>7, <2>8, <2>9, <2>10, <2>11, <2>12, <2>13,
       <2>14, <2>15 DEF Next
<1> QED
  BY <1>1, <1>2, PTL DEF Spec
-----------------------------------------------------------------------------
(***************************************************************************)
(* Sums                                                                    *)
(***************************************************************************)
\* The loop of a sum.
Summing(f, w, m) ==
    f = [n \in 0 .. m |-> IF n = 0 THEN 0 ELSE f[n - 1] + w[n]]

LEMMA SummingExists ==
    ASSUME NEW w, NEW m \in Nat
    PROVE  \E f : Summing(f, w, m)
<1> DEFINE S == {n \in Nat : \E f : Summing(f, w, n)}
<1>1. 0 \in S
  <2> DEFINE g == [l \in 0 .. 0 |-> 0]
  <2>1. g = [l \in 0 .. 0 |-> IF l = 0 THEN 0 ELSE g[l - 1] + w[l]]
    OBVIOUS
  <2> HIDE DEF g
  <2> QED
    BY <2>1 DEF Summing
<1>2. ASSUME NEW n \in Nat, n \in S
      PROVE  n + 1 \in S
  <2>1. PICK f : Summing(f, w, n)
    BY <1>2
  <2> DEFINE top == f[n] + w[n + 1]
             g == [l \in 0 .. n + 1 |-> IF l = n + 1 THEN top ELSE f[l]]
             h == [l \in 0 .. n + 1 |-> IF l = 0 THEN 0 ELSE g[l - 1] + w[l]]
  <2>2. ASSUME NEW l \in 0 .. n + 1
        PROVE  g[l] = h[l]
    <3>1. CASE l = n + 1
      <4>1. n \in 0 .. n + 1 /\ n # n + 1 /\ (n + 1) - 1 = n /\ n + 1 # 0
        OBVIOUS
      <4>2. g[n] = f[n] /\ g[l] = top
        BY <3>1, <4>1
      <4>3. h[l] = g[n] + w[n + 1]
        <5> HIDE DEF g
        <5> QED
          BY <3>1, <4>1
      <4> QED
        BY <4>2, <4>3
    <3>2. CASE l # n + 1 /\ l # 0
      <4>1. l \in 0 .. n /\ l - 1 \in 0 .. n + 1 /\ l - 1 # n + 1
        BY <3>2
      <4>2. f[l] = f[l - 1] + w[l]
        BY <2>1, <3>2, <4>1 DEF Summing
      <4>3. g[l] = f[l] /\ g[l - 1] = f[l - 1]
        BY <3>2, <4>1
      <4>4. h[l] = g[l - 1] + w[l]
        <5> HIDE DEF g
        <5> QED
          BY <3>2
      <4> QED
        BY <4>2, <4>3, <4>4
    <3>3. CASE l = 0
      <4>1. f[0] = 0
        BY <2>1 DEF Summing
      <4> QED
        BY <3>3, <4>1
    <3> QED
      BY <3>1, <3>2, <3>3
  <2>3. g = h
    BY <2>2
  <2>4. Summing(g, w, n + 1)
    <3> HIDE DEF g
    <3> QED
      BY <2>3 DEF Summing
  <2> HIDE DEF g, h
  <2> QED
    BY <2>4
<1> HIDE DEF S
<1>3. m \in S
  BY <1>1, <1>2, AllNumbers
<1> QED
  BY <1>3 DEF S

\* The sum of the first k.
PartSum(w, k) == (CHOOSE f : Summing(f, w, Len(w)))[k]

LEMMA PartSumIs ==
    ASSUME NEW m \in Nat, NEW w \in [1 .. m -> Int]
    PROVE  /\ PartSum(w, 0) = 0
           /\ \A k \in 1 .. m : PartSum(w, k) = PartSum(w, k - 1) + w[k]
           /\ Total(w) = PartSum(w, m)
<1> DEFINE f == CHOOSE f : Summing(f, w, m)
<1>1. Len(w) = m
  OBVIOUS
<1>2. Summing(f, w, m)
  BY SummingExists
<1>3. \A k : PartSum(w, k) = f[k]
  BY <1>1 DEF PartSum
<1>4. Total(w) = f[m]
  BY <1>1 DEF Total, Summing
<1> HIDE DEF f
<1>5. f[0] = 0
  BY <1>2 DEF Summing
<1>6. \A k \in 1 .. m : f[k] = f[k - 1] + w[k]
  BY <1>2 DEF Summing
<1> QED
  BY <1>3, <1>4, <1>5, <1>6

LEMMA SumsAreNumbers ==
    ASSUME NEW m \in Nat, NEW w \in [1 .. m -> Int]
    PROVE  /\ \A k \in 0 .. m : PartSum(w, k) \in Int
           /\ Total(w) \in Int
<1> DEFINE S == {k \in Nat : k <= m => PartSum(w, k) \in Int}
<1>1. 0 \in S
  BY PartSumIs
<1>2. ASSUME NEW k \in Nat, k \in S
      PROVE  k + 1 \in S
  <2> SUFFICES ASSUME k + 1 <= m
               PROVE  PartSum(w, k + 1) \in Int
    OBVIOUS
  <2>1. k + 1 \in 1 .. m /\ (k + 1) - 1 = k /\ k <= m
    OBVIOUS
  <2>2. PartSum(w, k + 1) = PartSum(w, k) + w[k + 1]
    BY <2>1, PartSumIs
  <2> QED
    BY <1>2, <2>1, <2>2
<1> HIDE DEF S
<1>3. Nat \subseteq S
  BY <1>1, <1>2, AllNumbers
<1>4. \A k \in 0 .. m : PartSum(w, k) \in Int
  BY <1>3 DEF S
<1> QED
  BY <1>4, PartSumIs

\* A sum of sums, a multiple of a sum, and a sum of no less.
LEMMA TotalPlus ==
    ASSUME NEW m \in Nat, NEW u \in [1 .. m -> Int], NEW v \in [1 .. m -> Int],
           NEW w \in [1 .. m -> Int], \A i \in 1 .. m : w[i] = u[i] + v[i]
    PROVE  Total(w) = Total(u) + Total(v)
<1> DEFINE S == {k \in Nat : k <= m => PartSum(w, k) = PartSum(u, k) + PartSum(v, k)}
<1>u. /\ \A k \in 1 .. m : PartSum(u, k) = PartSum(u, k - 1) + u[k]
      /\ Total(u) = PartSum(u, m)
  BY PartSumIs
<1>v. /\ \A k \in 1 .. m : PartSum(v, k) = PartSum(v, k - 1) + v[k]
      /\ Total(v) = PartSum(v, m)
  BY PartSumIs
<1>w. /\ \A k \in 1 .. m : PartSum(w, k) = PartSum(w, k - 1) + w[k]
      /\ Total(w) = PartSum(w, m)
  BY PartSumIs
<1>1. 0 \in S
  <2>1. PartSum(w, 0) = 0 /\ PartSum(u, 0) = 0 /\ PartSum(v, 0) = 0
    BY PartSumIs
  <2> QED
    BY <2>1
<1>2. ASSUME NEW k \in Nat, k \in S
      PROVE  k + 1 \in S
  <2> SUFFICES ASSUME k + 1 <= m
               PROVE  PartSum(w, k + 1) = PartSum(u, k + 1) + PartSum(v, k + 1)
    OBVIOUS
  <2>1. k + 1 \in 1 .. m /\ (k + 1) - 1 = k /\ k \in 0 .. m
    OBVIOUS
  <2>2. /\ PartSum(w, k + 1) = PartSum(w, k) + w[k + 1]
        /\ PartSum(u, k + 1) = PartSum(u, k) + u[k + 1]
        /\ PartSum(v, k + 1) = PartSum(v, k) + v[k + 1]
    BY <1>u, <1>v, <1>w, <2>1
  <2>3. PartSum(u, k) \in Int /\ PartSum(v, k) \in Int
    BY <2>1, SumsAreNumbers
  <2>4. PartSum(w, k) = PartSum(u, k) + PartSum(v, k)
    BY <1>2, <2>1
  <2>5. u[k + 1] \in Int /\ v[k + 1] \in Int /\ w[k + 1] = u[k + 1] + v[k + 1]
    BY <2>1
  <2> QED
    BY <2>2, <2>3, <2>4, <2>5
<1> HIDE DEF S
<1>3. m \in S
  BY <1>1, <1>2, AllNumbers
<1> QED
  BY <1>3, <1>u, <1>v, <1>w DEF S

LEMMA TotalTimes ==
    ASSUME NEW m \in Nat, NEW u \in [1 .. m -> Int], NEW c \in Int,
           NEW w \in [1 .. m -> Int], \A i \in 1 .. m : w[i] = c * u[i]
    PROVE  Total(w) = c * Total(u)
<1> DEFINE S == {k \in Nat : k <= m => PartSum(w, k) = c * PartSum(u, k)}
<1>u. /\ PartSum(u, 0) = 0 /\ Total(u) = PartSum(u, m)
      /\ \A k \in 1 .. m : PartSum(u, k) = PartSum(u, k - 1) + u[k]
  BY PartSumIs
<1>w. /\ PartSum(w, 0) = 0 /\ Total(w) = PartSum(w, m)
      /\ \A k \in 1 .. m : PartSum(w, k) = PartSum(w, k - 1) + w[k]
  BY PartSumIs
<1>1. 0 \in S
  BY <1>u, <1>w
<1>2. ASSUME NEW k \in Nat, k \in S
      PROVE  k + 1 \in S
  <2> SUFFICES ASSUME k + 1 <= m
               PROVE  PartSum(w, k + 1) = c * PartSum(u, k + 1)
    OBVIOUS
  <2>1. k + 1 \in 1 .. m /\ (k + 1) - 1 = k /\ k \in 0 .. m
    OBVIOUS
  <2>2. /\ PartSum(w, k + 1) = PartSum(w, k) + w[k + 1]
        /\ PartSum(u, k + 1) = PartSum(u, k) + u[k + 1]
    BY <2>1, <1>u, <1>w
  <2>3. PartSum(u, k) \in Int
    BY <2>1, SumsAreNumbers
  <2>4. PartSum(w, k) = c * PartSum(u, k)
    BY <1>2, <2>1
  <2>5. u[k + 1] \in Int /\ w[k + 1] = c * u[k + 1]
    BY <2>1
  <2> DEFINE x == PartSum(u, k)
             y == u[k + 1]
  <2>6. x \in Int /\ y \in Int
    BY <2>3, <2>5
  <2>7. PartSum(w, k + 1) = c * x + c * y
    BY <2>2, <2>4, <2>5
  <2>8. PartSum(u, k + 1) = x + y
    BY <2>2
  <2> HIDE DEF x, y
  <2>9. c * x + c * y = c * (x + y)
    BY ONLY <2>6, c \in Int
  <2> QED
    BY <2>7, <2>8, <2>9
<1> HIDE DEF S
<1>3. m \in S
  BY <1>1, <1>2, AllNumbers
<1> QED
  BY <1>3, <1>u, <1>w DEF S

LEMMA TotalAtMost ==
    ASSUME NEW m \in Nat, NEW u \in [1 .. m -> Int], NEW w \in [1 .. m -> Int],
           \A i \in 1 .. m : u[i] <= w[i]
    PROVE  Total(u) <= Total(w)
<1> DEFINE S == {k \in Nat : k <= m => PartSum(u, k) <= PartSum(w, k)}
<1>u. /\ PartSum(u, 0) = 0 /\ Total(u) = PartSum(u, m)
      /\ \A k \in 1 .. m : PartSum(u, k) = PartSum(u, k - 1) + u[k]
  BY PartSumIs
<1>w. /\ PartSum(w, 0) = 0 /\ Total(w) = PartSum(w, m)
      /\ \A k \in 1 .. m : PartSum(w, k) = PartSum(w, k - 1) + w[k]
  BY PartSumIs
<1>1. 0 \in S
  BY <1>u, <1>w
<1>2. ASSUME NEW k \in Nat, k \in S
      PROVE  k + 1 \in S
  <2> SUFFICES ASSUME k + 1 <= m
               PROVE  PartSum(u, k + 1) <= PartSum(w, k + 1)
    OBVIOUS
  <2>1. k + 1 \in 1 .. m /\ (k + 1) - 1 = k /\ k \in 0 .. m
    OBVIOUS
  <2>2. /\ PartSum(w, k + 1) = PartSum(w, k) + w[k + 1]
        /\ PartSum(u, k + 1) = PartSum(u, k) + u[k + 1]
    BY <2>1, <1>u, <1>w
  <2>3. PartSum(u, k) \in Int
    BY <2>1, SumsAreNumbers
  <2>4. PartSum(w, k) \in Int
    BY <2>1, SumsAreNumbers
  <2>5. PartSum(u, k) <= PartSum(w, k)
    BY <1>2, <2>1
  <2>6. u[k + 1] \in Int /\ w[k + 1] \in Int /\ u[k + 1] <= w[k + 1]
    BY <2>1
  <2> QED
    BY <2>2, <2>3, <2>4, <2>5, <2>6
<1> HIDE DEF S
<1>3. m \in S
  BY <1>1, <1>2, AllNumbers
<1> QED
  BY <1>3, <1>u, <1>w DEF S
-----------------------------------------------------------------------------
(***************************************************************************)
(* Counting                                                                *)
(***************************************************************************)
\* One for each member of S.
Marks(S, m) == [i \in 1 .. m |-> IF i \in S THEN 1 ELSE 0]

LEMMA TotalOfMarks ==
    ASSUME NEW m \in Nat, NEW S \in SUBSET (1 .. m)
    PROVE  /\ Marks(S, m) \in [1 .. m -> Int]
           /\ Total(Marks(S, m)) = Cardinality(S) /\ Cardinality(S) \in Nat
           /\ IsFiniteSet(S)
<1> DEFINE w == Marks(S, m)
           Up(k) == {i \in S : i <= k}
           Right == {k \in Nat : k <= m => PartSum(w, k) = Cardinality(Up(k))}
<1>0. \A i \in S : i \in Nat /\ i >= 1 /\ i <= m
  OBVIOUS
<1>1. w \in [1 .. m -> Int]
  BY DEF Marks
<1>2. /\ PartSum(w, 0) = 0 /\ Total(w) = PartSum(w, m)
      /\ \A k \in 1 .. m : PartSum(w, k) = PartSum(w, k - 1) + w[k]
  <2> HIDE DEF w
  <2> QED
    BY <1>1, PartSumIs
<1>3. IsFiniteSet(S) /\ Cardinality(S) \in Nat
  <2>1. IsFiniteSet(1 .. m)
    BY FS_Interval
  <2>2. IsFiniteSet(S)
    BY <2>1, FS_Subset
  <2> QED
    BY <2>2, FS_CardinalityType
<1>4. \A k : IsFiniteSet(Up(k))
  BY <1>3, FS_Subset
<1>5. 0 \in Right
  <2>1. Up(0) = {}
    <3>1. \A i \in S : ~(i <= 0)
      BY <1>0
    <3> QED
      BY <3>1
  <2>2. Cardinality({}) = 0
    BY FS_EmptySet
  <2> QED
    BY <1>2, <2>1, <2>2
<1>6. ASSUME NEW k \in Nat, k \in Right
      PROVE  k + 1 \in Right
  <2> SUFFICES ASSUME k + 1 <= m
               PROVE  PartSum(w, k + 1) = Cardinality(Up(k + 1))
    OBVIOUS
  <2>1. k + 1 \in 1 .. m /\ (k + 1) - 1 = k /\ k <= m
    OBVIOUS
  <2>2. PartSum(w, k + 1) = PartSum(w, k) + w[k + 1]
    BY <1>2, <2>1
  <2>3. PartSum(w, k) = Cardinality(Up(k))
    BY <1>6, <2>1
  <2>4. \A i \in S : i <= k + 1 <=> (i <= k \/ i = k + 1)
    OBVIOUS
  <2>5. k + 1 \notin Up(k)
    OBVIOUS
  <2>6. CASE k + 1 \in S
    <3>1. w[k + 1] = 1
      BY <2>1, <2>6 DEF Marks
    <3>2. Up(k + 1) = Up(k) \cup {k + 1}
      BY <2>4, <2>6
    <3> HIDE DEF Up
    <3>3. Cardinality(Up(k) \cup {k + 1}) = Cardinality(Up(k)) + 1
      BY <1>4, <2>5, FS_AddElement
    <3> QED
      BY <2>2, <2>3, <3>1, <3>2, <3>3
  <2>7. CASE k + 1 \notin S
    <3>1. w[k + 1] = 0
      BY <2>1, <2>7 DEF Marks
    <3>2. Up(k + 1) = Up(k)
      BY <2>4, <2>7
    <3> HIDE DEF Up
    <3>3. Cardinality(Up(k)) \in Nat
      BY <1>4, FS_CardinalityType
    <3> QED
      BY <2>2, <2>3, <3>1, <3>2, <3>3
  <2> QED
    BY <2>6, <2>7
<1>7. Up(m) = S
  BY <1>0
<1> HIDE DEF Right, Up, w
<1>8. m \in Right
  BY <1>5, <1>6, AllNumbers
<1>9. PartSum(w, m) = Cardinality(Up(m))
  BY <1>8 DEF Right
<1> QED
  BY <1>1, <1>2, <1>3, <1>7, <1>9 DEF w

\* A sum of natural numbers is one, and no less than any of them.
LEMMA TotalOfNumbers ==
    ASSUME NEW m \in Nat, NEW w \in [1 .. m -> Nat]
    PROVE  Total(w) \in Nat /\ \A i \in 1 .. m : w[i] <= Total(w)
<1>1. w \in [1 .. m -> Int] /\ Total(w) \in Int
  <2>1. w \in [1 .. m -> Int]
    OBVIOUS
  <2> QED
    BY <2>1, SumsAreNumbers
<1>2. Total(w) >= 0
  <2> DEFINE z == Marks({}, m)
  <2>1. z \in [1 .. m -> Int] /\ Total(z) = 0
    <3>1. z \in [1 .. m -> Int] /\ Total(z) = Cardinality({})
      BY TotalOfMarks
    <3> QED
      BY <3>1, FS_EmptySet
  <2>2. \A i \in 1 .. m : z[i] <= w[i]
    BY DEF Marks
  <2> HIDE DEF z
  <2>3. Total(z) <= Total(w)
    BY <1>1, <2>1, <2>2, TotalAtMost
  <2> QED
    BY <1>1, <2>1, <2>3
<1>3. ASSUME NEW i \in 1 .. m
      PROVE  w[i] <= Total(w)
  <2> DEFINE o == Marks({i}, m)
             u == [j \in 1 .. m |-> w[i] * o[j]]
  <2>1. o \in [1 .. m -> Int] /\ Total(o) = 1
    <3>1. o \in [1 .. m -> Int] /\ Total(o) = Cardinality({i})
      BY TotalOfMarks
    <3> QED
      BY <3>1, FS_Singleton
  <2>2. \A j \in 1 .. m : w[i] * o[j] = IF j = i THEN w[i] ELSE 0
    BY DEF Marks
  <2>3. w[i] \in Int
    OBVIOUS
  <2> HIDE DEF o
  <2>4. u \in [1 .. m -> Int] /\ \A j \in 1 .. m : u[j] = w[i] * o[j]
    BY <2>2, <2>3
  <2>5. \A j \in 1 .. m : u[j] <= w[j]
    BY <2>2, <2>4
  <2> HIDE DEF u
  <2>6. Total(u) = w[i] * Total(o)
    BY <2>1, <2>3, <2>4, TotalTimes
  <2>7. Total(u) <= Total(w)
    BY <1>1, <2>4, <2>5, TotalAtMost
  <2> QED
    BY <1>1, <2>1, <2>3, <2>6, <2>7
<1> QED
  BY <1>1, <1>2, <1>3

\* Who comes before i.
Ahead(f, i) == {j \in DOMAIN f : f[j] > f[i] \/ (f[j] = f[i] /\ j < i)}

LEMMA RankIs ==
    ASSUME NEW m \in Nat, NEW f \in [1 .. m -> Int]
    PROVE  /\ \A i \in 1 .. m : /\ Rank(f, i) = Cardinality(Ahead(f, i))
                                /\ IsFiniteSet(Ahead(f, i)) /\ Rank(f, i) \in 0 .. m - 1
           /\ \A i, k \in 1 .. m : Rank(f, i) = Rank(f, k) => i = k
<1>1. \A i : Rank(f, i) = Cardinality(Ahead(f, i))
  BY DEF Rank, Ahead
<1>2. IsFiniteSet(1 .. m) /\ Cardinality(1 .. m) = m
  BY CountUpTo
<1>3. ASSUME NEW i \in 1 .. m
      PROVE  /\ Ahead(f, i) \in SUBSET (1 .. m) /\ i \notin Ahead(f, i)
             /\ IsFiniteSet(Ahead(f, i)) /\ Cardinality(Ahead(f, i)) \in Nat
             /\ Cardinality(Ahead(f, i) \cup {i}) = Cardinality(Ahead(f, i)) + 1
  <2>1. Ahead(f, i) \in SUBSET (1 .. m) /\ i \notin Ahead(f, i)
    BY DEF Ahead
  <2>2. IsFiniteSet(Ahead(f, i))
    BY <1>2, <2>1, FS_Subset
  <2>3. Cardinality(Ahead(f, i)) \in Nat
    BY <2>2, FS_CardinalityType
  <2>4. Cardinality(Ahead(f, i) \cup {i}) = Cardinality(Ahead(f, i)) + 1
    BY <2>1, <2>2, FS_AddElement
  <2> QED
    BY <2>1, <2>2, <2>3, <2>4
<1>4. ASSUME NEW i \in 1 .. m
      PROVE  Cardinality(Ahead(f, i)) <= m - 1
  <2>1. Ahead(f, i) \cup {i} \in SUBSET (1 .. m)
    BY <1>3
  <2>2. Cardinality(Ahead(f, i) \cup {i}) <= m
    BY <1>2, <2>1, FS_Subset
  <2> DEFINE c == Cardinality(Ahead(f, i))
  <2>3. c \in Nat /\ c + 1 <= m
    BY <1>3, <2>2
  <2> HIDE DEF c
  <2>4. c <= m - 1
    BY <2>3
  <2> QED
    BY <2>4 DEF c
<1>5. ASSUME NEW i \in 1 .. m, NEW k \in 1 .. m, i \in Ahead(f, k)
      PROVE  Cardinality(Ahead(f, i)) < Cardinality(Ahead(f, k))
  <2>1. Ahead(f, i) \cup {i} \subseteq Ahead(f, k)
    <3>1. f[i] \in Int /\ f[k] \in Int /\ \A j \in DOMAIN f : f[j] \in Int /\ j \in Int
      OBVIOUS
    <3> QED
      BY <1>5, <3>1 DEF Ahead
  <2>2. Cardinality(Ahead(f, i) \cup {i}) <= Cardinality(Ahead(f, k))
    BY <1>3, <2>1, FS_Subset
  <2> DEFINE c == Cardinality(Ahead(f, i))
             d == Cardinality(Ahead(f, k))
  <2>3. c \in Nat /\ d \in Nat /\ c + 1 <= d
    BY <1>3, <2>2
  <2> HIDE DEF c, d
  <2>4. c < d
    BY <2>3
  <2> QED
    BY <2>4 DEF c, d
<1>6. ASSUME NEW i \in 1 .. m, NEW k \in 1 .. m, i # k
      PROVE  Cardinality(Ahead(f, i)) # Cardinality(Ahead(f, k))
  <2>1. i \in Ahead(f, k) \/ k \in Ahead(f, i)
    <3>1. f[i] \in Int /\ f[k] \in Int /\ i \in Int /\ k \in Int /\ i \in DOMAIN f /\ k \in DOMAIN f
      OBVIOUS
    <3> QED
      BY <1>6, <3>1 DEF Ahead
  <2> DEFINE c == Cardinality(Ahead(f, i))
             d == Cardinality(Ahead(f, k))
  <2>2. c < d \/ d < c
    BY <1>5, <2>1
  <2>3. c \in Nat /\ d \in Nat
    BY <1>3
  <2> HIDE DEF c, d
  <2>4. c # d
    BY <2>2, <2>3
  <2> QED
    BY <2>4 DEF c, d
<1>7. ASSUME NEW i \in 1 .. m
      PROVE  Cardinality(Ahead(f, i)) \in 0 .. m - 1
  <2> DEFINE c == Cardinality(Ahead(f, i))
  <2>1. c \in Nat /\ c <= m - 1
    BY <1>3, <1>4
  <2> HIDE DEF c
  <2>2. c \in 0 .. m - 1
    BY <2>1
  <2> QED
    BY <2>2 DEF c
<1> QED
  BY <1>1, <1>3, <1>6, <1>7

\* The first n are n.
LEMMA LeadingCount ==
    ASSUME NEW m \in Nat, NEW f \in [1 .. m -> Int], NEW n \in 0 .. m
    PROVE  Leading(f, n) \in SUBSET (1 .. m) /\ Cardinality(Leading(f, n)) = n
<1> DEFINE R == [i \in 1 .. m |-> Rank(f, i)]
           A == Leading(f, n)
           Q == [i \in A |-> Rank(f, i)]
<1>1. DOMAIN f = 1 .. m
  OBVIOUS
<1>2. R \in [1 .. m -> 0 .. m - 1] /\ \A i, k \in 1 .. m : R[i] = R[k] => i = k
  BY RankIs
<1>3. R \in Injection(1 .. m, 0 .. m - 1)
  <2> HIDE DEF R
  <2> QED
    BY <1>2 DEF Injection, IsInjective
<1>4. /\ IsFiniteSet(0 .. m - 1) /\ Cardinality(0 .. m - 1) = m
      /\ IsFiniteSet(0 .. n - 1) /\ Cardinality(0 .. n - 1) = n
      /\ Cardinality(1 .. m) = m
  <2>1. \A k \in Nat : IsFiniteSet(0 .. k - 1) /\ Cardinality(0 .. k - 1) = k
    <3> TAKE k \in Nat
    <3>1. /\ IsFiniteSet(0 .. k - 1)
          /\ Cardinality(0 .. k - 1) = IF 0 > k - 1 THEN 0 ELSE (k - 1) - 0 + 1
      BY FS_Interval
    <3>2. (IF 0 > k - 1 THEN 0 ELSE (k - 1) - 0 + 1) = k
      OBVIOUS
    <3> QED
      BY ONLY <3>1, <3>2
  <2> QED
    BY <2>1, CountUpTo
<1> HIDE DEF R
<1>5. R \in Surjection(1 .. m, 0 .. m - 1)
  BY <1>3, <1>4, FS_Injection
<1>6. \A v \in 0 .. m - 1 : \E i \in 1 .. m : R[i] = v
  BY <1>5 DEF Surjection
<1>7. \A i \in 1 .. m : R[i] = Rank(f, i)
  BY DEF R
<1>8. A \in SUBSET (1 .. m) /\ \A i \in 1 .. m : i \in A <=> R[i] < n
  BY <1>1, <1>7 DEF Leading
<1>9. Q \in [A -> 0 .. n - 1] /\ \A i \in A : Q[i] = R[i]
  <2> HIDE DEF A
  <2>1. \A i \in A : R[i] \in 0 .. n - 1
    BY <1>2, <1>8
  <2> QED
    BY <1>7, <1>8, <2>1
<1> HIDE DEF Q, A
<1>10. \A v \in 0 .. n - 1 : \E i \in A : Q[i] = v
  <2> TAKE v \in 0 .. n - 1
  <2>1. v \in 0 .. m - 1 /\ v < n
    OBVIOUS
  <2>2. PICK i \in 1 .. m : R[i] = v
    BY <1>6, <2>1
  <2> QED
    BY <1>8, <1>9, <2>1, <2>2
<1>11. Q \in Bijection(A, 0 .. n - 1)
  BY <1>2, <1>8, <1>9, <1>10 DEF Bijection, Injection, Surjection, IsInjective
<1>12. IsFiniteSet(A)
  <2>1. IsFiniteSet(1 .. m)
    BY FS_Interval
  <2> QED
    BY <1>8, <2>1, FS_Subset
<1>13. Cardinality(0 .. n - 1) = Cardinality(A)
  BY <1>11, <1>12, FS_Bijection DEF ExistsBijection
<1> QED
  BY <1>4, <1>8, <1>13 DEF A
-----------------------------------------------------------------------------
(***************************************************************************)
(* Rounding                                                                *)
(***************************************************************************)
LEMMA Divided ==
    ASSUME NEW a \in Nat, NEW p \in Nat \ {0}
    PROVE  /\ a \div p \in Nat /\ a % p \in Nat /\ a % p < p
           /\ a = p * (a \div p) + (a % p)
OBVIOUS

LEMMA Cancel ==
    ASSUME NEW p \in Nat \ {0}, NEW a \in Int, NEW b \in Int
    PROVE  /\ p * a <= p * b => a <= b
           /\ p * a < p * b => a < b
<1>1. ASSUME a > b
      PROVE  p * a > p * b
  <2> DEFINE d == a - b
  <2>1. d \in Nat /\ d > 0 /\ a = b + d
    BY <1>1
  <2> HIDE DEF d
  <2>2. p * (b + d) = p * b + p * d
    BY <2>1
  <2>3. p * d > 0
    BY <2>1
  <2>4. p * b \in Int /\ p * d \in Int
    BY <2>1
  <2> QED
    BY <2>1, <2>2, <2>3, <2>4
<1> DEFINE x == p * a
           y == p * b
<1>2. x \in Int /\ y \in Int
  OBVIOUS
<1>3. a = b => x = y
  OBVIOUS
<1>4. a > b => x > y
  BY <1>1
<1> HIDE DEF x, y
<1>5. (x <= y => a <= b) /\ (x < y => a < b)
  BY <1>2, <1>3, <1>4
<1> QED
  BY <1>5 DEF x, y

\* One more for each of the first n.
LEMMA AddOneIs ==
    ASSUME NEW m \in Nat, NEW u \in [1 .. m -> Int], NEW f \in [1 .. m -> Int], NEW n \in 0 .. m
    PROVE  LET q == AddOne(u, Leading(f, n))
           IN /\ q \in [1 .. m -> Int] /\ Total(q) = Total(u) + n
              /\ \A i \in 1 .. m : q[i] = IF i \in Leading(f, n) THEN u[i] + 1 ELSE u[i]
<1> DEFINE A == Leading(f, n)
           q == AddOne(u, A)
           o == Marks(A, m)
<1>1. A \in SUBSET (1 .. m) /\ Cardinality(A) = n
  BY LeadingCount
<1> HIDE DEF A
<1>2. o \in [1 .. m -> Int] /\ Total(o) = n
  BY <1>1, TotalOfMarks
<1>3. q \in [1 .. m -> Int] /\ \A i \in 1 .. m : q[i] = IF i \in A THEN u[i] + 1 ELSE u[i]
  BY DEF AddOne
<1>4. \A i \in 1 .. m : q[i] = u[i] + o[i]
  BY <1>3 DEF Marks
<1> HIDE DEF q, o
<1>5. Total(q) = Total(u) + Total(o)
  BY <1>2, <1>3, <1>4, TotalPlus
<1> QED
  BY <1>2, <1>3, <1>5 DEF q, A

LEMMA NothingIs ==
    ASSUME NEW m \in Nat, NEW w \in [1 .. m -> Nat]
    PROVE  /\ Nothing(w) \in [1 .. m -> Nat] /\ Total(Nothing(w)) = 0
           /\ \A i \in 1 .. m : Nothing(w)[i] = 0
<1>1. /\ Nothing(w) \in [1 .. m -> Nat]
      /\ \A i \in 1 .. m : Nothing(w)[i] = 0
  BY DEF Nothing
<1>2. Nothing(w) = Marks({}, m)
  BY DEF Nothing, Marks
<1>3. Total(Marks({}, m)) = Cardinality({})
  BY TotalOfMarks
<1>4. Cardinality({}) = 0
  BY FS_EmptySet
<1> QED
  BY <1>1, <1>2, <1>3, <1>4

\* _largest_remainder gives out n, if there is anything to give it to, and no more
\* to anyone than its weight if n is not more than all weights.
LEMMA LargestRemainderIs ==
    ASSUME NEW m \in Nat, NEW w \in [1 .. m -> Nat], NEW n \in Nat
    PROVE  LET q == LargestRemainder(w, n)
           IN /\ q \in [1 .. m -> Nat]
              /\ n <= Total(w) \/ Total(w) > 0 => Total(q) = n
              /\ n <= Total(w) => \A i \in 1 .. m : q[i] <= w[i]
<1> DEFINE t == Total(w)
           base == [i \in 1 .. m |-> (n * w[i]) \div t]
           rest == [i \in 1 .. m |-> (n * w[i]) % t]
           B == Total(base)
           k == n - B
           P == {i \in 1 .. m : rest[i] > 0}
           q == LargestRemainder(w, n)
<1>1. t \in Nat /\ DOMAIN w = 1 .. m
  BY TotalOfNumbers
<1>2. CASE n <= 0 \/ t <= 0
  <2>1. q = Nothing(w)
    BY <1>2 DEF LargestRemainder
  <2>2. t <= 0 => t = 0
    BY <1>1
  <2> HIDE DEF t, q
  <2> QED
    BY <1>1, <1>2, <2>1, <2>2, NothingIs DEF t, q
<1>3. CASE n > 0 /\ t > 0
  <2>1. q = AddOne(base, Leading(rest, k))
    BY <1>1, <1>3 DEF LargestRemainder
  <2> HIDE DEF t
  <2>2. \A i \in 1 .. m : w[i] \in Nat /\ n * w[i] \in Nat
    OBVIOUS
  <2>3. \A i \in 1 .. m :
          /\ base[i] \in Nat /\ rest[i] \in Nat /\ rest[i] < t
          /\ n * w[i] = t * base[i] + rest[i]
    <3> TAKE i \in 1 .. m
    <3> DEFINE a == n * w[i]
    <3>1. a \in Nat /\ t \in Nat \ {0}
      BY <1>1, <1>3, <2>2
    <3>2. base[i] = a \div t /\ rest[i] = a % t
      OBVIOUS
    <3> HIDE DEF a, base, rest
    <3>3. /\ a \div t \in Nat /\ a % t \in Nat /\ a % t < t
          /\ a = t * (a \div t) + (a % t)
      BY ONLY <3>1, Divided
    <3> QED
      BY <3>2, <3>3 DEF a
  <2>4. base \in [1 .. m -> Nat] /\ rest \in [1 .. m -> Nat]
    <3>1. base = [i \in 1 .. m |-> base[i]] /\ rest = [i \in 1 .. m |-> rest[i]]
      OBVIOUS
    <3> HIDE DEF base, rest
    <3> QED
      BY <2>3, <3>1
  <2> HIDE DEF base, rest
  <2>5. /\ base \in [1 .. m -> Int] /\ rest \in [1 .. m -> Int] /\ w \in [1 .. m -> Int]
        /\ B \in Nat /\ Total(rest) \in Nat
    <3>1. base \in [1 .. m -> Int] /\ rest \in [1 .. m -> Int] /\ w \in [1 .. m -> Int]
      BY <2>4
    <3>2. B \in Nat
      BY <2>4, TotalOfNumbers
    <3>3. Total(rest) \in Nat
      BY <2>4, TotalOfNumbers
    <3> QED
      BY <3>1, <3>2, <3>3
  <2> HIDE DEF B
  <2>6. n * t = t * B + Total(rest)
    <3> DEFINE all == [i \in 1 .. m |-> n * w[i]]
               whole == [i \in 1 .. m |-> t * base[i]]
    <3>1. all \in [1 .. m -> Int] /\ \A i \in 1 .. m : all[i] = n * w[i]
      BY <2>2
    <3>2. whole \in [1 .. m -> Int] /\ \A i \in 1 .. m : whole[i] = t * base[i]
      <4>1. \A i \in 1 .. m : t * base[i] \in Int
        BY <1>1, <2>3
      <4> QED
        BY <4>1
    <3> HIDE DEF all, whole
    <3>3. \A i \in 1 .. m : all[i] = whole[i] + rest[i]
      BY <2>3, <3>1, <3>2
    <3>4. Total(all) = n * t
      BY <2>5, <3>1, n \in Int, TotalTimes DEF t
    <3>5. Total(whole) = t * B
      BY <1>1, <2>5, <3>2, t \in Int, TotalTimes DEF B
    <3>6. Total(all) = Total(whole) + Total(rest)
      BY <2>5, <3>1, <3>2, <3>3, TotalPlus
    <3> QED
      BY <3>4, <3>5, <3>6
  <2>7. P \in SUBSET (1 .. m)
    OBVIOUS
  <2>8. /\ Marks(P, m) \in [1 .. m -> Int] /\ Total(Marks(P, m)) = Cardinality(P)
        /\ Cardinality(P) \in Nat /\ IsFiniteSet(P)
    <3> HIDE DEF P
    <3> QED
      BY <2>7, TotalOfMarks
  <2>9. Total(rest) <= t * Cardinality(P)
    <3> DEFINE o == Marks(P, m)
               top == [i \in 1 .. m |-> t * o[i]]
    <3>1. \A i \in 1 .. m : o[i] = IF i \in P THEN 1 ELSE 0
      BY DEF Marks
    <3>2. \A i \in 1 .. m : rest[i] <= t * o[i]
      <4> TAKE i \in 1 .. m
      <4>1. CASE rest[i] > 0
        <5>1. o[i] = 1
          BY <3>1, <4>1
        <5>2. t * 1 = t
          BY <1>1
        <5> HIDE DEF o
        <5> QED
          BY <1>1, <2>3, <5>1, <5>2
      <4>2. CASE ~(rest[i] > 0)
        <5>1. o[i] = 0
          BY <3>1, <4>2
        <5>2. t * 0 = 0
          BY <1>1
        <5> HIDE DEF o
        <5> QED
          BY <1>1, <2>3, <4>2, <5>1, <5>2
      <4> QED
        BY <4>1, <4>2
    <3> HIDE DEF o
    <3>3. o \in [1 .. m -> Int] /\ Total(o) = Cardinality(P)
      BY <2>8 DEF o
    <3>4. top \in [1 .. m -> Int] /\ \A i \in 1 .. m : top[i] = t * o[i]
      BY <1>1, <3>3
    <3>5. \A i \in 1 .. m : rest[i] <= top[i]
      BY <3>2, <3>4
    <3> HIDE DEF top, P
    <3>6. Total(top) = t * Total(o)
      BY <1>1, <3>3, <3>4, t \in Int, TotalTimes
    <3>7. Total(rest) <= Total(top)
      BY <2>5, <3>4, <3>5, TotalAtMost
    <3> QED
      BY <3>3, <3>6, <3>7
  <2>10. Cardinality(P) <= m
    <3>1. IsFiniteSet(1 .. m) /\ Cardinality(1 .. m) = m
      BY CountUpTo
    <3> HIDE DEF P
    <3>2. Cardinality(P) <= Cardinality(1 .. m)
      BY <2>7, <3>1, FS_Subset
    <3> QED
      BY <3>1, <3>2
  <2>11. k \in Int /\ 0 <= k /\ k <= Cardinality(P)
    <3> DEFINE c == Cardinality(P)
               r == Total(rest)
    <3>1. t \in Nat \ {0} /\ B \in Nat /\ c \in Nat /\ r \in Nat
      BY <1>1, <1>3, <2>5, <2>8
    <3>2. n * t = t * B + r /\ r <= t * c
      BY <2>6, <2>9
    <3> HIDE DEF c, r
    <3>3. t * k = r
      <4>1. t * (n - B) = n * t - t * B
        BY <3>1
      <4>2. n * t \in Int /\ t * B \in Int
        BY <3>1
      <4> QED
        BY <3>1, <3>2, <4>1, <4>2
    <3>4. k \in Int
      BY <3>1
    <3>5. t * 0 = 0
      BY <3>1
    <3> HIDE DEF k
    <3>6. t * 0 <= t * k /\ t * k <= t * c
      BY <3>1, <3>2, <3>3, <3>5
    <3>7. 0 <= k
      BY ONLY <3>1, <3>4, <3>6, Cancel
    <3>8. k <= c
      BY ONLY <3>1, <3>4, <3>6, c \in Int, Cancel
    <3> QED
      BY <3>4, <3>7, <3>8 DEF c
  <2>12. k \in 0 .. m
    <3> DEFINE c == Cardinality(P)
    <3>1. k \in Int /\ 0 <= k /\ k <= c /\ c \in Nat /\ c <= m
      BY <2>8, <2>10, <2>11
    <3> HIDE DEF c, k
    <3> QED
      BY <3>1
  <2> HIDE DEF k, q
  <2>13. /\ q \in [1 .. m -> Int] /\ Total(q) = Total(base) + k
         /\ \A i \in 1 .. m : q[i] = IF i \in Leading(rest, k) THEN base[i] + 1 ELSE base[i]
    <3> DEFINE r == AddOne(base, Leading(rest, k))
    <3>1. /\ r \in [1 .. m -> Int] /\ Total(r) = Total(base) + k
          /\ \A i \in 1 .. m : r[i] = IF i \in Leading(rest, k) THEN base[i] + 1 ELSE base[i]
      <4>1. base \in [1 .. m -> Int]
        BY <2>5
      <4>2. rest \in [1 .. m -> Int]
        BY <2>5
      <4>3. k \in 0 .. m
        BY <2>12
      <4> QED
        BY ONLY <4>1, <4>2, <4>3, m \in Nat, AddOneIs DEF r
    <3> QED
      BY <2>1, <3>1
  <2>14. Total(q) = n
    BY <2>5, <2>13 DEF k, B
  <2>15. \A i \in 1 .. m : q[i] \in Nat
    <3> TAKE i \in 1 .. m
    <3>1. q[i] = base[i] \/ q[i] = base[i] + 1
      BY <2>13, <2>3
    <3> QED
      BY <2>3, <3>1
  <2>16. ASSUME n <= t, NEW i \in 1 .. m
         PROVE  q[i] <= w[i]
    <3> DEFINE x == w[i]
               y == base[i]
               z == rest[i]
    <3>1. x \in Nat /\ y \in Nat /\ z \in Nat /\ n * x = t * y + z /\ t \in Nat \ {0}
      BY <1>1, <1>3, <2>3
    <3> HIDE DEF x, y, z
    <3>2. n * x <= t * x
      <4> DEFINE d == t - n
      <4>1. d \in Nat /\ t = n + d
        BY <2>16, <3>1
      <4> HIDE DEF d
      <4>2. t * x = n * x + d * x /\ d * x \in Nat /\ n * x \in Nat
        BY <3>1, <4>1
      <4> QED
        BY <4>2
    <3>3. t * y + z <= t * x /\ t * y \in Int /\ t * x \in Int
      BY <3>1, <3>2
    <3>4. t * y <= t * x /\ (z > 0 => t * y < t * x)
      BY <3>1, <3>3
    <3>5. y <= x /\ (z > 0 => y < x)
      BY ONLY <3>1, <3>4, x \in Int, y \in Int, Cancel
    <3>6. CASE i \in Leading(rest, k)
      <4>1. z > 0
        <5> SUFFICES ASSUME ~(z > 0)
                     PROVE  FALSE
          OBVIOUS
        <5>1. z = 0
          BY <3>1
        <5>2. P \subseteq Ahead(rest, i)
          BY <2>5, <5>1 DEF Ahead, z
        <5>3. Rank(rest, i) = Cardinality(Ahead(rest, i)) /\ IsFiniteSet(Ahead(rest, i))
              /\ Rank(rest, i) \in Int
          BY <2>5, RankIs
        <5>4. Cardinality(P) <= Cardinality(Ahead(rest, i))
          BY <5>2, <5>3, FS_Subset
        <5>5. Rank(rest, i) < k
          BY <3>6 DEF Leading
        <5> HIDE DEF P
        <5> QED
          BY <2>8, <2>11, <5>3, <5>4, <5>5
      <4>2. q[i] = y + 1
        BY <2>13, <3>6 DEF y
      <4>3. y + 1 <= x
        BY <3>1, <3>5, <4>1
      <4> QED
        BY <4>2, <4>3 DEF x
    <3>7. CASE i \notin Leading(rest, k)
      <4>1. q[i] = y
        BY <2>13, <3>1, <3>7 DEF y
      <4> QED
        BY <3>5, <4>1 DEF x
    <3> QED
      BY <3>6, <3>7
  <2>17. q \in [1 .. m -> Nat]
    BY <2>13, <2>15
  <2> QED
    BY <2>14, <2>16, <2>17 DEF t, q
<1>4. n > 0 \/ n <= 0
  OBVIOUS
<1>5. t > 0 \/ t <= 0
  BY <1>1
<1> QED
  BY <1>2, <1>3, <1>4, <1>5
-----------------------------------------------------------------------------
(***************************************************************************)
(* Quotas                                                                  *)
(***************************************************************************)
\* _equal_split gives out n.
LEMMA EqualSplitIs ==
    ASSUME NEW m \in Nat, NEW counts \in [1 .. m -> Nat], NEW n \in Nat, n = 0 \/ m # 0
    PROVE  /\ EqualSplit(counts, n) \in [1 .. m -> Nat]
           /\ Total(EqualSplit(counts, n)) = n
<1> DEFINE base == [i \in 1 .. m |-> n \div m]
           k == n % m
           q == AddOne(base, Leading(counts, k))
<1>1. DOMAIN counts = 1 .. m /\ Cardinality(1 .. m) = m
  BY CountUpTo
<1>2. CASE n <= 0
  <2>1. EqualSplit(counts, n) = Nothing(counts) /\ n = 0
    BY <1>2 DEF EqualSplit
  <2> QED
    BY <2>1, NothingIs
<1>3. CASE n > 0
  <2>1. EqualSplit(counts, n) = q
    BY <1>1, <1>3 DEF EqualSplit
  <2>2. m \in Nat \ {0}
    <3>1. n # 0
      BY <1>3
    <3> QED
      BY <3>1
  <2> DEFINE d == n \div m
  <2>3. d \in Nat /\ k \in Nat /\ k < m /\ n = m * d + k
    BY ONLY <2>2, n \in Nat, Divided
  <2> HIDE DEF d, k
  <2>4. k \in 0 .. m
    BY <2>2, <2>3
  <2>5. base \in [1 .. m -> Int] /\ \A i \in 1 .. m : base[i] = d
    BY <2>3 DEF d
  <2> HIDE DEF base
  <2>6. Total(base) = m * d
    <3> DEFINE o == Marks(1 .. m, m)
    <3>1. o \in [1 .. m -> Int] /\ Total(o) = m
      <4>1. (1 .. m) \in SUBSET (1 .. m)
        OBVIOUS
      <4>2. o \in [1 .. m -> Int] /\ Total(o) = Cardinality(1 .. m)
        BY <4>1, TotalOfMarks
      <4> QED
        BY <1>1, <4>2
    <3>2. \A i \in 1 .. m : o[i] = 1
      BY DEF Marks
    <3> HIDE DEF o
    <3>3. \A i \in 1 .. m : base[i] = d * o[i]
      <4> TAKE i \in 1 .. m
      <4>1. base[i] = d /\ o[i] = 1 /\ d * 1 = d
        BY <2>3, <2>5, <3>2
      <4> QED
        BY <4>1
    <3>4. d \in Int
      BY <2>3
    <3>5. Total(base) = d * Total(o)
      BY <2>5, <3>1, <3>3, <3>4, TotalTimes
    <3>6. d * m = m * d
      BY <2>3
    <3> QED
      BY <3>1, <3>5, <3>6
  <2>7. base \in [1 .. m -> Int]
    BY <2>5
  <2>8. counts \in [1 .. m -> Int]
    OBVIOUS
  <2>9. /\ q \in [1 .. m -> Int] /\ Total(q) = Total(base) + k
        /\ \A i \in 1 .. m : q[i] = IF i \in Leading(counts, k) THEN base[i] + 1 ELSE base[i]
    BY ONLY <2>4, <2>7, <2>8, m \in Nat, AddOneIs DEF q
  <2> HIDE DEF q
  <2>10. \A i \in 1 .. m : q[i] \in Nat
    <3> TAKE i \in 1 .. m
    <3>1. q[i] = d + 1 \/ q[i] = d
      BY <2>5, <2>9
    <3> QED
      BY <2>3, <3>1
  <2>11. q \in [1 .. m -> Nat]
    BY <2>9, <2>10
  <2> QED
    BY <2>1, <2>3, <2>6, <2>9, <2>11
<1> QED
  BY <1>2, <1>3

\* If quotas of m strata come to m at least and one has none, another can spare
\* one.
LEMMA SomeSpare ==
    ASSUME NEW m \in Nat, NEW a \in [1 .. m -> Nat], Total(a) >= m,
           NEW i \in 1 .. m, a[i] = 0
    PROVE  Donors(a, i) # {} /\ Donor(a, i) \in Donors(a, i)
<1>1. Donors(a, i) = {j \in (1 .. m) \ {i} : a[j] > 1}
  BY DEF Donors
<1>2. Donors(a, i) # {}
  <2> SUFFICES ASSUME Donors(a, i) = {}
               PROVE  FALSE
    OBVIOUS
  <2> DEFINE S == (1 .. m) \ {i}
             o == Marks(S, m)
  <2>1. S \in SUBSET (1 .. m)
    OBVIOUS
  <2>2. o \in [1 .. m -> Int] /\ Total(o) = Cardinality(S) /\ Cardinality(S) \in Nat /\ IsFiniteSet(S)
    <3> HIDE DEF S
    <3> QED
      BY <2>1, TotalOfMarks
  <2>3. Cardinality(S) + 1 = m
    <3>1. S \cup {i} = 1 .. m /\ i \notin S
      OBVIOUS
    <3>2. Cardinality(S \cup {i}) = Cardinality(S) + 1
      <4> HIDE DEF S
      <4> QED
        BY <2>2, <3>1, FS_AddElement
    <3>3. Cardinality(1 .. m) = m
      BY CountUpTo
    <3> QED
      BY <3>1, <3>2, <3>3
  <2>4. \A j \in 1 .. m : a[j] <= o[j]
    <3> TAKE j \in 1 .. m
    <3>1. o[j] = IF j \in S THEN 1 ELSE 0
      BY DEF Marks
    <3>2. j # i => ~(a[j] > 1)
      BY <1>1
    <3>3. a[j] \in Nat
      OBVIOUS
    <3> HIDE DEF o
    <3>4. CASE j = i
      BY <3>1, <3>4
    <3>5. CASE j # i
      BY <3>1, <3>2, <3>3, <3>5
    <3> QED
      BY <3>4, <3>5
  <2>5. a \in [1 .. m -> Int]
    OBVIOUS
  <2> HIDE DEF o, S
  <2>6. Total(a) <= Total(o)
    BY <2>2, <2>4, <2>5, TotalAtMost
  <2>7. Total(a) \in Nat
    BY TotalOfNumbers
  <2> QED
    BY <2>2, <2>3, <2>6, <2>7
<1>3. \E j \in Donors(a, i) : \A k \in Donors(a, i) : a[k] < a[j] \/ (a[k] = a[j] /\ j <= k)
  <2> DEFINE D == Donors(a, i)
             V == {a[j] : j \in D}
             t == Total(a)
  <2>1. \A j \in D : j \in 1 .. m /\ j \in Nat /\ a[j] \in Nat
    BY <1>1
  <2>2. t \in Nat /\ \A j \in D : a[j] <= t
    BY <1>1, TotalOfNumbers
  <2> HIDE DEF D, t
  <2>3. V \in SUBSET Nat /\ V # {} /\ \A v \in V : v <= t
    BY <1>2, <2>1, <2>2 DEF D
  <2> HIDE DEF V
  <2>4. PICK v \in V : \A w \in V : w <= v
    BY <2>2, <2>3, GreatestOf
  <2> DEFINE E == {j \in D : a[j] = v}
  <2>5. E \in SUBSET Nat /\ E # {}
    BY <2>1, <2>4 DEF V
  <2> HIDE DEF E
  <2>6. PICK j \in E : \A k \in E : j <= k
    BY <2>5, LeastOf
  <2>7. \A k \in D : a[k] <= v
    BY <2>4 DEF V
  <2>8. v \in Nat
    BY <2>3, <2>4
  <2>9. j \in D /\ a[j] = v
    BY <2>6 DEF E
  <2>10. \A k \in D : a[k] < a[j] \/ (a[k] = a[j] /\ j <= k)
    <3> TAKE k \in D
    <3>1. a[k] \in Nat /\ a[k] <= v
      BY <2>1, <2>7
    <3>2. CASE a[k] = v
      <4>1. k \in E
        BY <3>2 DEF E
      <4> QED
        BY <2>6, <2>9, <3>2, <4>1
    <3>3. CASE a[k] # v
      BY <2>8, <2>9, <3>1, <3>3
    <3> QED
      BY <3>2, <3>3
  <2> QED
    BY <2>9, <2>10 DEF D
<1> QED
  BY <1>2, <1>3 DEF Donor

\* One turn of the guarantee keeps the sum, and every row there was but a spare
\* one; the stratum whose turn it is has one.
LEMMA GiveOneIs ==
    ASSUME NEW m \in Nat, NEW a \in [1 .. m -> Nat], Total(a) >= m, NEW i \in 1 .. m
    PROVE  LET q == GiveOne(a, i)
           IN /\ q \in [1 .. m -> Nat] /\ Total(q) = Total(a) /\ q[i] >= 1
              /\ \A j \in 1 .. m : a[j] >= 1 => q[j] >= 1
<1> DEFINE q == GiveOne(a, i)
<1>1. CASE a[i] > 0
  <2>1. q = a
    BY <1>1 DEF GiveOne
  <2>2. a[i] \in Nat /\ a[i] >= 1
    BY <1>1
  <2> QED
    BY <2>1, <2>2
<1>2. CASE ~(a[i] > 0)
  <2> DEFINE d == Donor(a, i)
  <2>1. a[i] = 0
    BY <1>2
  <2>2. Donors(a, i) # {} /\ d \in Donors(a, i)
    BY <2>1, SomeSpare
  <2>3. d \in 1 .. m /\ d # i /\ a[d] > 1 /\ a[d] \in Nat
    BY <2>2 DEF Donors
  <2>4. q = [a EXCEPT ![d] = @ - 1, ![i] = 1]
    BY <1>2, <2>2 DEF GiveOne
  <2> HIDE DEF d, q
  <2>5. DOMAIN q = 1 .. m /\ \A j \in 1 .. m :
           q[j] = IF j = i THEN 1 ELSE IF j = d THEN a[d] - 1 ELSE a[j]
    BY <2>3, <2>4
  <2>6. \A j \in 1 .. m : q[j] \in Nat /\ (a[j] >= 1 => q[j] >= 1)
    <3> TAKE j \in 1 .. m
    <3>1. a[j] \in Nat
      OBVIOUS
    <3>2. CASE j = i
      BY <2>5, <3>2
    <3>3. CASE j # i /\ j = d
      <4>1. q[j] = a[d] - 1
        BY <2>5, <3>3
      <4> QED
        BY <2>3, <4>1
    <3>4. CASE j # i /\ j # d
      <4>1. q[j] = a[j]
        BY <2>5, <3>4
      <4> QED
        BY <3>1, <4>1
    <3> QED
      BY <3>2, <3>3, <3>4
  <2>7. q \in [1 .. m -> Nat]
    <3>1. q = [j \in 1 .. m |-> q[j]]
      BY <2>4
    <3> QED
      BY <2>6, <3>1
  <2>8. q[i] = 1
    BY <2>5
  <2>9. Total(q) = Total(a)
    <3> DEFINE x == Marks({d}, m)
               y == Marks({i}, m)
               u == [j \in 1 .. m |-> a[j] + y[j]]
    <3>1. x \in [1 .. m -> Int] /\ Total(x) = 1
      <4>1. {d} \in SUBSET (1 .. m)
        BY <2>3
      <4>2. x \in [1 .. m -> Int] /\ Total(x) = Cardinality({d})
        BY <4>1, TotalOfMarks
      <4> QED
        BY <4>2, FS_Singleton
    <3>2. y \in [1 .. m -> Int] /\ Total(y) = 1
      <4>1. {i} \in SUBSET (1 .. m)
        OBVIOUS
      <4>2. y \in [1 .. m -> Int] /\ Total(y) = Cardinality({i})
        BY <4>1, TotalOfMarks
      <4> QED
        BY <4>2, FS_Singleton
    <3>3. \A j \in 1 .. m : x[j] = (IF j = d THEN 1 ELSE 0) /\ y[j] = (IF j = i THEN 1 ELSE 0)
      BY DEF Marks
    <3> HIDE DEF x, y
    <3>4. u \in [1 .. m -> Int] /\ \A j \in 1 .. m : u[j] = a[j] + y[j]
      BY <3>2
    <3> HIDE DEF u
    <3>5. \A j \in 1 .. m : u[j] = q[j] + x[j]
      <4> TAKE j \in 1 .. m
      <4>1. a[j] \in Nat /\ u[j] = a[j] + y[j]
        BY <3>4
      <4>2. CASE j = i
        <5>1. y[j] = 1 /\ x[j] = 0 /\ q[j] = 1 /\ a[j] = 0
          BY <2>1, <2>3, <2>5, <3>3, <4>2
        <5> QED
          BY <4>1, <5>1
      <4>3. CASE j = d
        <5>1. y[j] = 0 /\ x[j] = 1 /\ q[j] = a[d] - 1 /\ a[j] = a[d]
          BY <2>3, <2>5, <3>3, <4>3
        <5> QED
          BY <2>3, <4>1, <5>1
      <4>4. CASE j # i /\ j # d
        <5>1. y[j] = 0 /\ x[j] = 0 /\ q[j] = a[j]
          BY <2>5, <3>3, <4>4
        <5> QED
          BY <4>1, <5>1
      <4> QED
        BY <4>2, <4>3, <4>4
    <3>6. a \in [1 .. m -> Int] /\ q \in [1 .. m -> Int]
      BY <2>7
    <3>7. Total(u) = Total(a) + Total(y)
      BY <3>2, <3>4, <3>6, TotalPlus
    <3>8. Total(u) = Total(q) + Total(x)
      BY <3>1, <3>4, <3>5, <3>6, TotalPlus
    <3>9. Total(a) \in Int
      BY <3>6, SumsAreNumbers
    <3>10. Total(q) \in Int
      BY <3>6, SumsAreNumbers
    <3> QED
      BY <3>1, <3>2, <3>7, <3>8, <3>9, <3>10
  <2> QED
    BY <2>6, <2>7, <2>8, <2>9 DEF q
<1> QED
  BY <1>1, <1>2

\* The loop of the guarantee.
Giving(f, alloc, m) ==
    f = [n \in 0 .. m |-> IF n = 0 THEN alloc ELSE GiveOne(f[n - 1], n)]

LEMMA GivingExists ==
    ASSUME NEW alloc, NEW m \in Nat
    PROVE  \E f : Giving(f, alloc, m)
<1> DEFINE S == {n \in Nat : \E f : Giving(f, alloc, n)}
<1>1. 0 \in S
  <2> DEFINE g == [l \in 0 .. 0 |-> alloc]
  <2>1. g = [l \in 0 .. 0 |-> IF l = 0 THEN alloc ELSE GiveOne(g[l - 1], l)]
    OBVIOUS
  <2> HIDE DEF g
  <2> QED
    BY <2>1 DEF Giving
<1>2. ASSUME NEW n \in Nat, n \in S
      PROVE  n + 1 \in S
  <2>1. PICK f : Giving(f, alloc, n)
    BY <1>2
  <2> DEFINE top == GiveOne(f[n], n + 1)
             g == [l \in 0 .. n + 1 |-> IF l = n + 1 THEN top ELSE f[l]]
             h == [l \in 0 .. n + 1 |-> IF l = 0 THEN alloc ELSE GiveOne(g[l - 1], l)]
  <2>2. ASSUME NEW l \in 0 .. n + 1
        PROVE  g[l] = h[l]
    <3>1. CASE l = n + 1
      <4>1. n \in 0 .. n + 1 /\ n # n + 1 /\ (n + 1) - 1 = n /\ n + 1 # 0
        OBVIOUS
      <4>2. g[n] = f[n] /\ g[l] = top
        BY <3>1, <4>1
      <4>3. h[l] = GiveOne(g[n], n + 1)
        <5> HIDE DEF g
        <5> QED
          BY <3>1, <4>1
      <4> QED
        BY <4>2, <4>3
    <3>2. CASE l # n + 1 /\ l # 0
      <4>1. l \in 0 .. n /\ l - 1 \in 0 .. n + 1 /\ l - 1 # n + 1
        BY <3>2
      <4>2. f[l] = GiveOne(f[l - 1], l)
        BY <2>1, <3>2, <4>1 DEF Giving
      <4>3. g[l] = f[l] /\ g[l - 1] = f[l - 1]
        BY <3>2, <4>1
      <4>4. h[l] = GiveOne(g[l - 1], l)
        <5> HIDE DEF g
        <5> QED
          BY <3>2
      <4> QED
        BY <4>2, <4>3, <4>4
    <3>3. CASE l = 0
      <4>1. f[0] = alloc
        BY <2>1 DEF Giving
      <4> QED
        BY <3>3, <4>1
    <3> QED
      BY <3>1, <3>2, <3>3
  <2>3. g = h
    BY <2>2
  <2>4. Giving(g, alloc, n + 1)
    <3> HIDE DEF g
    <3> QED
      BY <2>3 DEF Giving
  <2> HIDE DEF g, h
  <2> QED
    BY <2>4
<1> HIDE DEF S
<1>3. m \in S
  BY <1>1, <1>2, AllNumbers
<1> QED
  BY <1>3 DEF S

\* _apply_min1_guarantee keeps the sum, and gives each stratum a row when there
\* are as many.
LEMMA GuaranteeIs ==
    ASSUME NEW m \in Nat, NEW a \in [1 .. m -> Nat], NEW counts \in [1 .. m -> Nat]
    PROVE  LET q == ApplyMin1Guarantee(a, counts, Total(a))
           IN /\ q \in [1 .. m -> Nat] /\ Total(q) = Total(a)
              /\ Total(a) < m \/ \A i \in 1 .. m : q[i] >= 1
<1>0. PICK n \in Nat : Total(a) = n
  BY TotalOfNumbers
<1> DEFINE q == ApplyMin1Guarantee(a, counts, n)
<1> SUFFICES /\ q \in [1 .. m -> Nat] /\ Total(q) = n
             /\ n < m \/ \A i \in 1 .. m : q[i] >= 1
  BY <1>0
<1>1. Len(a) = m /\ DOMAIN a = 1 .. m
  OBVIOUS
<1>2. CASE ~(n >= m)
  <2> DEFINE A == Leading(counts, n)
  <2>1. n \in 0 .. m /\ counts \in [1 .. m -> Int]
    BY <1>2
  <2>2. A \in SUBSET (1 .. m) /\ Cardinality(A) = n
    BY <2>1, LeadingCount
  <2> HIDE DEF A
  <2>3. q = Marks(A, m)
    BY <1>1, <1>2 DEF ApplyMin1Guarantee, Marks, A
  <2>4. Total(q) = n
    BY <2>2, <2>3, TotalOfMarks
  <2>5. q \in [1 .. m -> Nat]
    BY <2>3 DEF Marks
  <2> QED
    BY <1>2, <2>4, <2>5
<1>3. CASE n >= m
  <2> DEFINE f == CHOOSE g : Giving(g, a, m)
  <2>1. Giving(f, a, m)
    BY GivingExists
  <2>2. q = f[m]
    BY <1>1, <1>3 DEF ApplyMin1Guarantee, Giving
  <2> HIDE DEF f, q
  <2>3. f[0] = a
    BY <2>1 DEF Giving
  <2>4. \A k \in 1 .. m : f[k] = GiveOne(f[k - 1], k)
    BY <2>1 DEF Giving
  <2> DEFINE Good(g, k) == /\ g \in [1 .. m -> Nat] /\ Total(g) = n
                           /\ \A i \in 1 .. m : i <= k => g[i] >= 1
             S == {k \in Nat : k <= m => Good(f[k], k)}
  <2>5. 0 \in S
    BY <1>0, <2>3
  <2>6. ASSUME NEW k \in Nat, k \in S
        PROVE  k + 1 \in S
    <3> SUFFICES ASSUME k + 1 <= m
                 PROVE  Good(f[k + 1], k + 1)
      OBVIOUS
    <3> DEFINE g == f[k]
               h == f[k + 1]
    <3>1. Good(g, k)
      <4> HIDE DEF Good
      <4>1. k <= m => Good(f[k], k)
        BY <2>6
      <4>2. k <= m
        OBVIOUS
      <4> QED
        BY <4>1, <4>2
    <3>2. k + 1 \in 1 .. m /\ (k + 1) - 1 = k
      OBVIOUS
    <3>3. h = GiveOne(g, k + 1)
      BY <2>4, <3>2
    <3> HIDE DEF g, h, S
    <3>4. g \in [1 .. m -> Nat] /\ Total(g) = n /\ Total(g) >= m
      BY <1>3, <3>1
    <3>5. /\ h \in [1 .. m -> Nat] /\ Total(h) = Total(g) /\ h[k + 1] >= 1
          /\ \A j \in 1 .. m : g[j] >= 1 => h[j] >= 1
      <4> DEFINE l == k + 1
                 r == GiveOne(g, l)
      <4>1. l \in 1 .. m /\ h = r
        BY <3>2, <3>3
      <4>2. g \in [1 .. m -> Nat] /\ Total(g) >= m
        BY <3>4
      <4> HIDE DEF l
      <4>3. /\ r \in [1 .. m -> Nat] /\ Total(r) = Total(g) /\ r[l] >= 1
            /\ \A j \in 1 .. m : g[j] >= 1 => r[j] >= 1
        BY ONLY <4>1, <4>2, m \in Nat, GiveOneIs
      <4> QED
        BY <4>1, <4>3 DEF l
    <3>6. \A i \in 1 .. m : i <= k + 1 => h[i] >= 1
      <4> SUFFICES ASSUME NEW i \in 1 .. m, i <= k + 1
                   PROVE  h[i] >= 1
        OBVIOUS
      <4>1. i = k + 1 \/ i <= k
        OBVIOUS
      <4> QED
        BY <3>1, <3>5, <4>1
    <3>7. Good(h, k + 1)
      BY <3>4, <3>5, <3>6
    <3> QED
      BY <3>7 DEF h
  <2> HIDE DEF S, Good
  <2>7. m \in S
    BY <2>5, <2>6, AllNumbers
  <2>8. Good(q, m)
    BY <2>2, <2>7 DEF S
  <2> QED
    BY <2>8 DEF Good, q
<1> QED
  BY <1>2, <1>3

\* The first turn of the redistribution: what is over finds room, and no stratum
\* is asked for more than it holds.
LEMMA TurnIs ==
    ASSUME NEW m \in Nat, NEW counts \in [1 .. m -> Nat], NEW a \in [1 .. m -> Nat],
           Total(a) <= Total(counts)
    PROVE  LET q == Turn([alloc |-> a, capped |-> {}], counts).alloc
           IN /\ q \in [1 .. m -> Nat] /\ Total(q) = Total(a)
              /\ \A i \in 1 .. m : q[i] <= counts[i]
              /\ \A i \in 1 .. m : a[i] >= 1 /\ counts[i] >= 1 => q[i] >= 1
<1> DEFINE s == [alloc |-> a, capped |-> {}]
           q == Turn(s, counts).alloc
           cap == Capped(a, counts)
           spill == [i \in 1 .. m |-> a[i] - cap[i]]
           over == Overflow(a, counts)
           closed == {} \cup {i \in 1 .. m : a[i] > counts[i]}
           room == [i \in 1 .. m |-> IF i \in closed THEN 0 ELSE counts[i] - a[i]]
           more == LargestRemainder(room, IF over < Total(room) THEN over ELSE Total(room))
           b == [i \in 1 .. m |-> cap[i] + more[i]]
<1>1. s.alloc = a /\ s.capped = {} /\ DOMAIN a = 1 .. m
  OBVIOUS
<1>2. q = IF over = 0 THEN a ELSE b
  <2> HIDE DEF s
  <2>1. Turn(s, counts) = IF over = 0 THEN s ELSE [alloc |-> b, capped |-> closed]
    BY <1>1 DEF Turn
  <2> HIDE DEF b, closed, over
  <2> QED
    BY <1>1, <2>1
<1> HIDE DEF q, s
<1>3. \A i \in 1 .. m : a[i] \in Nat /\ counts[i] \in Nat
  OBVIOUS
<1>4. /\ DOMAIN cap = 1 .. m
      /\ \A i \in 1 .. m : cap[i] = IF a[i] > counts[i] THEN counts[i] ELSE a[i]
  BY <1>1 DEF Capped
<1>5. \A i \in 1 .. m :
        /\ spill[i] = a[i] - cap[i]
        /\ room[i] = IF a[i] > counts[i] THEN 0 ELSE counts[i] - a[i]
  OBVIOUS
<1>6. over = Total(spill)
  BY <1>1 DEF Overflow
<1>7. cap = [i \in 1 .. m |-> cap[i]]
  BY <1>1 DEF Capped
<1>8. spill = [i \in 1 .. m |-> spill[i]] /\ room = [i \in 1 .. m |-> room[i]]
  OBVIOUS
<1> HIDE DEF cap, spill, room, over
<1>9. \A i \in 1 .. m :
        /\ cap[i] \in Nat /\ spill[i] \in Nat /\ room[i] \in Nat
        /\ a[i] = cap[i] + spill[i] /\ counts[i] = cap[i] + room[i]
        /\ (spill[i] <= 0 => a[i] <= counts[i])
        /\ (a[i] >= 1 /\ counts[i] >= 1 => cap[i] >= 1)
  <2> TAKE i \in 1 .. m
  <2> DEFINE x == a[i]
             y == counts[i]
             u == cap[i]
             v == spill[i]
             w == room[i]
  <2>1. /\ x \in Nat /\ y \in Nat /\ u = (IF x > y THEN y ELSE x)
        /\ v = x - u /\ w = IF x > y THEN 0 ELSE y - x
    BY <1>3, <1>4, <1>5
  <2> HIDE DEF x, y, u, v, w
  <2>2. CASE x > y
    BY <2>1, <2>2 DEF x, y, u, v, w
  <2>3. CASE ~(x > y)
    BY <2>1, <2>3 DEF x, y, u, v, w
  <2> QED
    BY <2>2, <2>3
<1>10. /\ cap \in [1 .. m -> Nat] /\ spill \in [1 .. m -> Nat] /\ room \in [1 .. m -> Nat]
       /\ cap \in [1 .. m -> Int] /\ spill \in [1 .. m -> Int] /\ room \in [1 .. m -> Int]
       /\ a \in [1 .. m -> Int] /\ counts \in [1 .. m -> Int]
  <2>1. cap \in [1 .. m -> Nat]
    BY <1>7, <1>9
  <2>2. spill \in [1 .. m -> Nat] /\ room \in [1 .. m -> Nat]
    BY <1>8, <1>9
  <2> QED
    BY <2>1, <2>2
<1>11. Total(spill) \in Nat /\ \A i \in 1 .. m : spill[i] <= Total(spill)
  BY <1>10, TotalOfNumbers
<1>12. Total(a) = Total(cap) + Total(spill)
  <2>1. /\ a \in [1 .. m -> Int] /\ cap \in [1 .. m -> Int] /\ spill \in [1 .. m -> Int]
        /\ \A i \in 1 .. m : a[i] = cap[i] + spill[i]
    BY <1>9, <1>10
  <2> QED
    BY ONLY <2>1, m \in Nat, TotalPlus
<1>13. Total(counts) = Total(cap) + Total(room)
  <2>1. /\ counts \in [1 .. m -> Int] /\ cap \in [1 .. m -> Int] /\ room \in [1 .. m -> Int]
        /\ \A i \in 1 .. m : counts[i] = cap[i] + room[i]
    BY <1>9, <1>10
  <2> QED
    BY ONLY <2>1, m \in Nat, TotalPlus
<1>14. Total(cap) \in Nat
  BY <1>10, TotalOfNumbers
<1>15. Total(room) \in Nat
  BY <1>10, TotalOfNumbers
<1>16. over \in Nat /\ over <= Total(room)
  BY <1>6, <1>11, <1>12, <1>13, <1>14, <1>15
<1>17. CASE over = 0
  <2>1. q = a
    BY <1>2, <1>17
  <2>2. \A i \in 1 .. m : a[i] <= counts[i]
    BY <1>6, <1>9, <1>11, <1>17
  <2> QED
    BY <2>1, <2>2 DEF q, s
<1>18. CASE over # 0
  <2>1. more = LargestRemainder(room, over)
    BY <1>15, <1>16
  <2> HIDE DEF more
  <2>2. /\ more \in [1 .. m -> Nat] /\ Total(more) = over
        /\ \A i \in 1 .. m : more[i] <= room[i]
    BY <1>10, <1>16, <2>1, LargestRemainderIs
  <2>3. q = b
    BY <1>2, <1>18
  <2>4. DOMAIN b = 1 .. m /\ b = [i \in 1 .. m |-> b[i]] /\ \A i \in 1 .. m : b[i] = cap[i] + more[i]
    OBVIOUS
  <2> HIDE DEF b
  <2>5. \A i \in 1 .. m :
          /\ b[i] \in Nat /\ b[i] <= counts[i]
          /\ (a[i] >= 1 /\ counts[i] >= 1 => b[i] >= 1)
    <3> TAKE i \in 1 .. m
    <3>1. cap[i] \in Nat /\ more[i] \in Nat /\ room[i] \in Nat /\ more[i] <= room[i]
      BY <1>9, <2>2
    <3>2. b[i] = cap[i] + more[i] /\ counts[i] = cap[i] + room[i]
      BY <1>9, <2>4
    <3>3. b[i] \in Nat /\ b[i] <= counts[i] /\ (cap[i] >= 1 => b[i] >= 1)
      BY <3>1, <3>2
    <3> QED
      BY <1>9, <3>3
  <2>6. b \in [1 .. m -> Nat] /\ b \in [1 .. m -> Int] /\ more \in [1 .. m -> Int]
    <3>1. b \in [1 .. m -> Nat]
      BY <2>4, <2>5
    <3> QED
      BY <2>2, <3>1
  <2>7. Total(b) = Total(cap) + Total(more)
    <3>1. /\ b \in [1 .. m -> Int] /\ cap \in [1 .. m -> Int] /\ more \in [1 .. m -> Int]
          /\ \A i \in 1 .. m : b[i] = cap[i] + more[i]
      BY <1>10, <2>4, <2>6
    <3> QED
      BY ONLY <3>1, m \in Nat, TotalPlus
  <2>8. Total(b) = Total(a)
    BY <1>6, <1>12, <2>2, <2>7
  <2> QED
    BY <2>3, <2>5, <2>6, <2>8 DEF q, s
<1> QED
  BY <1>17, <1>18

\* Once nothing is over, a turn changes nothing.
LEMMA TurnRests ==
    ASSUME NEW m \in Nat, NEW counts \in [1 .. m -> Nat], NEW s, s.alloc \in [1 .. m -> Nat],
           \A i \in 1 .. m : s.alloc[i] <= counts[i]
    PROVE  Turn(s, counts) = s
<1> DEFINE a == s.alloc
           spill == [i \in 1 .. m |-> a[i] - Capped(a, counts)[i]]
<1>1. DOMAIN a = 1 .. m /\ \A i \in 1 .. m : a[i] \in Nat /\ counts[i] \in Nat /\ a[i] <= counts[i]
  OBVIOUS
<1> HIDE DEF a
<1>2. \A i \in 1 .. m : a[i] - Capped(a, counts)[i] = 0
  <2> TAKE i \in 1 .. m
  <2>1. Capped(a, counts)[i] = IF a[i] > counts[i] THEN counts[i] ELSE a[i]
    BY <1>1 DEF Capped
  <2>2. Capped(a, counts)[i] = a[i]
    BY <1>1, <2>1
  <2> QED
    BY <1>1, <2>2
<1>3. spill = Marks({}, m)
  BY <1>2 DEF Marks
<1>4. Overflow(a, counts) = Total(spill)
  BY <1>1 DEF Overflow
<1> HIDE DEF spill
<1>5. Total(spill) = Cardinality({})
  BY <1>3, TotalOfMarks
<1>6. Overflow(a, counts) = 0
  BY <1>4, <1>5, FS_EmptySet
<1> QED
  BY <1>6 DEF Turn, a

\* The turns of the redistribution.
Turning(f, alloc, counts, m) ==
    f = [n \in 0 .. m |-> IF n = 0 THEN [alloc |-> alloc, capped |-> {}] ELSE Turn(f[n - 1], counts)]

LEMMA TurningExists ==
    ASSUME NEW alloc, NEW counts, NEW m \in Nat
    PROVE  \E f : Turning(f, alloc, counts, m)
<1> DEFINE S == {n \in Nat : \E f : Turning(f, alloc, counts, n)}
<1>1. 0 \in S
  <2> DEFINE g == [l \in 0 .. 0 |-> [alloc |-> alloc, capped |-> {}]]
  <2>1. g = [l \in 0 .. 0 |-> IF l = 0 THEN [alloc |-> alloc, capped |-> {}] ELSE Turn(g[l - 1], counts)]
    OBVIOUS
  <2> HIDE DEF g
  <2> QED
    BY <2>1 DEF Turning
<1>2. ASSUME NEW n \in Nat, n \in S
      PROVE  n + 1 \in S
  <2>1. PICK f : Turning(f, alloc, counts, n)
    BY <1>2
  <2> DEFINE top == Turn(f[n], counts)
             g == [l \in 0 .. n + 1 |-> IF l = n + 1 THEN top ELSE f[l]]
             h == [l \in 0 .. n + 1 |-> IF l = 0 THEN [alloc |-> alloc, capped |-> {}] ELSE Turn(g[l - 1], counts)]
  <2>2. ASSUME NEW l \in 0 .. n + 1
        PROVE  g[l] = h[l]
    <3>1. CASE l = n + 1
      <4>1. n \in 0 .. n + 1 /\ n # n + 1 /\ (n + 1) - 1 = n /\ n + 1 # 0
        OBVIOUS
      <4>2. g[n] = f[n] /\ g[l] = top
        BY <3>1, <4>1
      <4>3. h[l] = Turn(g[n], counts)
        <5> HIDE DEF g
        <5> QED
          BY <3>1, <4>1
      <4> QED
        BY <4>2, <4>3
    <3>2. CASE l # n + 1 /\ l # 0
      <4>1. l \in 0 .. n /\ l - 1 \in 0 .. n + 1 /\ l - 1 # n + 1
        BY <3>2
      <4>2. f[l] = Turn(f[l - 1], counts)
        BY <2>1, <3>2, <4>1 DEF Turning
      <4>3. g[l] = f[l] /\ g[l - 1] = f[l - 1]
        BY <3>2, <4>1
      <4>4. h[l] = Turn(g[l - 1], counts)
        <5> HIDE DEF g
        <5> QED
          BY <3>2
      <4> QED
        BY <4>2, <4>3, <4>4
    <3>3. CASE l = 0
      <4>1. f[0] = [alloc |-> alloc, capped |-> {}]
        BY <2>1 DEF Turning
      <4> QED
        BY <3>3, <4>1
    <3> QED
      BY <3>1, <3>2, <3>3
  <2>3. g = h
    BY <2>2
  <2>4. Turning(g, alloc, counts, n + 1)
    <3> HIDE DEF g
    <3> QED
      BY <2>3 DEF Turning
  <2> HIDE DEF g, h
  <2> QED
    BY <2>4
<1> HIDE DEF S
<1>3. m \in S
  BY <1>1, <1>2, AllNumbers
<1> QED
  BY <1>3 DEF S

\* _cap_and_redistribute keeps the sum and takes from no stratum more than it
\* holds.
LEMMA CapIs ==
    ASSUME NEW m \in Nat, NEW counts \in [1 .. m -> Nat], NEW a \in [1 .. m -> Nat],
           Total(a) <= Total(counts)
    PROVE  LET q == CapAndRedistribute(a, counts)
           IN /\ q \in [1 .. m -> Nat] /\ Total(q) = Total(a)
              /\ \A i \in 1 .. m : q[i] <= counts[i]
              /\ \A i \in 1 .. m : a[i] >= 1 /\ counts[i] >= 1 => q[i] >= 1
<1> DEFINE s == [alloc |-> a, capped |-> {}]
           q == CapAndRedistribute(a, counts)
           f == CHOOSE g : Turning(g, a, counts, m)
           b == Turn(s, counts).alloc
<1>1. Len(a) = m
  OBVIOUS
<1>2. Turning(f, a, counts, m)
  BY TurningExists
<1>3. q = f[m].alloc
  BY <1>1 DEF CapAndRedistribute, Turning
<1> HIDE DEF f
<1>4. f[0] = s
  BY <1>2 DEF Turning
<1>5. \A k \in 1 .. m : f[k] = Turn(f[k - 1], counts)
  <2> TAKE k \in 1 .. m
  <2>1. k \in 0 .. m /\ k # 0
    OBVIOUS
  <2> HIDE DEF s, b, q
  <2> QED
    BY <1>2, <2>1 DEF Turning
<1>6. /\ b \in [1 .. m -> Nat] /\ Total(b) = Total(a)
      /\ \A i \in 1 .. m : b[i] <= counts[i]
      /\ \A i \in 1 .. m : a[i] >= 1 /\ counts[i] >= 1 => b[i] >= 1
  BY TurnIs
<1>7. CASE m = 0
  <2>1. q = a
    BY <1>3, <1>4, <1>7
  <2> QED
    BY <1>7, <2>1
<1>8. CASE m # 0
  <2> DEFINE T == Turn(s, counts)
             S == {k \in Nat : k + 1 <= m => f[k + 1] = T}
  <2>1. 0 \in S
    <3>1. 1 \in 1 .. m /\ 1 - 1 = 0 /\ 0 + 1 = 1
      BY <1>8
    <3>2. f[1] = T
      <4> HIDE DEF T, s
      <4>1. f[1] = Turn(f[0], counts)
        BY <1>5, <3>1
      <4> QED
        BY <1>4, <4>1 DEF T
    <3> HIDE DEF T
    <3> QED
      BY <3>1, <3>2
  <2> HIDE DEF s
  <2>2. ASSUME NEW k \in Nat, k \in S
        PROVE  k + 1 \in S
    <3> SUFFICES ASSUME (k + 1) + 1 <= m
                 PROVE  f[(k + 1) + 1] = T
      OBVIOUS
    <3> DEFINE l == k + 1
    <3>1. l \in Nat /\ l + 1 \in 1 .. m /\ (l + 1) - 1 = l /\ l <= m
      OBVIOUS
    <3>2. f[l] = T
      BY <2>2, <3>1
    <3> HIDE DEF l, T, S
    <3>3. f[l + 1] = Turn(T, counts)
      BY <1>5, <3>1, <3>2
    <3>4. T.alloc \in [1 .. m -> Nat] /\ \A i \in 1 .. m : T.alloc[i] <= counts[i]
      BY <1>6 DEF T
    <3>5. Turn(T, counts) = T
      BY ONLY <3>4, m \in Nat, counts \in [1 .. m -> Nat], TurnRests
    <3> QED
      BY <3>3, <3>5 DEF l
  <2> HIDE DEF T
  <2>3. f[m] = T
    <3> DEFINE l == m - 1
    <3>1. l \in Nat /\ l + 1 = m
      BY <1>8
    <3> HIDE DEF l, S
    <3>2. l \in S
      BY <2>1, <2>2, <3>1, AllNumbers
    <3>3. l + 1 <= m => f[l + 1] = T
      BY <3>2 DEF S
    <3> QED
      BY <3>1, <3>3
  <2> HIDE DEF q
  <2>4. q = b
    BY <1>3, <2>3 DEF T
  <2> HIDE DEF b
  <2> QED
    BY <1>6, <2>4 DEF q
<1> QED
  BY <1>7, <1>8

\* allocate_quotas, for whatever allocation: n rows in all, from no stratum more
\* than it holds, and from each one at least when there are as many as strata.
LEMMA QuotasAre ==
    ASSUME NEW m \in Nat, NEW counts \in [1 .. m -> Nat], \A i \in 1 .. m : counts[i] >= 1,
           NEW n \in Nat, n <= Total(counts), NEW allocation
    PROVE  LET q == AllocateQuotas(counts, n, allocation)
           IN /\ q \in [1 .. m -> Nat] /\ Total(q) = n
              /\ \A i \in 1 .. m : q[i] <= counts[i]
              /\ n >= m => \A i \in 1 .. m : q[i] >= 1
<1> DEFINE first == IF allocation = "proportional" THEN LargestRemainder(counts, n)
                    ELSE EqualSplit(counts, n)
           given == ApplyMin1Guarantee(first, counts, n)
           q == CapAndRedistribute(given, counts)
<1>1. AllocateQuotas(counts, n, allocation) = q
  BY DEF AllocateQuotas
<1>2. LargestRemainder(counts, n) \in [1 .. m -> Nat] /\ Total(LargestRemainder(counts, n)) = n
  BY LargestRemainderIs
<1>3. n = 0 \/ m # 0
  <2> SUFFICES ASSUME m = 0
               PROVE  n = 0
    OBVIOUS
  <2>1. counts \in [1 .. m -> Int]
    OBVIOUS
  <2>2. Total(counts) = PartSum(counts, m) /\ PartSum(counts, 0) = 0
    BY ONLY <2>1, m \in Nat, PartSumIs
  <2>3. Total(counts) = 0
    BY <2>2
  <2> QED
    BY <2>3
<1>4. EqualSplit(counts, n) \in [1 .. m -> Nat] /\ Total(EqualSplit(counts, n)) = n
  BY ONLY <1>3, m \in Nat, counts \in [1 .. m -> Nat], n \in Nat, EqualSplitIs
<1>5. first \in [1 .. m -> Nat] /\ Total(first) = n
  BY <1>2, <1>4
<1> HIDE DEF first
<1>6. /\ given \in [1 .. m -> Nat] /\ Total(given) = n
      /\ n >= m => \A i \in 1 .. m : given[i] >= 1
  <2> HIDE DEF q
  <2>1. first \in [1 .. m -> Nat] 
    BY <1>5
  <2>2. Total(first) = n
    BY <1>5
  <2> HIDE DEF first, given
  <2>3. given = ApplyMin1Guarantee(first, counts, Total(first))
    BY <2>2 DEF given
  <2>4. /\ given \in [1 .. m -> Nat] /\ Total(given) = Total(first)
        /\ Total(first) < m \/ \A i \in 1 .. m : given[i] >= 1
    BY ONLY <2>1, <2>3, m \in Nat, counts \in [1 .. m -> Nat], GuaranteeIs
  <2> QED
    BY <2>2, <2>4
<1> HIDE DEF given
<1>7. /\ q \in [1 .. m -> Nat] /\ Total(q) = Total(given)
      /\ \A i \in 1 .. m : q[i] <= counts[i]
      /\ \A i \in 1 .. m : given[i] >= 1 /\ counts[i] >= 1 => q[i] >= 1
  <2>1. given \in [1 .. m -> Nat] /\ Total(given) <= Total(counts)
    BY <1>6
  <2> QED
    BY ONLY <2>1, m \in Nat, counts \in [1 .. m -> Nat], CapIs
<1> QED
  BY <1>1, <1>6, <1>7

\* How many rows of each stratum there are.
SizesOf(s) == [g \in {s[r] : r \in FrameRows} |-> Cardinality({r \in FrameRows : s[r] = g})]

\* The strata are numbered from one on, none is empty, and together they are the
\* frame.
LEMMA StrataAre ==
    ASSUME NEW s \in Stratifications
    PROVE  \E m \in Nat : /\ {s[r] : r \in FrameRows} = 1 .. m
                          /\ SizesOf(s) \in [1 .. m -> Nat]
                          /\ \A g \in 1 .. m : SizesOf(s)[g] >= 1
                          /\ Total(SizesOf(s)) = N
<1> DEFINE S == {s[r] : r \in FrameRows}
<1>1. N \in Nat
  BY SessionAssumption
<1>2. /\ s \in [1 .. N -> 1 .. N] /\ S = {s[r] : r \in 1 .. N}
      /\ \A r \in 1 .. N : s[r] > 1 => \E q \in 1 .. N : s[q] = s[r] - 1
  BY DEF Stratifications, FrameRows
<1>3. S \in SUBSET Nat /\ \A g \in S : g >= 1 /\ g <= N
  <2>1. \A r \in 1 .. N : s[r] \in 1 .. N
    BY <1>2
  <2>2. S \subseteq 1 .. N
    BY <1>2, <2>1
  <2> HIDE DEF S
  <2> QED
    BY <1>1, <2>2
<1>4. \A g \in S : g > 1 => g - 1 \in S
  BY <1>2
<1>5. \A g \in S : \E r \in 1 .. N : s[r] = g
  BY <1>2
<1>6. \A r \in 1 .. N : s[r] \in S
  BY <1>2
<1> HIDE DEF S
<1>7. PICK m \in Nat : S = 1 .. m
  <2>1. CASE S = {}
    <3>1. S = 1 .. 0
      BY <2>1
    <3> QED
      BY <3>1
  <2>2. CASE S # {}
    <3>1. PICK m \in S : \A g \in S : g <= m
      BY <1>1, <1>3, <2>2, GreatestOf
    <3>2. m \in Nat /\ m >= 1
      BY <1>3, <3>1
    <3> DEFINE T == {d \in Nat : m - d >= 1 => m - d \in S}
    <3>3. 0 \in T
      BY <3>1, <3>2
    <3>4. ASSUME NEW d \in Nat, d \in T
          PROVE  d + 1 \in T
      <4> SUFFICES ASSUME m - (d + 1) >= 1
                   PROVE  m - (d + 1) \in S
        OBVIOUS
      <4>1. m - d > 1 /\ m - d >= 1 /\ (m - d) - 1 = m - (d + 1)
        BY <3>2
      <4>2. m - d \in S
        BY <3>4, <4>1
      <4> QED
        BY <1>4, <4>1, <4>2
    <3> HIDE DEF T
    <3>5. Nat \subseteq T
      BY <3>3, <3>4, AllNumbers
    <3>6. \A g \in 1 .. m : g \in S
      <4> TAKE g \in 1 .. m
      <4>1. m - g \in Nat /\ m - (m - g) = g /\ g >= 1
        BY <3>2
      <4> QED
        BY <3>5, <4>1 DEF T
    <3>7. S = 1 .. m
      <4>1. \A g \in S : g \in Nat /\ g >= 1 /\ g <= m
        BY <1>3, <3>1
      <4>2. \A g \in S : g \in 1 .. m
        BY <3>2, <4>1
      <4> QED
        BY <3>6, <4>2
    <3> QED
      BY <3>2, <3>7
  <2> QED
    BY <2>1, <2>2
<1> DEFINE w == SizesOf(s)
<1>8. s \in Seq(Nat) /\ Len(s) = N
  BY <1>1, <1>2
<1>9. \A g : RowsIn(s, {g}) = {r \in 1 .. N : s[r] = g}
  BY <1>8 DEF RowsIn
<1>10. w = [g \in 1 .. m |-> Cardinality(RowsIn(s, {g}))]
  <2>1. w = [g \in S |-> Cardinality({r \in 1 .. N : s[r] = g})]
    BY DEF SizesOf, FrameRows, S
  <2> QED
    BY <1>7, <1>9, <2>1
<1> HIDE DEF w
<1>11. \A A : Cardinality(RowsIn(s, A)) \in Nat
  <2> TAKE A
  <2>1. A \cap {} = {}
    OBVIOUS
  <2> QED
    BY ONLY <1>8, <2>1, RowsAdd
<1>12. \A g \in 1 .. m : w[g] = Cardinality(RowsIn(s, {g})) /\ w[g] \in Nat
  BY <1>10, <1>11
<1>13. w \in [1 .. m -> Nat] /\ w \in [1 .. m -> Int]
  BY <1>10, <1>11
<1>14. \A g \in 1 .. m : w[g] >= 1
  <2> TAKE g \in 1 .. m
  <2>1. PICK r \in 1 .. N : s[r] = g
    BY <1>5, <1>7
  <2> DEFINE R == RowsIn(s, {g})
  <2>2. r \in R /\ R \subseteq 1 .. N
    BY <1>9, <2>1
  <2> HIDE DEF R
  <2>3. IsFiniteSet(R)
    <3>1. IsFiniteSet(1 .. N)
      BY <1>1, CountUpTo
    <3> QED
      BY <2>2, <3>1, FS_Subset
  <2>4. Cardinality(R) # 0
    BY <2>2, <2>3, FS_EmptySet
  <2>5. w[g] = Cardinality(R) /\ w[g] \in Nat
    BY <1>12 DEF R
  <2> QED
    BY <2>4, <2>5
<1>15. Total(w) = N
  <2> DEFINE Right == {k \in Nat : k <= m => PartSum(w, k) = Cardinality(RowsIn(s, 1 .. k))}
  <2>1. /\ PartSum(w, 0) = 0 /\ Total(w) = PartSum(w, m)
        /\ \A k \in 1 .. m : PartSum(w, k) = PartSum(w, k - 1) + w[k]
    BY <1>13, PartSumIs
  <2>2. 0 \in Right
    <3>1. RowsIn(s, 1 .. 0) = {}
      BY DEF RowsIn
    <3> QED
      BY <2>1, <3>1, FS_EmptySet
  <2>3. ASSUME NEW k \in Nat, k \in Right
        PROVE  k + 1 \in Right
    <3> SUFFICES ASSUME k + 1 <= m
                 PROVE  PartSum(w, k + 1) = Cardinality(RowsIn(s, 1 .. k + 1))
      OBVIOUS
    <3>1. k + 1 \in 1 .. m /\ (k + 1) - 1 = k /\ k <= m
      OBVIOUS
    <3>2. PartSum(w, k + 1) = PartSum(w, k) + w[k + 1]
      BY <2>1, <3>1
    <3>3. PartSum(w, k) = Cardinality(RowsIn(s, 1 .. k))
      BY <2>3, <3>1
    <3>4. w[k + 1] = Cardinality(RowsIn(s, {k + 1}))
      BY <1>12, <3>1
    <3>5. (1 .. k) \cap {k + 1} = {} /\ (1 .. k) \cup {k + 1} = 1 .. k + 1
      OBVIOUS
    <3>6. Cardinality(RowsIn(s, (1 .. k) \cup {k + 1}))
            = Cardinality(RowsIn(s, 1 .. k)) + Cardinality(RowsIn(s, {k + 1}))
      BY ONLY <1>8, <3>5, RowsAdd
    <3> QED
      BY <3>2, <3>3, <3>4, <3>5, <3>6
  <2> HIDE DEF Right
  <2>4. m \in Right
    BY <2>2, <2>3, AllNumbers
  <2>5. RowsIn(s, 1 .. m) = 1 .. N
    BY <1>6, <1>7, <1>8 DEF RowsIn
  <2>6. Cardinality(1 .. N) = N
    BY <1>1, CountUpTo
  <2> QED
    BY <2>1, <2>4, <2>5, <2>6 DEF Right
<1> QED
  BY <1>7, <1>13, <1>14, <1>15 DEF w, S

\* A sample's sizes are fair, whatever was asked for.
FairFor(asking) ==
    LET strata == DOMAIN asking.counts
    IN /\ Total(asking.quota) = (IF asking.n < N THEN asking.n ELSE N)
       /\ \A g \in strata : asking.quota[g] \in 0 .. asking.counts[g]
       /\ asking.n >= Cardinality(strata) => \A g \in strata : asking.quota[g] >= 1

LEMMA AllotmentsAreFair ==
    ASSUME NEW a \in Allotments
    PROVE  FairFor([counts |-> a.counts, n |-> a.n, quota |-> a.quota])
<1>1. PICK s \in Stratifications, n \in 1 .. N + 1, allocation \in {"proportional", "equal"} :
         a = [strata |-> s, n |-> n, counts |-> SizesOf(s),
              quota |-> AllocateQuotas(SizesOf(s), IF n < N THEN n ELSE N, allocation)]
  <2> DEFINE Allot(s, n, allocation) ==
               [strata |-> s, n |-> n, counts |-> SizesOf(s),
                quota |-> AllocateQuotas(SizesOf(s), IF n < N THEN n ELSE N, allocation)]
  <2>1. Allotments = {Allot(s, n, allocation) :
             s \in Stratifications, n \in 1 .. N + 1, allocation \in {"proportional", "equal"}}
    BY DEF Allotments, SizesOf
  <2> HIDE DEF Allot
  <2>2. \E s \in Stratifications, n \in 1 .. N + 1, allocation \in {"proportional", "equal"} :
           a = Allot(s, n, allocation)
    BY <2>1
  <2> QED
    BY <2>2 DEF Allot
<1> DEFINE w == SizesOf(s)
           k == IF n < N THEN n ELSE N
           q == AllocateQuotas(w, k, allocation)
<1>2. N \in Nat
  BY SessionAssumption
<1>3. PICK m \in Nat : /\ w \in [1 .. m -> Nat] /\ \A g \in 1 .. m : w[g] >= 1
                       /\ Total(w) = N
  BY StrataAre
<1> HIDE DEF w
<1>4. k \in Nat /\ k <= Total(w)
  BY <1>2, <1>3
<1> HIDE DEF k
<1>5. /\ q \in [1 .. m -> Nat] /\ Total(q) = k
      /\ \A i \in 1 .. m : q[i] <= w[i]
      /\ k >= m => \A i \in 1 .. m : q[i] >= 1
  BY <1>3, <1>4, QuotasAre
<1> HIDE DEF q
<1>6. m <= N
  <2> DEFINE o == Marks(1 .. m, m)
  <2>1. o \in [1 .. m -> Int] /\ Total(o) = m
    <3>1. (1 .. m) \in SUBSET (1 .. m)
      OBVIOUS
    <3>2. o \in [1 .. m -> Int] /\ Total(o) = Cardinality(1 .. m)
      BY <3>1, TotalOfMarks
    <3> QED
      BY <3>2, CountUpTo
  <2>2. \A g \in 1 .. m : o[g] <= w[g]
    BY <1>3 DEF Marks
  <2>3. w \in [1 .. m -> Int]
    BY <1>3
  <2> HIDE DEF o
  <2>4. Total(o) <= Total(w)
    BY <2>1, <2>2, <2>3, TotalAtMost
  <2> QED
    BY <1>3, <2>1, <2>4
<1>7. n >= m => k >= m
  BY <1>2, <1>6 DEF k
<1>8. DOMAIN w = 1 .. m /\ Cardinality(1 .. m) = m
  BY <1>3, CountUpTo
<1>9. \A i \in 1 .. m : q[i] \in 0 .. w[i]
  <2> TAKE i \in 1 .. m
  <2>1. q[i] \in Nat /\ w[i] \in Nat /\ q[i] <= w[i]
    BY <1>3, <1>5
  <2> QED
    BY <2>1
<1>10. a.counts = w /\ a.n = n /\ a.quota = q
  BY <1>1 DEF w, q, k
<1>11. FairFor([counts |-> w, n |-> n, quota |-> q])
  BY <1>5, <1>7, <1>8, <1>9 DEF FairFor, k
<1> QED
  BY <1>10, <1>11

\* A sample has all the rows asked for that there are, from no stratum more than
\* it holds and from each one when there are rows to go round: for any number of
\* rows, any strata and either allocation.
THEOREM QuotasStayFair == Spec => []QuotasAreFair
<1>1. QuotasAreFair = (asked # None => FairFor(asked))
  BY DEF QuotasAreFair, FairFor
<1>2. Init => QuotasAreFair
  BY DEF Init, QuotasAreFair
<1>3. QuotasAreFair /\ [Next]_vars => QuotasAreFair'
  <2> SUFFICES ASSUME QuotasAreFair, [Next]_vars
               PROVE  QuotasAreFair'
    OBVIOUS
  <2>1. CASE Export
    <3>1. PICK a \in Allotments : asked' = [counts |-> a.counts, n |-> a.n, quota |-> a.quota]
      BY <2>1 DEF Export
    <3>2. FairFor([counts |-> a.counts, n |-> a.n, quota |-> a.quota])
      BY AllotmentsAreFair
    <3>3. FairFor(asked')
      BY <3>1, <3>2
    <3> QED
      BY <3>3 DEF QuotasAreFair, FairFor
  <2>2. CASE Review
    BY <2>2 DEF Review, QuotasAreFair
  <2>3. CASE RecordRun
    BY <2>3 DEF RecordRun, QuotasAreFair
  <2>4. CASE asked' = asked
    BY <2>4 DEF QuotasAreFair
  <2>5. CASE Induce \/ Label \/ Import \/ Retune
    BY <2>5, <2>4 DEF Induce, Label, Import, Retune
  <2>6. CASE WriteTmp \/ ReplaceFile \/ Exit \/ EditFile \/ ChangeEnvironment \/ Load \/ Replay
    BY <2>6, <2>4 DEF WriteTmp, ReplaceFile, Exit, EditFile, ChangeEnvironment, Load, Replay, study
  <2>7. CASE UNCHANGED vars
    BY <2>7, <2>4 DEF vars, study
  <2> QED
    BY <2>1, <2>2, <2>3, <2>5, <2>6, <2>7 DEF Next
<1> QED
  BY <1>2, <1>3, PTL DEF Spec
=============================================================================
