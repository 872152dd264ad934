-------------------------- MODULE StreamPumpProofs --------------------------
(***************************************************************************)
(* The safety properties of StreamPump for every column, capacity, window  *)
(* and number of deltas.                                                   *)
(*                                                                         *)
(* None of them is inductive: whether the next event brings the next piece *)
(* of a row's text depends on what is in the channel.  PumpInv adds what   *)
(* the channel always holds: for each row, the deltas that are not yet in  *)
(* its text, in order and without a gap, then its end if it has one.       *)
(***************************************************************************)
EXTENDS StreamPump, TLAPS

IsDelta(k, i, n) == chan[k].row = i /\ chan[k].kind = "delta" /\ chan[k].n = n
IsEnd(k, i) == chan[k].row = i /\ chan[k].kind \in Terminal

\* What is in the channel was sent, and is not in the text yet.
EventsAreDue ==
    \A k \in DOMAIN chan :
        /\ chan[k].row \in Active
        /\ chan[k].kind = "delta" => /\ Len(acc[chan[k].row]) < chan[k].n
                                     /\ chan[k].n <= given[chan[k].row]
        /\ chan[k].kind \in Terminal => verdict[chan[k].row] = chan[k].kind

\* Of two events of a row the first is a delta, and an earlier one than the
\* second if that is a delta too.
EventsInOrder ==
    \A k, l \in DOMAIN chan :
        k < l /\ chan[k].row = chan[l].row =>
            /\ chan[k].kind = "delta"
            /\ chan[l].kind = "delta" => chan[k].n < chan[l].n

\* What was sent is in the text or in the channel.
NothingMissing ==
    pump = "pumping" =>
        \A i \in Active : \A n \in Len(acc[i]) + 1 .. given[i] :
            \E k \in DOMAIN chan : IsDelta(k, i, n)

\* A row that has ended is finished, or the caller will be warned, or the pump
\* has yet to be told.
EndsAreKept ==
    /\ \A i \in RowNums : verdict[i] # "none" <=> stream[i] = "ended"
    /\ pump = "pumping" =>
          \A i \in Active :
              verdict[i] # "none" =>
                  finished[i] \/ notice # "none" \/ (\E k \in DOMAIN chan : IsEnd(k, i))

BadIsNoticed == (\E i \in RowNums : column[i] = "bad") => notice # "none"

PumpInv ==
    /\ TypeOK
    /\ TextIsPrefix
    /\ FinishedIsWhole
    /\ NoSilentLoss
    /\ EventsAreDue
    /\ EventsInOrder
    /\ NothingMissing
    /\ EndsAreKept
    /\ BadIsNoticed
-----------------------------------------------------------------------------
(***************************************************************************)
(* Sequences and rows                                                      *)
(***************************************************************************)
LEMMA AppendFacts ==
    ASSUME NEW S, NEW s \in Seq(S), NEW e \in S
    PROVE  /\ Append(s, e) \in Seq(S)
           /\ Len(Append(s, e)) = Len(s) + 1
           /\ DOMAIN Append(s, e) = 1..(Len(s) + 1)
           /\ \A k \in 1..Len(s) : Append(s, e)[k] = s[k]
           /\ Append(s, e)[Len(s) + 1] = e
OBVIOUS

LEMMA TailFacts ==
    ASSUME NEW S, NEW s \in Seq(S), s # <<>>
    PROVE  /\ Tail(s) \in Seq(S)
           /\ Len(s) \in Nat \ {0}
           /\ Len(Tail(s)) = Len(s) - 1
           /\ DOMAIN Tail(s) = 1..(Len(s) - 1)
           /\ \A k \in 1..(Len(s) - 1) : Tail(s)[k] = s[k + 1]
           /\ Head(s) = s[1] /\ s[1] \in S
OBVIOUS

LEMMA RowsAreNumbers ==
    ASSUME TypeOK
    PROVE  /\ RowNums \subseteq Nat
           /\ Active \subseteq RowNums
           /\ \A i \in RowNums : column[i] \in RowKinds
<1>1. column \in Seq(RowKinds)
  BY StreamPumpAssumption DEF TypeOK
<1>2. DOMAIN column = 1..Len(column) /\ Len(column) \in Nat
  BY <1>1
<1>3. \A i \in DOMAIN column : i \in Nat /\ column[i] \in RowKinds
  BY <1>1, <1>2
<1> QED BY <1>3 DEF RowNums, Active

LEMMA ChannelTyped ==
    ASSUME TypeOK
    PROVE  /\ chan \in Seq(Events) /\ DOMAIN chan = 1..Len(chan) /\ Len(chan) \in Nat
           /\ \A k \in DOMAIN chan :
                 /\ chan[k].row \in Nat
                 /\ chan[k].n \in Nat
                 /\ chan[k].kind \in {"delta", "done", "error"}
           /\ \A i \in RowNums : acc[i] \in Seq(Nat) /\ Len(acc[i]) \in Nat /\ given[i] \in Nat
<1>1. chan \in Seq(Events)
  BY DEF TypeOK
<1>2. DOMAIN chan = 1..Len(chan) /\ Len(chan) \in Nat
  BY <1>1
<1>3. \A k \in DOMAIN chan : chan[k] \in Events
  BY <1>1, <1>2
<1>4. \A k \in DOMAIN chan :
         /\ chan[k].row \in Nat
         /\ chan[k].n \in Nat
         /\ chan[k].kind \in {"delta", "done", "error"}
  BY <1>3 DEF Events, Terminal
<1>5. \A i \in RowNums : acc[i] \in Seq(Nat) /\ given[i] \in Nat
  BY DEF TypeOK
<1>6. \A i \in RowNums : Len(acc[i]) \in Nat
  BY <1>5
<1> QED BY <1>1, <1>2, <1>4, <1>5, <1>6
-----------------------------------------------------------------------------
(***************************************************************************)
(* What the pump finds at the head of the channel                          *)
(***************************************************************************)
\* The next piece of a row's text: nothing was skipped, nothing comes twice,
\* and the row is not finished yet.
LEMMA HeadIsNext ==
    ASSUME PumpInv, Ready("delta")
    PROVE  LET i == Head(chan).row IN
           /\ i \in Active
           /\ Head(chan).n = Len(acc[i]) + 1
           /\ Len(acc[i]) < given[i]
           /\ ~finished[i]
<1> DEFINE i == chan[1].row
<1>1. /\ chan # <<>> /\ Head(chan) = chan[1] /\ 1 \in DOMAIN chan
      /\ chan[1].kind = "delta" /\ pump = "pumping"
  BY ChannelTyped, TailFacts DEF PumpInv, Ready
<1>2. /\ i \in Active /\ i \in RowNums
      /\ Len(acc[i]) < chan[1].n /\ chan[1].n <= given[i]
  BY <1>1, RowsAreNumbers DEF PumpInv, EventsAreDue
<1>3. /\ Len(acc[i]) \in Nat /\ given[i] \in Nat /\ chan[1].n \in Nat
  BY <1>1, <1>2, ChannelTyped DEF PumpInv
<1>4. PICK k \in DOMAIN chan : IsDelta(k, i, Len(acc[i]) + 1)
  <2>1. Len(acc[i]) + 1 \in Len(acc[i]) + 1 .. given[i]
    BY <1>2, <1>3
  <2> QED BY <1>1, <1>2, <2>1 DEF PumpInv, NothingMissing
<1>5. chan[1].n = Len(acc[i]) + 1
  <2>1. CASE k = 1
    BY <1>4, <2>1 DEF IsDelta
  <2>2. CASE k # 1
    <3>1. 1 < k
      BY <2>2, ChannelTyped DEF PumpInv
    <3>2. chan[1].n < chan[k].n
      BY <1>1, <1>4, <3>1 DEF PumpInv, EventsInOrder, IsDelta
    <3> QED BY <1>2, <1>3, <1>4, <3>2 DEF IsDelta
  <2> QED BY <2>1, <2>2
<1>6. ~finished[i]
  BY <1>2, <1>3 DEF PumpInv, FinishedIsWhole
<1> QED BY <1>1, <1>2, <1>3, <1>5, <1>6

\* The end of a row comes after all of its text.
LEMMA HeadEndsRow ==
    ASSUME PumpInv, NEW kind \in Terminal, Ready(kind)
    PROVE  LET i == Head(chan).row IN
           /\ i \in Active
           /\ verdict[i] = kind
           /\ Len(acc[i]) = given[i]
<1> DEFINE i == chan[1].row
<1>1. /\ chan # <<>> /\ Head(chan) = chan[1] /\ 1 \in DOMAIN chan
      /\ chan[1].kind = kind /\ pump = "pumping"
  BY ChannelTyped, TailFacts DEF PumpInv, Ready
<1>2. i \in Active /\ i \in RowNums /\ verdict[i] = kind
  BY <1>1, RowsAreNumbers DEF PumpInv, EventsAreDue
<1>3. Len(acc[i]) \in Nat /\ given[i] \in Nat /\ Len(acc[i]) <= given[i]
  BY <1>2, ChannelTyped DEF PumpInv, TextIsPrefix
<1>4. ~(Len(acc[i]) < given[i])
  <2> SUFFICES ASSUME Len(acc[i]) < given[i]
               PROVE  FALSE
    OBVIOUS
  <2>1. PICK k \in DOMAIN chan : IsDelta(k, i, given[i])
    BY <1>1, <1>2, <1>3 DEF PumpInv, NothingMissing
  <2>2. k # 1
    BY <1>1, <2>1 DEF IsDelta, Terminal
  <2>3. 1 < k
    BY <2>2, ChannelTyped DEF PumpInv
  <2>4. chan[1].kind = "delta"
    BY <1>1, <2>1, <2>3 DEF PumpInv, EventsInOrder, IsDelta
  <2> QED BY <1>1, <2>4 DEF Terminal
<1> QED BY <1>1, <1>2, <1>3, <1>4
-----------------------------------------------------------------------------
(***************************************************************************)
(* Every step keeps the invariant                                          *)
(***************************************************************************)
LEMMA SameRows ==
    ASSUME column' = column
    PROVE  RowNums' = RowNums /\ Active' = Active
BY DEF RowNums, Active

\* The channel after a send: the events it held, and one more.
LEMMA ChannelGrows ==
    ASSUME TypeOK, NEW e \in Events, chan' = Append(chan, e)
    PROVE  /\ chan' \in Seq(Events) /\ Len(chan') = Len(chan) + 1
           /\ Len(chan) + 1 \in DOMAIN chan' /\ chan'[Len(chan) + 1] = e
           /\ \A k \in DOMAIN chan : k \in DOMAIN chan' /\ chan'[k] = chan[k] /\ k < Len(chan) + 1
           /\ \A k \in DOMAIN chan' : k \in DOMAIN chan \/ k = Len(chan) + 1
<1>1. chan \in Seq(Events) /\ DOMAIN chan = 1..Len(chan) /\ Len(chan) \in Nat
  BY ChannelTyped
<1>2. /\ chan' \in Seq(Events) /\ Len(chan') = Len(chan) + 1
      /\ DOMAIN chan' = 1..(Len(chan) + 1)
      /\ \A k \in 1..Len(chan) : chan'[k] = chan[k]
      /\ chan'[Len(chan) + 1] = e
  BY <1>1, AppendFacts
<1> QED BY <1>1, <1>2

\* The channel after a receive: the events after the first, one place nearer.
LEMMA ChannelShrinks ==
    ASSUME TypeOK, chan # <<>>, chan' = Tail(chan)
    PROVE  /\ chan' \in Seq(Events) /\ Len(chan') = Len(chan) - 1
           /\ 1 \in DOMAIN chan /\ Head(chan) = chan[1]
           /\ \A k \in DOMAIN chan' : k \in Nat /\ k + 1 \in DOMAIN chan /\ chan'[k] = chan[k + 1] /\ 1 < k + 1
           /\ \A k \in DOMAIN chan : k = 1 \/ (k - 1 \in DOMAIN chan' /\ chan'[k - 1] = chan[k])
<1>1. chan \in Seq(Events) /\ DOMAIN chan = 1..Len(chan) /\ Len(chan) \in Nat
  BY ChannelTyped
<1>2. /\ chan' \in Seq(Events) /\ Len(chan) \in Nat \ {0} /\ Len(chan') = Len(chan) - 1
      /\ DOMAIN chan' = 1..(Len(chan) - 1)
      /\ \A k \in 1..(Len(chan) - 1) : chan'[k] = chan[k + 1]
      /\ Head(chan) = chan[1]
  BY <1>1, TailFacts
<1>3. \A k \in DOMAIN chan : k = 1 \/ (k - 1 \in 1..(Len(chan) - 1) /\ (k - 1) + 1 = k)
  BY <1>1, <1>2
<1>4. \A k \in DOMAIN chan' : k \in Nat /\ k + 1 \in DOMAIN chan /\ 1 < k + 1
  BY <1>1, <1>2
<1>5. \A k \in DOMAIN chan : k = 1 \/ (k - 1 \in DOMAIN chan' /\ chan'[k - 1] = chan[k])
  BY <1>2, <1>3
<1>6. \A k \in DOMAIN chan' : chan'[k] = chan[k + 1]
  BY <1>2
<1>7. 1 \in DOMAIN chan
  BY <1>1, <1>2
<1> QED BY <1>1, <1>2, <1>4, <1>5, <1>6, <1>7

LEMMA InitInv == Init => PumpInv
<1> SUFFICES ASSUME Init
             PROVE  PumpInv
  OBVIOUS
<1>1. chan = <<>> /\ DOMAIN chan = {} /\ Len(chan) = 0 /\ chan \in Seq(Events)
  BY DEF Init
<1>2. \A i \in RowNums : acc[i] = <<>> /\ Len(acc[i]) = 0 /\ acc[i] \in Seq(Nat)
  BY DEF Init
<1>3. TypeOK
  BY <1>1, StreamPumpAssumption DEF Init, TypeOK
<1>4. TextIsPrefix
  <2>1. \A i \in RowNums : acc[i] = [n \in 1..0 |-> n] /\ given[i] = 0
    BY <1>2 DEF Init
  <2> QED BY <1>2, <2>1 DEF TextIsPrefix
<1>5. FinishedIsWhole /\ NoSilentLoss /\ BadIsNoticed
  BY DEF Init, FinishedIsWhole, NoSilentLoss, BadIsNoticed
<1>6. EventsAreDue /\ EventsInOrder
  BY <1>1 DEF EventsAreDue, EventsInOrder
<1>7. NothingMissing
  <2>1. \A i \in Active : Len(acc[i]) + 1 = 1 /\ given[i] = 0
    BY <1>2, <1>3, RowsAreNumbers DEF Init
  <2> QED BY <2>1 DEF NothingMissing
<1>8. EndsAreKept
  BY RowsAreNumbers, <1>3 DEF Init, EndsAreKept
<1> QED BY <1>3, <1>4, <1>5, <1>6, <1>7, <1>8 DEF PumpInv

LEMMA OpenKeeps ==
    ASSUME PumpInv, NEW i \in RowNums, Open(i)
    PROVE  PumpInv'
<1>1. /\ RowNums' = RowNums /\ Active' = Active
      /\ UNCHANGED <<column, given, verdict, chan, pump, acc, finished, notice>>
      /\ stream' = [stream EXCEPT ![i] = "open"] /\ stream[i] = "queued"
  BY SameRows DEF Open
<1>2. TypeOK'
  BY <1>1 DEF PumpInv, TypeOK
<1>3. (TextIsPrefix /\ FinishedIsWhole /\ NoSilentLoss /\ BadIsNoticed)'
  BY <1>1 DEF PumpInv, TextIsPrefix, FinishedIsWhole, NoSilentLoss, BadIsNoticed
<1>4. (EventsAreDue /\ EventsInOrder /\ NothingMissing)'
  BY <1>1 DEF PumpInv, EventsAreDue, EventsInOrder, NothingMissing, IsDelta
<1>5. EndsAreKept'
  <2>1. \A j \in RowNums : stream'[j] = (IF j = i THEN "open" ELSE stream[j])
    BY <1>1 DEF PumpInv, TypeOK
  <2> QED BY <1>1, <2>1 DEF PumpInv, EndsAreKept, IsEnd
<1> QED BY <1>2, <1>3, <1>4, <1>5 DEF PumpInv

LEMMA SendDeltaKeeps ==
    ASSUME PumpInv, NEW i \in RowNums, SendDelta(i)
    PROVE  PumpInv'
<1> DEFINE e == Delta(i, given[i] + 1)
           last == Len(chan) + 1
<1>1. /\ RowNums' = RowNums /\ Active' = Active
      /\ UNCHANGED <<column, stream, verdict, pump, acc, finished, notice>>
      /\ pump = "pumping" /\ i \in Active /\ stream[i] = "open" /\ Len(chan) < Capacity
  BY SameRows DEF SendDelta, CanSend
<1>2. /\ \A j \in RowNums : given[j] \in Nat /\ Len(acc[j]) \in Nat /\ Len(acc[j]) <= given[j]
      /\ DOMAIN given = RowNums
      /\ i \in Nat /\ Len(chan) \in Nat
  BY RowsAreNumbers, ChannelTyped DEF PumpInv, TypeOK, TextIsPrefix
<1>3. given' \in [RowNums -> Nat] /\ \A j \in RowNums : given'[j] = (IF j = i THEN given[i] + 1 ELSE given[j])
  <2>1. given' = [given EXCEPT ![i] = @ + 1] /\ given \in [RowNums -> Nat]
    BY DEF SendDelta, PumpInv, TypeOK
  <2> QED BY <2>1
<1>4. e \in Events /\ e.row = i /\ e.kind = "delta" /\ e.n = given[i] + 1
  BY <1>2 DEF Delta, Events
<1>5. /\ chan' \in Seq(Events) /\ Len(chan') = Len(chan) + 1
      /\ last \in DOMAIN chan' /\ chan'[last] = e
      /\ \A k \in DOMAIN chan : k \in DOMAIN chan' /\ chan'[k] = chan[k] /\ k < last
      /\ \A k \in DOMAIN chan' : k \in DOMAIN chan \/ k = last
  <2>1. TypeOK /\ chan' = Append(chan, e)
    BY DEF PumpInv, SendDelta
  <2> HIDE DEF e
  <2> QED BY <1>4, <2>1, ChannelGrows
<1> HIDE DEF e, last
<1>6. verdict[i] = "none"
  BY <1>1 DEF PumpInv, EndsAreKept
<1>7. TypeOK'
  <2>1. Len(chan) + 1 <= Capacity
    BY <1>1, <1>2, StreamPumpAssumption
  <2> QED BY <1>1, <1>3, <1>5, <2>1 DEF PumpInv, TypeOK
<1>8. TextIsPrefix'
  <2>1. \A j \in RowNums : Len(acc[j]) <= given'[j]
    BY <1>2, <1>3
  <2>2. \A j \in RowNums : acc[j] = [n \in 1..Len(acc[j]) |-> n]
    BY DEF PumpInv, TextIsPrefix
  <2> QED BY <1>1, <2>1, <2>2 DEF TextIsPrefix
<1>9. (FinishedIsWhole /\ NoSilentLoss /\ BadIsNoticed)'
  BY <1>1, <1>3, <1>6 DEF PumpInv, FinishedIsWhole, NoSilentLoss, BadIsNoticed
<1>10. EventsAreDue'
  <2>1. ASSUME NEW k \in DOMAIN chan
        PROVE  /\ chan'[k].row \in Active
               /\ chan'[k].kind = "delta" => /\ Len(acc[chan'[k].row]) < chan'[k].n
                                              /\ chan'[k].n <= given'[chan'[k].row]
               /\ chan'[k].kind \in Terminal => verdict[chan'[k].row] = chan'[k].kind
    <3>1. chan'[k] = chan[k] /\ chan[k].row \in RowNums /\ chan[k].n \in Nat
      BY <1>5, RowsAreNumbers, ChannelTyped DEF PumpInv, EventsAreDue
    <3>2. \A j \in RowNums : given[j] <= given'[j] /\ given'[j] \in Nat /\ given[j] \in Nat
      BY <1>2, <1>3
    <3> QED BY <3>1, <3>2 DEF PumpInv, EventsAreDue
  <2>2. /\ chan'[last].row \in Active
        /\ chan'[last].kind = "delta" => /\ Len(acc[chan'[last].row]) < chan'[last].n
                                          /\ chan'[last].n <= given'[chan'[last].row]
        /\ chan'[last].kind \in Terminal => verdict[chan'[last].row] = chan'[last].kind
    BY <1>1, <1>2, <1>3, <1>4, <1>5 DEF Terminal
  <2> QED BY <1>1, <1>5, <2>1, <2>2 DEF EventsAreDue
<1>11. EventsInOrder'
  <2> SUFFICES ASSUME NEW k \in DOMAIN chan', NEW l \in DOMAIN chan',
                      k < l, chan'[k].row = chan'[l].row
               PROVE  /\ chan'[k].kind = "delta"
                      /\ chan'[l].kind = "delta" => chan'[k].n < chan'[l].n
    BY DEF EventsInOrder
  <2>1. k \in DOMAIN chan
    <3>1. DOMAIN chan' = 1..last /\ last \in Nat
      BY <1>2, <1>5 DEF last
    <3> QED BY <1>5, <3>1
  <2>2. CASE l \in DOMAIN chan
    BY <1>5, <2>1, <2>2 DEF PumpInv, EventsInOrder
  <2>3. CASE l = last
    <3>1. chan[k].row = i /\ chan'[k] = chan[k]
      BY <1>4, <1>5, <2>1, <2>3
    <3>2. chan[k].kind = "delta"
      BY <1>6, <2>1, <3>1, ChannelTyped DEF PumpInv, EventsAreDue, Terminal
    <3>3. chan[k].n <= given[i] /\ chan[k].n \in Nat
      BY <2>1, <3>1, <3>2, ChannelTyped DEF PumpInv, EventsAreDue
    <3> QED BY <1>2, <1>4, <1>5, <2>3, <3>1, <3>2, <3>3
  <2> QED BY <1>5, <2>2, <2>3
<1>12. NothingMissing'
  <2> SUFFICES ASSUME NEW j \in Active, NEW n \in Len(acc[j]) + 1 .. given'[j]
               PROVE  \E k \in DOMAIN chan' : IsDelta(k, j, n)'
    BY <1>1 DEF NothingMissing
  <2>1. j \in RowNums
    BY RowsAreNumbers DEF PumpInv
  <2>2. CASE n \in Len(acc[j]) + 1 .. given[j]
    <3>1. PICK k \in DOMAIN chan : IsDelta(k, j, n)
      BY <1>1, <2>2 DEF PumpInv, NothingMissing
    <3> QED BY <1>5, <3>1 DEF IsDelta
  <2>3. CASE n \notin Len(acc[j]) + 1 .. given[j]
    <3>1. j = i /\ n = given[i] + 1
      BY <1>2, <1>3, <2>1, <2>3
    <3> QED BY <1>4, <1>5, <3>1 DEF IsDelta
  <2> QED BY <2>2, <2>3
<1>13. EndsAreKept'
  <2>1. \A j \in Active : (\E k \in DOMAIN chan : IsEnd(k, j)) => \E k \in DOMAIN chan' : IsEnd(k, j)'
    BY <1>5 DEF IsEnd
  <2> QED BY <1>1, <2>1 DEF PumpInv, EndsAreKept
<1> QED BY <1>7, <1>8, <1>9, <1>10, <1>11, <1>12, <1>13 DEF PumpInv

LEMMA SendEndKeeps ==
    ASSUME PumpInv, NEW i \in RowNums, SendEnd(i)
    PROVE  PumpInv'
<1> DEFINE last == Len(chan) + 1
<1>1. /\ RowNums' = RowNums /\ Active' = Active
      /\ UNCHANGED <<column, given, pump, acc, finished, notice>>
      /\ pump = "pumping" /\ i \in Active /\ stream[i] = "open" /\ Len(chan) < Capacity
  BY SameRows DEF SendEnd, CanSend
<1>2. /\ i \in Nat /\ Len(chan) \in Nat /\ Active \subseteq RowNums
      /\ stream \in [RowNums -> {"queued", "open", "ended"}]
      /\ verdict \in [RowNums -> {"none"} \cup Terminal]
  BY RowsAreNumbers, ChannelTyped DEF PumpInv, TypeOK
<1>3. PICK kind \in Terminal : verdict' = [verdict EXCEPT ![i] = kind] /\ chan' = Append(chan, End(i, kind))
  BY DEF SendEnd
<1> DEFINE e == End(i, kind)
<1>4. e \in Events /\ e.row = i /\ e.kind = kind
  BY <1>2 DEF End, Events
<1>5. /\ chan' \in Seq(Events) /\ Len(chan') = Len(chan) + 1
      /\ last \in DOMAIN chan' /\ chan'[last] = e
      /\ \A k \in DOMAIN chan : k \in DOMAIN chan' /\ chan'[k] = chan[k] /\ k < last
      /\ \A k \in DOMAIN chan' : k \in DOMAIN chan \/ k = last
  <2>1. TypeOK /\ chan' = Append(chan, e)
    BY <1>3 DEF PumpInv
  <2> HIDE DEF e
  <2> QED BY <1>4, <2>1, ChannelGrows
<1> HIDE DEF e, last
<1>6. /\ verdict[i] = "none" /\ ~finished[i]
      /\ \A k \in DOMAIN chan : chan[k].row = i => chan[k].kind = "delta"
  <2>1. verdict[i] = "none"
    BY <1>1 DEF PumpInv, EndsAreKept
  <2>2. ~finished[i]
    BY <2>1 DEF PumpInv, FinishedIsWhole
  <2>3. \A k \in DOMAIN chan : chan[k].row = i => chan[k].kind = "delta"
    BY <2>1, ChannelTyped DEF PumpInv, EventsAreDue, Terminal
  <2> QED BY <2>1, <2>2, <2>3
<1>7. /\ kind # "none" /\ kind # "delta"
      /\ \A j \in RowNums : verdict'[j] = (IF j = i THEN kind ELSE verdict[j])
      /\ \A j \in RowNums : stream'[j] = (IF j = i THEN "ended" ELSE stream[j])
  BY <1>2, <1>3 DEF SendEnd, Terminal
<1>8. TypeOK'
  <2>1. Len(chan) + 1 <= Capacity
    BY <1>1, <1>2, StreamPumpAssumption
  <2>2. verdict' \in [RowNums -> {"none"} \cup Terminal]
    BY <1>2, <1>3
  <2>3. stream' \in [RowNums -> {"queued", "open", "ended"}]
    BY <1>2 DEF SendEnd
  <2> QED BY <1>1, <1>5, <2>1, <2>2, <2>3 DEF PumpInv, TypeOK
<1>9. (TextIsPrefix /\ NoSilentLoss /\ BadIsNoticed)'
  BY <1>1 DEF PumpInv, TextIsPrefix, NoSilentLoss, BadIsNoticed
<1>10. FinishedIsWhole'
  BY <1>1, <1>6, <1>7 DEF PumpInv, FinishedIsWhole
<1>11. EventsAreDue'
  <2>1. ASSUME NEW k \in DOMAIN chan
        PROVE  /\ chan'[k].row \in Active
               /\ chan'[k].kind = "delta" => /\ Len(acc[chan'[k].row]) < chan'[k].n
                                              /\ chan'[k].n <= given[chan'[k].row]
               /\ chan'[k].kind \in Terminal => verdict'[chan'[k].row] = chan'[k].kind
    <3>1. chan'[k] = chan[k] /\ chan[k].row \in RowNums
      BY <1>2, <1>5 DEF PumpInv, EventsAreDue
    <3>2. chan[k].kind \in Terminal => verdict'[chan[k].row] = chan[k].kind
      BY <1>6, <1>7, <3>1 DEF PumpInv, EventsAreDue, Terminal
    <3> QED BY <3>1, <3>2 DEF PumpInv, EventsAreDue
  <2>2. chan'[last].row = i /\ chan'[last].kind = kind /\ verdict'[i] = kind
    BY <1>4, <1>5, <1>7
  <2> QED BY <1>1, <1>5, <1>7, <2>1, <2>2 DEF EventsAreDue
<1>12. EventsInOrder'
  <2> SUFFICES ASSUME NEW k \in DOMAIN chan', NEW l \in DOMAIN chan',
                      k < l, chan'[k].row = chan'[l].row
               PROVE  /\ chan'[k].kind = "delta"
                      /\ chan'[l].kind = "delta" => chan'[k].n < chan'[l].n
    BY DEF EventsInOrder
  <2>1. k \in DOMAIN chan
    <3>1. DOMAIN chan' = 1..last /\ last \in Nat
      BY <1>2, <1>5 DEF last
    <3> QED BY <1>5, <3>1
  <2>2. CASE l \in DOMAIN chan
    BY <1>5, <2>1, <2>2 DEF PumpInv, EventsInOrder
  <2>3. CASE l = last
    BY <1>4, <1>5, <1>6, <1>7, <2>1, <2>3
  <2> QED BY <1>5, <2>2, <2>3
<1>13. NothingMissing'
  <2>1. \A j \in Active : \A n \in Len(acc[j]) + 1 .. given[j] :
           \E k \in DOMAIN chan : IsDelta(k, j, n)
    BY <1>1 DEF PumpInv, NothingMissing
  <2>2. \A k \in DOMAIN chan : \A j, n : IsDelta(k, j, n) => IsDelta(k, j, n)'
    BY <1>5 DEF IsDelta
  <2>3. DOMAIN chan \subseteq DOMAIN chan'
    BY <1>5
  <2> QED BY <1>1, <2>1, <2>2, <2>3 DEF NothingMissing
<1>14. EndsAreKept'
  <2>1. \A j \in Active : (\E k \in DOMAIN chan : IsEnd(k, j)) => \E k \in DOMAIN chan' : IsEnd(k, j)'
    BY <1>5 DEF IsEnd
  <2>2. \E k \in DOMAIN chan' : IsEnd(k, i)'
    BY <1>4, <1>5 DEF IsEnd
  <2>3. \A j \in RowNums : verdict'[j] # "none" <=> stream'[j] = "ended"
    BY <1>7 DEF PumpInv, EndsAreKept
  <2>4. \A j \in Active :
           verdict'[j] # "none" =>
               finished[j] \/ notice # "none" \/ (\E k \in DOMAIN chan' : IsEnd(k, j)')
    <3> SUFFICES ASSUME NEW j \in Active, verdict'[j] # "none"
                 PROVE  finished[j] \/ notice # "none" \/ (\E k \in DOMAIN chan' : IsEnd(k, j)')
      OBVIOUS
    <3>1. CASE j = i
      BY <2>2, <3>1
    <3>2. CASE j # i
      BY <1>1, <1>2, <1>7, <2>1, <3>2 DEF PumpInv, EndsAreKept
    <3> QED BY <3>1, <3>2
  <2> QED BY <1>1, <2>3, <2>4 DEF EndsAreKept
<1> QED BY <1>8, <1>9, <1>10, <1>11, <1>12, <1>13, <1>14 DEF PumpInv

\* A step that takes the first event off the channel and leaves the streams
\* alone keeps what the invariant says of the other events.
Receive(e) ==
    /\ Ready(e) /\ chan' = Tail(chan)
    /\ UNCHANGED <<column, stream, given, verdict, pump>>

LEMMA ReceiveKeeps ==
    ASSUME PumpInv, NEW kind, Receive(kind),
           \A j \in RowNums : acc'[j] = acc[j] \/
               (kind = "delta" /\ j = Head(chan).row /\ Len(acc'[j]) = Len(acc[j]) + 1)
    PROVE  /\ chan' \in Seq(Events) /\ Len(chan') <= Capacity
           /\ EventsAreDue' /\ EventsInOrder'
           /\ \A j \in RowNums :
                 (\E k \in DOMAIN chan : IsEnd(k, j)) =>
                     \/ kind \in Terminal /\ j = Head(chan).row
                     \/ \E k \in DOMAIN chan' : IsEnd(k, j)'
<1>1. /\ RowNums' = RowNums /\ Active' = Active
      /\ UNCHANGED <<given, verdict, pump>>
      /\ pump = "pumping" /\ chan # <<>> /\ Head(chan).kind = kind
      /\ chan' = Tail(chan) /\ TypeOK
  BY SameRows DEF Receive, Ready, PumpInv
<1>2. /\ chan' \in Seq(Events) /\ Len(chan') = Len(chan) - 1
      /\ 1 \in DOMAIN chan /\ Head(chan) = chan[1]
      /\ \A k \in DOMAIN chan' : k \in Nat /\ k + 1 \in DOMAIN chan /\ chan'[k] = chan[k + 1] /\ 1 < k + 1
      /\ \A k \in DOMAIN chan : k = 1 \/ (k - 1 \in DOMAIN chan' /\ chan'[k - 1] = chan[k])
  BY <1>1, ChannelShrinks
<1>3. Active \subseteq RowNums
  BY <1>1, RowsAreNumbers
<1>4. Len(chan') <= Capacity
  <2>1. Len(chan) <= Capacity /\ Len(chan) \in Nat /\ Capacity \in Nat
    BY <1>1, ChannelTyped, StreamPumpAssumption DEF TypeOK
  <2> QED BY <1>2, <2>1
<1>5. EventsAreDue'
  <2> SUFFICES ASSUME NEW k \in DOMAIN chan'
               PROVE  /\ chan'[k].row \in Active
                      /\ chan'[k].kind = "delta" => /\ Len(acc'[chan'[k].row]) < chan'[k].n
                                                     /\ chan'[k].n <= given[chan'[k].row]
                      /\ chan'[k].kind \in Terminal => verdict[chan'[k].row] = chan'[k].kind
    BY <1>1 DEF EventsAreDue
  <2> DEFINE i == chan[k + 1].row
  <2>1. /\ k + 1 \in DOMAIN chan /\ chan'[k] = chan[k + 1] /\ 1 < k + 1
        /\ i \in Active /\ i \in RowNums
    BY <1>2, <1>3 DEF PumpInv, EventsAreDue
  <2>2. CASE acc'[i] = acc[i]
    BY <2>1, <2>2 DEF PumpInv, EventsAreDue
  <2>3. CASE acc'[i] # acc[i]
    <3>1. kind = "delta" /\ i = chan[1].row /\ Len(acc'[i]) = Len(acc[i]) + 1
      BY <1>2, <2>1, <2>3
    <3>2. chan[k + 1].kind = "delta" => chan[1].n < chan[k + 1].n
      BY <1>2, <2>1, <3>1 DEF PumpInv, EventsInOrder
    <3>3. chan[1].n = Len(acc[i]) + 1
      BY <1>1, <1>2, <3>1, HeadIsNext DEF Receive
    <3> QED BY <2>1, <3>1, <3>2, <3>3 DEF PumpInv, EventsAreDue
  <2> QED BY <2>2, <2>3
<1>6. EventsInOrder'
  <2> SUFFICES ASSUME NEW k \in DOMAIN chan', NEW l \in DOMAIN chan',
                      k < l, chan'[k].row = chan'[l].row
               PROVE  /\ chan'[k].kind = "delta"
                      /\ chan'[l].kind = "delta" => chan'[k].n < chan'[l].n
    BY DEF EventsInOrder
  <2>1. /\ k + 1 \in DOMAIN chan /\ chan'[k] = chan[k + 1]
        /\ l + 1 \in DOMAIN chan /\ chan'[l] = chan[l + 1]
        /\ k + 1 < l + 1
    BY <1>2
  <2> QED BY <2>1 DEF PumpInv, EventsInOrder
<1>7. ASSUME NEW j \in RowNums, NEW k \in DOMAIN chan, IsEnd(k, j)
      PROVE  \/ kind \in Terminal /\ j = Head(chan).row
             \/ \E m \in DOMAIN chan' : IsEnd(m, j)'
  <2>1. CASE k = 1
    BY <1>1, <1>2, <1>7, <2>1 DEF IsEnd
  <2>2. CASE k # 1
    <3>1. k - 1 \in DOMAIN chan' /\ chan'[k - 1] = chan[k]
      BY <1>2, <2>2
    <3>2. IsEnd(k, j) => (chan'[k - 1].row = j /\ chan'[k - 1].kind \in Terminal)
      BY <3>1 DEF IsEnd
    <3> QED BY <1>7, <3>1, <3>2 DEF IsEnd
  <2> QED BY <2>1, <2>2
<1> QED BY <1>2, <1>4, <1>5, <1>6, <1>7

\* Appending the next number keeps a text of the form 1, 2, 3...
LEMMA GrowKeeps ==
    ASSUME PumpInv, Ready("delta"), Grow(Head(chan)), UNCHANGED <<column, given, verdict, finished>>
    PROVE  /\ acc' \in [RowNums -> Seq(Nat)]
           /\ TextIsPrefix' /\ FinishedIsWhole'
           /\ \A j \in RowNums :
                 IF j = Head(chan).row THEN Len(acc'[j]) = Len(acc[j]) + 1 ELSE acc'[j] = acc[j]
<1> DEFINE i == Head(chan).row
           n == Head(chan).n
<1>1. i \in Active /\ n = Len(acc[i]) + 1 /\ Len(acc[i]) < given[i] /\ ~finished[i]
  BY HeadIsNext
<1>2. RowNums' = RowNums /\ i \in RowNums /\ Len(acc[i]) \in Nat /\ given[i] \in Nat
  BY <1>1, SameRows, RowsAreNumbers, ChannelTyped DEF PumpInv
<1>3. acc' = [acc EXCEPT ![i] = Append(@, n)] /\ acc \in [RowNums -> Seq(Nat)] /\ n \in Nat
  <2>1. acc' = [acc EXCEPT ![i] = Append(@, n)]
    BY DEF Grow
  <2>2. acc \in [RowNums -> Seq(Nat)]
    BY DEF PumpInv, TypeOK
  <2>3. n \in Nat
    BY <1>1, <1>2
  <2> QED BY <2>1, <2>2, <2>3
<1> HIDE DEF i, n
<1>4. /\ acc'[i] = Append(acc[i], n) /\ acc[i] \in Seq(Nat) /\ Append(acc[i], n) \in Seq(Nat)
      /\ \A j \in RowNums : j # i => acc'[j] = acc[j]
      /\ acc' \in [RowNums -> Seq(Nat)]
  <2>1. acc[i] \in Seq(Nat)
    BY <1>2, <1>3
  <2>2. Append(acc[i], n) \in Seq(Nat)
    BY <1>3, <2>1
  <2> QED BY <1>2, <1>3, <2>1, <2>2
<1>5. /\ Len(acc'[i]) = Len(acc[i]) + 1
      /\ acc'[i] = [m \in 1..Len(acc'[i]) |-> m]
  <2>1. acc[i] = [m \in 1..Len(acc[i]) |-> m]
    BY <1>2 DEF PumpInv, TextIsPrefix
  <2>2. \A m \in 1..Len(acc[i]) : acc[i][m] = m
    BY <2>1
  <2>3. /\ Len(acc'[i]) = Len(acc[i]) + 1
        /\ \A m \in 1..Len(acc[i]) : acc'[i][m] = acc[i][m]
        /\ acc'[i][Len(acc[i]) + 1] = n
    BY <1>3, <1>4, AppendFacts
  <2>4. \A m \in 1..(Len(acc[i]) + 1) : acc'[i][m] = m
    BY <1>1, <1>2, <2>2, <2>3
  <2>5. acc'[i] \in Seq(Nat)
    BY <1>4
  <2>6. acc'[i] = [m \in 1..Len(acc'[i]) |-> acc'[i][m]]
    BY <2>5
  <2> QED BY <2>3, <2>4, <2>6
<1>6. TextIsPrefix'
  <2>1. Len(acc'[i]) <= given[i]
    BY <1>1, <1>2, <1>5
  <2>2. ASSUME NEW j \in RowNums
        PROVE  acc'[j] = [m \in 1..Len(acc'[j]) |-> m] /\ Len(acc'[j]) <= given[j]
    <3>1. CASE j = i
      BY <1>5, <2>1, <3>1
    <3>2. CASE j # i
      BY <1>4, <3>2 DEF PumpInv, TextIsPrefix
    <3> QED BY <3>1, <3>2
  <2> QED BY <1>2, <2>2 DEF TextIsPrefix
<1>7. FinishedIsWhole'
  BY <1>1, <1>2, <1>4 DEF PumpInv, FinishedIsWhole
<1> QED BY <1>4, <1>5, <1>6, <1>7 DEF i

\* The end of a row takes no text with it.
LEMMA NothingLostWithAnEnd ==
    ASSUME PumpInv, NEW kind \in Terminal, Receive(kind), UNCHANGED acc
    PROVE  NothingMissing'
<1>1. Active' = Active /\ pump = "pumping" /\ UNCHANGED <<given, pump>>
  BY SameRows DEF Receive, Ready
<1>2. /\ Head(chan) = chan[1] /\ chan[1].kind # "delta"
      /\ \A k \in DOMAIN chan : k = 1 \/ (k - 1 \in DOMAIN chan' /\ chan'[k - 1] = chan[k])
  BY ChannelShrinks DEF Receive, Ready, PumpInv, Terminal
<1> SUFFICES ASSUME NEW j \in Active, NEW n \in Len(acc[j]) + 1 .. given[j]
             PROVE  \E k \in DOMAIN chan' : IsDelta(k, j, n)'
  BY <1>1 DEF NothingMissing
<1>3. PICK k \in DOMAIN chan : IsDelta(k, j, n)
  BY <1>1 DEF PumpInv, NothingMissing
<1>4. k - 1 \in DOMAIN chan' /\ chan'[k - 1] = chan[k]
  BY <1>2, <1>3 DEF IsDelta
<1> QED BY <1>3, <1>4 DEF IsDelta

LEMMA TakeDeltaKeeps ==
    ASSUME PumpInv, TakeDelta
    PROVE  PumpInv'
<1> DEFINE i == Head(chan).row
<1>1. /\ RowNums' = RowNums /\ Active' = Active
      /\ UNCHANGED <<column, stream, given, verdict, pump, finished, notice>>
      /\ pump = "pumping" /\ Ready("delta") /\ Receive("delta")
      /\ Active \subseteq RowNums
  BY SameRows, RowsAreNumbers DEF TakeDelta, Ready, Receive, PumpInv
<1>2. /\ acc' \in [RowNums -> Seq(Nat)]
      /\ TextIsPrefix' /\ FinishedIsWhole'
      /\ \A j \in RowNums :
            IF j = i THEN Len(acc'[j]) = Len(acc[j]) + 1 ELSE acc'[j] = acc[j]
  BY <1>1, GrowKeeps DEF TakeDelta
<1>3. /\ chan' \in Seq(Events) /\ Len(chan') <= Capacity
      /\ EventsAreDue' /\ EventsInOrder'
      /\ \A j \in RowNums :
            (\E k \in DOMAIN chan : IsEnd(k, j)) => \E k \in DOMAIN chan' : IsEnd(k, j)'
  BY <1>1, <1>2, ReceiveKeeps DEF Terminal
<1>4. TypeOK'
  BY <1>1, <1>2, <1>3 DEF PumpInv, TypeOK
<1>5. (NoSilentLoss /\ BadIsNoticed)'
  BY <1>1 DEF PumpInv, NoSilentLoss, BadIsNoticed
<1>6. NothingMissing'
  <2> SUFFICES ASSUME NEW j \in Active, NEW n \in Len(acc'[j]) + 1 .. given[j]
               PROVE  \E k \in DOMAIN chan' : IsDelta(k, j, n)'
    BY <1>1 DEF NothingMissing
  <2>1. j \in RowNums /\ Len(acc[j]) \in Nat /\ given[j] \in Nat
    BY <1>1, ChannelTyped DEF PumpInv
  <2>2. n \in Len(acc[j]) + 1 .. given[j] /\ (j = i => n # Len(acc[j]) + 1)
    BY <1>2, <2>1
  <2>3. PICK k \in DOMAIN chan : IsDelta(k, j, n)
    BY <1>1, <2>2 DEF PumpInv, NothingMissing
  <2>4. /\ Head(chan) = chan[1]
        /\ \A m \in DOMAIN chan : m = 1 \/ (m - 1 \in DOMAIN chan' /\ chan'[m - 1] = chan[m])
    BY <1>1, ChannelShrinks DEF Receive, Ready, PumpInv
  <2>5. k # 1
    BY <1>1, <2>2, <2>3, <2>4, HeadIsNext DEF IsDelta
  <2>6. k - 1 \in DOMAIN chan' /\ chan'[k - 1] = chan[k]
    BY <2>4, <2>5
  <2> QED BY <2>3, <2>6 DEF IsDelta
<1>7. EndsAreKept'
  BY <1>1, <1>3 DEF PumpInv, EndsAreKept
<1> QED BY <1>2, <1>3, <1>4, <1>5, <1>6, <1>7 DEF PumpInv

LEMMA TakeDoneKeeps ==
    ASSUME PumpInv, TakeDone
    PROVE  PumpInv'
<1> DEFINE i == Head(chan).row
<1>1. /\ RowNums' = RowNums /\ Active' = Active
      /\ UNCHANGED <<column, stream, given, verdict, pump, acc, notice>>
      /\ pump = "pumping" /\ Ready("done") /\ Receive("done")
      /\ Active \subseteq RowNums
  BY SameRows, RowsAreNumbers DEF TakeDone, Ready, Receive, PumpInv
<1>2. i \in Active /\ verdict[i] = "done" /\ Len(acc[i]) = given[i]
  BY <1>1, HeadEndsRow DEF Terminal
<1>3. /\ chan' \in Seq(Events) /\ Len(chan') <= Capacity
      /\ EventsAreDue' /\ EventsInOrder'
      /\ \A j \in RowNums :
            (\E k \in DOMAIN chan : IsEnd(k, j)) => j = i \/ \E k \in DOMAIN chan' : IsEnd(k, j)'
  BY <1>1, ReceiveKeeps DEF Terminal
<1>4. /\ finished' \in [RowNums -> BOOLEAN]
      /\ \A j \in RowNums : finished'[j] = (IF j = i THEN TRUE ELSE finished[j])
  <2>1. finished \in [RowNums -> BOOLEAN]
    BY DEF PumpInv, TypeOK
  <2> QED BY <2>1 DEF TakeDone
<1>5. TypeOK'
  BY <1>1, <1>3, <1>4 DEF PumpInv, TypeOK
<1>6. (TextIsPrefix /\ NoSilentLoss /\ BadIsNoticed)'
  BY <1>1 DEF PumpInv, TextIsPrefix, NoSilentLoss, BadIsNoticed
<1>7. FinishedIsWhole'
  BY <1>1, <1>2, <1>4 DEF PumpInv, FinishedIsWhole
<1>8. NothingMissing'
  BY <1>1, NothingLostWithAnEnd DEF Terminal
<1>9. EndsAreKept'
  BY <1>1, <1>3, <1>4 DEF PumpInv, EndsAreKept
<1> QED BY <1>3, <1>5, <1>6, <1>7, <1>8, <1>9 DEF PumpInv

LEMMA TakeErrorKeeps ==
    ASSUME PumpInv, TakeError
    PROVE  PumpInv'
<1> DEFINE i == Head(chan).row
<1>1. /\ RowNums' = RowNums /\ Active' = Active
      /\ UNCHANGED <<column, stream, given, verdict, pump, acc, finished>>
      /\ pump = "pumping" /\ Ready("error") /\ Receive("error")
      /\ notice' # "none"
      /\ Active \subseteq RowNums
  BY SameRows, RowsAreNumbers DEF TakeError, Ready, Receive, PumpInv
<1>2. /\ chan' \in Seq(Events) /\ Len(chan') <= Capacity
      /\ EventsAreDue' /\ EventsInOrder'
  BY <1>1, ReceiveKeeps
<1>3. TypeOK'
  BY <1>1, <1>2 DEF PumpInv, TypeOK, TakeError
<1>4. (TextIsPrefix /\ FinishedIsWhole /\ NoSilentLoss /\ BadIsNoticed)'
  BY <1>1 DEF PumpInv, TextIsPrefix, FinishedIsWhole, NoSilentLoss, BadIsNoticed
<1>5. NothingMissing'
  BY <1>1, NothingLostWithAnEnd DEF Terminal
<1>6. EndsAreKept'
  BY <1>1 DEF PumpInv, EndsAreKept
<1> QED BY <1>2, <1>3, <1>4, <1>5, <1>6 DEF PumpInv

\* Once the pump has returned nothing is promised of the channel.
LEMMA StopKeeps ==
    ASSUME PumpInv, NEW reason \in {"interrupted", "callback"}, Stop(reason),
           acc' \in [RowNums -> Seq(Nat)], TextIsPrefix', FinishedIsWhole'
    PROVE  PumpInv'
<1>1. /\ RowNums' = RowNums /\ Active' = Active
      /\ UNCHANGED <<column, stream, given, verdict, finished>>
      /\ notice' = reason /\ pump' = "returned" /\ chan' = <<>>
  BY SameRows DEF Stop
<1>2. chan' \in Seq(Events) /\ Len(chan') = 0 /\ DOMAIN chan' = {} /\ Len(chan') <= Capacity
  BY <1>1, StreamPumpAssumption
<1>3. TypeOK'
  BY <1>1, <1>2 DEF PumpInv, TypeOK
<1>4. (EventsAreDue /\ EventsInOrder)'
  BY <1>2 DEF EventsAreDue, EventsInOrder
<1>5. (NoSilentLoss /\ BadIsNoticed /\ NothingMissing)'
  BY <1>1 DEF NoSilentLoss, BadIsNoticed, NothingMissing
<1>6. EndsAreKept'
  BY <1>1 DEF PumpInv, EndsAreKept
<1> QED BY <1>3, <1>4, <1>5, <1>6 DEF PumpInv

LEMMA ClosedKeeps ==
    ASSUME PumpInv, Closed
    PROVE  PumpInv'
<1>1. /\ RowNums' = RowNums /\ Active' = Active
      /\ UNCHANGED <<column, stream, given, verdict, chan, acc, finished, notice>>
      /\ pump = "pumping" /\ pump' = "returned" /\ DOMAIN chan = {}
      /\ \A i \in Active : stream[i] = "ended"
      /\ Active \subseteq RowNums
  BY SameRows, RowsAreNumbers DEF Closed, PumpInv
<1>2. TypeOK'
  BY <1>1 DEF PumpInv, TypeOK
<1>3. (TextIsPrefix /\ FinishedIsWhole /\ EventsAreDue /\ EventsInOrder /\ BadIsNoticed)'
  BY <1>1 DEF PumpInv, TextIsPrefix, FinishedIsWhole, EventsAreDue, EventsInOrder, BadIsNoticed
<1>4. NoSilentLoss'
  <2>1. \A i \in Active : finished[i] \/ notice # "none"
    BY <1>1 DEF PumpInv, EndsAreKept
  <2>2. notice = "none" => \A i \in RowNums : column[i] = "null" \/ i \in Active
    BY RowsAreNumbers DEF PumpInv, BadIsNoticed, RowKinds, Active
  <2> QED BY <1>1, <2>1, <2>2 DEF NoSilentLoss
<1>5. (NothingMissing /\ EndsAreKept)'
  BY <1>1 DEF PumpInv, NothingMissing, EndsAreKept
<1> QED BY <1>2, <1>3, <1>4, <1>5 DEF PumpInv

LEMMA StepKeeps == PumpInv /\ [Next]_vars => PumpInv'
<1> SUFFICES ASSUME PumpInv, [Next]_vars
             PROVE  PumpInv'
  OBVIOUS
<1>1. ASSUME NEW i \in RowNums, RowStep(i)
      PROVE  PumpInv'
  BY <1>1, OpenKeeps, SendDeltaKeeps, SendEndKeeps DEF RowStep
<1>2. CASE PumpStep
  BY <1>2, TakeDeltaKeeps, TakeDoneKeeps, TakeErrorKeeps, ClosedKeeps DEF PumpStep
<1>3. CASE CallbackRaises
  <2>1. /\ Ready("delta") /\ Grow(Head(chan)) /\ Stop("callback")
        /\ UNCHANGED <<column, given, verdict, finished>>
    BY <1>3 DEF CallbackRaises, Stop
  <2> QED BY <2>1, GrowKeeps, StopKeeps
<1>4. CASE Interrupt
  <2>1. /\ Stop("interrupted") /\ RowNums' = RowNums
        /\ UNCHANGED <<column, given, verdict, finished, acc>>
    BY <1>4, SameRows DEF Interrupt, Stop
  <2>2. acc' \in [RowNums -> Seq(Nat)] /\ TextIsPrefix' /\ FinishedIsWhole'
    BY <2>1 DEF PumpInv, TypeOK, TextIsPrefix, FinishedIsWhole
  <2> QED BY <2>1, <2>2, StopKeeps
<1>5. CASE UNCHANGED vars
  <2>1. RowNums' = RowNums /\ Active' = Active
    BY <1>5, SameRows DEF vars
  <2>2. TypeOK'
    BY <1>5, <2>1 DEF vars, PumpInv, TypeOK
  <2>3. (TextIsPrefix /\ FinishedIsWhole /\ NoSilentLoss /\ BadIsNoticed)'
    BY <1>5, <2>1 DEF vars, PumpInv, TextIsPrefix, FinishedIsWhole, NoSilentLoss, BadIsNoticed
  <2>4. (EventsAreDue /\ EventsInOrder /\ NothingMissing /\ EndsAreKept)'
    BY <1>5, <2>1 DEF vars, PumpInv, EventsAreDue, EventsInOrder, NothingMissing, EndsAreKept,
                      IsDelta, IsEnd
  <2> QED BY <2>2, <2>3, <2>4 DEF PumpInv
<1> QED BY <1>1, <1>2, <1>3, <1>4, <1>5 DEF Next
-----------------------------------------------------------------------------
(***************************************************************************)
(* The theorems                                                            *)
(***************************************************************************)
LEMMA PumpInvariant == Spec => []PumpInv
BY InitInv, StepKeeps, PTL DEF Spec

\* A channel of any capacity never holds more than it may, and every event
\* and row is what its readers take it for.
THEOREM PumpTyped == Spec => []TypeOK
<1>1. PumpInv => TypeOK
  BY DEF PumpInv
<1> QED BY <1>1, PumpInvariant, PTL

\* For any number of rows, any window and capacity, and wherever the pump
\* stops: a row's text is a prefix of what its provider sent.
THEOREM TextStaysPrefix == Spec => []TextIsPrefix
<1>1. PumpInv => TextIsPrefix
  BY DEF PumpInv
<1> QED BY <1>1, PumpInvariant, PTL

\* A row that is marked finished has all of its text.
THEOREM FinishedStaysWhole == Spec => []FinishedIsWhole
<1>1. PumpInv => FinishedIsWhole
  BY DEF PumpInv
<1> QED BY <1>1, PumpInvariant, PTL

\* No row comes back unfinished without a warning.
THEOREM LossIsNeverSilent == Spec => []NoSilentLoss
<1>1. PumpInv => NoSilentLoss
  BY DEF PumpInv
<1> QED BY <1>1, PumpInvariant, PTL
=============================================================================
