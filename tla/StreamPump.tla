----------------------------- MODULE StreamPump -----------------------------
(***************************************************************************)
(* inference_stream: src/stream_pyfn.rs (the pump on the calling thread)   *)
(* and stream_batch of src/model_client/streaming.rs (the task that drives *)
(* one event stream per row and feeds a bounded channel).                  *)
(*                                                                         *)
(* A provider's text deltas are numbered from 1 in each row; a row's text  *)
(* is the sequence of deltas the pump appended to it.                      *)
(***************************************************************************)
EXTENDS Naturals, Sequences, FiniteSets

CONSTANTS
    Columns,         \* input columns: sequences of "null", "bad" and "ok" rows
    Capacity,        \* of the channel (256 in the code)
    MaxConcurrency,  \* rows in flight (POLAR_LLAMA_MAX_CONCURRENCY)
    MaxDeltas        \* bound: text deltas a provider sends for one row

RowKinds == {"null", "bad", "ok"}

ASSUME StreamPumpAssumption ==
    /\ Columns \subseteq Seq(RowKinds)
    /\ Capacity \in Nat \ {0}
    /\ MaxConcurrency \in Nat \ {0}
    /\ MaxDeltas \in Nat

VARIABLES
    column,    \* the input column
    stream,    \* stream[i]: the provider stream of row i
    given,     \* history: given[i] deltas of row i were put on the channel
    verdict,   \* history: how the stream of row i ended
    chan,      \* the channel, oldest event first
    pump,      \* "pumping" or "returned"
    acc,       \* acc[i]: the text of row i
    finished,  \* finished[i]
    notice     \* the reason the warning will give, if any

vars == <<column, stream, given, verdict, chan, pump, acc, finished, notice>>

RowNums == DOMAIN column
Active == {i \in RowNums : column[i] = "ok"}

Delta(i, n) == [row |-> i, kind |-> "delta", n |-> n]
End(i, kind) == [row |-> i, kind |-> kind, n |-> 0]
Terminal == {"done", "error"}
Events == [row : Nat, kind : {"delta"} \cup Terminal, n : Nat]

TypeOK ==
    /\ column \in Columns
    /\ stream \in [RowNums -> {"queued", "open", "ended"}]
    /\ given \in [RowNums -> Nat]
    /\ verdict \in [RowNums -> {"none"} \cup Terminal]
    /\ chan \in Seq(Events) /\ Len(chan) <= Capacity
    /\ pump \in {"pumping", "returned"}
    /\ acc \in [RowNums -> Seq(Nat)]
    /\ finished \in [RowNums -> BOOLEAN]
    /\ notice \in {"none", "parse", "stream error", "interrupted", "callback"}

\* A message row that does not parse is settled before anything is sent.
Init ==
    /\ column \in Columns
    /\ stream = [i \in RowNums |-> "queued"]
    /\ given = [i \in RowNums |-> 0]
    /\ verdict = [i \in RowNums |-> "none"]
    /\ chan = <<>>
    /\ pump = "pumping"
    /\ acc = [i \in RowNums |-> <<>>]
    /\ finished = [i \in RowNums |-> FALSE]
    /\ notice = IF \E i \in RowNums : column[i] = "bad" THEN "parse" ELSE "none"
-----------------------------------------------------------------------------
(***************************************************************************)
(* stream_batch                                                            *)
(***************************************************************************)
Before(i) == {j \in Active : j < i}

\* `buffered(max_concurrency)`: rows start in order, and a row that is done
\* keeps its slot until every row before it is done too.
Open(i) ==
    /\ pump = "pumping"
    /\ i \in Active /\ stream[i] = "queued"
    /\ \A j \in Before(i) :
          /\ stream[j] # "queued"
          /\ Cardinality(Before(i) \ Before(j)) >= MaxConcurrency => stream[j] = "ended"
    /\ stream' = [stream EXCEPT ![i] = "open"]
    /\ UNCHANGED <<column, given, verdict, chan, pump, acc, finished, notice>>

\* `tx.send(..).await` waits while the channel is full.
CanSend(i) ==
    /\ pump = "pumping"
    /\ i \in Active /\ stream[i] = "open"
    /\ Len(chan) < Capacity

SendDelta(i) ==
    /\ CanSend(i)
    /\ given[i] < MaxDeltas
    /\ given' = [given EXCEPT ![i] = @ + 1]
    /\ chan' = Append(chan, Delta(i, given[i] + 1))
    /\ UNCHANGED <<column, stream, verdict, pump, acc, finished, notice>>

\* The completion marker, or an error: a failed request, an error frame, a
\* transport error, a read timeout, or the end without a marker.
SendEnd(i) ==
    /\ CanSend(i)
    /\ \E kind \in Terminal :
          /\ verdict' = [verdict EXCEPT ![i] = kind]
          /\ chan' = Append(chan, End(i, kind))
    /\ stream' = [stream EXCEPT ![i] = "ended"]
    /\ UNCHANGED <<column, given, pump, acc, finished, notice>>
-----------------------------------------------------------------------------
(***************************************************************************)
(* The pump                                                                *)
(***************************************************************************)
Ready(kind) == pump = "pumping" /\ chan # <<>> /\ Head(chan).kind = kind

\* handle.abort, break and drop(rx): what is in the channel is lost, and no
\* stream goes any further.
Stop(reason) ==
    /\ notice' = reason
    /\ pump' = "returned"
    /\ chan' = <<>>
    /\ UNCHANGED <<column, stream, given, verdict, finished>>

\* Mutant: the text goes to the row's position among the rows that were sent.
GrowByPosition(e) == acc' = [acc EXCEPT ![Cardinality(Before(e.row)) + 1] = Append(@, e.n)]

\* The text grows before the on_token callback sees the delta.
Grow(e) == acc' = [acc EXCEPT ![e.row] = Append(@, e.n)]

TakeDelta ==
    /\ Ready("delta")
    /\ Grow(Head(chan))
    /\ chan' = Tail(chan)
    /\ UNCHANGED <<column, stream, given, verdict, pump, finished, notice>>

CallbackRaises ==
    /\ Ready("delta")
    /\ Grow(Head(chan))
    /\ Stop("callback")

TakeDone ==
    /\ Ready("done")
    /\ finished' = [finished EXCEPT ![Head(chan).row] = TRUE]
    /\ chan' = Tail(chan)
    /\ UNCHANGED <<column, stream, given, verdict, pump, acc, notice>>

\* Mutants: an error finishes the row like a completion marker, or goes
\* unreported.
TakeErrorAsDone ==
    /\ Ready("error")
    /\ finished' = [finished EXCEPT ![Head(chan).row] = TRUE]
    /\ chan' = Tail(chan)
    /\ UNCHANGED <<column, stream, given, verdict, pump, acc, notice>>
TakeErrorQuietly ==
    /\ Ready("error")
    /\ chan' = Tail(chan)
    /\ UNCHANGED <<column, stream, given, verdict, pump, acc, finished, notice>>
TakeError ==
    /\ Ready("error")
    /\ notice' = IF notice = "none" THEN "stream error" ELSE notice
    /\ chan' = Tail(chan)
    /\ UNCHANGED <<column, stream, given, verdict, pump, acc, finished>>

\* check_signals, on an event or on a 100 ms tick without one; the event the
\* pump had already received is dropped.
Interrupt ==
    /\ pump = "pumping" /\ Active # {}
    /\ Stop("interrupted")
    /\ UNCHANGED acc

\* Mutant: the pump waits for one sender per input row.
ClosedByAll ==
    /\ pump = "pumping"
    /\ chan = <<>> /\ \A i \in RowNums : stream[i] = "ended"
    /\ pump' = "returned"
    /\ UNCHANGED <<column, stream, given, verdict, chan, acc, finished, notice>>

\* Every sender is gone: the channel is closed.
Closed ==
    /\ pump = "pumping"
    /\ chan = <<>> /\ \A i \in Active : stream[i] = "ended"
    /\ pump' = "returned"
    /\ UNCHANGED <<column, stream, given, verdict, chan, acc, finished, notice>>

RowStep(i) == Open(i) \/ SendDelta(i) \/ SendEnd(i)
PumpStep == TakeDelta \/ TakeDone \/ TakeError \/ Closed

Next ==
    \/ \E i \in RowNums : RowStep(i)
    \/ PumpStep
    \/ CallbackRaises
    \/ Interrupt

Spec == Init /\ [][Next]_vars

\* The runtime polls every row that can move, a provider's stream ends
\* (read_timeout bounds its silences), and the pump loops.
FairSpec ==
    /\ Spec
    /\ WF_vars(PumpStep)
    /\ \A c \in Columns : \A i \in DOMAIN c : WF_vars(RowStep(i))
-----------------------------------------------------------------------------
(***************************************************************************)
(* Properties                                                              *)
(***************************************************************************)
\* Whatever the interleaving of the rows on the one channel, and wherever the
\* pump stops, a row's text is a prefix of what its provider sent: nothing is
\* missing in the middle, repeated, swapped or taken from another row.
TextIsPrefix ==
    \A i \in RowNums :
        /\ acc[i] = [n \in 1..Len(acc[i]) |-> n]
        /\ Len(acc[i]) <= given[i]

\* finished=true promises the whole text of a stream that ended with its
\* completion marker.
FinishedIsWhole ==
    \A i \in RowNums : finished[i] => verdict[i] = "done" /\ Len(acc[i]) = given[i]

\* No row is cut short in silence: if a row that had an input comes back
\* unfinished, the caller is warned.
NoSilentLoss ==
    pump = "returned" =>
        \/ notice # "none"
        \/ \A i \in RowNums : column[i] = "null" \/ finished[i]

\* The call returns: the full channel, the window and the pump never wait for
\* one another.
PumpReturns == <>(pump = "returned")
=============================================================================
