----------------------------- MODULE MemoStore -----------------------------
(***************************************************************************)
(* What a resumable store promises to runs that follow one another: a memo *)
(* of the keys answered so far.  Requests are bought for at most           *)
(* FlushEvery keys at a time, never for a key already answered, and their  *)
(* results enter the memo all at once or, if the run dies, not at all.     *)
(* An answer, once in the memo, is never lost or overruled by a failure.   *)
(***************************************************************************)
EXTENDS Naturals, FiniteSets

CONSTANTS Keys, FlushEvery

VARIABLES
    memo,      \* memo[k]: what the store knows of key k
    inflight   \* keys paid for whose results are not in the memo yet

Known == {"failed", "answered"}

Init ==
    /\ memo = [k \in Keys |-> "unknown"]
    /\ inflight = {}

Buy(K) ==
    /\ inflight = {}
    /\ K # {} /\ Cardinality(K) <= FlushEvery
    /\ \A k \in K : memo[k] # "answered"
    /\ inflight' = K
    /\ UNCHANGED memo

Commit ==
    /\ inflight # {}
    /\ \E known \in [inflight -> Known] :
          memo' = [k \in Keys |-> IF k \in inflight THEN known[k] ELSE memo[k]]
    /\ inflight' = {}

Lose ==
    /\ inflight # {}
    /\ inflight' = {}
    /\ UNCHANGED memo

Next == (\E K \in SUBSET Keys : Buy(K)) \/ Commit \/ Lose

Spec == Init /\ [][Next]_<<memo, inflight>>
=============================================================================
