------------------------------ MODULE TypeSafe ------------------------------
(***************************************************************************)
(* typesafe_eval and typesafe_eval_each: a contract of typed questions     *)
(* asked of every row, or of every segment of every row.                   *)
(* polar_llama/typesafe.py derives the questions, src/typesafe_expr.rs     *)
(* plans the columns and the requests, src/model_client/typesafe.rs sends  *)
(* them with retries.                                                      *)
(*                                                                         *)
(* Line 0 of a row is the row itself, which is what typesafe_eval asks     *)
(* about; segments are numbered from 1.                                    *)
(***************************************************************************)
EXTENDS Integers, Sequences, FiniteSets

CONSTANTS
    Contracts,     \* fields in order: [id, kind, options]
    States,        \* input columns of typesafe_eval
    Documents,     \* input columns of typesafe_eval_each
    Null,
    MaxQuestions,  \* values of max_questions
    Window,        \* max_concurrency()
    Budget         \* max_retries()

\* A question id is its parts, "a_confidence" being <<"a", "confidence">>.
ASSUME TypeSafeAssumption ==
    /\ Contracts \subseteq Seq([id : Seq(STRING), options : Nat,
                              kind : {"boolean", "enum", "levels", "number", "string", "object"}])
    /\ States \subseteq Seq({Null, "state", "malformed"})
    /\ Documents \subseteq Seq(Nat \cup {Null})
    /\ MaxQuestions \subseteq Int
    /\ Window \in Nat \ {0} /\ Budget \in Nat

VARIABLES
    pc,
    each,      \* typesafe_eval_each was called
    contract, column, cap,  \* its arguments
    requests,  \* the requests planned: a row, and its lines from first to last
    phase,     \* phase[q]: what request q is at
    attempt,   \* attempt[q]: retries made
    answers,   \* answers[q]: the lines its response has answers for
    results,   \* what the stream of requests has given up so far
    out,       \* the column, <<>> until then
    heard      \* history: heard[q], what became of every attempt of q

args == <<each, contract, column, cap>>
sending == <<phase, attempt, answers, heard>>
vars == <<pc, args, requests, sending, results, out>>

Lines(q) == requests[q].first .. requests[q].last
Over == {"answered", "failed"}
-----------------------------------------------------------------------------
(***************************************************************************)
(* The contract                                                            *)
(***************************************************************************)
\* contract_questions with noul, choice, score and score_field.
IsQuestion(field) ==
    \/ field.kind = "boolean"
    \/ field.kind \in {"enum", "levels"} /\ field.options >= 2
Answerable == Len(contract) > 0 /\ \A f \in DOMAIN contract : IsQuestion(contract[f])

\* plan_columns: a noul is a probability, the others come with a confidence.
ColumnsOf(field) ==
    {field.id} \cup (IF field.kind = "boolean" THEN {} ELSE {field.id \o <<"confidence">>})
Reserved == {<<"", "error">>} \cup (IF each THEN {<<"line">>, <<"line", "id">>} ELSE {})

\* ensure_unique_fields
Distinct ==
    /\ \A f \in DOMAIN contract : ColumnsOf(contract[f]) \cap Reserved = {}
    /\ \A f, g \in DOMAIN contract :
          f # g => ColumnsOf(contract[f]) \cap ColumnsOf(contract[g]) = {}
-----------------------------------------------------------------------------
(***************************************************************************)
(* The plan                                                                *)
(***************************************************************************)
\* What a loop appends to a vector, turn by turn.
Concat(pieces) ==
    LET upTo[n \in 0..Len(pieces)] == IF n = 0 THEN <<>> ELSE upTo[n - 1] \o pieces[n]
    IN upTo[Len(pieces)]

\* build_states: a null row has no state and a malformed one an error.
StateOf(r) == IF column[r] = "state" THEN <<[row |-> r, first |-> 0, last |-> 0]>> ELSE <<>>
PlanRows == Concat([r \in DOMAIN column |-> StateOf(r)])

\* Every segment costs a question per field.
PerChunk ==
    LET questions == IF cap < 1 THEN 1 ELSE cap
        segments  == questions \div Len(contract)
    IN IF segments < 1 THEN 1 ELSE segments

Chunk(r, k) ==
    [row   |-> r, first |-> (k - 1) * PerChunk + 1,
     last  |-> IF k * PerChunk < column[r] THEN k * PerChunk ELSE column[r]]

\* The loop over the rows of the list column.
ChunksOf(r) ==
    IF column[r] = Null THEN <<>>
    ELSE [k \in 1 .. (column[r] + PerChunk - 1) \div PerChunk |-> Chunk(r, k)]
PlanChunks == Concat([r \in DOMAIN column |-> ChunksOf(r)])

Init ==
    /\ pc = "planning"
    /\ each \in BOOLEAN
    /\ contract \in Contracts
    /\ column \in (IF each THEN Documents ELSE States)
    /\ cap \in (IF each THEN MaxQuestions ELSE {0})
    /\ requests = <<>> /\ phase = <<>> /\ attempt = <<>> /\ answers = <<>> /\ heard = <<>>
    /\ results = <<>> /\ out = <<>>

\* max_questions is checked in Python, then the contract; names that collide
\* are found when the output type is resolved.
Refuse ==
    /\ pc = "planning"
    /\ (each /\ cap < 1) \/ ~Answerable \/ ~Distinct
    /\ pc' = "raised"
    /\ UNCHANGED <<args, requests, sending, results, out>>

Begin(plan) ==
    /\ pc' = "running"
    /\ requests' = plan
    /\ phase' = [q \in DOMAIN plan |-> "waiting"]
    /\ attempt' = [q \in DOMAIN plan |-> 0]
    /\ answers' = [q \in DOMAIN plan |-> {}]
    /\ heard' = [q \in DOMAIN plan |-> <<>>]
    /\ UNCHANGED <<args, results, out>>

EvalRows ==
    /\ pc = "planning" /\ ~each /\ Answerable /\ Distinct
    /\ Begin(PlanRows)

EvalEach ==
    /\ pc = "planning" /\ each /\ cap >= 1 /\ Answerable /\ Distinct
    /\ Begin(PlanChunks)
-----------------------------------------------------------------------------
(***************************************************************************)
(* evaluate, for every request of evaluate_batch and evaluate_batch_varying*)
(***************************************************************************)
\* `buffered`: a request starts when fewer than Window that are not given up
\* yet have started.
InWindow(q) == q <= Len(results) + Window /\ \A p \in 1 .. q - 1 : phase[p] # "waiting"

Send(q) ==
    /\ phase[q] = "waiting" /\ InWindow(q)
    /\ phase' = [phase EXCEPT ![q] = "sent"]
    /\ UNCHANGED <<pc, args, requests, attempt, answers, heard, results, out>>

\* parse_evaluation: a success need not answer every question.
Succeed(q) ==
    /\ phase[q] = "sent"
    /\ phase' = [phase EXCEPT ![q] = "answered"]
    /\ \E lines \in SUBSET Lines(q) : answers' = [answers EXCEPT ![q] = lines]
    /\ heard' = [heard EXCEPT ![q] = Append(@, "success")]
    /\ UNCHANGED <<pc, args, requests, attempt, results, out>>

\* "definite": a status that will not change, or a body that breaks off or
\* does not parse.
Statuses == {"overloaded", "no_connection", "definite"}

\* Mutant: whatever fails is tried again.
AnyFailure(status) == TRUE

\* is_retryable; a connection that times out or is refused.
IsRetryable(status) == status \in {"overloaded", "no_connection"}

Fail(q) ==
    /\ phase[q] = "sent"
    /\ \E status \in Statuses :
          /\ heard' = [heard EXCEPT ![q] = Append(@, status)]
          /\ phase' = [phase EXCEPT ![q] =
                 IF IsRetryable(status) /\ attempt[q] < Budget THEN "backing_off" ELSE "failed"]
    /\ UNCHANGED <<pc, args, requests, attempt, answers, results, out>>

\* After the sleep of backoff_delay.
Retry(q) ==
    /\ phase[q] = "backing_off"
    /\ phase' = [phase EXCEPT ![q] = "sent"]
    /\ attempt' = [attempt EXCEPT ![q] = @ + 1]
    /\ UNCHANGED <<pc, args, requests, answers, heard, results, out>>
-----------------------------------------------------------------------------
(***************************************************************************)
(* The answers                                                             *)
(***************************************************************************)
\* Mutant: buffer_unordered, whose results come as they end.
AsTheyEnd(q) == \A i \in DOMAIN results : results[i].of # q

\* `buffered` gives its results up in the order of the requests.
InOrder(q) == q = Len(results) + 1

Collect(q) ==
    /\ phase[q] \in Over /\ InOrder(q)
    /\ results' = Append(results, [of |-> q, how |-> phase[q]])
    /\ UNCHANGED <<pc, args, requests, sending, out>>

\* push_row for a line of the n-th request: the answers under the line's own
\* keys out of the n-th result.
Entry(n, line) ==
    IF results[n].how = "failed" THEN "error"
    ELSE IF line \in answers[results[n].of] THEN <<requests[results[n].of].row, line>>
    ELSE "blank"

\* The chunks of a row, in order, each with its lines.
Entries(n) == [k \in 1 .. requests[n].last - requests[n].first + 1 |->
                  Entry(n, requests[n].first + k - 1)]
LinesOf(r) ==
    Concat([n \in DOMAIN requests |-> IF requests[n].row = r THEN Entries(n) ELSE <<>>])

Cell(r) ==
    IF column[r] = Null THEN Null
    ELSE IF ~each /\ column[r] = "malformed" THEN <<"error">>
    ELSE LinesOf(r)

\* Mutant: a result is awaited for every row.
OnePerRow == Len(results) = Len(column)

AllIn == Len(results) = Len(requests)

Return ==
    /\ pc = "running" /\ AllIn
    /\ out' = [r \in DOMAIN column |-> Cell(r)]
    /\ pc' = "returned"
    /\ UNCHANGED <<args, requests, sending, results>>

Next ==
    \/ Refuse \/ EvalRows \/ EvalEach \/ Return
    \/ \E q \in DOMAIN requests : Send(q) \/ Succeed(q) \/ Fail(q) \/ Retry(q) \/ Collect(q)

Spec == Init /\ [][Next]_vars

\* The runtime polls what can move; a request ends by the client's timeout at
\* the latest, and a sleep is 60 s at most.
FairSpec == Spec /\ WF_vars(Next)
-----------------------------------------------------------------------------
(***************************************************************************)
(* Properties                                                              *)
(***************************************************************************)
\* "429 and 529 ... retry", "transient 5xx are treated the same way".
Transient == {"overloaded", "no_connection"}

\* A request is tried again only after a transient failure, never more often
\* than the budget says, and is given up only by a definite answer or with the
\* budget spent: what is billed is bounded and a passing fault costs no row
\* (evaluate, is_retryable).
RetriesAreSpentWell ==
    \A q \in DOMAIN requests :
        LET n == Len(heard[q])
        IN /\ n <= Budget + 1
           /\ \A i \in 1 .. n - 1 : heard[q][i] \in Transient
           /\ phase[q] = "failed" => n = Budget + 1 \/ heard[q][n] \notin Transient
           /\ phase[q] = "answered" <=> n > 0 /\ heard[q][n] = "success"

\* The column that comes back: null for null, an entry for every segment in
\* its place, showing the answer to its own question, nothing if the server
\* left that out, and an error exactly if its own request failed or its state
\* was malformed (typesafe_eval, typesafe_eval_each, push_row).
CoveredBy(r, line) ==
    {q \in DOMAIN requests : requests[q].row = r /\ line \in Lines(q)}

EveryLineItsOwn ==
    pc = "returned" =>
        \A r \in DOMAIN column :
            IF column[r] = Null THEN out[r] = Null
            ELSE LET lines == IF each THEN 1 .. column[r] ELSE {0}
                 IN /\ Len(out[r]) = Cardinality(lines)
                    /\ \A line \in lines :
                          LET shown == out[r][IF each THEN line ELSE 1]
                              asked == CoveredBy(r, line)
                          IN IF ~each /\ column[r] = "malformed" THEN asked = {} /\ shown = "error"
                             ELSE \E q \in asked :
                                  /\ asked = {q}
                                  /\ shown = IF phase[q] = "failed" THEN "error"
                                             ELSE IF line \in answers[q] THEN <<r, line>>
                                             ELSE "blank"

\* An evaluation ends however often the server is overloaded (evaluate).
EvaluationEnds == <>(pc \in {"raised", "returned"})
=============================================================================
