------------------------------ MODULE RowCalls ------------------------------
(***************************************************************************)
(* What the rest of the system expects of an inference call on a column:   *)
(* one request for every row that is not null, none for the others, and a  *)
(* column that shows at each row what became of the request of that row.   *)
(***************************************************************************)
EXTENDS Naturals

CONSTANTS Columns, Null

VARIABLES
    column,  \* the input, a sequence of rows, some of them Null
    call,    \* how the call was made: [schema, caching, setting]
    asked,   \* asked[i]: requests made for row i
    became,  \* became[i]: what became of the request of row i
    out      \* the column that is returned, <<>> until then

vars == <<column, call, asked, became, out>>

Rows == DOMAIN column
Outcomes == {"answered", "invalid", "failed"}

Text(i, text) == [row |-> i, text |-> text]

\* A failure is a null or says what happened, and it says so if there is a
\* schema; an answer that does not fit its schema is an error too.
Shows(i, outcome) ==
    CASE outcome = "answered" -> {Text(i, "answer")}
      [] outcome = "invalid"  -> {Text(i, "error")}
      [] outcome = "failed"   -> IF call.schema THEN {Text(i, "error")}
                                 ELSE IF call.caching = "off" THEN {Null}
                                 ELSE {Null, Text(i, "error")}
      [] outcome = "nothing"  -> {Null}

Init ==
    /\ column \in Columns
    /\ call.schema \in BOOLEAN
    /\ asked = [i \in Rows |-> 0]
    /\ became = [i \in Rows |-> "nothing"]
    /\ out = <<>>

Ask(i) ==
    /\ column[i] # Null
    /\ asked[i] = 0
    /\ asked' = [asked EXCEPT ![i] = 1]
    /\ UNCHANGED <<column, call, became, out>>

Reply(i) ==
    /\ asked[i] = 1 /\ became[i] = "nothing"
    /\ \E outcome \in Outcomes : became' = [became EXCEPT ![i] = outcome]
    /\ UNCHANGED <<column, call, asked, out>>

Return ==
    /\ out = <<>>
    /\ \A i \in Rows : column[i] = Null \/ became[i] # "nothing"
    /\ out' \in {f \in [Rows -> UNION {Shows(i, became[i]) : i \in Rows}] :
                    \A i \in Rows : f[i] \in Shows(i, became[i])}
    /\ UNCHANGED <<column, call, asked, became>>

Next == (\E i \in Rows : Ask(i) \/ Reply(i)) \/ Return

Spec == Init /\ [][Next]_vars
=============================================================================
