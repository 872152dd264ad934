------------------------------ MODULE ToolCalls ------------------------------
(***************************************************************************)
(* Tool use: mcp_tools and execute_tool_calls (polar_llama/tools.py) over  *)
(* a thread pool with a Python executor, or over the plugin's MCP client   *)
(* (execute_tool_calls in src/expressions.rs, src/mcp.rs).                 *)
(*                                                                         *)
(* A call is identified by its place <<row, index>> in the column.  Time   *)
(* is not counted: a deadline may pass whenever a call is not over.        *)
(***************************************************************************)
EXTENDS Integers, Sequences, FiniteSets

CONSTANTS
    Tools,        \* tool names
    Pages,        \* the server's tools/list, page by page: sequences of tools
    Columns,      \* emission columns: sequences of rows
    Concurrencies,\* values of the concurrency argument
    Null,         \* a null row, a null call
    Unreadable,   \* a row of text that is not a JSON array of calls
    None          \* no tools argument, no result yet

\* How a call's arguments come: an object that fits the tool's schema or not,
\* JSON that is no object, and what is not JSON.
Arguments == {"fits", "misfits", "scalar", "garbage"}
Call == [tool : Tools, args : Arguments]

\* How a call ends, and what a batch records of it, by its place.
Over == {"refused", "content", "tool_error", "failed"}
Recorded == [of : (Nat \X Nat) \cup {None}, how : Over \cup {"timed_out"}]

ASSUME ToolAssumption ==
    /\ Pages \in Seq(Seq(Tools)) /\ Len(Pages) > 0
    /\ Columns \subseteq Seq({Null, Unreadable} \cup Seq(Call \cup {Null}))
    /\ Concurrencies \subseteq Int
    /\ Null \notin Seq(Recorded)
    /\ None \notin Over \cup {"timed_out", "http", "stdio"}

VARIABLES
    pc,
    target,    \* "executor" or "mcp": which of the two arguments is given
    width,     \* the concurrency argument
    channel,   \* the kind of session mcp_tools opens
    asked,     \* tools/list requests answered
    cursor,    \* the page the cursor stands for, 0 for no cursor
    heard,     \* history: what there was to read for the last request
    specs,     \* the tools argument: listed so far, or None
    rows,      \* the column as _serialize_calls_batch leaves it
    task,      \* task[c]: how far call c is
    ran,       \* history: ran[c], times the tool was invoked for c
    result,    \* result[c]: what the batch records of c
    out        \* the results column, and after it the message column

listing == <<channel, asked, cursor, heard, specs, width>>
calls == <<task, ran, result>>
vars == <<pc, target, listing, rows, calls, out>>
-----------------------------------------------------------------------------
(***************************************************************************)
(* mcp_tools                                                               *)
(***************************************************************************)
Progress == [id |-> 0, page |-> 0]
Ping(id) == [id |-> id, page |-> 0]
Response(id) == [id |-> id, page |-> id]

\* What the server may send beside its responses: notifications, and requests
\* of its own, numbered as it likes.
Noise == {Progress} \cup {Ping(n) : n \in DOMAIN Pages}

\* What is there to read for request id.  An HTTP body is read whole; over
\* stdio what follows the response is left for the next request to read.
Bodies(id) == {<<Response(id)>>} \cup {<<e, Response(id)>> : e \in Noise}
              \cup (IF channel = "http" THEN {<<Response(id), e>> : e \in Noise} ELSE {})

\* Mutant: any event with an id is the response.
AnyId(body, id) ==
    LET At == {n \in DOMAIN body : body[n].id # 0}
    IN body[CHOOSE n \in At : \A m \in At : m <= n].page

\* _parse_sse_response keeps the last event with an id and a result;
\* _McpStdioSession.request takes the first line with the request's id,
\* whatever it is.
Extract(body, id) ==
    LET At == {n \in DOMAIN body : IF channel = "http" THEN body[n].page # 0
                                   ELSE body[n].id = id}
    IN body[CHOOSE n \in At : \A m \in At : IF channel = "http" THEN m <= n ELSE n <= m].page

\* One turn of the loop: the next page is asked for while there is a cursor.
\* A request of the server's own has no result, and reads as an empty last page.
ListPage ==
    /\ pc = "listing" /\ cursor # 0
    /\ \E body \in Bodies(asked + 1) :
          LET page == Extract(body, asked + 1)
          IN /\ specs' = specs \o (IF page = 0 THEN <<>> ELSE Pages[page])
             /\ cursor' = IF page \in 1..(Len(Pages) - 1) THEN page + 1 ELSE 0
             /\ heard' = body
    /\ asked' = asked + 1
    /\ UNCHANGED <<pc, target, width, channel, rows, calls, out>>

\* An HTTP error or timeout, a JSON-RPC error, no response, or a server that
\* exits.
ListFails ==
    /\ pc = "listing" /\ cursor # 0
    /\ pc' = "raised"
    /\ UNCHANGED <<target, listing, rows, calls, out>>

\* _normalize_tools, on the way into execute_tool_calls.
WellFormed == Len(specs) > 0 /\ \A i, j \in DOMAIN specs : specs[i] = specs[j] => i = j

ListDone ==
    /\ pc = "listing" /\ cursor = 0
    /\ pc' = IF WellFormed THEN "submitted" ELSE "raised"
    /\ UNCHANGED <<target, listing, rows, calls, out>>
-----------------------------------------------------------------------------
(***************************************************************************)
(* The calls of a column                                                   *)
(***************************************************************************)
\* The calls of a row that are not null, in their order.
Calls(row) ==
    LET Kept == {i \in DOMAIN row : row[i] # Null}
    IN [n \in 1..Cardinality(Kept) |-> row[CHOOSE i \in Kept : Cardinality({j \in Kept : j <= i}) = n]]

\* _serialize_calls_batch; a row's null calls go.
Serialize(column) ==
    [r \in DOMAIN column |->
        IF column[r] \in {Null, Unreadable} THEN column[r] ELSE Calls(column[r])]

HasCalls(r) == rows[r] \notin {Null, Unreadable}
Flat == UNION {{<<r, k>> : k \in DOMAIN rows[r]} : r \in {q \in DOMAIN rows : HasCalls(q)}}
At(c) == rows[c[1]][c[2]]
Before(c, d) == c[1] < d[1] \/ (c[1] = d[1] /\ c[2] < d[2])
Known(tool) == specs # None /\ \E i \in DOMAIN specs : specs[i] = tool

\* _run_one_python_call up to the executor: _parse_arguments, then with
\* `tools` the name and _validate_arguments.  In the plugin
\* normalize_arguments, then the validator of the tool if there is one.
Refused(call) ==
    IF target = "executor"
    THEN \/ call.args \in {"garbage", "scalar"}
         \/ specs # None /\ (~Known(call.tool) \/ call.args = "misfits")
    ELSE \/ call.args = "garbage"
         \/ Known(call.tool) /\ call.args \in {"misfits", "scalar"}

Init ==
    /\ target \in {"executor", "mcp"}
    /\ width \in Concurrencies
    /\ channel \in {"http", "stdio", None}
    /\ asked = 0 /\ cursor = 1 /\ heard = <<>>
    /\ specs = IF channel = None THEN None ELSE <<>>
    /\ pc = IF channel = None THEN "submitted" ELSE "listing"
    /\ \E column \in Columns : rows = Serialize(column)
    /\ task = [c \in Flat |-> "queued"]
    /\ ran = [c \in Flat |-> 0]
    /\ result = [c \in Flat |-> None]
    /\ out = <<>>

\* A row that is not readable is an error entry for the plugin, but json.loads
\* raises out of _execute_batch_python.  The plugin shakes hands once per batch.
Begin ==
    /\ pc = "submitted"
    /\ pc' = IF target = "executor" /\ \E r \in DOMAIN rows : rows[r] = Unreadable
             THEN "raised" ELSE "calling"
    /\ UNCHANGED <<target, listing, rows, calls, out>>

ConnectFails ==
    /\ pc = "submitted" /\ target = "mcp"
    /\ pc' = "raised"
    /\ UNCHANGED <<target, listing, rows, calls, out>>

Running == {c \in Flat : task[c] = "running"}

\* Mutant: the concurrency is taken as it is given.
GivenSlots == width

\* max(1, concurrency), concurrency.max(1)
Slots == IF width < 1 THEN 1 ELSE width

\* A worker of the pool takes the oldest call, in the plugin a task gets a
\* permit.  The executor is called at once, unless the call is refused; the
\* plugin refuses before it takes a permit.
Start(c) ==
    /\ pc = "calling" /\ task[c] = "queued"
    /\ target = "executor" => \A d \in Flat : Before(d, c) => task[d] # "queued"
    /\ IF Refused(At(c))
       THEN /\ target = "executor" => Cardinality(Running) < Slots
            /\ task' = [task EXCEPT ![c] = "refused"]
            /\ ran' = ran
       ELSE /\ Cardinality(Running) < Slots
            /\ task' = [task EXCEPT ![c] = "running"]
            /\ ran' = IF target = "executor" THEN [ran EXCEPT ![c] = @ + 1] ELSE ran
    /\ UNCHANGED <<pc, target, listing, rows, result, out>>

\* The server handles the request, perhaps after the client gave it up.
Serve(c) ==
    /\ target = "mcp" /\ task[c] \in {"running", "failed"} /\ ran[c] = 0
    /\ ran' = [ran EXCEPT ![c] = 1]
    /\ UNCHANGED <<pc, target, listing, rows, task, result, out>>

\* The executor returns or raises, the response of the server arrives.
Answer(c) ==
    /\ task[c] = "running" /\ ran[c] = 1
    /\ \E how \in {"content", "tool_error", "failed"} : task' = [task EXCEPT ![c] = how]
    /\ UNCHANGED <<pc, target, listing, rows, ran, result, out>>

\* The HTTP client's timeout, or a failure on the way there or back.
Expire(c) ==
    /\ target = "mcp" /\ task[c] = "running"
    /\ task' = [task EXCEPT ![c] = "failed"]
    /\ UNCHANGED <<pc, target, listing, rows, ran, result, out>>
-----------------------------------------------------------------------------
(***************************************************************************)
(* The results                                                             *)
(***************************************************************************)
\* Mutant: results are taken as they come, and a late one corrects the record.
AnyResult(c) == task[c] \in Over \/ result[c] = None

\* The results are waited for in the order of the calls.
Awaited(c) == result[c] = None /\ \A d \in Flat : Before(d, c) => result[d] # None

Collect(c) ==
    /\ pc = "calling" /\ Awaited(c) /\ task[c] \in Over
    /\ result' = [result EXCEPT ![c] = task[c]]
    /\ UNCHANGED <<pc, target, listing, rows, task, ran, out>>

\* future.result(timeout): the wait starts when the call's turn comes, and
\* its end does not stop the call, which may even not have started.
TimeOut(c) ==
    /\ pc = "calling" /\ target = "executor" /\ Awaited(c) /\ task[c] \notin Over
    /\ result' = [result EXCEPT ![c] = "timed_out"]
    /\ UNCHANGED <<pc, target, listing, rows, task, ran, out>>

\* Leaving the `with` block joins every thread of the pool.
PoolIsDown == target = "executor" => \A c \in Flat : task[c] \in Over

Entry(c) == [of |-> c, how |-> result[c]]
RowError == [of |-> None, how |-> "failed"]

\* Every row gets its results in the order of its calls.
Return ==
    /\ pc = "calling" /\ PoolIsDown
    /\ \A c \in Flat : result[c] # None
    /\ out' = [r \in DOMAIN rows |->
                  IF rows[r] = Null THEN Null
                  ELSE IF rows[r] = Unreadable THEN <<RowError>>
                  ELSE [k \in DOMAIN rows[r] |-> Entry(<<r, k>>)]]
    /\ pc' = "returned"
    /\ UNCHANGED <<target, listing, rows, calls>>

\* Mutant: a line for the model says what the tool said.
AllOk(entry) == [of |-> entry.of, says |-> "content"]

\* A line of the message: an error, or what the tool said.
Line(entry) == [of |-> entry.of, says |-> IF entry.how = "content" THEN "content" ELSE "ERROR"]

\* tool_results_to_message
Synthesize ==
    /\ pc = "returned"
    /\ out' = [r \in DOMAIN out |->
                  IF out[r] = Null THEN Null ELSE [k \in DOMAIN out[r] |-> Line(out[r][k])]]
    /\ pc' = "rendered"
    /\ UNCHANGED <<target, listing, rows, calls>>

CallStep(c) == Start(c) \/ Expire(c) \/ Collect(c) \/ TimeOut(c)

Next ==
    \/ ListPage \/ ListFails \/ ListDone \/ Begin \/ ConnectFails \/ Return \/ Synthesize
    \/ \E c \in Flat : CallStep(c) \/ Serve(c) \/ Answer(c)

Spec == Init /\ [][Next]_vars

\* Threads and tasks run and timeouts expire; that a server answers or an
\* executor returns is not assumed.  A listing over HTTP goes on because urlopen
\* gives a silent server up after timeout_s, and what a server sends is finite
\* (Bodies); over stdio readline has no deadline.
FairSpec ==
    /\ Spec
    /\ WF_vars(channel = "http" /\ (ListPage \/ ListFails))
    /\ WF_vars(ListDone) /\ WF_vars(Begin) /\ WF_vars(Return)
    /\ WF_vars(\E c \in Flat : CallStep(c))
-----------------------------------------------------------------------------
(***************************************************************************)
(* Properties                                                              *)
(***************************************************************************)
\* FirstPages[n]: the tools of the first n pages.
FirstPages[n \in 0..Len(Pages)] == IF n = 0 THEN <<>> ELSE FirstPages[n - 1] \o Pages[n]

\* What the last request read first had its number, and was not its response.
Crossed == channel = "stdio" /\ \E n \in DOMAIN heard : heard[n] = Ping(asked)

\* mcp_tools lists the server's pages once and in order, and asks for the next
\* one until it has them all, so that no call goes unvalidated because its tool
\* was missed.  Over HTTP this holds whatever else the server sends around its
\* responses (_parse_sse_response).  Over stdio it holds until the server sends
\* a request of its own under the number mcp_tools waits for: the listing then
\* ends with the pages it has, and without an error (_McpStdioSession.request).
ListedInFull ==
    channel # None =>
        IF Crossed
        THEN specs = FirstPages[asked - 1] /\ cursor = 0
        ELSE specs = FirstPages[asked] /\ cursor = IF asked < Len(Pages) THEN asked + 1 ELSE 0

\* What a batch returns, and what it tells the model next: each call's entry
\* stands at the call's own place; one that shows content stands for exactly
\* one invocation of the tool, one that was refused for none; a row that could
\* not be read shows one error, and nothing that failed reads as an answer
\* (execute_tool_calls in both languages, _format_results_batch).
RowsTellTheTruth ==
    /\ \A c \in Flat : ran[c] <= 1
    /\ pc \in {"returned", "rendered"} =>
         \A r \in DOMAIN rows :
            IF rows[r] = Null THEN out[r] = Null
            ELSE /\ DOMAIN out[r] = IF rows[r] = Unreadable THEN {1} ELSE DOMAIN rows[r]
                 /\ \A k \in DOMAIN out[r] :
                       IF rows[r] = Unreadable THEN out[r][k].of = None
                       ELSE out[r][k].of = <<r, k>>
    /\ \A c \in Flat : pc \in {"returned", "rendered"} =>
         /\ result[c] = "content" => ran[c] = 1
         /\ Refused(At(c)) => ran[c] = 0 /\ result[c] \in {"refused", "timed_out"}
         /\ pc = "rendered" => (out[c[1]][c[2]].says = "content" <=> result[c] = "content")

\* A late answer never changes what is recorded of a call: a deadline that
\* passes and an answer that arrives race once (future.result, call_tool).
VerdictIsFinal == [][\A c \in DOMAIN result \cap DOMAIN result' :
                        result[c] # None => result'[c] = result[c]]_vars

\* A batch ends, whatever the server does and whatever the concurrency, but for
\* two waits without a deadline: mcp_tools over stdio waits for ever for a server
\* that says nothing, although timeout_s is the "Timeout for each protocol
\* request" (tools.py:221), and the thread pool joins an executor that never
\* returns, in spite of timeout_s (execute_tool_calls, _execute_batch_python).
BatchEnds ==
    \/ <>(pc \in {"raised", "returned", "rendered"})
    \/ channel = "stdio" /\ <>[](pc = "listing" /\ cursor # 0)
    \/ target = "executor" /\ <>[](\E c \in Flat : task[c] = "running")
=============================================================================
