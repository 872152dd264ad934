--------------------------- MODULE MCLocalServing ---------------------------
\* Instances of LocalServing for TLC.
EXTENDS LocalServing

\* A tokenizer that merges a pair of words: "walk" "ing" is one token.
MCEncode(text) ==
    LET Merged[n \in 0 .. Len(text)] ==
            IF n = 0 THEN <<>>
            ELSE IF n >= 2 /\ text[n - 1] = "walk" /\ text[n] = "ing"
                 THEN Append(Merged[n - 2], "walking")
                 ELSE Append(Merged[n - 1], text[n])
    IN Merged[Len(text)]

Complete(engine, column, usage) ==
    [kind |-> "complete", model |-> "m", engine |-> engine, system |-> <<"brief">>,
     column |-> column, usage |-> usage]
EmbedJob(column, size) ==
    [kind |-> "embed", model |-> "m", engine |-> "in_process", system |-> <<>>,
     column |-> column, size |-> size, usage |-> FALSE]
Serve(url) == [kind |-> "serve", url |-> url]
ReuseJob(prefix, suffixes) ==
    [kind |-> "reuse", model |-> "m", prefix |-> prefix, suffixes |-> suffixes]
PutJob(model, prefix) == [kind |-> "put", model |-> model, prefix |-> prefix]

\* Rows alike and rows that differ, nulls between, more rows than a chunk.
LocalJobs ==
    {Complete("in_process", <<Null, <<"a">>, <<"a">>, <<"b">>>>, TRUE),
     Complete("in_process", <<<<"bad">>, <<"a">>>>, FALSE),
     Complete("fake", <<<<"bad">>, Null>>, TRUE),
     Complete("in_process", <<Null>>, FALSE),
     EmbedJob(<<<<"a">>, Null, <<"bad">>>>, 1),
     EmbedJob(<<<<"b">>>>, 0),
     [EmbedJob(<<<<"a">>>>, 1) EXCEPT !.engine = "gpu"],
     Serve("local"), Serve(""), Serve(Null),
     [kind |-> "register", key |-> <<"complete", "m", "in_process">>], [kind |-> "clear", of |-> "complete"],
     ReuseJob(<<"walk">>, <<<<"a">>, <<"b">>>>),
     ReuseJob(<<"walk">>, <<<<"a">>, <<"ing">>>>),
     ReuseJob(<<"walk", "a">>, <<<<"b">>>>),
     PutJob("m", <<"walk">>), PutJob("n", <<"walk">>), PutJob("m", <<"walk", "a">>)}

LocalEnvironments == {{}, {"collapse"}, {"streaming"}, {"fake"}}
LocalBad == {<<"bad">>}
=============================================================================
