-------------------------- MODULE MCCodingSession --------------------------
\* An instance of CodingSession for TLC.
EXTENDS CodingSession, TLC

\* Five rows in up to three clusters, none of them empty, cluster after cluster;
\* any row may be left without one.
SessionClusterings ==
    {c \in [1 .. 5 -> 0 .. 3] :
        /\ \A r, q \in 1 .. 5 : r < q /\ c[r] > 0 /\ c[q] > 0 => c[r] <= c[q]
        /\ \A k \in 2 .. 3 :
             (\E r \in 1 .. 5 : c[r] = k) => \E r \in 1 .. 5 : c[r] = k - 1}

\* Any of the five may have the text of one before it: a text is the number of
\* the first row that has it.
SessionColumns ==
    {t \in [1 .. 5 -> 1 .. 5] : \A r \in 1 .. 5 : t[r] <= r /\ t[t[r]] = t[r]}

Config(symbol, provider, model, system, response) ==
    [symbol |-> symbol, provider |-> provider, model |-> model, system |-> system,
     response |-> response, template |-> None]
Answer(name) == [name |-> name, schema |-> "object"]

SessionConfigs ==
    {Config("inference_async", None, None, None, None),
     Config("inference_async", "openai", None, "brief", Answer("Verdict")),
     Config("inference_async", "gemini", "m", "brief", None),
     Config("inference_messages", "openai", "m", "brief", Answer("Verdict"))}

\* With and without a base URL, two versions, and one that cannot be read.
SessionEnvironments ==
    {[urls |-> ("openai" :> e[1]), version |-> e[2]] :
        e \in {<<None, "0.9.1">>, <<"local", "0.9.1">>, <<"local", "0.9.0">>, <<None, None>>}}
=============================================================================
