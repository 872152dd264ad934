----------------------------- MODULE MCTypeSafe -----------------------------
\* Instances of TypeSafe for TLC.
EXTENDS TypeSafe

Bool(id) == [id |-> id, kind |-> "boolean", options |-> 0]
Enum(id, n) == [id |-> id, kind |-> "enum", options |-> n]

\* One question, two questions, and contracts that cannot be answered or
\* whose columns would share a name.
SomeContracts ==
    {<<Bool(<<"a">>)>>,
     <<Bool(<<"a">>), Enum(<<"b">>, 2)>>,
     <<Enum(<<"a">>, 1)>>,
     <<Enum(<<"a">>, 2), Bool(<<"a", "confidence">>)>>,
     <<Bool(<<"line">>)>>,
     <<[id |-> <<"a">>, kind |-> "string", options |-> 0]>>}

\* A null and a malformed state between states.
SomeStates == {<<"state", Null, "malformed", "state">>}

\* Documents of several chunks, an empty one, and none.
SomeDocuments == {<<2, Null, 1>>, <<0, 2>>}
=============================================================================
