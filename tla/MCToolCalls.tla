---------------------------- MODULE MCToolCalls ----------------------------
\* Instances of ToolCalls for TLC.
EXTENDS ToolCalls

CONSTANTS search, lookup, stray

Fits(t) == [tool |-> t, args |-> "fits"]
Odd(t, args) == [tool |-> t, args |-> args]

TwoPages == <<<<search>>, <<lookup>>>>

\* Rows of several calls with a null row and a null call between them; calls
\* that are refused, or refused on one path only; a row that is not readable.
ToolColumns ==
    {<<<<Fits(search), Fits(lookup)>>, Null, <<Fits(search)>>>>,
     <<<<Odd(lookup, "misfits"), Null, Fits(stray)>>, <<Odd(search, "scalar")>>>>,
     <<Unreadable, <<>>, <<Odd(search, "garbage"), Fits(lookup)>>>>}
=============================================================================
