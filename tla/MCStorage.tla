------------------------------ MODULE MCStorage ------------------------------
(* Values of Storage's and StorageList's constants for TLC. *)
EXTENDS StorageList

CONSTANT alice

\* decimals in halves: no stake at all, half a coin per byte, a coin and a half
MCParamSet ==
    {[maxSize |-> 2, multiple |-> 0], [maxSize |-> 2, multiple |-> 1],
     [maxSize |-> 1, multiple |-> 3]}

\* everything, and the last two, the first of which is the prefix itself
All == [first |-> 1, last |-> 3, exact |-> FALSE]
Under == [first |-> 2, last |-> 3, exact |-> TRUE]
MCPrefixes == {All, Under}

\* pages of one and of two; a filter that only some data pass
MCRequests ==
    [owner: {alice}, prefix: MCPrefixes, filter: {Sizes}, reverse: BOOLEAN,
     offset: {0}, limit: {1, 2}]
    \cup [owner: {alice}, prefix: {All}, filter: {{2}, Sizes}, reverse: BOOLEAN,
          offset: {1}, limit: {1}]
=============================================================================
