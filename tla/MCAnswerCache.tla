--------------------------- MODULE MCAnswerCache ---------------------------
\* Two similar queries: one asked of both bases and of a group, the other of no
\* base in particular, by a caller who sees one of the two.
EXTENDS AnswerCache, TLC

CONSTANTS a, g

Ask1 == [query |-> 1, kbs |-> <<g, a>>, group |-> <<>>, sees |-> {g, a}, k |-> 5]
Ask2 == [query |-> 2, kbs |-> <<>>, group |-> <<>>, sees |-> {a}, k |-> 5]
Ask3 == [query |-> 1, kbs |-> <<>>, group |-> <<a>>, sees |-> {g, a}, k |-> 5]
MCRequests == {Ask1, Ask2, Ask3}
MCListings == {<<a, g>>}
\* A concept question is worked off with eight results.
MCLeast == [query \in {1, 2} |-> IF query = 2 THEN 8 ELSE 0]
MCSimilar == {<<1, 1>>, <<2, 2>>, <<1, 2>>, <<2, 1>>}
WorkersAlike == Permutations(Workers)
=============================================================================
