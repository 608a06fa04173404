--------------------------- MODULE PublishedIndex ---------------------------
(***************************************************************************)
(* What the index pipeline promises to the readers of a document, that is  *)
(* to retrieval and chat: a document has no index, or exactly one index    *)
(* that is complete; the index never changes while it is the published     *)
(* one; it is only ever swapped for another complete one, in one step; and *)
(* an index that was swapped out never comes back.                         *)
(***************************************************************************)
EXTENDS Naturals

CONSTANTS
    Documents,      \* logical documents
    Generations,    \* identifiers of index generations
    Sizes,          \* per document, the sizes a complete chunk set may have
    NoIndex         \* the value of a document nothing is published for

VARIABLES
    index,          \* per document, its published index or NoIndex
    retired         \* generations that were published once and swapped out

Index == [generation : Generations, vectors : {1 .. n : n \in UNION {Sizes[d] : d \in Documents}}]

Init ==
    /\ index = [d \in Documents |-> NoIndex]
    /\ retired = {}

Published(d) == IF index[d] = NoIndex THEN {} ELSE {index[d].generation}

Publish(d, g, n) ==
    /\ g \notin retired
    /\ \A e \in Documents : g \notin Published(e)
    /\ index' = [index EXCEPT ![d] = [generation |-> g, vectors |-> 1 .. n]]
    /\ retired' = retired \cup Published(d)

Next == \E d \in Documents, g \in Generations : \E n \in Sizes[d] : Publish(d, g, n)

Spec == Init /\ [][Next]_<<index, retired>>
=============================================================================
