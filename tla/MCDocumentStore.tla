--------------------------- MODULE MCDocumentStore ---------------------------
(* A small instance of DocumentStore: two documents imported from the same   *)
(* PDF, of which only one can be registered, and a replacement of the first; *)
(* one chunk or two, depending on the version and on the profile.            *)
EXTENDS DocumentStore, TLC

CONSTANTS v1, v2, v3, d1, d2, s1, s2, p1, p2

MCDocumentOf == (v1 :> d1) @@ (v2 :> d2) @@ (v3 :> d1)
MCSourceOf == (v1 :> s1) @@ (v2 :> s1) @@ (v3 :> s2)
MCChunkCount ==
    (v1 :> (p1 :> 2 @@ p2 :> 1)) @@ (v2 :> (p1 :> 1 @@ p2 :> 1)) @@ (v3 :> (p1 :> 1 @@ p2 :> 2))
==============================================================================
