------------------------------- MODULE MCStartup ------------------------------
(* Three launches: one of the release before, whose catalog is that of the     *)
(* second, and one whose chat model is another and whose embedding model is    *)
(* the same in another version.                                                *)
EXTENDS Startup, TLC

CONSTANTS l1, l2, l3

MCShips == (l1 :> 1) @@ (l2 :> 2) @@ (l3 :> 2)

Model(identity, details) == [identity |-> identity, details |-> details]

MCOffer ==
    LET common == [CHAT |-> Model("qwen", "v1"), EMBEDDING |-> Model("qwen-embedding", "v1")]
        other == [CHAT |-> Model("other", "v1"), EMBEDDING |-> Model("qwen-embedding", "v2")]
    IN (l1 :> common) @@ (l2 :> common) @@ (l3 :> other)
===============================================================================
