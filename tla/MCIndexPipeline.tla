--------------------------- MODULE MCIndexPipeline ---------------------------
(* Two callers on the one version of a document, with two profiles between   *)
(* them; three chunks under the first make a full and a partial batch.       *)
EXTENDS IndexPipeline, TLC

CONSTANTS v1, d1, s1, p1, p2

MCDocumentOf == v1 :> d1
MCSourceOf == v1 :> s1
MCChunkCount == v1 :> (p1 :> 3 @@ p2 :> 1)
==============================================================================
