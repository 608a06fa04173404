--------------------------- MODULE MCImportWorkflow ---------------------------
(* Two processes and two of three attempts, two of which are at the same PDF;*)
(* one document of two chunks and one of one chunk, embedded one at a time.  *)
EXTENDS ImportWorkflow, TLC

CONSTANTS v1, v2, v3, d1, d2, d3, s1, s2, p1

MCDocumentOf == (v1 :> d1) @@ (v2 :> d2) @@ (v3 :> d3)
MCSourceOf == (v1 :> s1) @@ (v2 :> s1) @@ (v3 :> s2)
MCChunkCount == (v1 :> (p1 :> 2)) @@ (v2 :> (p1 :> 1)) @@ (v3 :> (p1 :> 1))
===============================================================================
