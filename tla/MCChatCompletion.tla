--------------------------- MODULE MCChatCompletion ---------------------------
(* One question about a document of two passages, two callers; its index is   *)
(* replaced once at most, and the replacement has no request of its own.      *)
EXTENDS ChatCompletion, TLC

CONSTANTS d1, q1, g1, c1, c2

MCSizes == d1 :> {2}
MCSourceOf == q1 :> g1
CallerSymmetry == Permutations({c1, c2})
==============================================================================
