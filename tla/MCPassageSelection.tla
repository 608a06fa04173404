--------------------------- MODULE MCPassageSelection -------------------------
(* Two documents, each of a page of up to six characters or of two shorter   *)
(* ones, with and without a warning; windows of up to four characters with   *)
(* every overlap; ties of scores, and a cut that drops passages.             *)
EXTENDS PassageSelection

Ready(lengths) == [length : lengths, state : {"READY"}]
Warned == [length : {0, 2}, state : {"WARNING"}]

MCTexts ==
    {<<p>> : p \in Ready(1..6) \cup Warned}
        \cup {<<p, q>> : p \in Ready(1..3) \cup Warned, q \in Ready({1, 4}) \cup Warned}
MCWindows == {w \in [size : 1..4, overlap : 0..3] : w.overlap < w.size}
MCScores == 0..2
MCCuts == [top_k : {1, 3}, min_similarity : {0, 1}]
===============================================================================
