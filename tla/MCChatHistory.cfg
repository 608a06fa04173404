SPECIFICATION Spec
CONSTANTS
    d1 = d1
    q1 = q1
    g1 = g1
    c1 = c1
    c2 = c2
    Documents = {d1}
    Generations = {g1, g2}
    NoIndex = NoIndex
    Requests = {q1}
    Callers = {c1, c2}
    TopK = 2
    Ratings = {"SUPPORTS"}
    None = None
    Sizes <- MCSizes
    SourceOf <- MCSourceOf
INVARIANT HistoryIsReadable
