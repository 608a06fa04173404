SPECIFICATION Spec
CONSTANTS
    v1 = v1
    v2 = v2
    v3 = v3
    d1 = d1
    d2 = d2
    d3 = d3
    s1 = s1
    s2 = s2
    p1 = p1
    Versions = {v1, v2, v3}
    Documents = {d1, d2, d3}
    Sources = {s1, s2}
    Generations = {g1, g2}
    Profiles = {p1}
    Replacements = {}
    NoRow = NoRow
    Workers = {w1, w2}
    BatchSize = 1
    MaxAttempts = 2
    DocumentOf <- MCDocumentOf
    SourceOf <- MCSourceOf
    ChunkCount <- MCChunkCount
INVARIANTS
    TypeOK
    DispositionIsTrue
    DuplicateLeavesNothing
    CancelledIsSettled
    TerminalHasNoIndex
PROPERTY
    CancelPreventsPublication
