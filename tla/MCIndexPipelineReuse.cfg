SPECIFICATION Spec
CONSTANTS
    v1 = v1
    d1 = d1
    s1 = s1
    p1 = p1
    p2 = p2
    Versions = {v1}
    Documents = {d1}
    Sources = {s1}
    Generations = {g1, g2}
    Profiles = {p1, p2}
    Replacements = {}
    NoRow = NoRow
    Callers = {c1, c2}
    BatchSize = 2
    DocumentOf <- MCDocumentOf
    SourceOf <- MCSourceOf
    ChunkCount <- MCChunkCount
PROPERTY
    EmbeddingsAreReused
