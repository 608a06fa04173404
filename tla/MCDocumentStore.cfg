SPECIFICATION Spec
CONSTANTS
    v1 = v1
    v2 = v2
    v3 = v3
    d1 = d1
    d2 = d2
    s1 = s1
    s2 = s2
    p1 = p1
    p2 = p2
    Versions = {v1, v2, v3}
    Documents = {d1, d2}
    Sources = {s1, s2}
    Generations = {g1, g2, g3}
    Profiles = {p1, p2}
    Replacements = {v3}
    NoRow = NoRow
    DocumentOf <- MCDocumentOf
    SourceOf <- MCSourceOf
    ChunkCount <- MCChunkCount
INVARIANTS
    TypeOK
    PublishedIsComplete
    PublicationPairs
    OneGenerationPerVersion
PROPERTIES
    EvidenceFrozen
    ReadersSpec
CHECK_DEADLOCK FALSE
