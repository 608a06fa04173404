---------------------------- MODULE DocumentStore ----------------------------
(***************************************************************************)
(* The durable rows behind one workspace's documents and the repository    *)
(* operations that write them.  Each action is one write transaction of a  *)
(* SQLite unit of work: the conditional UPDATEs, uniqueness constraints    *)
(* and re-validations of the repositories are its guard, and a transaction *)
(* whose guard fails is rolled back whole, which is a stuttering step.     *)
(* Nothing is assumed here about who calls the operations or in which      *)
(* order: that is the business of the modules that compose this one.       *)
(*                                                                         *)
(* A version stands for one import attempt and carries its single          *)
(* processing job (attempt 1); a row that does not exist is "ABSENT".      *)
(***************************************************************************)
EXTENDS Naturals, FiniteSets

CONSTANTS
    Versions,       \* document versions (one per import attempt)
    Documents,      \* logical documents
    Sources,        \* duplicate fingerprints of PDF contents
    Generations,    \* index generation identifiers
    Profiles,       \* compatibility profiles: model, chunking, normalization
    DocumentOf,     \* the document a version belongs to
    SourceOf,       \* the fingerprint of the PDF a version was imported from
    ChunkCount,     \* how many chunks a version's text has under a profile
    Replacements,   \* versions added to a document that already exists
    NoRow           \* marks a generation that has no row

ASSUME DocumentOfAssumption == DocumentOf \in [Versions -> Documents]
ASSUME SourceOfAssumption == SourceOf \in [Versions -> Sources]
\* Processing rejects a PDF without usable text, so a chunk set is never empty.
ASSUME ChunkCountAssumption == ChunkCount \in [Versions -> [Profiles -> Nat \ {0}]]

VersionStates ==
    {"ABSENT", "CANDIDATE_PROCESSING", "CANDIDATE_FAILED", "CANDIDATE_CANCELLED",
     "ACTIVE", "ARCHIVED"}
JobStates ==
    {"ABSENT", "QUEUED", "PROCESSING", "READY", "READY_WITH_WARNINGS", "FAILED", "CANCELLED"}
JobStages == {"ABSENT", "VALIDATING", "EXTRACTING_NATIVE_TEXT", "CHUNKING", "CLEANING_UP"}
PageSets == {"ABSENT", "CLEAN", "WARNED"}
GenerationRow == [state : {"STAGING", "ACTIVE", "ARCHIVED"}, version : Versions, profile : Profiles]

ASSUME NoRowAssumption ==
    /\ NoRow \notin GenerationRow
    /\ NoRow \notin [generation : Generations, vectors : SUBSET Nat]

VARIABLES
    version,        \* state of each version row
    job,            \* state of each version's processing job
    stage,          \* stage of each version's processing job
    pages,          \* the committed page set of a version: none, clean, with warnings
    generation,     \* index generation rows
    embedded        \* the chunks of a generation that have an embedding row

store == <<version, job, stage, pages, generation, embedded>>

IndexRows == {g \in Generations : generation[g] # NoRow}

GenerationsOf(v) == {g \in IndexRows : generation[g].version = v}

ChunkSet(g) == 1 .. ChunkCount[generation[g].version][generation[g].profile]
Siblings(v) == {u \in Versions : DocumentOf[u] = DocumentOf[v] /\ u # v}

TypeOK ==
    /\ version \in [Versions -> VersionStates]
    /\ job \in [Versions -> JobStates]
    /\ stage \in [Versions -> JobStages]
    /\ pages \in [Versions -> PageSets]
    /\ generation \in [Generations -> GenerationRow \cup {NoRow}]
    /\ embedded \in [Generations -> SUBSET Nat]

Init ==
    /\ version = [v \in Versions |-> "ABSENT"]
    /\ job = [v \in Versions |-> "ABSENT"]
    /\ stage = [v \in Versions |-> "ABSENT"]
    /\ pages = [v \in Versions |-> "ABSENT"]
    /\ generation = [g \in Generations |-> NoRow]
    /\ embedded = [g \in Generations |-> {}]
------------------------------------------------------------------------------
(* Registration and processing.                                            *)

\* ux_workspace_duplicate_live_source: no row is ever marked DELETED, so every
\* version row, failed and cancelled ones included, keeps its fingerprint taken.
SourceIsFree(v) ==
    \A u \in Versions : SourceOf[u] = SourceOf[v] => version[u] = "ABSENT"

InsertVersion(v) ==
    /\ version[v] = "ABSENT"
    /\ SourceIsFree(v)
    /\ version' = [version EXCEPT ![v] = "CANDIDATE_PROCESSING"]
    /\ job' = [job EXCEPT ![v] = "QUEUED"]
    /\ stage' = [stage EXCEPT ![v] = "VALIDATING"]
    /\ UNCHANGED <<pages, generation, embedded>>

\* An import: a new document, its first version and its queued job.
Register(v) ==
    /\ v \notin Replacements
    /\ \A u \in Siblings(v) : version[u] = "ABSENT"
    /\ InsertVersion(v)

\* A further version of an existing document.  The schema and the activation
\* transaction provide for it; only the test fixtures insert one.
RegisterReplacement(v) ==
    /\ v \in Replacements
    /\ \E u \in Siblings(v) : version[u] # "ABSENT"
    /\ InsertVersion(v)

Start(v) ==
    /\ version[v] = "CANDIDATE_PROCESSING"
    /\ job[v] = "QUEUED"
    /\ stage[v] = "VALIDATING"
    /\ job' = [job EXCEPT ![v] = "PROCESSING"]
    /\ stage' = [stage EXCEPT ![v] = "EXTRACTING_NATIVE_TEXT"]
    /\ UNCHANGED <<version, pages, generation, embedded>>

StagePages(v, quality) ==
    /\ pages[v] = "ABSENT"
    /\ version[v] = "CANDIDATE_PROCESSING"
    /\ job[v] = "PROCESSING"
    /\ stage[v] = "EXTRACTING_NATIVE_TEXT"
    /\ pages' = [pages EXCEPT ![v] = quality]
    /\ stage' = [stage EXCEPT ![v] = "CHUNKING"]
    /\ UNCHANGED <<version, job, generation, embedded>>

\* Wrong variant: the job's outcome is written to the version row as it is.
CandidateStateOfJob(outcome) == outcome

CandidateState(outcome) ==
    IF outcome = "CANCELLED" THEN "CANDIDATE_CANCELLED" ELSE "CANDIDATE_FAILED"

\* The UPDATEs look at the version's and the job's state, never at its stage.
RecordTerminal(v, outcome) ==
    /\ version[v] = "CANDIDATE_PROCESSING"
    /\ job[v] \in {"QUEUED", "PROCESSING"}
    /\ version' = [version EXCEPT ![v] = CandidateState(outcome)]
    /\ job' = [job EXCEPT ![v] = outcome]
    /\ stage' = [stage EXCEPT ![v] = "CLEANING_UP"]
    /\ UNCHANGED <<pages, generation, embedded>>
------------------------------------------------------------------------------
(* Index generations, embeddings and activation.                           *)

\* What every index and embedding transaction re-validates about its version.
CandidateOpen(v) ==
    /\ version[v] = "CANDIDATE_PROCESSING"
    /\ job[v] = "PROCESSING"
    /\ stage[v] = "CHUNKING"

\* Wrong variant: a staging generation does not stand in the way of another.
NoStagingConflict(v) == FALSE

HasStaging(v) == \E g \in GenerationsOf(v) : generation[g].state = "STAGING"

StageCandidate(g, v, p) ==
    /\ generation[g] = NoRow
    /\ ~ HasStaging(v)
    /\ CandidateOpen(v)
    /\ generation' = [generation EXCEPT ![g] = [state |-> "STAGING", version |-> v, profile |-> p]]
    /\ UNCHANGED <<version, job, stage, pages, embedded>>

\* Wrong variant: the generation is looked at, its version and job are not.
IsStagingRow(g) ==
    /\ g \in IndexRows
    /\ generation[g].state = "STAGING"

IsStaging(g) ==
    /\ g \in IndexRows
    /\ generation[g].state = "STAGING"
    /\ CandidateOpen(generation[g].version)

\* Wrong variant: any generation row may be rebuilt in place.
ReplaceAnyGeneration(g) ==
    /\ g \in IndexRows
    /\ embedded' = [embedded EXCEPT ![g] = {}]
    /\ UNCHANGED <<version, job, stage, pages, generation>>

\* The chunk rows are deleted and inserted again under the same identifiers;
\* the foreign key of embeddings deletes their vectors with them.
ReplaceCandidate(g) ==
    /\ IsStaging(g)
    /\ embedded' = [embedded EXCEPT ![g] = {}]
    /\ UNCHANGED <<version, job, stage, pages, generation>>

AddBatch(g, batch) ==
    /\ IsStaging(g)
    /\ batch \subseteq ChunkSet(g) \ embedded[g]
    /\ batch # {}
    /\ embedded' = [embedded EXCEPT ![g] = @ \cup batch]
    /\ UNCHANGED <<version, job, stage, pages, generation>>

\* Wrong variant: one embedding row is taken for a complete set.
SomeEmbedding(g) == embedded[g] # {}

Complete(g) == embedded[g] = ChunkSet(g)

PreviousVersions(v) == {u \in Siblings(v) : version[u] = "ACTIVE"}
PreviousGenerations(v) ==
    {g \in IndexRows : DocumentOf[generation[g].version] = DocumentOf[v]
                       /\ generation[g].state = "ACTIVE"}

\* The previously published pair, when there is one, must be one version and
\* the generation of that very version; anything else refuses the activation.
PreviousIsAPair(v) ==
    \/ PreviousVersions(v) = {} /\ PreviousGenerations(v) = {}
    \/ \E u \in Versions, g \in Generations :
          /\ PreviousVersions(v) = {u}
          /\ PreviousGenerations(v) = {g}
          /\ generation[g].version = u

ArchiveVersions(v) ==
    [u \in Versions |-> IF u \in PreviousVersions(v) THEN "ARCHIVED" ELSE version[u]]

\* Wrong variant: the previous version is archived, its generation is not.
KeepGenerations(v) == generation

ArchiveGenerations(v) ==
    [h \in Generations |->
        IF h \in PreviousGenerations(v) THEN [generation[h] EXCEPT !.state = "ARCHIVED"]
                                        ELSE generation[h]]

\* Wrong variant: the quality of the pages is written to the job as it is.
QualityAsState(v) == pages[v]

ReadyState(v) == IF pages[v] = "WARNED" THEN "READY_WITH_WARNINGS" ELSE "READY"

Activate(g) ==
    /\ IsStaging(g)
    /\ Complete(g)
    /\ LET v == generation[g].version IN
       /\ PreviousIsAPair(v)
       /\ version' = [ArchiveVersions(v) EXCEPT ![v] = "ACTIVE"]
       /\ job' = [job EXCEPT ![v] = ReadyState(v)]
       /\ generation' = [ArchiveGenerations(v) EXCEPT ![g].state = "ACTIVE"]
    /\ UNCHANGED <<stage, pages, embedded>>
------------------------------------------------------------------------------
Ingest == \E v \in Versions : Register(v) \/ RegisterReplacement(v)

Process ==
    \E v \in Versions :
        \/ Start(v)
        \/ \E quality \in {"CLEAN", "WARNED"} : StagePages(v, quality)
        \/ \E outcome \in {"FAILED", "CANCELLED"} : RecordTerminal(v, outcome)

BuildIndex ==
    \E g \in Generations :
        \/ \E v \in Versions, p \in Profiles : StageCandidate(g, v, p)
        \/ ReplaceCandidate(g)
        \/ g \in IndexRows /\ \E batch \in SUBSET ChunkSet(g) : AddBatch(g, batch)
        \/ Activate(g)

Next == Ingest \/ Process \/ BuildIndex

Spec == Init /\ [][Next]_store
------------------------------------------------------------------------------
(* Properties.                                                             *)

\* A reader that finds an ACTIVE or ARCHIVED generation finds a vector for every
\* chunk of the version's committed pages, and a finished job that says whether
\* those pages carry warnings: a partially embedded candidate, a failed or a
\* cancelled attempt is never published (FinalizeIndexing, activate_candidate).
PublishedIsComplete ==
    \A g \in IndexRows :
        generation[g].state # "STAGING" =>
            LET v == generation[g].version IN
            /\ embedded[g] = ChunkSet(g)
            /\ pages[v] # "ABSENT"
            /\ job[v] = ReadyState(v)

Published(v) == {g \in GenerationsOf(v) : generation[g].state = version[v]}

\* Version rows and generation rows, written by separate UPDATEs, agree on what
\* is published: an ACTIVE or ARCHIVED version has exactly one generation in that
\* same state, a candidate version has none but STAGING ones, and a document has
\* at most one ACTIVE version.  The activation therefore always finds its
\* predecessor as one pair, and never refuses a complete candidate for it.
PublicationPairs ==
    \A v \in Versions :
        /\ IF version[v] \in {"ACTIVE", "ARCHIVED"}
           THEN \E g \in Generations : Published(v) = {g}
           ELSE \A g \in GenerationsOf(v) : generation[g].state = "STAGING"
        /\ IF version[v] = "ACTIVE" THEN PreviousVersions(v) = {} ELSE PreviousIsAPair(v)

\* A version never gets a second generation, whatever the profiles asked for:
\* select_compatible_generation can never find its choice ambiguous.
OneGenerationPerVersion ==
    \A g, h \in IndexRows : generation[g].version = generation[h].version => g = h

KeepsEvidence(v) ==
    /\ pages'[v] = pages[v]
    /\ job'[v] = job[v]
    /\ GenerationsOf(v)' = GenerationsOf(v)
    /\ \A g \in GenerationsOf(v) : embedded'[g] = embedded[g]
    /\ \/ version'[v] = version[v]
       \/ version[v] = "ACTIVE" /\ version'[v] = "ARCHIVED"

\* Once an attempt is over, published, failed or cancelled, nobody who still
\* holds an older handoff can change its pages, its generations' vectors or
\* its outcome; the one thing left to happen is that a later version replaces it.
EvidenceFrozen ==
    [][\A v \in Versions :
        version[v] \notin {"ABSENT", "CANDIDATE_PROCESSING"} => KeepsEvidence(v)]_store

\* What readers see of the rows: the ACTIVE generation of a document.
ActiveOf(d) ==
    {g \in IndexRows : DocumentOf[generation[g].version] = d /\ generation[g].state = "ACTIVE"}

PublishedOf(d) == CHOOSE g \in ActiveOf(d) : TRUE

ReaderIndex ==
    [d \in Documents |->
        IF ActiveOf(d) = {} THEN NoRow
        ELSE [generation |-> PublishedOf(d), vectors |-> embedded[PublishedOf(d)]]]

Retired == {g \in IndexRows : generation[g].state = "ARCHIVED"}

Readers == INSTANCE PublishedIndex WITH
    Sizes <- [d \in Documents |->
                {ChunkCount[v][p] : v \in {u \in Versions : DocumentOf[u] = d}, p \in Profiles}],
    NoIndex <- NoRow,
    index <- ReaderIndex,
    retired <- Retired

\* The repositories implement the published index their readers rely on: every
\* write is invisible to readers, or swaps in one step one complete index for
\* another (FinalizeIndexing's single unit of work).
ReadersSpec == Readers!Spec
==============================================================================
