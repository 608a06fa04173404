-------------------------- MODULE DocumentStoreProofs --------------------------
(***************************************************************************)
(* Proofs about DocumentStore for any numbers of documents, versions,      *)
(* chunks and profiles: its type invariant, and the publication invariants *)
(* that retrieval and chat rely on.                                        *)
(*                                                                         *)
(* None of the publication invariants is inductive by itself.  What makes  *)
(* them so is that every generation row follows the state of its version   *)
(* (FollowsVersion): then a candidate version has only STAGING rows, so    *)
(* that the one guard of StageCandidate, which looks for STAGING rows      *)
(* only, keeps a second generation out for good.                           *)
(***************************************************************************)
EXTENDS DocumentStore, TLAPS

\* A STAGING row belongs to a version that was not published (its attempt may be
\* over), any other row to a version in the row's own state.
FollowsVersion ==
    \A g \in IndexRows :
        LET v == generation[g].version IN
        IF generation[g].state = "STAGING"
        THEN version[v] \in {"CANDIDATE_PROCESSING", "CANDIDATE_FAILED", "CANDIDATE_CANCELLED"}
        ELSE version[v] = generation[g].state

HasGeneration ==
    \A v \in Versions : version[v] \in {"ACTIVE", "ARCHIVED"} => GenerationsOf(v) # {}

OneActiveVersion ==
    \A u, v \in Versions :
        version[u] = "ACTIVE" /\ version[v] = "ACTIVE" /\ DocumentOf[u] = DocumentOf[v] => u = v

\* The stage that opens a version to indexing is only reached with its pages.
ChunkingHasPages == \A v \in Versions : stage[v] = "CHUNKING" => pages[v] # "ABSENT"

IInv ==
    /\ TypeOK
    /\ FollowsVersion
    /\ HasGeneration
    /\ OneActiveVersion
    /\ ChunkingHasPages
    /\ OneGenerationPerVersion
    /\ PublishedIsComplete
------------------------------------------------------------------------------
(* Types.                                                                  *)

\* What a generation row consists of.
LEMMA RowFields ==
    ASSUME TypeOK, NEW g \in IndexRows
    PROVE  /\ g \in Generations
           /\ generation[g] \in GenerationRow
           /\ generation[g].version \in Versions
           /\ generation[g].profile \in Profiles
           /\ generation[g].state \in {"STAGING", "ACTIVE", "ARCHIVED"}
  BY DEF TypeOK, IndexRows, GenerationRow

\* Chunks are numbered by natural numbers.
LEMMA ChunkSetIsNat ==
    ASSUME TypeOK, NEW g \in IndexRows
    PROVE  ChunkSet(g) \subseteq Nat
  BY RowFields, ChunkCountAssumption DEF ChunkSet

\* Archiving rewrites states only.
LEMMA ArchiveTypes ==
    ASSUME TypeOK, NEW v \in Versions
    PROVE  /\ ArchiveVersions(v) \in [Versions -> VersionStates]
           /\ ArchiveGenerations(v) \in [Generations -> GenerationRow \cup {NoRow}]
  <1>1. ArchiveVersions(v) \in [Versions -> VersionStates]
    BY DEF TypeOK, ArchiveVersions, VersionStates
  <1>2. ASSUME NEW h \in Generations
        PROVE  (IF h \in PreviousGenerations(v) THEN [generation[h] EXCEPT !.state = "ARCHIVED"]
                                                ELSE generation[h]) \in GenerationRow \cup {NoRow}
    <2>1. CASE h \in PreviousGenerations(v)
      <3>1. generation[h] \in GenerationRow
        BY <2>1, RowFields DEF PreviousGenerations
      <3>2. [generation[h] EXCEPT !.state = "ARCHIVED"] \in GenerationRow
        BY <3>1 DEF GenerationRow
      <3> QED  BY <2>1, <3>2
    <2>2. CASE h \notin PreviousGenerations(v)
      BY <2>2 DEF TypeOK
    <2> QED  BY <2>1, <2>2
  <1> QED  BY <1>1, <1>2 DEF ArchiveGenerations

\* Every transaction keeps the rows well typed.
LEMMA TypeStep == TypeOK /\ [Next]_store => TypeOK'
  <1> SUFFICES ASSUME TypeOK, [Next]_store
               PROVE  TypeOK'
    OBVIOUS
  <1> USE DEF VersionStates, JobStates, JobStages, PageSets
  <1>1. ASSUME NEW v \in Versions, InsertVersion(v) PROVE TypeOK'
    BY <1>1 DEF TypeOK, InsertVersion
  <1>2. ASSUME NEW v \in Versions, Start(v) PROVE TypeOK'
    BY <1>2 DEF TypeOK, Start
  <1>3. ASSUME NEW v \in Versions, NEW quality \in {"CLEAN", "WARNED"}, StagePages(v, quality)
        PROVE TypeOK'
    BY <1>3 DEF TypeOK, StagePages
  <1>4. ASSUME NEW v \in Versions, NEW outcome \in {"FAILED", "CANCELLED"},
               RecordTerminal(v, outcome)
        PROVE TypeOK'
    BY <1>4 DEF TypeOK, RecordTerminal, CandidateState
  <1>5. ASSUME NEW g \in Generations, NEW v \in Versions, NEW p \in Profiles,
               StageCandidate(g, v, p)
        PROVE TypeOK'
    BY <1>5 DEF TypeOK, StageCandidate, GenerationRow
  <1>6. ASSUME NEW g \in Generations, ReplaceCandidate(g) PROVE TypeOK'
    BY <1>6 DEF TypeOK, ReplaceCandidate
  <1>7. ASSUME NEW g \in IndexRows, NEW batch \in SUBSET ChunkSet(g), AddBatch(g, batch)
        PROVE TypeOK'
    <2>1. batch \subseteq Nat
      BY ChunkSetIsNat
    <2>2. g \in Generations
      BY RowFields
    <2> QED  BY <1>7, <2>1, <2>2 DEF TypeOK, AddBatch
  <1>8. ASSUME NEW g \in Generations, Activate(g) PROVE TypeOK'
    <2> DEFINE v == generation[g].version
    <2>1. g \in IndexRows
      BY <1>8 DEF Activate, IsStaging
    <2>2. v \in Versions
      BY <2>1, RowFields
    <2>3. version' \in [Versions -> VersionStates]
      BY <1>8, <2>2, ArchiveTypes DEF Activate
    <2>4. job' \in [Versions -> JobStates]
      BY <1>8, <2>2 DEF Activate, TypeOK, ReadyState
    <2>5. ArchiveGenerations(v)[g] = generation[g]
      BY <1>8 DEF Activate, IsStaging, ArchiveGenerations, PreviousGenerations
    <2>6. [generation[g] EXCEPT !.state = "ACTIVE"] \in GenerationRow
      BY <2>1, RowFields DEF GenerationRow
    <2>7. generation' \in [Generations -> GenerationRow \cup {NoRow}]
      BY <1>8, <2>2, <2>5, <2>6, ArchiveTypes DEF Activate
    <2> QED  BY <1>8, <2>3, <2>4, <2>7 DEF Activate, TypeOK
  <1>9. CASE UNCHANGED store
    BY <1>9 DEF TypeOK, store
  <1> QED
    BY <1>1, <1>2, <1>3, <1>4, <1>5, <1>6, <1>7, <1>8, <1>9
    DEF Next, Ingest, Process, BuildIndex, Register, RegisterReplacement

\* Type correctness of the rows, under any order of the repository operations.
THEOREM TypeCorrect == Spec => []TypeOK
  <1>1. Init => TypeOK
    BY DEF Init, TypeOK, VersionStates, JobStates, JobStages, PageSets
  <1> QED  BY <1>1, TypeStep, PTL DEF Spec
------------------------------------------------------------------------------
(* The publication invariant.  Two frame lemmas serve the transactions that *)
(* leave the generation rows, or the rows and the version states, alone.    *)

\* The facts about generation rows carry over a step that adds or changes no row
\* and changes no version's state.
LEMMA RowsUnchanged ==
    ASSUME IInv, generation' = generation, version' = version
    PROVE  FollowsVersion' /\ HasGeneration' /\ OneActiveVersion' /\ OneGenerationPerVersion'
  BY DEF IInv, FollowsVersion, HasGeneration, OneActiveVersion, OneGenerationPerVersion,
         GenerationsOf, IndexRows

\* They carry over, too, when a candidate version changes to an unpublished state,
\* or an absent one becomes a candidate.
LEMMA CandidateMoved ==
    ASSUME IInv, NEW v \in Versions,
           version[v] \in {"ABSENT", "CANDIDATE_PROCESSING"},
           NEW s \in {"CANDIDATE_PROCESSING", "CANDIDATE_FAILED", "CANDIDATE_CANCELLED"},
           version' = [version EXCEPT ![v] = s],
           generation' = generation
    PROVE  FollowsVersion' /\ HasGeneration' /\ OneActiveVersion' /\ OneGenerationPerVersion'
  <1>1. FollowsVersion'
    BY RowFields DEF IInv, FollowsVersion, IndexRows, TypeOK
  <1>2. HasGeneration'
    BY DEF IInv, HasGeneration, GenerationsOf, IndexRows, TypeOK
  <1>3. OneActiveVersion'
    BY DEF IInv, OneActiveVersion, TypeOK
  <1>4. OneGenerationPerVersion'
    BY DEF IInv, OneGenerationPerVersion, IndexRows
  <1> QED  BY <1>1, <1>2, <1>3, <1>4

\* Published rows stay complete as long as neither they nor the rows of their
\* versions change.
LEMMA PublishedUnchanged ==
    ASSUME IInv,
           \A g \in IndexRows' : generation'[g].state # "STAGING" =>
               /\ g \in IndexRows
               /\ generation[g].state # "STAGING"
               /\ generation'[g].version = generation[g].version
               /\ generation'[g].profile = generation[g].profile
               /\ embedded'[g] = embedded[g]
               /\ pages'[generation[g].version] = pages[generation[g].version]
               /\ job'[generation[g].version] = job[generation[g].version]
    PROVE  PublishedIsComplete'
  BY DEF IInv, PublishedIsComplete, ChunkSet, ReadyState

\* A published row does not belong to a version that is still, or not yet, open.
LEMMA PublishedIsClosed ==
    ASSUME IInv, NEW g \in IndexRows, generation[g].state # "STAGING"
    PROVE  version[generation[g].version] \in {"ACTIVE", "ARCHIVED"}
  BY RowFields DEF IInv, FollowsVersion

\* A new row goes to a version that has none: it is a candidate, so that all its
\* rows would be STAGING, and StageCandidate found no STAGING one.
LEMMA StageStep ==
    ASSUME IInv, NEW g \in Generations, NEW v \in Versions, NEW p \in Profiles,
           StageCandidate(g, v, p)
    PROVE  IInv'
  <1> DEFINE row == [state |-> "STAGING", version |-> v, profile |-> p]
  <1>1. TypeOK /\ TypeOK'
    BY TypeStep DEF IInv, Next, BuildIndex
  <1>2. row \in GenerationRow /\ row # NoRow
    BY NoRowAssumption DEF GenerationRow
  <1>3. /\ generation' = [generation EXCEPT ![g] = row]
        /\ generation[g] = NoRow
        /\ version' = version
        /\ UNCHANGED <<job, stage, pages, embedded>>
    BY DEF StageCandidate
  <1>4. IndexRows' = IndexRows \cup {g} /\ g \notin IndexRows
    BY <1>1, <1>2, <1>3 DEF IndexRows, TypeOK
  <1>5. generation'[g] = row /\ \A h \in IndexRows : generation'[h] = generation[h]
    BY <1>1, <1>3, <1>4 DEF TypeOK, IndexRows
  <1>6. \A h \in IndexRows : generation[h].version # v
    <2> SUFFICES ASSUME NEW h \in IndexRows, generation[h].version = v
                 PROVE  FALSE
      OBVIOUS
    <2>1. generation[h].state # "STAGING"
      BY DEF StageCandidate, HasStaging, GenerationsOf
    <2>2. version[v] \in {"ACTIVE", "ARCHIVED"}
      BY <2>1, PublishedIsClosed
    <2> QED  BY <2>2 DEF StageCandidate, CandidateOpen
  <1>7. FollowsVersion'
    BY <1>3, <1>4, <1>5 DEF IInv, FollowsVersion, StageCandidate, CandidateOpen
  <1>8. HasGeneration'
    BY <1>3, <1>4, <1>5 DEF IInv, HasGeneration, GenerationsOf
  <1>9. OneActiveVersion' /\ ChunkingHasPages'
    BY <1>3 DEF IInv, OneActiveVersion, ChunkingHasPages
  <1>10. OneGenerationPerVersion'
    BY <1>4, <1>5, <1>6 DEF IInv, OneGenerationPerVersion
  <1>11. PublishedIsComplete'
    BY <1>3, <1>4, <1>5, PublishedUnchanged
  <1> QED  BY <1>1, <1>7, <1>8, <1>9, <1>10, <1>11 DEF IInv

\* What an activation does to the rows of other versions: where the version is the
\* document's active one, both it and its one generation are archived; every other
\* version and generation stays as it is.
LEMMA ArchivedTogether ==
    ASSUME IInv, NEW v \in Versions, NEW h \in IndexRows, generation[h].version # v
    PROVE  (generation[h].version \in PreviousVersions(v)) <=> (h \in PreviousGenerations(v))
  <1>1. generation[h].version \in Versions
    BY RowFields DEF IInv
  <1>2. (version[generation[h].version] = "ACTIVE") <=> (generation[h].state = "ACTIVE")
    BY RowFields DEF IInv, FollowsVersion
  <1> QED  BY <1>1, <1>2 DEF PreviousVersions, PreviousGenerations, Siblings

\* What an activation does to the rows: the candidate's becomes the active one, the
\* ones it replaces are archived, and nothing else about any row changes.
LEMMA ActivatedRows ==
    ASSUME IInv, NEW g \in Generations, Activate(g)
    PROVE  LET v == generation[g].version IN
           /\ IndexRows' = IndexRows
           /\ \A h \in IndexRows :
                /\ generation'[h].version = generation[h].version
                /\ generation'[h].profile = generation[h].profile
                /\ generation'[h].state =
                      IF h = g THEN "ACTIVE"
                      ELSE IF h \in PreviousGenerations(v) THEN "ARCHIVED" ELSE generation[h].state
  <1> DEFINE v == generation[g].version
  <1>1. TypeOK
    BY DEF IInv
  <1>2. g \in IndexRows
    BY DEF Activate, IsStaging
  <1>3. generation[g] \in GenerationRow /\ generation[g].state = "STAGING"
    BY <1>1, <1>2, RowFields DEF Activate, IsStaging
  <1>4. generation' = [ArchiveGenerations(v) EXCEPT ![g].state = "ACTIVE"]
    BY DEF Activate
  <1>5. generation'[g] = [generation[g] EXCEPT !.state = "ACTIVE"]
    BY <1>2, <1>3, <1>4 DEF ArchiveGenerations, PreviousGenerations
  <1>6. \A h \in Generations \ {g} :
            generation'[h] = IF h \in PreviousGenerations(v)
                             THEN [generation[h] EXCEPT !.state = "ARCHIVED"]
                             ELSE generation[h]
    BY <1>4 DEF ArchiveGenerations
  <1>7. \A h \in IndexRows :
            /\ h \in IndexRows'
            /\ generation'[h].version = generation[h].version
            /\ generation'[h].profile = generation[h].profile
            /\ generation'[h].state =
                  IF h = g THEN "ACTIVE"
                  ELSE IF h \in PreviousGenerations(v) THEN "ARCHIVED" ELSE generation[h].state
    <2> SUFFICES ASSUME NEW h \in IndexRows
                 PROVE  /\ h \in IndexRows'
                        /\ generation'[h].version = generation[h].version
                        /\ generation'[h].profile = generation[h].profile
                        /\ generation'[h].state =
                              IF h = g THEN "ACTIVE"
                              ELSE IF h \in PreviousGenerations(v) THEN "ARCHIVED"
                                   ELSE generation[h].state
      OBVIOUS
    <2>1. h \in Generations /\ generation[h] \in GenerationRow
      BY <1>1, RowFields
    <2>2. generation'[h] \in GenerationRow
      <3>1. CASE h = g
        BY <3>1, <1>3, <1>5 DEF GenerationRow
      <3>2. CASE h # g
        BY <3>2, <1>6, <2>1 DEF GenerationRow
      <3> QED  BY <3>1, <3>2
    <2>3. h \in IndexRows'
      BY <2>1, <2>2, NoRowAssumption DEF IndexRows
    <2> QED  BY <1>5, <1>6, <2>1, <2>3 DEF GenerationRow
  <1>8. IndexRows' = IndexRows
    <2>1. ASSUME NEW h \in IndexRows' PROVE h \in IndexRows
      <3>1. CASE h = g
        BY <3>1, <1>2
      <3>2. CASE h # g /\ h \notin PreviousGenerations(v)
        BY <3>2, <1>6, <2>1 DEF IndexRows
      <3>3. CASE h \in PreviousGenerations(v)
        BY <3>3 DEF PreviousGenerations
      <3> QED  BY <3>1, <3>2, <3>3
    <2> QED  BY <1>7, <2>1
  <1> QED  BY <1>7, <1>8

\* Activating a complete candidate keeps the invariant: the new pair is complete and
\* alone in its document, and what it replaces is archived on both sides at once.
LEMMA ActivateStep ==
    ASSUME IInv, NEW g \in Generations, Activate(g)
    PROVE  IInv'
  <1> DEFINE v == generation[g].version
  <1>1. TypeOK /\ TypeOK'
    BY TypeStep DEF IInv, Next, BuildIndex
  <1>2. g \in IndexRows /\ generation[g].state = "STAGING" /\ CandidateOpen(v) /\ Complete(g)
    BY DEF Activate, IsStaging
  <1>3. v \in Versions /\ generation[g] \in GenerationRow
    BY <1>1, <1>2, RowFields
  <1>4. /\ version' = [ArchiveVersions(v) EXCEPT ![v] = "ACTIVE"]
        /\ job' = [job EXCEPT ![v] = ReadyState(v)]
        /\ generation' = [ArchiveGenerations(v) EXCEPT ![g].state = "ACTIVE"]
        /\ UNCHANGED <<stage, pages, embedded>>
    BY DEF Activate
  <1>5. \A h \in IndexRows \ {g} : generation[h].version # v
    BY <1>2 DEF IInv, OneGenerationPerVersion
  <1>6. version'[v] = "ACTIVE" /\ \A u \in Versions \ {v} :
            version'[u] = IF u \in PreviousVersions(v) THEN "ARCHIVED" ELSE version[u]
    BY <1>3, <1>4 DEF ArchiveVersions
  <1>7. /\ IndexRows' = IndexRows
        /\ \A h \in IndexRows :
            /\ generation'[h].version = generation[h].version
            /\ generation'[h].profile = generation[h].profile
            /\ generation'[h].state =
                  IF h = g THEN "ACTIVE"
                  ELSE IF h \in PreviousGenerations(v) THEN "ARCHIVED" ELSE generation[h].state
    BY ActivatedRows
  <1>8. FollowsVersion'
    <2> SUFFICES ASSUME NEW h \in IndexRows
                 PROVE  IF generation'[h].state = "STAGING"
                        THEN version'[generation'[h].version] \in
                               {"CANDIDATE_PROCESSING", "CANDIDATE_FAILED", "CANDIDATE_CANCELLED"}
                        ELSE version'[generation'[h].version] = generation'[h].state
      BY <1>7 DEF FollowsVersion
    <2>1. CASE h = g
      BY <2>1, <1>6, <1>7
    <2>2. CASE h # g
      <3>1. generation[h].version \in Versions \ {v}
        BY <2>2, <1>1, <1>5, RowFields
      <3>2. (generation[h].version \in PreviousVersions(v)) <=> (h \in PreviousGenerations(v))
        BY <3>1, <1>3, ArchivedTogether
      <3> QED  BY <2>2, <3>1, <3>2, <1>6, <1>7 DEF IInv, FollowsVersion
    <2> QED  BY <2>1, <2>2
  <1>9. HasGeneration'
    <2>1. ASSUME NEW u \in Versions PROVE GenerationsOf(u)' = GenerationsOf(u)
      BY <1>7 DEF GenerationsOf
    <2>2. GenerationsOf(v) # {}
      BY <1>2 DEF GenerationsOf
    <2> QED  BY <1>6, <2>1, <2>2 DEF IInv, HasGeneration, PreviousVersions
  <1>10. OneActiveVersion'
    BY <1>3, <1>6 DEF IInv, OneActiveVersion, PreviousVersions, Siblings
  <1>11. ChunkingHasPages'
    BY <1>4 DEF IInv, ChunkingHasPages
  <1>12. OneGenerationPerVersion'
    BY <1>7 DEF IInv, OneGenerationPerVersion
  <1>13. PublishedIsComplete'
    <2> SUFFICES ASSUME NEW h \in IndexRows, generation'[h].state # "STAGING"
                 PROVE  /\ embedded[h] = ChunkSet(h)
                        /\ pages[generation[h].version] # "ABSENT"
                        /\ job'[generation[h].version] = ReadyState(generation[h].version)
      BY <1>4, <1>7 DEF PublishedIsComplete, ChunkSet, ReadyState
    <2>1. CASE h = g
      BY <2>1, <1>1, <1>2, <1>3, <1>4
      DEF IInv, ChunkingHasPages, CandidateOpen, Complete, TypeOK
    <2>2. CASE h # g
      <3>1. generation[h].version \in Versions \ {v}
        BY <2>2, <1>1, <1>5, RowFields
      <3>2. job'[generation[h].version] = job[generation[h].version]
        BY <3>1, <1>1, <1>4 DEF TypeOK
      <3>3. generation[h].state # "STAGING"
        BY <2>2, <1>7 DEF PreviousGenerations
      <3> QED  BY <3>2, <3>3 DEF IInv, PublishedIsComplete
    <2> QED  BY <2>1, <2>2
  <1> QED  BY <1>1, <1>8, <1>9, <1>10, <1>11, <1>12, <1>13 DEF IInv

\* Every transaction keeps the publication invariant.
LEMMA InvariantStep == IInv /\ [Next]_store => IInv'
  <1> SUFFICES ASSUME IInv, [Next]_store
               PROVE  IInv'
    OBVIOUS
  <1>0. TypeOK /\ TypeOK'
    BY TypeStep DEF IInv
  <1>1. ASSUME NEW v \in Versions, InsertVersion(v) PROVE IInv'
    <2>1. FollowsVersion' /\ HasGeneration' /\ OneActiveVersion' /\ OneGenerationPerVersion'
      BY <1>1, CandidateMoved DEF InsertVersion
    <2>2. ChunkingHasPages'
      BY <1>0, <1>1 DEF IInv, ChunkingHasPages, InsertVersion, TypeOK
    <2>3. \A g \in IndexRows : generation[g].state # "STAGING" => generation[g].version # v
      BY <1>1, PublishedIsClosed DEF InsertVersion
    <2>4. PublishedIsComplete'
      BY <1>0, <1>1, <2>3, RowFields, PublishedUnchanged DEF InsertVersion, IndexRows, TypeOK
    <2> QED  BY <1>0, <2>1, <2>2, <2>4 DEF IInv
  <1>2. ASSUME NEW v \in Versions, Start(v) PROVE IInv'
    <2>1. FollowsVersion' /\ HasGeneration' /\ OneActiveVersion' /\ OneGenerationPerVersion'
      BY <1>2, RowsUnchanged DEF Start
    <2>2. ChunkingHasPages'
      BY <1>0, <1>2 DEF IInv, ChunkingHasPages, Start, TypeOK
    <2>3. \A g \in IndexRows : generation[g].state # "STAGING" => generation[g].version # v
      BY <1>2, PublishedIsClosed DEF Start
    <2>4. PublishedIsComplete'
      BY <1>0, <1>2, <2>3, RowFields, PublishedUnchanged DEF Start, IndexRows, TypeOK
    <2> QED  BY <1>0, <2>1, <2>2, <2>4 DEF IInv
  <1>3. ASSUME NEW v \in Versions, NEW quality \in {"CLEAN", "WARNED"}, StagePages(v, quality)
        PROVE IInv'
    <2>1. FollowsVersion' /\ HasGeneration' /\ OneActiveVersion' /\ OneGenerationPerVersion'
      BY <1>3, RowsUnchanged DEF StagePages
    <2>2. ChunkingHasPages'
      BY <1>0, <1>3 DEF IInv, ChunkingHasPages, StagePages, TypeOK
    <2>3. \A g \in IndexRows : generation[g].state # "STAGING" => generation[g].version # v
      BY <1>3, PublishedIsClosed DEF StagePages
    <2>4. PublishedIsComplete'
      BY <1>0, <1>3, <2>3, RowFields, PublishedUnchanged DEF StagePages, IndexRows, TypeOK
    <2> QED  BY <1>0, <2>1, <2>2, <2>4 DEF IInv
  <1>4. ASSUME NEW v \in Versions, NEW outcome \in {"FAILED", "CANCELLED"},
               RecordTerminal(v, outcome)
        PROVE IInv'
    <2>1. FollowsVersion' /\ HasGeneration' /\ OneActiveVersion' /\ OneGenerationPerVersion'
      BY <1>4, CandidateMoved DEF RecordTerminal, CandidateState
    <2>2. ChunkingHasPages'
      BY <1>0, <1>4 DEF IInv, ChunkingHasPages, RecordTerminal, TypeOK
    <2>3. \A g \in IndexRows : generation[g].state # "STAGING" => generation[g].version # v
      BY <1>4, PublishedIsClosed DEF RecordTerminal
    <2>4. PublishedIsComplete'
      BY <1>0, <1>4, <2>3, RowFields, PublishedUnchanged DEF RecordTerminal, IndexRows, TypeOK
    <2> QED  BY <1>0, <2>1, <2>2, <2>4 DEF IInv
  <1>5. ASSUME NEW g \in Generations, NEW v \in Versions, NEW p \in Profiles,
               StageCandidate(g, v, p)
        PROVE IInv'
    BY <1>5, StageStep
  <1>6. ASSUME NEW g \in IndexRows, generation[g].state = "STAGING",
               NEW vectors, embedded' = [embedded EXCEPT ![g] = vectors],
               UNCHANGED <<version, job, stage, pages, generation>>
        PROVE IInv'
    <2>1. FollowsVersion' /\ HasGeneration' /\ OneActiveVersion' /\ OneGenerationPerVersion'
      BY <1>6, RowsUnchanged
    <2>2. ChunkingHasPages'
      BY <1>6 DEF IInv, ChunkingHasPages
    <2>3. PublishedIsComplete'
      BY <1>0, <1>6, PublishedUnchanged DEF IndexRows, TypeOK
    <2> QED  BY <1>0, <2>1, <2>2, <2>3 DEF IInv
  <1>7. ASSUME NEW g \in Generations, ReplaceCandidate(g) PROVE IInv'
    BY <1>6, <1>7 DEF ReplaceCandidate, IsStaging
  <1>8. ASSUME NEW g \in IndexRows, NEW batch \in SUBSET ChunkSet(g), AddBatch(g, batch)
        PROVE IInv'
    BY <1>6, <1>8 DEF AddBatch, IsStaging
  <1>9. ASSUME NEW g \in Generations, Activate(g) PROVE IInv'
    BY <1>9, ActivateStep
  <1>10. CASE UNCHANGED store
    <2>1. FollowsVersion' /\ HasGeneration' /\ OneActiveVersion' /\ OneGenerationPerVersion'
      BY <1>10, RowsUnchanged DEF store
    <2>2. ChunkingHasPages' /\ PublishedIsComplete'
      BY <1>10, PublishedUnchanged DEF IInv, ChunkingHasPages, store, IndexRows
    <2> QED  BY <1>0, <2>1, <2>2 DEF IInv
  <1> QED
    BY <1>1, <1>2, <1>3, <1>4, <1>5, <1>7, <1>8, <1>9, <1>10
    DEF Next, Ingest, Process, BuildIndex, Register, RegisterReplacement

\* The publication invariant holds of every reachable state of the rows.
THEOREM Inductive == Spec => []IInv
  <1>1. Init => IInv
    <2> SUFFICES ASSUME Init PROVE IInv
      OBVIOUS
    <2>1. TypeOK
      BY DEF Init, TypeOK, VersionStates, JobStates, JobStages, PageSets
    <2>2. IndexRows = {}
      BY DEF Init, IndexRows
    <2> QED
      BY <2>1, <2>2
      DEF Init, IInv, FollowsVersion, HasGeneration, OneActiveVersion, ChunkingHasPages,
          OneGenerationPerVersion, PublishedIsComplete
  <1> QED  BY <1>1, InvariantStep, PTL DEF Spec

\* Readers never meet a published generation with a vector missing, or one of an
\* attempt that failed or was cancelled (FinalizeIndexing, activate_candidate).
THEOREM PublishedComplete == Spec => []PublishedIsComplete
  BY Inductive, PTL DEF IInv

\* No version ever gets a second generation (select_compatible_generation).
THEOREM OneGeneration == Spec => []OneGenerationPerVersion
  BY Inductive, PTL DEF IInv

\* The invariant says enough of both kinds of rows for them to agree.
LEMMA Pairs == IInv => PublicationPairs
  <1> SUFFICES ASSUME IInv, NEW v \in Versions
               PROVE  /\ IF version[v] \in {"ACTIVE", "ARCHIVED"}
                         THEN \E g \in Generations : Published(v) = {g}
                         ELSE \A g \in GenerationsOf(v) : generation[g].state = "STAGING"
                      /\ IF version[v] = "ACTIVE" THEN PreviousVersions(v) = {}
                                                 ELSE PreviousIsAPair(v)
    BY DEF PublicationPairs
  <1> USE DEF IInv
  <1>1. ASSUME NEW u \in Versions, version[u] \in {"ACTIVE", "ARCHIVED"}
        PROVE  \E g \in Generations : Published(u) = {g} /\ g \in GenerationsOf(u)
    <2>1. PICK g \in GenerationsOf(u) : TRUE
      BY <1>1 DEF HasGeneration
    <2>2. g \in IndexRows /\ generation[g].version = u /\ g \in Generations
      BY <2>1 DEF GenerationsOf, IndexRows
    <2>3. generation[g].state = version[u]
      BY <1>1, <2>2 DEF FollowsVersion
    <2>4. \A h \in GenerationsOf(u) : h = g
      BY <2>2 DEF GenerationsOf, OneGenerationPerVersion
    <2> QED  BY <2>1, <2>2, <2>3, <2>4 DEF Published
  <1>2. ASSUME version[v] \notin {"ACTIVE", "ARCHIVED"}, NEW g \in GenerationsOf(v)
        PROVE  generation[g].state = "STAGING"
    BY <1>2, PublishedIsClosed DEF GenerationsOf
  <1>3. ASSUME version[v] = "ACTIVE" PROVE PreviousVersions(v) = {}
    BY <1>3 DEF OneActiveVersion, PreviousVersions, Siblings
  <1>4. ASSUME version[v] # "ACTIVE" PROVE PreviousIsAPair(v)
    <2>1. CASE PreviousVersions(v) = {}
      <3>1. ASSUME NEW g \in PreviousGenerations(v) PROVE FALSE
        <4>1. /\ generation[g].version \in Versions
              /\ version[generation[g].version] = "ACTIVE"
              /\ DocumentOf[generation[g].version] = DocumentOf[v]
          BY RowFields DEF FollowsVersion, PreviousGenerations
        <4> QED  BY <1>4, <2>1, <4>1 DEF PreviousVersions, Siblings
      <3> QED  BY <2>1, <3>1 DEF PreviousIsAPair
    <2>2. CASE PreviousVersions(v) # {}
      <3>1. PICK u \in PreviousVersions(v) : TRUE
        BY <2>2
      <3>2. u \in Versions /\ version[u] = "ACTIVE" /\ DocumentOf[u] = DocumentOf[v]
        BY <3>1 DEF PreviousVersions, Siblings
      <3>3. PreviousVersions(v) = {u}
        BY <3>1, <3>2 DEF OneActiveVersion, PreviousVersions, Siblings
      <3>4. PICK g \in Generations : Published(u) = {g} /\ g \in GenerationsOf(u)
        BY <1>1, <3>2
      <3>5. generation[g].version = u /\ generation[g].state = "ACTIVE" /\ g \in IndexRows
        BY <3>2, <3>4 DEF GenerationsOf, Published
      <3>6. ASSUME NEW h \in PreviousGenerations(v) PROVE h = g
        <4>1. /\ h \in IndexRows
              /\ generation[h].version \in Versions
              /\ version[generation[h].version] = "ACTIVE"
              /\ DocumentOf[generation[h].version] = DocumentOf[v]
          BY RowFields DEF FollowsVersion, PreviousGenerations
        <4>2. generation[h].version = u
          BY <3>2, <4>1 DEF OneActiveVersion
        <4> QED  BY <3>5, <4>1, <4>2 DEF OneGenerationPerVersion
      <3>7. PreviousGenerations(v) = {g}
        BY <3>2, <3>5, <3>6 DEF PreviousGenerations
      <3> QED  BY <3>2, <3>3, <3>5, <3>7 DEF PreviousIsAPair
    <2> QED  BY <2>1, <2>2
  <1> QED  BY <1>1, <1>2, <1>3, <1>4

\* Version rows and generation rows agree on what is published, so that the
\* activation always finds its predecessor as one pair (_previous_active_versions,
\* _previous_active_generations) and a document has at most one ACTIVE version.
THEOREM PublicationIsPaired == Spec => []PublicationPairs
  BY Inductive, Pairs, PTL
------------------------------------------------------------------------------
(* The action property.                                                    *)

\* An attempt is over when nothing but a replacement can happen to it any more.
Over(v) == version[v] \notin {"ABSENT", "CANDIDATE_PROCESSING"}

\* A transaction that works on the open version u, and leaves alone the rows and
\* vectors of all others, keeps the evidence of every attempt that is over.
LEMMA OthersKept ==
    ASSUME TypeOK, NEW u \in Versions, ~ Over(u),
           NEW v \in Versions, Over(v),
           \A w \in Versions \ {u} :
               pages'[w] = pages[w] /\ job'[w] = job[w] /\ version'[w] = version[w],
           GenerationsOf(v)' = GenerationsOf(v),
           \A g \in GenerationsOf(v) : embedded'[g] = embedded[g]
    PROVE  KeepsEvidence(v)
  BY DEF KeepsEvidence, Over

\* No transaction touches what an attempt that is over left behind, but for the
\* archiving of a replaced version.
LEMMA FrozenStep ==
    ASSUME IInv, [Next]_store, NEW v \in Versions, Over(v)
    PROVE  KeepsEvidence(v)
  <1>0. TypeOK
    BY DEF IInv
  <1>1. ASSUME NEW u \in Versions,
               \/ InsertVersion(u) \/ Start(u)
               \/ \E quality \in {"CLEAN", "WARNED"} : StagePages(u, quality)
               \/ \E outcome \in {"FAILED", "CANCELLED"} : RecordTerminal(u, outcome)
        PROVE  KeepsEvidence(v)
    <2>1. ~ Over(u)
      BY <1>1 DEF Over, InsertVersion, Start, StagePages, RecordTerminal
    <2>2. generation' = generation /\ embedded' = embedded
      BY <1>1 DEF InsertVersion, Start, StagePages, RecordTerminal
    <2>3. \A w \in Versions \ {u} :
             pages'[w] = pages[w] /\ job'[w] = job[w] /\ version'[w] = version[w]
      BY <1>0, <1>1 DEF TypeOK, InsertVersion, Start, StagePages, RecordTerminal
    <2>4. GenerationsOf(v)' = GenerationsOf(v)
      BY <2>2 DEF GenerationsOf, IndexRows
    <2> QED  BY <1>0, <2>1, <2>2, <2>3, <2>4, OthersKept
  <1>2. ASSUME NEW g \in Generations, NEW u \in Versions, NEW p \in Profiles,
               StageCandidate(g, u, p)
        PROVE  KeepsEvidence(v)
    <2> DEFINE row == [state |-> "STAGING", version |-> u, profile |-> p]
    <2>1. ~ Over(u) /\ u # v
      BY <1>2 DEF Over, StageCandidate, CandidateOpen
    <2>2. row # NoRow
      BY NoRowAssumption DEF GenerationRow
    <2>3. /\ generation[g] = NoRow
          /\ generation'[g] = row
          /\ \A h \in Generations \ {g} : generation'[h] = generation[h]
      BY <1>0, <1>2 DEF StageCandidate, TypeOK
    <2>4. GenerationsOf(v)' = GenerationsOf(v)
      BY <2>1, <2>2, <2>3 DEF GenerationsOf, IndexRows
    <2> QED  BY <1>0, <1>2, <2>1, <2>4, OthersKept DEF StageCandidate
  <1>3. ASSUME NEW g \in IndexRows, IsStaging(g),
               NEW vectors, embedded' = [embedded EXCEPT ![g] = vectors],
               UNCHANGED <<version, job, stage, pages, generation>>
        PROVE  KeepsEvidence(v)
    <2>1. g \notin GenerationsOf(v)
      BY <1>3 DEF IsStaging, CandidateOpen, GenerationsOf, Over
    <2>2. GenerationsOf(v)' = GenerationsOf(v)
      BY <1>3 DEF GenerationsOf, IndexRows
    <2>3. \A h \in GenerationsOf(v) : embedded'[h] = embedded[h]
      BY <1>0, <1>3, <2>1 DEF GenerationsOf, IndexRows, TypeOK
    <2> QED  BY <1>3, <2>2, <2>3 DEF KeepsEvidence
  <1>4. ASSUME NEW g \in Generations, Activate(g) PROVE KeepsEvidence(v)
    <2> DEFINE u == generation[g].version
    <2>1. g \in IndexRows /\ generation[g].state = "STAGING" /\ CandidateOpen(u)
      BY <1>4 DEF Activate, IsStaging
    <2>2. u \in Versions /\ u # v
      BY <1>0, <2>1, RowFields DEF CandidateOpen, Over
    <2>3. /\ version' = [ArchiveVersions(u) EXCEPT ![u] = "ACTIVE"]
          /\ job' = [job EXCEPT ![u] = ReadyState(u)]
          /\ generation' = [ArchiveGenerations(u) EXCEPT ![g].state = "ACTIVE"]
          /\ UNCHANGED <<stage, pages, embedded>>
      BY <1>4 DEF Activate
    <2>4. version'[v] = IF v \in PreviousVersions(u) THEN "ARCHIVED" ELSE version[v]
      BY <2>2, <2>3 DEF ArchiveVersions
    <2>5. \A h \in Generations \ {g} :
             generation'[h] = IF h \in PreviousGenerations(u)
                              THEN [generation[h] EXCEPT !.state = "ARCHIVED"]
                              ELSE generation[h]
      BY <2>3 DEF ArchiveGenerations
    <2>6. generation'[g] = [generation[g] EXCEPT !.state = "ACTIVE"]
      BY <2>1, <2>3 DEF ArchiveGenerations, PreviousGenerations
    <2>7. g \notin GenerationsOf(v) /\ g \notin GenerationsOf(v)'
      BY <1>0, <2>1, <2>2, <2>6, RowFields DEF GenerationsOf, GenerationRow
    <2>8. ASSUME NEW h \in Generations \ {g}
          PROVE  h \in GenerationsOf(v)' <=> h \in GenerationsOf(v)
      <3>1. CASE h \notin PreviousGenerations(u)
        BY <3>1, <2>5 DEF GenerationsOf, IndexRows
      <3>2. CASE h \in PreviousGenerations(u)
        <4>1. h \in IndexRows /\ generation[h] \in GenerationRow
          BY <1>0, <3>2, RowFields DEF PreviousGenerations
        <4>2. generation'[h] \in GenerationRow /\ generation'[h].version = generation[h].version
          BY <3>2, <4>1, <2>5 DEF GenerationRow
        <4> QED  BY <4>1, <4>2, NoRowAssumption DEF GenerationsOf, IndexRows
      <3> QED  BY <3>1, <3>2
    <2>9. GenerationsOf(v)' = GenerationsOf(v)
      BY <2>7, <2>8 DEF GenerationsOf, IndexRows
    <2> QED  BY <1>0, <2>2, <2>3, <2>4, <2>9 DEF KeepsEvidence, PreviousVersions, TypeOK
  <1>5. CASE UNCHANGED store
    <2>1. GenerationsOf(v)' = GenerationsOf(v)
      BY <1>5 DEF store, GenerationsOf, IndexRows
    <2> QED  BY <1>5, <2>1 DEF store, KeepsEvidence
  <1>6. ASSUME NEW g \in Generations, ReplaceCandidate(g) PROVE KeepsEvidence(v)
    BY <1>3, <1>6 DEF ReplaceCandidate, IsStaging
  <1>7. ASSUME NEW g \in IndexRows, NEW batch \in SUBSET ChunkSet(g), AddBatch(g, batch)
        PROVE  KeepsEvidence(v)
    BY <1>3, <1>7 DEF AddBatch
  <1> QED
    BY <1>1, <1>2, <1>4, <1>5, <1>6, <1>7
    DEF Next, Ingest, Process, BuildIndex, Register, RegisterReplacement

\* A caller with an outdated handoff never changes what an attempt that is over
\* left behind (_validate_candidate_graph, the states in the UPDATEs' conditions).
THEOREM EvidenceIsFrozen == Spec => EvidenceFrozen
  <1>1. IInv /\ [Next]_store =>
           [\A v \in Versions :
              version[v] \notin {"ABSENT", "CANDIDATE_PROCESSING"} => KeepsEvidence(v)]_store
    BY FrozenStep DEF Over
  <1> QED  BY <1>1, Inductive, PTL DEF Spec, EvidenceFrozen
------------------------------------------------------------------------------
(* What callers that hold on to rows between transactions rely on.         *)

\* A generation row stays, under its version and profile, and once published is
\* never again a candidate.
LEMMA RowsStay ==
    ASSUME IInv, [Next]_store, NEW g \in IndexRows
    PROVE  /\ g \in IndexRows'
           /\ generation'[g].version = generation[g].version
           /\ generation'[g].profile = generation[g].profile
           /\ generation[g].state # "STAGING" => generation'[g].state # "STAGING"
           /\ ChunkSet(g)' = ChunkSet(g)
  <1> SUFFICES /\ g \in IndexRows'
               /\ generation'[g].version = generation[g].version
               /\ generation'[g].profile = generation[g].profile
               /\ generation[g].state # "STAGING" => generation'[g].state # "STAGING"
    BY DEF ChunkSet
  <1>1. CASE generation' = generation
    BY <1>1 DEF IndexRows
  <1>2. ASSUME NEW h \in Generations, NEW v \in Versions, NEW p \in Profiles,
               StageCandidate(h, v, p)
        PROVE  g \in IndexRows' /\ generation'[g] = generation[g]
    BY <1>2 DEF StageCandidate, IndexRows, IInv, TypeOK
  <1>3. ASSUME NEW h \in Generations, Activate(h)
        PROVE  /\ g \in IndexRows'
               /\ generation'[g].version = generation[g].version
               /\ generation'[g].profile = generation[g].profile
               /\ generation[g].state # "STAGING" => generation'[g].state # "STAGING"
    BY <1>3, ActivatedRows
  <1> QED
    BY <1>1, <1>2, <1>3
    DEF Next, store, Ingest, Process, BuildIndex, Register, RegisterReplacement, InsertVersion,
        Start, StagePages, RecordTerminal, ReplaceCandidate, AddBatch

\* A version is archived only because another of its document is active.
ArchivedIsReplaced ==
    \A v \in Versions :
        version[v] = "ARCHIVED" => \E u \in Siblings(v) : version[u] = "ACTIVE"

\* An archived version stays replaced, because nothing takes a version out of its states.
LEMMA ReplacedStay == IInv /\ ArchivedIsReplaced /\ [Next]_store => ArchivedIsReplaced'
  <1> SUFFICES ASSUME IInv, ArchivedIsReplaced, [Next]_store
               PROVE  ArchivedIsReplaced'
    OBVIOUS
  <1>1. ASSUME \A v \in Versions : version'[v] = version[v] \/
                   (version[v] \in {"ABSENT", "CANDIDATE_PROCESSING"}
                       /\ version'[v] \notin {"ACTIVE", "ARCHIVED"})
        PROVE  ArchivedIsReplaced'
    BY <1>1 DEF ArchivedIsReplaced, Siblings
  <1>2. ASSUME NEW g \in Generations, Activate(g)
        PROVE  ArchivedIsReplaced'
    <2>1. PICK w \in Versions : generation[g].version = w
      BY <1>2, RowFields DEF Activate, IsStaging, IInv
    <2>2. version[w] = "CANDIDATE_PROCESSING"
      BY <1>2, <2>1 DEF Activate, IsStaging, CandidateOpen
    <2>3. version' = [ArchiveVersions(w) EXCEPT ![w] = "ACTIVE"]
      BY <1>2, <2>1 DEF Activate
    <2>4. version'[w] = "ACTIVE" /\ \A u \in Versions \ {w} :
              version'[u] = IF u \in PreviousVersions(w) THEN "ARCHIVED" ELSE version[u]
      BY <2>3 DEF ArchiveVersions
    <2>5. ASSUME NEW v \in Versions, version'[v] = "ARCHIVED"
          PROVE  \E u \in Siblings(v) : version'[u] = "ACTIVE"
      <3>1. v # w
        BY <2>4, <2>5
      <3>2. CASE v \in Siblings(w)
        BY <2>4, <3>1, <3>2 DEF Siblings
      <3>3. CASE v \notin Siblings(w)
        <4>1. version[v] = "ARCHIVED" /\ DocumentOf[v] # DocumentOf[w]
          BY <2>4, <2>5, <3>1, <3>3 DEF PreviousVersions, Siblings
        <4>2. PICK u \in Siblings(v) : version[u] = "ACTIVE"
          BY <4>1 DEF ArchivedIsReplaced
        <4>3. u # w /\ u \notin Siblings(w)
          BY <2>2, <4>1, <4>2 DEF Siblings
        <4> QED  BY <2>4, <4>2, <4>3 DEF PreviousVersions, Siblings
      <3> QED  BY <3>2, <3>3
    <2> QED  BY <2>5 DEF ArchivedIsReplaced, Siblings
  <1>3. ASSUME NEW v \in Versions, InsertVersion(v) PROVE ArchivedIsReplaced'
    BY <1>1, <1>3 DEF InsertVersion, IInv, TypeOK
  <1>4. ASSUME NEW v \in Versions, NEW outcome \in {"FAILED", "CANCELLED"},
               RecordTerminal(v, outcome)
        PROVE  ArchivedIsReplaced'
    BY <1>1, <1>4 DEF RecordTerminal, CandidateState, IInv, TypeOK
  <1>5. CASE version' = version
    BY <1>1, <1>5
  <1> QED
    BY <1>2, <1>3, <1>4, <1>5
    DEF Next, store, Ingest, Process, BuildIndex, Register, RegisterReplacement, Start,
        StagePages, StageCandidate, ReplaceCandidate, AddBatch

------------------------------------------------------------------------------
(* The refinement of PublishedIndex.                                       *)

\* No document has two active generations: their versions would both be active.
LEMMA OneActiveOf ==
    ASSUME IInv, NEW d \in Documents
    PROVE  /\ ActiveOf(d) \subseteq IndexRows
           /\ \A g, h \in ActiveOf(d) : g = h
  <1>1. ASSUME NEW g \in ActiveOf(d)
        PROVE  /\ g \in IndexRows /\ generation[g].version \in Versions
               /\ version[generation[g].version] = "ACTIVE"
               /\ DocumentOf[generation[g].version] = d
    <2>1. g \in IndexRows /\ generation[g].state = "ACTIVE" /\ DocumentOf[generation[g].version] = d
      BY DEF ActiveOf
    <2> QED  BY <2>1, RowFields DEF IInv, FollowsVersion
  <1>2. ASSUME NEW g \in ActiveOf(d), NEW h \in ActiveOf(d)
        PROVE  g = h
    <2>1. generation[g].version = generation[h].version
      BY <1>1 DEF IInv, OneActiveVersion
    <2> QED  BY <1>1, <2>1 DEF IInv, OneGenerationPerVersion
  <1> QED  BY <1>1, <1>2

\* A document with an active generation shows readers that one, with its vectors,
\* and a document without shows none.
LEMMA ShownIndex ==
    ASSUME IInv, NEW d \in Documents
    PROVE  /\ ActiveOf(d) = {} => ReaderIndex[d] = NoRow
           /\ \A g \in ActiveOf(d) :
                /\ ReaderIndex[d] = [generation |-> g, vectors |-> embedded[g]]
                /\ ReaderIndex[d] # NoRow
           /\ Readers!Published(d) = ActiveOf(d)
  <1>1. ASSUME NEW g \in ActiveOf(d)
        PROVE  /\ ReaderIndex[d] = [generation |-> g, vectors |-> embedded[g]]
               /\ ReaderIndex[d] # NoRow
               /\ ActiveOf(d) = {g}
    <2>1. ActiveOf(d) = {g}
      BY OneActiveOf
    <2>2. PublishedOf(d) = g
      BY <2>1 DEF PublishedOf
    <2>3. ReaderIndex[d] = [generation |-> g, vectors |-> embedded[g]]
      BY <2>1, <2>2 DEF ReaderIndex
    <2>4. g \in Generations /\ embedded[g] \in SUBSET Nat
      BY OneActiveOf, RowFields DEF IInv, TypeOK
    <2>5. [generation |-> g, vectors |-> embedded[g]] \in [generation : Generations, vectors : SUBSET Nat]
      BY <2>4
    <2> QED  BY <2>1, <2>3, <2>5, NoRowAssumption
  <1>2. ActiveOf(d) = {} => ReaderIndex[d] = NoRow
    BY DEF ReaderIndex
  <1>3. Readers!Published(d) = ActiveOf(d)
    <2>1. CASE ActiveOf(d) = {}
      BY <1>2, <2>1 DEF Readers!Published
    <2>2. CASE ActiveOf(d) # {}
      <3>1. PICK g \in ActiveOf(d) : TRUE
        BY <2>2
      <3>2. /\ ReaderIndex[d].generation = g
            /\ ReaderIndex[d] # NoRow
            /\ ActiveOf(d) = {g}
        <4>1. ReaderIndex[d] = [generation |-> g, vectors |-> embedded[g]]
              /\ ReaderIndex[d] # NoRow /\ ActiveOf(d) = {g}
          BY <1>1, <3>1
        <4> QED  BY <4>1
      <3>3. Readers!Published(d) = {ReaderIndex[d].generation}
        BY <3>2 DEF Readers!Published
      <3> QED  BY <3>2, <3>3
    <2> QED  BY <2>1, <2>2
  <1> QED  BY <1>1, <1>2, <1>3

\* What readers see of a published generation is what is stored of it.
ShownAsStored ==
    \A d \in Documents : \A g \in ActiveOf(d) :
        ReaderIndex[d] = [generation |-> g, vectors |-> embedded[g]]

\* ShownIndex in a form that can be primed.
LEMMA ShownWhole == IInv => ShownAsStored
  BY ShownIndex DEF ShownAsStored

\* Readers see nothing of a step that publishes and archives no row and leaves the
\* vectors of the published ones alone.
LEMMA Unseen ==
    ASSUME IndexRows \subseteq IndexRows',
           \A g \in IndexRows' : g \in IndexRows \/ generation'[g].state = "STAGING",
           \A g \in IndexRows : generation'[g] = generation[g],
           \A g \in IndexRows : generation[g].state = "ACTIVE" => embedded'[g] = embedded[g]
    PROVE  UNCHANGED <<ReaderIndex, Retired>>
  <1>1. Retired' = Retired
    BY DEF Retired
  <1>2. ASSUME NEW d \in Documents
        PROVE  /\ ActiveOf(d)' = ActiveOf(d)
               /\ PublishedOf(d)' = PublishedOf(d)
               /\ ActiveOf(d) # {} => embedded'[PublishedOf(d)] = embedded[PublishedOf(d)]
    <2>1. ActiveOf(d)' = ActiveOf(d)
      BY DEF ActiveOf
    <2>2. PublishedOf(d)' = PublishedOf(d)
      BY <2>1 DEF PublishedOf
    <2>3. ActiveOf(d) # {} => PublishedOf(d) \in ActiveOf(d)
      BY DEF PublishedOf
    <2> QED  BY <2>1, <2>2, <2>3 DEF ActiveOf
  <1>3. ReaderIndex' = ReaderIndex
    BY <1>2 DEF ReaderIndex
  <1> QED  BY <1>1, <1>3

\* An activation publishes the candidate's chunk set for its document, in place of
\* what the document showed, which is retired.
LEMMA ActivationPublishes ==
    ASSUME IInv, NEW g \in Generations, Activate(g)
    PROVE  Readers!Next
  <1>0. PICK v \in Versions, p \in Profiles :
            generation[g].version = v /\ generation[g].profile = p
    BY RowFields DEF IInv, Activate, IsStaging
  <1> DEFINE d == DocumentOf[v]
             n == ChunkCount[v][p]
  <1>1. /\ g \in IndexRows /\ generation[g].state = "STAGING" /\ embedded[g] = 1..n
        /\ embedded' = embedded
    BY <1>0 DEF Activate, IsStaging, Complete, ChunkSet
  <1>2. d \in Documents
    BY DocumentOfAssumption
  <1>3. IInv'
    BY ActivateStep
  <1>4. /\ IndexRows' = IndexRows
        /\ \A h \in IndexRows :
            /\ generation'[h].version = generation[h].version
            /\ generation'[h].state =
                  IF h = g THEN "ACTIVE"
                  ELSE IF h \in ActiveOf(d) THEN "ARCHIVED" ELSE generation[h].state
    BY <1>0, ActivatedRows DEF PreviousGenerations, ActiveOf
  <1>5. g \in ActiveOf(d)'
    BY <1>0, <1>1, <1>4 DEF ActiveOf
  <1>6. ReaderIndex'[d] = [generation |-> g, vectors |-> 1..n]
    <2>1. ShownAsStored'
      BY <1>3, ShownWhole, PTL
    <2>2. ReaderIndex'[d] = [generation |-> g, vectors |-> embedded'[g]]
      BY <1>2, <1>5, <2>1 DEF ShownAsStored
    <2> QED  BY <1>1, <2>2
  <1>7. ASSUME NEW e \in Documents, e # d
        PROVE  ReaderIndex'[e] = ReaderIndex[e]
    <2>1. ActiveOf(e)' = ActiveOf(e)
      BY <1>0, <1>1, <1>4, <1>7 DEF ActiveOf
    <2>2. PublishedOf(e)' = PublishedOf(e)
      BY <2>1 DEF PublishedOf
    <2> QED  BY <1>1, <2>1, <2>2 DEF ReaderIndex
  <1>8. ReaderIndex' = [ReaderIndex EXCEPT ![d] = [generation |-> g, vectors |-> 1..n]]
    BY <1>2, <1>6, <1>7 DEF ReaderIndex
  <1>9. Retired' = Retired \cup Readers!Published(d)
    <2>1. Retired' = Retired \cup ActiveOf(d)
      BY <1>1, <1>4 DEF Retired, ActiveOf
    <2> QED  BY <1>2, <2>1, ShownIndex
  <1>10. g \notin Retired /\ \A e \in Documents : g \notin Readers!Published(e)
    BY <1>1, ShownIndex DEF Retired, ActiveOf
  <1>11. Readers!Publish(d, g, n)
    BY <1>8, <1>9, <1>10 DEF Readers!Publish
  <1>12. n \in {ChunkCount[u][q] : u \in {w \in Versions : DocumentOf[w] = d}, q \in Profiles}
    BY <1>2
  <1> QED  BY <1>2, <1>11, <1>12 DEF Readers!Next

\* Every transaction but an activation is invisible to readers.
LEMMA ReadersStep ==
    ASSUME IInv, [Next]_store
    PROVE  [Readers!Next]_<<ReaderIndex, Retired>>
  <1>1. ASSUME UNCHANGED <<generation, embedded>>
        PROVE  UNCHANGED <<ReaderIndex, Retired>>
    BY <1>1, Unseen DEF IndexRows
  <1>2. CASE UNCHANGED store
    BY <1>1, <1>2 DEF store
  <1>3. CASE Ingest
    BY <1>1, <1>3 DEF Ingest, Register, RegisterReplacement, InsertVersion
  <1>4. CASE Process
    BY <1>1, <1>4 DEF Process, Start, StagePages, RecordTerminal
  <1>5. CASE BuildIndex
    <2>1. ASSUME NEW g \in Generations, NEW v \in Versions, NEW p \in Profiles,
                 StageCandidate(g, v, p)
          PROVE  UNCHANGED <<ReaderIndex, Retired>>
      <3>1. /\ generation' = [generation EXCEPT ![g] = [state |-> "STAGING", version |-> v, profile |-> p]]
            /\ generation[g] = NoRow /\ embedded' = embedded
        BY <2>1 DEF StageCandidate
      <3>2. [state |-> "STAGING", version |-> v, profile |-> p] # NoRow
        BY NoRowAssumption DEF GenerationRow
      <3>3. \A h \in IndexRows : h \in Generations /\ h # g /\ generation'[h] = generation[h]
        BY <3>1 DEF IInv, TypeOK, IndexRows
      <3>4. IndexRows \subseteq IndexRows'
        BY <3>3 DEF IndexRows
      <3>5. \A h \in IndexRows' : h \in IndexRows \/ generation'[h].state = "STAGING"
        BY <3>1, <3>2 DEF IInv, TypeOK, IndexRows
      <3> QED  BY <3>1, <3>3, <3>4, <3>5, Unseen
    <2>2. ASSUME NEW g \in Generations, NEW vectors,
                 IsStaging(g), generation' = generation,
                 embedded' = [embedded EXCEPT ![g] = vectors]
          PROVE  UNCHANGED <<ReaderIndex, Retired>>
      <3>1. IndexRows' = IndexRows
        BY <2>2 DEF IndexRows
      <3>2. \A h \in IndexRows : generation[h].state = "ACTIVE" => embedded'[h] = embedded[h]
        BY <2>2 DEF IsStaging, IInv, TypeOK, IndexRows
      <3> QED  BY <2>2, <3>1, <3>2, Unseen
    <2>3. ASSUME NEW g \in Generations, ReplaceCandidate(g)
          PROVE  UNCHANGED <<ReaderIndex, Retired>>
      BY <2>2, <2>3 DEF ReplaceCandidate
    <2>4. ASSUME NEW g \in Generations, NEW batch, AddBatch(g, batch)
          PROVE  UNCHANGED <<ReaderIndex, Retired>>
      BY <2>2, <2>4 DEF AddBatch
    <2>5. ASSUME NEW g \in Generations, Activate(g)
          PROVE  Readers!Next
      BY <2>5, ActivationPublishes
    <2> QED  BY <1>5, <2>1, <2>3, <2>4, <2>5 DEF BuildIndex
  <1> QED  BY <1>2, <1>3, <1>4, <1>5 DEF Next

\* The repositories implement the published index: readers see whole indexes only,
\* swapped in one step, and never one again that was swapped out (FinalizeIndexing).
THEOREM ImplementsPublishedIndex == Spec => ReadersSpec
  <1>1. Init => Readers!Init
    <2> SUFFICES ASSUME Init PROVE Readers!Init
      OBVIOUS
    <2>1. IndexRows = {}
      BY DEF Init, IndexRows
    <2>2. Retired = {} /\ \A d \in Documents : ActiveOf(d) = {}
      BY <2>1 DEF Retired, ActiveOf
    <2> QED  BY <2>2 DEF Readers!Init, ReaderIndex
  <1> QED  BY <1>1, ReadersStep, Inductive, PTL DEF Spec, ReadersSpec, Readers!Spec
================================================================================
