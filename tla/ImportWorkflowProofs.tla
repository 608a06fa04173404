------------------------- MODULE ImportWorkflowProofs -------------------------
(***************************************************************************)
(* Proofs about ImportWorkflow for any numbers of processes, attempts,     *)
(* documents, PDFs, generations and chunks: what the rows of an attempt    *)
(* say when its import is over, however it ended.                          *)
(*                                                                         *)
(* The rows are those of DocumentStore, so IInv of DocumentStoreProofs     *)
(* holds throughout.  An attempt has at most one worker (Owned), and a     *)
(* worker's step touches the rows of its own attempt only (RowSteps);      *)
(* that takes OnePerDocument, without which an activation would archive    *)
(* another attempt's version.  So what the place of a worker says of its   *)
(* attempt (WorkerInv) is its own business.                                *)
(***************************************************************************)
EXTENDS ImportWorkflow, TLAPS

Rows == INSTANCE DocumentStoreProofs

\* The assumptions of DocumentStoreProofs hold.
LEMMA RowsAssumptions ==
    /\ DocumentOf \in [Versions -> Documents]
    /\ SourceOf \in [Versions -> Sources]
    /\ ChunkCount \in [Versions -> [Profiles -> Nat \ {0}]]
    /\ NoRow \notin Rows!GenerationRow
    /\ NoRow \notin [generation : Generations, vectors : SUBSET Nat]
  BY StoreAssumption DEF Store!GenerationRow, Rows!GenerationRow
------------------------------------------------------------------------------
(* Rows, Store and the rows of Index are the same operators.               *)

\* The state formulae of the rows.
LEMMA SameRows ==
    /\ Store!TypeOK <=> Rows!TypeOK
    /\ \A v : Store!GenerationsOf(v) = Rows!GenerationsOf(v)
    /\ \A v : Store!CandidateOpen(v) <=> Rows!CandidateOpen(v)
    /\ \A v : Store!SourceIsFree(v) <=> Rows!SourceIsFree(v)
  BY DEF Store!TypeOK, Store!VersionStates, Store!JobStates, Store!JobStages, Store!PageSets,
         Store!GenerationRow, Store!IndexRows, Store!GenerationsOf, Store!CandidateOpen,
         Store!SourceIsFree,
         Rows!TypeOK, Rows!VersionStates, Rows!JobStates, Rows!JobStages, Rows!PageSets,
         Rows!GenerationRow, Rows!IndexRows, Rows!GenerationsOf, Rows!CandidateOpen,
         Rows!SourceIsFree

\* The transactions of the registration and the processing.
LEMMA SameProcessing ==
    ASSUME NEW v
    PROVE  /\ Store!Register(v) => Rows!Register(v)
           /\ Store!Start(v) => Rows!Start(v)
           /\ \A quality : Store!StagePages(v, quality) => Rows!StagePages(v, quality)
           /\ \A result : Store!RecordTerminal(v, result) => Rows!RecordTerminal(v, result)
  BY DEF Store!Register, Store!InsertVersion, Store!SourceIsFree, Store!Siblings, Store!Start,
         Store!StagePages, Store!RecordTerminal, Store!CandidateState,
         Rows!Register, Rows!InsertVersion, Rows!SourceIsFree, Rows!Siblings, Rows!Start,
         Rows!StagePages, Rows!RecordTerminal, Rows!CandidateState

\* The transactions of the indexing.
LEMMA SameIndexing ==
    ASSUME NEW g
    PROVE  /\ \A v, p : Index!Store!StageCandidate(g, v, p) => Rows!StageCandidate(g, v, p)
           /\ Index!Store!ReplaceCandidate(g) => Rows!ReplaceCandidate(g)
           /\ \A batch : Index!Store!AddBatch(g, batch) => Rows!AddBatch(g, batch)
           /\ Index!Store!Activate(g) => Rows!Activate(g)
           /\ Index!Store!IsStaging(g) => Rows!IsStaging(g)
  <1>1. \A v, p : Index!Store!StageCandidate(g, v, p) => Rows!StageCandidate(g, v, p)
    BY DEF Index!Store!StageCandidate, Index!Store!HasStaging, Index!Store!CandidateOpen,
           Index!Store!GenerationsOf, Index!Store!IndexRows,
           Rows!StageCandidate, Rows!HasStaging, Rows!CandidateOpen,
           Rows!GenerationsOf, Rows!IndexRows
  <1>2. Index!Store!IsStaging(g) <=> Rows!IsStaging(g)
    BY DEF Index!Store!IsStaging, Index!Store!CandidateOpen, Index!Store!IndexRows,
           Rows!IsStaging, Rows!CandidateOpen, Rows!IndexRows
  <1>3. Index!Store!ReplaceCandidate(g) => Rows!ReplaceCandidate(g)
    BY <1>2 DEF Index!Store!ReplaceCandidate, Rows!ReplaceCandidate
  <1>4. \A batch : Index!Store!AddBatch(g, batch) => Rows!AddBatch(g, batch)
    BY <1>2 DEF Index!Store!AddBatch, Index!Store!ChunkSet, Rows!AddBatch, Rows!ChunkSet
  <1>5. Index!Store!Activate(g) => Rows!Activate(g)
    BY DEF Index!Store!Activate, Index!Store!IsStaging, Index!Store!Complete,
           Index!Store!ChunkSet, Index!Store!CandidateOpen, Index!Store!IndexRows,
           Index!Store!PreviousIsAPair, Index!Store!PreviousVersions,
           Index!Store!PreviousGenerations, Index!Store!Siblings, Index!Store!ArchiveVersions,
           Index!Store!ArchiveGenerations, Index!Store!ReadyState,
           Rows!Activate, Rows!IsStaging, Rows!Complete, Rows!ChunkSet,
           Rows!CandidateOpen, Rows!IndexRows, Rows!PreviousIsAPair, Rows!PreviousVersions,
           Rows!PreviousGenerations, Rows!Siblings, Rows!ArchiveVersions,
           Rows!ArchiveGenerations, Rows!ReadyState
  <1> QED  BY <1>1, <1>2, <1>3, <1>4, <1>5
------------------------------------------------------------------------------
(* The rows of the attempts.                                               *)

NoIndex(v) == pages[v] = "ABSENT" /\ Rows!GenerationsOf(v) = {}

\* Pages are committed with the stage that opens an attempt to the indexing, and
\* with them its end can no longer be recorded.
Attempts ==
    \A v \in Versions :
        \/ version[v] \in {"ABSENT", "CANDIDATE_FAILED", "CANDIDATE_CANCELLED"}
        \/ version[v] = "CANDIDATE_PROCESSING" /\ stage[v] # "CHUNKING"
        => NoIndex(v)

\* Imports make new documents only.
OnePerDocument ==
    \A u, v \in Versions :
        /\ version[u] # "ABSENT"
        /\ version[v] # "ABSENT"
        /\ DocumentOf[u] = DocumentOf[v]
        => u = v

\* The transactions of the import of an attempt.
RowStep(v) ==
    \/ Rows!Register(v)
    \/ Rows!Start(v)
    \/ \E quality \in {"CLEAN", "WARNED"} : Rows!StagePages(v, quality)
    \/ stage[v] # "CHUNKING" /\ \E result \in {"FAILED", "CANCELLED"} : Rows!RecordTerminal(v, result)
    \/ \E g \in Generations, p \in Profiles : Rows!StageCandidate(g, v, p)
    \/ \E g \in Rows!GenerationsOf(v) :
          \/ Rows!ReplaceCandidate(g)
          \/ \E batch : Rows!AddBatch(g, batch)
          \/ Rows!Activate(g)

KeepsAttempt(u) ==
    /\ version'[u] = version[u]
    /\ job'[u] = job[u]
    /\ stage'[u] = stage[u]
    /\ pages'[u] = pages[u]
    /\ Rows!GenerationsOf(u)' = Rows!GenerationsOf(u)

\* An activation archives nothing here: it writes the rows of its own attempt.
LEMMA ActivateRows ==
    ASSUME Rows!IInv, OnePerDocument, NEW v \in Versions, NEW g \in Rows!GenerationsOf(v),
           Rows!Activate(g)
    PROVE  /\ g \in Generations
           /\ version' = [version EXCEPT ![v] = "ACTIVE"]
           /\ version[v] = "CANDIDATE_PROCESSING"
           /\ \E state : job' = [job EXCEPT ![v] = state]
           /\ UNCHANGED <<stage, pages, embedded>>
           /\ \A u : Rows!GenerationsOf(u)' = Rows!GenerationsOf(u)
  <1>1. Rows!TypeOK
    BY DEF Rows!IInv
  <1>2. g \in Generations /\ g \in Rows!IndexRows /\ generation[g].version = v
    BY DEF Rows!GenerationsOf, Rows!IndexRows
  <1>3. version[v] = "CANDIDATE_PROCESSING"
    BY <1>2 DEF Rows!Activate, Rows!IsStaging, Rows!CandidateOpen
  <1>4. Rows!PreviousVersions(v) = {}
    BY <1>3 DEF Rows!PreviousVersions, Rows!Siblings, OnePerDocument
  <1>5. Rows!ArchiveVersions(v) = version
    BY <1>1, <1>4 DEF Rows!ArchiveVersions, Rows!TypeOK
  <1>6. version' = [version EXCEPT ![v] = "ACTIVE"]
    BY <1>2, <1>5 DEF Rows!Activate
  <1>7. \A u : Rows!GenerationsOf(u)' = Rows!GenerationsOf(u)
    <2>1. /\ Rows!IndexRows' = Rows!IndexRows
          /\ \A h \in Rows!IndexRows : generation'[h].version = generation[h].version
      BY <1>2, RowsAssumptions, Rows!ActivatedRows
    <2> QED  BY <2>1 DEF Rows!GenerationsOf
  <1> QED  BY <1>2, <1>3, <1>6, <1>7 DEF Rows!Activate

\* A worker's step moves the rows of its own attempt and of no other.
LEMMA RowSteps ==
    ASSUME Rows!IInv, Attempts, OnePerDocument, NEW v \in Versions, RowStep(v)
    PROVE  /\ Rows!Next
           /\ Attempts' /\ OnePerDocument'
           /\ \A u \in Versions \ {v} : KeepsAttempt(u)
           /\ version'[v] # "ABSENT"
  <1>1. Rows!TypeOK
    BY DEF Rows!IInv
  <1>2. ASSUME /\ \A u \in Versions \ {v} : KeepsAttempt(u)
               /\ \/ version'[v] = "ACTIVE"
                  \/ NoIndex(v)'
                  \/ version'[v] = "CANDIDATE_PROCESSING" /\ stage'[v] = "CHUNKING"
        PROVE  Attempts'
    BY <1>2 DEF Attempts, NoIndex, KeepsAttempt
  <1>3. ASSUME \A u \in Versions \ {v} : KeepsAttempt(u), version[v] # "ABSENT"
        PROVE  OnePerDocument'
    BY <1>3 DEF OnePerDocument, KeepsAttempt
  <1>4. ASSUME generation' = generation
        PROVE  \A u : Rows!GenerationsOf(u)' = Rows!GenerationsOf(u)
    BY <1>4 DEF Rows!GenerationsOf, Rows!IndexRows
  <1>5. CASE Rows!Register(v)
    <2>1. Rows!Next
      BY <1>5 DEF Rows!Next, Rows!Ingest
    <2>2. \A u \in Versions \ {v} : KeepsAttempt(u)
      BY <1>1, <1>4, <1>5 DEF Rows!Register, Rows!InsertVersion, Rows!TypeOK, KeepsAttempt
    <2>3. NoIndex(v)' /\ version'[v] = "CANDIDATE_PROCESSING"
      BY <1>1, <1>4, <1>5 DEF Rows!Register, Rows!InsertVersion, Rows!TypeOK, Attempts, NoIndex
    <2>4. OnePerDocument'
      BY <1>5, <2>2 DEF Rows!Register, Rows!Siblings, OnePerDocument, KeepsAttempt
    <2> QED  BY <1>2, <2>1, <2>2, <2>3, <2>4
  <1>6. CASE Rows!Start(v)
    <2>1. Rows!Next
      BY <1>6 DEF Rows!Next, Rows!Process
    <2>2. \A u \in Versions \ {v} : KeepsAttempt(u)
      BY <1>1, <1>4, <1>6 DEF Rows!Start, Rows!TypeOK, KeepsAttempt
    <2>3. NoIndex(v)' /\ version[v] # "ABSENT" /\ version'[v] # "ABSENT"
      BY <1>1, <1>4, <1>6 DEF Rows!Start, Rows!TypeOK, Attempts, NoIndex
    <2> QED  BY <1>2, <1>3, <2>1, <2>2, <2>3
  <1>7. ASSUME NEW quality \in {"CLEAN", "WARNED"}, Rows!StagePages(v, quality)
        PROVE  /\ Rows!Next
               /\ Attempts' /\ OnePerDocument'
               /\ \A u \in Versions \ {v} : KeepsAttempt(u)
               /\ version'[v] # "ABSENT"
    <2>1. Rows!Next
      BY <1>7 DEF Rows!Next, Rows!Process
    <2>2. \A u \in Versions \ {v} : KeepsAttempt(u)
      BY <1>1, <1>4, <1>7 DEF Rows!StagePages, Rows!TypeOK, KeepsAttempt
    <2>3. version'[v] = "CANDIDATE_PROCESSING" /\ stage'[v] = "CHUNKING" /\ version[v] # "ABSENT"
      BY <1>1, <1>7 DEF Rows!StagePages, Rows!TypeOK
    <2> QED  BY <1>2, <1>3, <2>1, <2>2, <2>3
  <1>8. ASSUME stage[v] # "CHUNKING",
               NEW result \in {"FAILED", "CANCELLED"}, Rows!RecordTerminal(v, result)
        PROVE  /\ Rows!Next
               /\ Attempts' /\ OnePerDocument'
               /\ \A u \in Versions \ {v} : KeepsAttempt(u)
               /\ version'[v] # "ABSENT"
    <2>1. Rows!Next
      BY <1>8 DEF Rows!Next, Rows!Process
    <2>2. \A u \in Versions \ {v} : KeepsAttempt(u)
      BY <1>1, <1>4, <1>8 DEF Rows!RecordTerminal, Rows!TypeOK, KeepsAttempt
    <2>3. NoIndex(v)' /\ version[v] # "ABSENT" /\ version'[v] # "ABSENT"
      BY <1>1, <1>4, <1>8
      DEF Rows!RecordTerminal, Rows!CandidateState, Rows!TypeOK, Attempts, NoIndex
    <2> QED  BY <1>2, <1>3, <2>1, <2>2, <2>3
  <1>9. ASSUME NEW g \in Generations, NEW p \in Profiles, Rows!StageCandidate(g, v, p)
        PROVE  /\ Rows!Next
               /\ Attempts' /\ OnePerDocument'
               /\ \A u \in Versions \ {v} : KeepsAttempt(u)
               /\ version'[v] # "ABSENT"
    <2>1. Rows!Next
      BY <1>9 DEF Rows!Next, Rows!BuildIndex
    <2>2. ASSUME NEW u \in Versions \ {v}
          PROVE  Rows!GenerationsOf(u)' = Rows!GenerationsOf(u)
      <3>1. /\ generation' = [generation EXCEPT ![g] = [state |-> "STAGING", version |-> v,
                                                        profile |-> p]]
            /\ generation[g] = NoRow
        BY <1>9 DEF Rows!StageCandidate
      <3>2. ASSUME NEW h \in Generations
            PROVE  h \in Rows!GenerationsOf(u)' <=> h \in Rows!GenerationsOf(u)
        BY <1>1, <3>1 DEF Rows!GenerationsOf, Rows!IndexRows, Rows!TypeOK
      <3> QED  BY <3>2 DEF Rows!GenerationsOf, Rows!IndexRows
    <2>3. \A u \in Versions \ {v} : KeepsAttempt(u)
      BY <1>9, <2>2 DEF Rows!StageCandidate, KeepsAttempt
    <2>4. version'[v] = "CANDIDATE_PROCESSING" /\ stage'[v] = "CHUNKING" /\ version[v] # "ABSENT"
      BY <1>9 DEF Rows!StageCandidate, Rows!CandidateOpen
    <2> QED  BY <1>2, <1>3, <2>1, <2>3, <2>4
  <1>10. ASSUME NEW g \in Rows!GenerationsOf(v),
                Rows!ReplaceCandidate(g) \/ \E batch : Rows!AddBatch(g, batch)
         PROVE  /\ Rows!Next
                /\ Attempts' /\ OnePerDocument'
                /\ \A u \in Versions \ {v} : KeepsAttempt(u)
                /\ version'[v] # "ABSENT"
    <2>1. Rows!IsStaging(g) /\ generation[g].version = v /\ g \in Generations /\ g \in Rows!IndexRows
          /\ UNCHANGED <<version, job, stage, pages, generation>>
      BY <1>10 DEF Rows!ReplaceCandidate, Rows!AddBatch, Rows!GenerationsOf, Rows!IndexRows
    <2>2. Rows!Next
      BY <1>10, <2>1 DEF Rows!Next, Rows!BuildIndex, Rows!AddBatch
    <2>3. \A u \in Versions \ {v} : KeepsAttempt(u)
      BY <1>4, <2>1 DEF KeepsAttempt
    <2>4. version'[v] = "CANDIDATE_PROCESSING" /\ stage'[v] = "CHUNKING" /\ version[v] # "ABSENT"
      BY <2>1 DEF Rows!IsStaging, Rows!CandidateOpen
    <2> QED  BY <1>2, <1>3, <2>2, <2>3, <2>4
  <1>11. ASSUME NEW g \in Rows!GenerationsOf(v), Rows!Activate(g)
         PROVE  /\ Rows!Next
                /\ Attempts' /\ OnePerDocument'
                /\ \A u \in Versions \ {v} : KeepsAttempt(u)
                /\ version'[v] # "ABSENT"
    <2>1. Rows!Next
      BY <1>11, ActivateRows DEF Rows!Next, Rows!BuildIndex
    <2>2. \A u \in Versions \ {v} : KeepsAttempt(u)
      BY <1>1, <1>11, ActivateRows DEF KeepsAttempt, Rows!TypeOK
    <2>3. version'[v] = "ACTIVE" /\ version[v] # "ABSENT"
      BY <1>1, <1>11, ActivateRows DEF Rows!TypeOK
    <2> QED  BY <1>2, <1>3, <2>1, <2>2, <2>3
  <1> QED  BY <1>5, <1>6, <1>7, <1>8, <1>9, <1>10, <1>11 DEF RowStep
------------------------------------------------------------------------------
(* The inductive invariant.                                                *)

Places == EarlySteps \cup Index!Steps \cup {"idle"}
Results == Index!Outcomes \cup {"duplicate"}
Unregistered == {"read", "store", "register", "compensate"}
Extracting == {"registered", "start", "extract", "stage", "terminal"}
Indexing == {"processed"} \cup Index!Steps
CleanUps == {"compensate", "terminal"}

WorkerTypes ==
    /\ pc \in [Workers -> Places]
    /\ target \in [Workers -> Versions \cup {NoRow}]
    /\ request \in [Workers -> Profiles \cup {NoRow}]
    /\ chosen \in [Workers -> Generations \cup {NoRow}]
    /\ outcome \in [Workers -> Results]
    /\ files \in [Workers -> SUBSET Versions]
    /\ disposition \in [Workers -> {"NONE", "NOT_REGISTERED", "REGISTERED_INCOMPLETE"}]

\* How far the rows of an attempt are when its worker is about to take a step.
RowsAt(v, step) ==
    /\ step \in Unregistered => version[v] = "ABSENT"
    /\ step \in Extracting => version[v] = "CANDIDATE_PROCESSING" /\ stage[v] # "CHUNKING"
    /\ step \in Indexing => Rows!CandidateOpen(v)

\* What an import that returned was told, and what the rows say of its attempt.
Reported(w) ==
    LET v == target[w] IN
    /\ disposition[w] = "NOT_REGISTERED" => version[v] = "ABSENT"
    /\ disposition[w] = "REGISTERED_INCOMPLETE" => version[v] \notin {"ABSENT", "ACTIVE"}
    /\ disposition[w] = "NONE" => version[v] = "ACTIVE" /\ outcome[w] = "activated"
    /\ outcome[w] = "duplicate" => version[v] = "ABSENT" /\ v \notin files[w]
    /\ outcome[w] = "cancelled" /\ version[v] # "ABSENT" =>
          \/ version[v] = "CANDIDATE_CANCELLED" /\ job[v] = "CANCELLED"
          \/ Rows!CandidateOpen(v)

Working(w) ==
    /\ target[w] \in Versions
    /\ request[w] \in Profiles
    /\ disposition[w] = "NONE"
    /\ RowsAt(target[w], pc[w])
    /\ pc[w] \notin CleanUps => outcome[w] = "none"
    /\ pc[w] = "compensate" => outcome[w] \in {"failed", "duplicate"}
    /\ pc[w] = "terminal" => outcome[w] \in {"failed", "cancelled"}

Held(w) == chosen[w] # NoRow => chosen[w] \in Rows!GenerationsOf(target[w])

WorkerInv(w) ==
    /\ pc[w] # "idle" => Working(w)
    /\ pc[w] = "idle" /\ target[w] # NoRow => Reported(w)
    /\ target[w] = NoRow => outcome[w] = "none"
    /\ outcome[w] = "duplicate" => ~ Rows!SourceIsFree(target[w])
    /\ Held(w)

\* Identifiers are random, so an attempt has one worker.
Owned == \A w, u \in Workers : target[w] = target[u] /\ target[w] # NoRow => w = u

IInv ==
    /\ WorkerTypes
    /\ Rows!IInv
    /\ Attempts
    /\ OnePerDocument
    /\ Owned
    /\ \A w \in Workers : WorkerInv(w)

Locals(w) ==
    <<pc[w], target[w], request[w], chosen[w], outcome[w], files[w], disposition[w]>>

\* A worker's step: a transaction of its own attempt, or none.
RowsMove(w) ==
    \/ UNCHANGED Rows!store
    \/ target[w] \in Versions /\ target'[w] = target[w] /\ RowStep(target[w])

OwnStep(w) ==
    /\ RowsMove(w)
    /\ WorkerTypes'
    /\ WorkerInv(w)'
    /\ \A u \in Workers \ {w} : UNCHANGED Locals(u)
    /\ \/ target'[w] \in {target[w], NoRow}
       \/ \A u \in Workers : target[u] # target'[w]

\* What a move does to the rows, seen from all the attempts.
LEMMA Moved ==
    ASSUME IInv, NEW w \in Workers, RowsMove(w)
    PROVE  /\ [Rows!Next]_(Rows!store)
           /\ Rows!IInv' /\ Attempts' /\ OnePerDocument'
           /\ \A u \in Versions : u # target[w] => KeepsAttempt(u)
           /\ \A u \in Versions : version[u] # "ABSENT" => version'[u] # "ABSENT"
           /\ \A v : ~ Rows!SourceIsFree(v) => ~ Rows!SourceIsFree(v)'
  <1>1. Rows!IInv /\ Attempts /\ OnePerDocument
    BY DEF IInv
  <1>2. CASE UNCHANGED Rows!store
    <2>1. \A u : KeepsAttempt(u)
      BY <1>2 DEF Rows!store, KeepsAttempt, Rows!GenerationsOf, Rows!IndexRows
    <2>2. Attempts' /\ OnePerDocument'
      BY <1>1, <2>1 DEF Attempts, OnePerDocument, NoIndex, KeepsAttempt
    <2>3. Rows!IInv'
      BY <1>1, <1>2, RowsAssumptions, Rows!InvariantStep
    <2> QED  BY <1>2, <2>1, <2>2, <2>3 DEF KeepsAttempt, Rows!SourceIsFree
  <1>3. ASSUME target[w] \in Versions, RowStep(target[w])
        PROVE  /\ Rows!Next
               /\ Attempts' /\ OnePerDocument'
               /\ \A u \in Versions : u # target[w] => KeepsAttempt(u)
               /\ version'[target[w]] # "ABSENT"
    BY <1>1, <1>3, RowSteps
  <1>4. CASE target[w] \in Versions /\ RowStep(target[w])
    <2>1. Rows!IInv'
      BY <1>1, <1>3, <1>4, RowsAssumptions, Rows!InvariantStep
    <2>2. \A u \in Versions : version[u] # "ABSENT" => version'[u] # "ABSENT"
      BY <1>3, <1>4 DEF KeepsAttempt
    <2> QED  BY <1>3, <1>4, <2>1, <2>2 DEF Rows!SourceIsFree
  <1> QED  BY <1>2, <1>4 DEF RowsMove

\* A generation that a worker holds on to stays one of its attempt.
LEMMA HeldStays ==
    ASSUME Rows!IInv, [Rows!Next]_(Rows!store), NEW w \in Workers, Held(w),
           target'[w] = target[w], chosen'[w] = chosen[w]
    PROVE  Held(w)'
  <1>1. CASE chosen[w] = NoRow
    BY <1>1 DEF Held
  <1>2. CASE chosen[w] \in Rows!GenerationsOf(target[w])
    <2>1. ASSUME NEW g \in Rows!IndexRows
          PROVE  g \in Rows!IndexRows' /\ generation'[g].version = generation[g].version
      BY RowsAssumptions, Rows!RowsStay
    <2> QED  BY <1>2, <2>1 DEF Held, Rows!GenerationsOf
  <1> QED  BY <1>1, <1>2 DEF Held
------------------------------------------------------------------------------
(* The shapes of a worker's step.                                          *)

\* It goes on to a further step of the import.
LEMMA GoSteps ==
    ASSUME IInv, NEW w \in Workers, pc[w] # "idle", pc[w] \notin CleanUps,
           NEW step \in Places \ (CleanUps \cup {"idle"}),
           pc' = [pc EXCEPT ![w] = step],
           UNCHANGED <<target, request, outcome, disposition>>,
           files' \in [Workers -> SUBSET Versions], chosen' \in [Workers -> Generations \cup {NoRow}],
           \A u \in Workers \ {w} : files'[u] = files[u] /\ chosen'[u] = chosen[u],
           RowsMove(w), RowsAt(target[w], step)', Held(w)'
    PROVE  OwnStep(w)
  <1>1. WorkerTypes /\ WorkerInv(w)
    BY DEF IInv
  <1>2. WorkerTypes'
    BY <1>1 DEF WorkerTypes
  <1>3. \A u \in Workers \ {w} : UNCHANGED Locals(u)
    BY <1>1 DEF WorkerTypes, Locals
  <1>4. pc'[w] = step /\ Working(w) /\ outcome[w] = "none" /\ target[w] # NoRow
    BY <1>1, NoChoiceAssumption DEF WorkerTypes, WorkerInv, Working
  <1>5. Working(w)'
    BY <1>4 DEF Working, RowsAt, Rows!CandidateOpen, CleanUps
  <1>6. WorkerInv(w)'
    BY <1>4, <1>5 DEF WorkerInv
  <1> QED  BY <1>2, <1>3, <1>6 DEF OwnStep

\* The import fails or is cancelled, and has something to clean up.
LEMMA CleanUpSteps ==
    ASSUME IInv, NEW w \in Workers, pc[w] # "idle", pc[w] \notin CleanUps,
           NEW step \in CleanUps, NEW result \in {"failed", "cancelled", "duplicate"},
           CleanUp(w, step, result),
           UNCHANGED <<version, job, stage, pages, generation, embedded, files>>,
           IF step = "compensate" THEN pc[w] \in Unregistered /\ result # "cancelled"
                                  ELSE pc[w] \in Extracting /\ result # "duplicate",
           result = "duplicate" => ~ Rows!SourceIsFree(target[w])
    PROVE  OwnStep(w)
  <1>1. WorkerTypes /\ WorkerInv(w) /\ Rows!IInv
    BY DEF IInv
  <1>2. UNCHANGED Rows!store
    BY DEF Rows!store
  <1>3. WorkerTypes'
    BY <1>1 DEF WorkerTypes, CleanUp, CleanUps, index, Places, Results, EarlySteps, Index!Outcomes
  <1>4. \A u \in Workers \ {w} : UNCHANGED Locals(u)
    BY <1>1 DEF WorkerTypes, Locals, CleanUp, index
  <1>5. /\ pc'[w] = step /\ outcome'[w] = result /\ target'[w] = target[w] /\ chosen'[w] = chosen[w]
        /\ request'[w] = request[w] /\ disposition'[w] = disposition[w] /\ target[w] # NoRow
        /\ Working(w)
    BY <1>1, NoChoiceAssumption DEF WorkerTypes, CleanUp, index, WorkerInv, Working
  <1>6. RowsAt(target[w], step)
    BY <1>5 DEF Working, RowsAt, CleanUps, Unregistered, Extracting, Indexing, Index!Steps
  <1>7. Working(w)'
    BY <1>5, <1>6 DEF Working, RowsAt, Rows!CandidateOpen, CleanUps
  <1>8. Held(w)'
    BY <1>1, <1>2, <1>5, HeldStays DEF WorkerInv
  <1>9. ~ Rows!SourceIsFree(target[w]) => ~ Rows!SourceIsFree(target[w])'
    BY <1>5 DEF Rows!SourceIsFree
  <1>10. WorkerInv(w)'
    BY <1>5, <1>7, <1>8, <1>9 DEF WorkerInv, CleanUps
  <1> QED  BY <1>2, <1>3, <1>4, <1>5, <1>10 DEF OwnStep, RowsMove

\* The import returns.
LEMMA FinishSteps ==
    ASSUME IInv, NEW w \in Workers, pc[w] # "idle",
           NEW result \in Results \ {"none", "reused"},
           Index!Finish(w, result), Dispose(w), chosen' = chosen,
           files' \in [Workers -> SUBSET Versions],
           \A u \in Workers \ {w} : files'[u] = files[u],
           RowsMove(w),
           result = "activated" => version'[target[w]] = "ACTIVE",
           result # "activated" =>
               IF pc[w] \in {"read", "store", "compensate"}
               THEN version'[target[w]] = "ABSENT"
               ELSE version'[target[w]] \notin {"ABSENT", "ACTIVE"},
           result = "duplicate" =>
               /\ version'[target[w]] = "ABSENT"
               /\ target[w] \notin files'[w]
               /\ ~ Rows!SourceIsFree(target[w])',
           result = "cancelled" /\ version'[target[w]] # "ABSENT" =>
               \/ version'[target[w]] = "CANDIDATE_CANCELLED" /\ job'[target[w]] = "CANCELLED"
               \/ Rows!CandidateOpen(target[w])'
    PROVE  OwnStep(w)
  <1>1. WorkerTypes /\ WorkerInv(w) /\ Rows!IInv /\ Working(w)
    BY DEF IInv, WorkerInv
  <1>2. [Rows!Next]_(Rows!store)
    BY Moved
  <1>3. /\ pc' = [pc EXCEPT ![w] = "idle"] /\ outcome' = [outcome EXCEPT ![w] = result]
        /\ UNCHANGED <<target, request>>
    BY DEF Index!Finish
  <1>4. pc'[w] = "idle" /\ outcome'[w] = result
    BY <1>1, <1>3 DEF WorkerTypes
  <1>5. disposition' = IF result = "activated" THEN disposition
                       ELSE [disposition EXCEPT ![w] = DispositionAt(pc[w])]
    BY <1>4 DEF Dispose
  <1>6. WorkerTypes'
    BY <1>1, <1>3, <1>5 DEF WorkerTypes, DispositionAt, Places
  <1>7. \A u \in Workers \ {w} : UNCHANGED Locals(u)
    BY <1>1, <1>3, <1>5 DEF WorkerTypes, Locals
  <1>8. /\ disposition'[w] = IF result = "activated" THEN "NONE" ELSE DispositionAt(pc[w])
        /\ target'[w] = target[w] /\ target[w] # NoRow
    BY <1>1, <1>3, <1>5, NoChoiceAssumption DEF WorkerTypes, Working
  <1>9. Held(w)'
    BY <1>1, <1>2, <1>3, HeldStays DEF WorkerInv
  <1>10. Reported(w)'
    BY <1>4, <1>8 DEF Reported, DispositionAt
  <1>11. WorkerInv(w)'
    BY <1>4, <1>8, <1>9, <1>10 DEF WorkerInv
  <1> QED  BY <1>6, <1>7, <1>8, <1>11 DEF OwnStep
\* A step that leaves the rows alone and goes on.
LEMMA QuietGoSteps ==
    ASSUME IInv, NEW w \in Workers, pc[w] # "idle", pc[w] \notin CleanUps,
           NEW step \in Places \ (CleanUps \cup {"idle"}), Goto(w, step),
           UNCHANGED <<version, job, stage, pages, generation, embedded>>,
           files' \in [Workers -> SUBSET Versions],
           \A u \in Workers \ {w} : files'[u] = files[u],
           RowsAt(target[w], step)
    PROVE  OwnStep(w)
  <1>1. WorkerTypes /\ WorkerInv(w) /\ Rows!IInv
    BY DEF IInv
  <1>2. /\ pc' = [pc EXCEPT ![w] = step]
        /\ UNCHANGED <<target, request, outcome, disposition, chosen>>
    BY DEF Goto, index
  <1>3. UNCHANGED Rows!store
    BY DEF Rows!store
  <1>4. Held(w)'
    BY <1>1, <1>2, <1>3, HeldStays DEF WorkerInv
  <1>5. RowsAt(target[w], step)'
    BY <1>2 DEF RowsAt, Rows!CandidateOpen
  <1> QED  BY <1>1, <1>2, <1>3, <1>4, <1>5, GoSteps DEF RowsMove, WorkerTypes

\* A step that leaves the rows alone and ends the import.
LEMMA QuietFinishSteps ==
    ASSUME IInv, NEW w \in Workers, pc[w] \notin {"idle", "register"},
           NEW result \in {"failed", "cancelled", "duplicate"},
           Index!Finish(w, result), Dispose(w), chosen' = chosen,
           UNCHANGED <<version, job, stage, pages, generation, embedded>>,
           files' \in [Workers -> SUBSET Versions],
           \A u \in Workers \ {w} : files'[u] = files[u],
           result = "cancelled" => pc[w] \in {"read"} \cup Indexing,
           result = "duplicate" =>
               pc[w] = "compensate" /\ outcome[w] = "duplicate" /\ target[w] \notin files'[w]
    PROVE  OwnStep(w)
  <1>1. WorkerTypes /\ WorkerInv(w) /\ Working(w)
    BY DEF IInv, WorkerInv
  <1>2. pc[w] \in Places \ {"idle", "register"} /\ target' = target
    BY <1>1 DEF WorkerTypes, Index!Finish
  <1>3. pc[w] \in (Unregistered \ {"register"}) \cup Extracting \cup Indexing
    BY <1>2 DEF Places, EarlySteps, Unregistered, Extracting, Indexing
  <1>4. RowsMove(w)
    BY DEF RowsMove, Rows!store
  <1>5. /\ pc[w] \in Unregistered => version[target[w]] = "ABSENT"
        /\ pc[w] \in Extracting \cup Indexing => version[target[w]] = "CANDIDATE_PROCESSING"
        /\ pc[w] \in Indexing => Rows!CandidateOpen(target[w])
    BY <1>1 DEF Working, RowsAt, Rows!CandidateOpen
  <1>6. IF pc[w] \in {"read", "store", "compensate"}
        THEN version'[target[w]] = "ABSENT"
        ELSE version'[target[w]] \notin {"ABSENT", "ACTIVE"}
    BY <1>3, <1>5 DEF Unregistered
  <1>7. result = "duplicate" =>
            /\ version'[target[w]] = "ABSENT"
            /\ target[w] \notin files'[w]
            /\ ~ Rows!SourceIsFree(target[w])'
    BY <1>1, <1>2, <1>6 DEF WorkerInv, Rows!SourceIsFree
  <1>8. result = "cancelled" /\ version'[target[w]] # "ABSENT" => Rows!CandidateOpen(target[w])'
    BY <1>2, <1>5 DEF Unregistered, Rows!CandidateOpen
  <1>9. result \in Results \ {"none", "reused"} /\ result # "activated"
    BY DEF Results, Index!Outcomes
  <1> QED  BY <1>4, <1>6, <1>7, <1>8, <1>9, FinishSteps

\* The selection of a file begins an attempt that nobody has.
LEMMA BeginSteps ==
    ASSUME IInv, NEW w \in Workers, NEW v \in Versions, NEW p \in Profiles, Begin(w, v, p)
    PROVE  OwnStep(w)
  <1>1. WorkerTypes
    BY DEF IInv
  <1>2. RowsMove(w)
    BY DEF Begin, RowsMove, store, Rows!store
  <1>3. WorkerTypes'
    BY <1>1 DEF WorkerTypes, Begin, Places, Results, EarlySteps, Index!Outcomes
  <1>4. \A u \in Workers \ {w} : UNCHANGED Locals(u)
    BY <1>1 DEF WorkerTypes, Begin, Locals
  <1>5. /\ pc'[w] = "read" /\ target'[w] = v /\ request'[w] = p /\ chosen'[w] = NoRow
        /\ outcome'[w] = "none" /\ disposition'[w] = "NONE" /\ v # NoRow
    BY <1>1, NoChoiceAssumption DEF WorkerTypes, Begin
  <1>6. version'[v] = "ABSENT" /\ \A u \in Workers : target[u] # v
    BY DEF Begin, Fresh, store
  <1>7. Working(w)'
    BY <1>5, <1>6 DEF Working, RowsAt, CleanUps, Unregistered, Extracting, Indexing, Index!Steps
  <1>8. WorkerInv(w)'
    BY <1>5, <1>7 DEF WorkerInv, Held
  <1> QED  BY <1>2, <1>3, <1>4, <1>5, <1>6, <1>8 DEF OwnStep

\* ImportSyntheticPdf.
LEMMA IngestSteps ==
    ASSUME IInv, NEW w \in Workers,
           \/ ReadSelected(w) \/ StoreSource(w) \/ Register(w) \/ RegistrationFails(w)
           \/ Compensate(w) \/ CompensationFails(w) \/ Announce(w)
    PROVE  OwnStep(w)
  <1>1. WorkerTypes /\ WorkerInv(w) /\ Rows!IInv
    BY DEF IInv
  <1>2. pc[w] # "idle"
    BY DEF ReadSelected, StoreSource, Register, RegistrationFails, Compensate, CompensationFails,
           Announce
  <1>3. target[w] \in Versions /\ Working(w)
    BY <1>1, <1>2 DEF WorkerInv, Working
  <1> USE DEF Unregistered, Extracting, Indexing, CleanUps, Index!Steps
  <1>4. CASE ReadSelected(w) \/ StoreSource(w)
    <2>1. version[target[w]] = "ABSENT"
      BY <1>3, <1>4 DEF Working, RowsAt, ReadSelected, StoreSource
    <2>2. /\ files' \in [Workers -> SUBSET Versions]
          /\ \A u \in Workers \ {w} : files'[u] = files[u]
      BY <1>1, <1>3, <1>4 DEF WorkerTypes, ReadSelected, StoreSource
    <2>3. ASSUME NEW step \in {"store", "register"}, Goto(w, step)
          PROVE  RowsAt(target[w], step) /\ step \in Places \ (CleanUps \cup {"idle"})
      BY <2>1 DEF RowsAt, Places, EarlySteps
    <2> QED  BY <1>4, <2>2, <2>3, QuietGoSteps DEF ReadSelected, StoreSource, store
  <1>5. CASE Register(w)
    <2>1. Rows!Register(target[w]) /\ Goto(w, "registered") /\ files' = files /\ pc[w] = "register"
      BY <1>5, SameProcessing DEF Register
    <2>2. target' = target /\ chosen' = chosen /\ UNCHANGED <<request, outcome, disposition>>
          /\ pc' = [pc EXCEPT ![w] = "registered"]
      BY <2>1 DEF Goto, index
    <2>3. RowsMove(w)
      BY <1>3, <2>1, <2>2 DEF RowsMove, RowStep
    <2>4. RowsAt(target[w], "registered")'
      BY <1>1, <1>3, <2>1, <2>2
      DEF RowsAt, Rows!Register, Rows!InsertVersion, Rows!IInv, Rows!TypeOK
    <2>5. Held(w)'
      BY <1>1, <2>2, <2>3, Moved, HeldStays DEF WorkerInv
    <2>6. "registered" \in Places \ (CleanUps \cup {"idle"})
      BY DEF Places, EarlySteps
    <2> QED  BY <1>1, <2>1, <2>2, <2>3, <2>4, <2>5, <2>6, GoSteps DEF WorkerTypes
  <1>6. CASE RegistrationFails(w)
    <2>1. \A v : Store!SourceIsFree(v) <=> Rows!SourceIsFree(v)
      BY SameRows
    <2> QED  BY <1>6, <2>1, CleanUpSteps DEF RegistrationFails, store
  <1>7. CASE Compensate(w)
    <2>1. /\ files' \in [Workers -> SUBSET Versions]
          /\ \A u \in Workers \ {w} : files'[u] = files[u]
          /\ target[w] \notin files'[w]
      BY <1>1, <1>7 DEF WorkerTypes, Compensate
    <2>2. pc[w] = "compensate" /\ outcome[w] \in {"failed", "duplicate"}
      BY <1>3, <1>7 DEF Compensate, Working
    <2> QED  BY <1>7, <2>1, <2>2, QuietFinishSteps DEF Compensate, Finish, store
  <1>8. CASE CompensationFails(w)
    BY <1>1, <1>8, QuietFinishSteps DEF CompensationFails, Finish, store, WorkerTypes
  <1>9. CASE Announce(w)
    <2>1. RowsAt(target[w], "start")
      BY <1>3, <1>9 DEF Announce, Working, RowsAt
    <2>2. "start" \in Places \ (CleanUps \cup {"idle"})
      BY DEF Places, EarlySteps
    <2> QED  BY <1>1, <1>9, <2>1, <2>2, QuietGoSteps DEF Announce, store, WorkerTypes
  <1> QED  BY <1>4, <1>5, <1>6, <1>7, <1>8, <1>9
\* The recording of a failure or a cancellation ends the import of an attempt that
\* has no pages.
LEMMA RecordSteps ==
    ASSUME IInv, NEW w \in Workers, pc[w] \in {"start", "terminal"},
           NEW result \in {"failed", "cancelled"},
           Rows!RecordTerminal(target[w], IF result = "cancelled" THEN "CANCELLED" ELSE "FAILED"),
           Finish(w, result), files' = files
    PROVE  OwnStep(w)
  <1>1. WorkerTypes /\ WorkerInv(w) /\ Rows!TypeOK /\ Working(w)
    BY DEF IInv, WorkerInv, Rows!IInv
  <1>2. target' = target /\ chosen' = chosen /\ Index!Finish(w, result) /\ Dispose(w)
    BY DEF Finish, Index!Finish
  <1>3. target[w] \in Versions /\ stage[target[w]] # "CHUNKING"
    BY <1>1 DEF Working, RowsAt, Extracting
  <1>4. RowsMove(w)
    BY <1>2, <1>3 DEF RowsMove, RowStep
  <1>5. IF result = "cancelled"
        THEN version'[target[w]] = "CANDIDATE_CANCELLED" /\ job'[target[w]] = "CANCELLED"
        ELSE version'[target[w]] = "CANDIDATE_FAILED"
    BY <1>1, <1>3 DEF Rows!RecordTerminal, Rows!CandidateState, Rows!TypeOK
  <1>6. result \in Results \ {"none", "reused"}
    BY DEF Results, Index!Outcomes
  <1> QED  BY <1>1, <1>2, <1>4, <1>5, <1>6, FinishSteps DEF WorkerTypes

\* ProcessNativePdfText.
LEMMA ProcessSteps ==
    ASSUME IInv, NEW w \in Workers,
           \/ CancelBeforeStart(w) \/ Start(w) \/ StartFails(w) \/ ReadSource(w)
           \/ \E quality \in {"CLEAN", "WARNED"} : StagePages(w, quality)
           \/ ProcessingFails(w) \/ ProcessingCancelled(w)
           \/ RecordTerminal(w) \/ RecordingFails(w) \/ HandOver(w)
    PROVE  OwnStep(w)
  <1>1. WorkerTypes /\ WorkerInv(w) /\ Rows!IInv /\ Rows!TypeOK
    BY DEF IInv, Rows!IInv
  <1>2. pc[w] # "idle"
    BY DEF CancelBeforeStart, Start, StartFails, ReadSource, StagePages, ProcessingFails,
           ProcessingCancelled, RecordTerminal, RecordingFails, HandOver
  <1>3. target[w] \in Versions /\ Working(w)
    BY <1>1, <1>2 DEF WorkerInv, Working
  <1> USE DEF Unregistered, Extracting, Indexing, CleanUps, Index!Steps
  <1>4. ASSUME NEW step \in {"extract", "processed"}, Goto(w, step), RowsMove(w), files' = files,
               pc[w] \in {"start", "stage"}, RowsAt(target[w], step)'
        PROVE  OwnStep(w)
    <2>1. target' = target /\ chosen' = chosen /\ UNCHANGED <<request, outcome, disposition>>
          /\ pc' = [pc EXCEPT ![w] = step]
      BY <1>4 DEF Goto, index
    <2>2. Held(w)'
      BY <1>1, <1>4, <2>1, Moved, HeldStays DEF WorkerInv
    <2>3. step \in Places \ (CleanUps \cup {"idle"})
      BY DEF Places, EarlySteps
    <2> QED  BY <1>1, <1>4, <2>1, <2>2, <2>3, GoSteps DEF WorkerTypes
  <1>5. CASE Start(w)
    <2>1. Rows!Start(target[w]) /\ Goto(w, "extract") /\ files' = files /\ pc[w] = "start"
          /\ target' = target
      BY <1>5, SameProcessing DEF Start, Goto
    <2>2. RowsMove(w)
      BY <1>3, <2>1 DEF RowsMove, RowStep
    <2>3. RowsAt(target[w], "extract")'
      BY <1>1, <1>3, <2>1 DEF RowsAt, Rows!Start, Rows!TypeOK
    <2> QED  BY <1>4, <2>1, <2>2, <2>3
  <1>6. ASSUME NEW quality \in {"CLEAN", "WARNED"}, StagePages(w, quality)
        PROVE  OwnStep(w)
    <2>1. Rows!StagePages(target[w], quality) /\ Goto(w, "processed") /\ files' = files
          /\ pc[w] = "stage" /\ target' = target
      BY <1>6, SameProcessing DEF StagePages, Goto
    <2>2. RowsMove(w)
      BY <1>3, <2>1 DEF RowsMove, RowStep
    <2>3. RowsAt(target[w], "processed")'
      BY <1>1, <1>3, <2>1 DEF RowsAt, Rows!StagePages, Rows!CandidateOpen, Rows!TypeOK
    <2> QED  BY <1>4, <2>1, <2>2, <2>3
  <1>7. CASE ReadSource(w)
    <2>1. RowsAt(target[w], "stage")
      BY <1>3, <1>7 DEF ReadSource, Working, RowsAt
    <2>2. "stage" \in Places \ (CleanUps \cup {"idle"})
      BY DEF Places, EarlySteps
    <2> QED  BY <1>1, <1>7, <2>1, <2>2, QuietGoSteps DEF ReadSource, store, WorkerTypes
  <1>8. CASE HandOver(w)
    <2>1. RowsAt(target[w], "discover")
      BY <1>3, <1>8 DEF HandOver, Working, RowsAt
    <2>2. "discover" \in Places \ (CleanUps \cup {"idle"})
      BY DEF Places
    <2> QED  BY <1>1, <1>8, <2>1, <2>2, QuietGoSteps DEF HandOver, store, WorkerTypes
  <1>9. CASE StartFails(w) \/ ProcessingFails(w) \/ ProcessingCancelled(w)
    BY <1>9, CleanUpSteps DEF StartFails, ProcessingFails, ProcessingCancelled, store
  <1>10. CASE CancelBeforeStart(w)
    <2>1. Rows!RecordTerminal(target[w], "CANCELLED")
      BY <1>10, SameProcessing DEF CancelBeforeStart
    <2> QED  BY <1>10, <2>1, RecordSteps DEF CancelBeforeStart
  <1>11. CASE RecordTerminal(w)
    <2>1. Rows!RecordTerminal(target[w], IF outcome[w] = "cancelled" THEN "CANCELLED" ELSE "FAILED")
      BY <1>11, SameProcessing DEF RecordTerminal
    <2>2. outcome[w] \in {"failed", "cancelled"}
      BY <1>3, <1>11 DEF RecordTerminal, Working
    <2> QED  BY <1>11, <2>1, <2>2, RecordSteps DEF RecordTerminal
  <1>12. CASE RecordingFails(w)
    BY <1>1, <1>12, QuietFinishSteps DEF RecordingFails, Finish, store, WorkerTypes
  <1> QED  BY <1>5, <1>6, <1>7, <1>8, <1>9, <1>10, <1>11, <1>12

\* An open attempt has staged generations only: no call reuses an active index.
LEMMA NothingToReuse ==
    ASSUME IInv, NEW w \in Workers, pc[w] \in Index!Steps
    PROVE  /\ Rows!CandidateOpen(target[w]) /\ target[w] \in Versions /\ request[w] \in Profiles
           /\ \A g \in Index!Compatible(w) :
                g \in Rows!GenerationsOf(target[w]) /\ ~ Index!IsActive(g) /\ g \in Generations
           /\ ~ Index!ReuseActive(w)
  <1>1. Working(w) /\ Rows!FollowsVersion
    BY DEF IInv, WorkerInv, Rows!IInv, Index!Steps
  <1>2. Rows!CandidateOpen(target[w]) /\ target[w] \in Versions /\ request[w] \in Profiles
    BY <1>1 DEF Working, RowsAt, Indexing
  <1>3. ASSUME NEW g \in Index!Compatible(w)
        PROVE  /\ g \in Rows!GenerationsOf(target[w]) /\ g \in Generations
               /\ ~ Index!IsActive(g)
    <2>1. g \in Rows!GenerationsOf(target[w]) /\ g \in Generations /\ g \in Rows!IndexRows
          /\ generation[g].version = target[w]
      BY DEF Index!Compatible, Index!Store!GenerationsOf, Index!Store!IndexRows,
             Rows!GenerationsOf, Rows!IndexRows
    <2>2. version[target[w]] = "CANDIDATE_PROCESSING"
      BY <1>2 DEF Rows!CandidateOpen
    <2> QED  BY <1>1, <2>1, <2>2 DEF Rows!FollowsVersion, Index!IsActive
  <1> QED  BY <1>2, <1>3 DEF Index!ReuseActive

\* A step between two transactions of the indexing, or with one of them.
LEMMA IndexGoSteps ==
    ASSUME IInv, NEW w \in Workers, pc[w] \in Index!Steps,
           NEW step \in Index!Steps, Index!Goto(w, step), Dispose(w), files' = files,
           chosen' \in [Workers -> Generations \cup {NoRow}],
           \A u \in Workers \ {w} : chosen'[u] = chosen[u],
           RowsMove(w), UNCHANGED <<version, job, stage>>, Held(w)'
    PROVE  OwnStep(w)
  <1>1. WorkerTypes /\ Rows!CandidateOpen(target[w])
    BY NothingToReuse DEF IInv
  <1>2. /\ pc' = [pc EXCEPT ![w] = step] /\ UNCHANGED <<target, request, outcome>>
    BY DEF Index!Goto
  <1>3. step # "idle" /\ pc'[w] = step
    BY <1>1, <1>2 DEF Index!Steps, WorkerTypes
  <1>4. disposition' = disposition
    BY <1>3 DEF Dispose
  <1>5. RowsAt(target[w], step)'
    BY <1>1, <1>2
    DEF RowsAt, Rows!CandidateOpen, Unregistered, Extracting, Indexing, Index!Steps
  <1>6. step \in Places \ (CleanUps \cup {"idle"}) /\ pc[w] # "idle" /\ pc[w] \notin CleanUps
    BY DEF Places, CleanUps, Index!Steps
  <1> QED  BY <1>1, <1>2, <1>4, <1>5, <1>6, GoSteps DEF WorkerTypes
\* PrepareIndexing, EmbedStagingChunks and FinalizeIndexing.
LEMMA IndexSteps ==
    ASSUME IInv, NEW w \in Workers, BuildIndex(w)
    PROVE  OwnStep(w)
  <1>1. WorkerTypes /\ WorkerInv(w) /\ Rows!IInv /\ Rows!TypeOK
    BY DEF IInv, Rows!IInv
  <1>2. Index!Advance(w) /\ Dispose(w) /\ files' = files
    BY DEF BuildIndex
  <1>3. pc[w] \in Index!Steps
    BY <1>2 DEF Index!Advance, Index!Discover, Index!WriteCandidate, Index!ReadPersisted,
         Index!Generate, Index!PersistBatch, Index!VerifyComplete, Index!LastCheckpoint,
         Index!Activate, Index!Steps
  <1>4. /\ Rows!CandidateOpen(target[w]) /\ target[w] \in Versions /\ request[w] \in Profiles
        /\ \A g \in Index!Compatible(w) :
             g \in Rows!GenerationsOf(target[w]) /\ ~ Index!IsActive(g) /\ g \in Generations
        /\ ~ Index!ReuseActive(w)
    BY <1>3, NothingToReuse
  <1>5. ASSUME chosen[w] \in Rows!IndexRows
        PROVE  chosen[w] \in Rows!GenerationsOf(target[w])
    BY <1>1, <1>5, NoChoiceAssumption DEF WorkerInv, Held, Rows!IndexRows
  \* The rows stay, and so does the choice.
  <1>6. ASSUME NEW step \in Index!Steps, Index!Goto(w, step), chosen' = chosen,
               RowsMove(w), UNCHANGED <<version, job, stage>>
        PROVE  OwnStep(w)
    <2>1. Held(w)'
      BY <1>1, <1>6, Moved, HeldStays DEF WorkerInv, Index!Goto
    <2> QED  BY <1>1, <1>2, <1>3, <1>6, <2>1, IndexGoSteps DEF WorkerTypes
  <1>7. ASSUME NEW step \in Index!Steps, Index!Goto(w, step), chosen' = chosen,
               UNCHANGED <<version, job, stage, pages, generation, embedded>>
        PROVE  OwnStep(w)
    BY <1>6, <1>7 DEF RowsMove, Rows!store
  <1>8. CASE Index!Discover(w)
    <2>1. UNCHANGED <<version, job, stage, pages, generation, embedded>> /\ "write" \in Index!Steps
      BY <1>8 DEF Index!Discover, Index!store, Index!Steps
    <2>2. ASSUME NEW g \in Index!Compatible(w), chosen' = [chosen EXCEPT ![w] = g],
                 Index!Goto(w, "write")
          PROVE  OwnStep(w)
      <3>1. /\ chosen' \in [Workers -> Generations \cup {NoRow}]
            /\ \A u \in Workers \ {w} : chosen'[u] = chosen[u]
            /\ chosen'[w] = g /\ target' = target
        BY <1>1, <1>4, <2>2 DEF WorkerTypes, Index!Goto
      <3>2. Held(w)'
        BY <1>4, <2>1, <3>1 DEF Held, Rows!GenerationsOf, Rows!IndexRows
      <3>3. RowsMove(w)
        BY <2>1 DEF RowsMove, Rows!store
      <3> QED  BY <1>2, <1>3, <2>1, <2>2, <3>1, <3>2, <3>3, IndexGoSteps
    <2> QED  BY <1>4, <1>7, <1>8, <2>1, <2>2 DEF Index!Discover
  <1>9. CASE Index!WriteCandidate(w)
    <2>1. ASSUME NEW g \in Generations,
                 Index!Store!StageCandidate(g, target[w], request[w]),
                 chosen' = [chosen EXCEPT ![w] = g], Index!Goto(w, "embed")
          PROVE  OwnStep(w)
      <3>1. Rows!StageCandidate(g, target[w], request[w])
        BY <2>1, SameIndexing
      <3>2. /\ chosen' \in [Workers -> Generations \cup {NoRow}]
            /\ \A u \in Workers \ {w} : chosen'[u] = chosen[u]
            /\ chosen'[w] = g /\ target' = target
        BY <1>1, <2>1 DEF WorkerTypes, Index!Goto
      <3>3. RowsMove(w)
        BY <1>4, <3>1, <3>2 DEF RowsMove, RowStep
      <3>4. generation'[g] = [state |-> "STAGING", version |-> target[w], profile |-> request[w]]
        BY <1>1, <3>1 DEF Rows!StageCandidate, Rows!TypeOK
      <3>5. generation'[g].version = target[w] /\ generation'[g] # NoRow
        BY <1>4, <3>4, RowsAssumptions DEF Rows!GenerationRow
      <3>6. Held(w)'
        BY <3>2, <3>5 DEF Held, Rows!GenerationsOf, Rows!IndexRows
      <3>7. UNCHANGED <<version, job, stage>> /\ "embed" \in Index!Steps
        BY <3>1 DEF Rows!StageCandidate, Index!Steps
      <3> QED  BY <1>2, <1>3, <2>1, <3>2, <3>3, <3>6, <3>7, IndexGoSteps
    <2>2. ASSUME Index!Store!ReplaceCandidate(chosen[w]), Index!Goto(w, "embed"), chosen' = chosen
          PROVE  OwnStep(w)
      <3>1. Rows!ReplaceCandidate(chosen[w]) /\ target' = target
        BY <2>2, SameIndexing DEF Index!Goto
      <3>2. chosen[w] \in Rows!GenerationsOf(target[w])
        BY <1>5, <3>1 DEF Rows!ReplaceCandidate, Rows!IsStaging
      <3>3. RowsMove(w) /\ UNCHANGED <<version, job, stage>> /\ "embed" \in Index!Steps
        BY <1>4, <3>1, <3>2 DEF RowsMove, RowStep, Rows!ReplaceCandidate, Index!Steps
      <3> QED  BY <1>6, <2>2, <3>3
    <2> QED  BY <1>4, <1>9, <2>1, <2>2 DEF Index!WriteCandidate
  <1>10. CASE \/ Index!ReadPersisted(w) \/ Index!Generate(w) \/ Index!VerifyComplete(w)
              \/ Index!LastCheckpoint(w)
    <2>1. PICK step \in Index!Steps : Index!Goto(w, step)
      BY <1>10 DEF Index!ReadPersisted, Index!Generate, Index!VerifyComplete,
           Index!LastCheckpoint, Index!Steps
    <2>2. UNCHANGED <<version, job, stage, pages, generation, embedded, chosen>>
      BY <1>10 DEF Index!ReadPersisted, Index!Generate, Index!VerifyComplete,
           Index!LastCheckpoint, Index!store
    <2> QED  BY <1>7, <2>1, <2>2
  <1>11. CASE Index!PersistBatch(w)
    <2>1. PICK step \in Index!Steps : Index!Goto(w, step)
      BY <1>11 DEF Index!PersistBatch, Index!Steps
    <2>2. chosen' = chosen /\ target' = target
      BY <1>11 DEF Index!PersistBatch, Index!Goto
    <2>3. CASE Index!Store!AddBatch(chosen[w], Index!Pending(w))
      <3>1. Rows!AddBatch(chosen[w], Index!Pending(w))
        BY <2>3, SameIndexing
      <3>2. chosen[w] \in Rows!GenerationsOf(target[w])
        BY <1>5, <3>1 DEF Rows!AddBatch, Rows!IsStaging
      <3>3. RowsMove(w) /\ UNCHANGED <<version, job, stage>>
        BY <1>4, <2>2, <3>1, <3>2 DEF RowsMove, RowStep, Rows!AddBatch
      <3> QED  BY <1>6, <2>1, <2>2, <3>3
    <2>4. CASE UNCHANGED Index!store
      BY <1>7, <2>1, <2>2, <2>4 DEF Index!store
    <2> QED  BY <1>11, <2>3, <2>4 DEF Index!PersistBatch
  <1>12. CASE Index!Activate(w)
    <2>1. Rows!Activate(chosen[w])
      BY <1>12, SameIndexing DEF Index!Activate
    <2>2. chosen[w] \in Rows!GenerationsOf(target[w])
      BY <1>5, <2>1 DEF Rows!Activate, Rows!IsStaging
    <2>3. Index!Finish(w, "activated") /\ chosen' = chosen /\ target' = target
      BY <1>12 DEF Index!Activate, Index!Finish
    <2>4. RowsMove(w)
      BY <1>4, <2>1, <2>2, <2>3 DEF RowsMove, RowStep
    <2>5. version' = [version EXCEPT ![target[w]] = "ACTIVE"]
      <3>1. ASSUME NEW g \in Rows!GenerationsOf(target[w]), Rows!Activate(g)
            PROVE  version' = [version EXCEPT ![target[w]] = "ACTIVE"]
        BY <1>1, <1>4, <3>1, ActivateRows DEF IInv
      <3> QED  BY <2>1, <2>2, <3>1
    <2>6. version'[target[w]] = "ACTIVE"
      BY <1>1, <1>4, <2>5 DEF Rows!TypeOK
    <2>7. "activated" \in Results \ {"none", "reused"} /\ pc[w] # "idle"
      BY <1>3 DEF Results, Index!Outcomes, Index!Steps
    <2> QED  BY <1>1, <1>2, <2>3, <2>4, <2>6, <2>7, FinishSteps DEF WorkerTypes
  <1> QED
    BY <1>2, <1>8, <1>9, <1>10, <1>11, <1>12 DEF Index!Advance

\* Cancellation, failure and the death of the process.
LEMMA EndSteps ==
    ASSUME IInv, NEW w \in Workers,
           StopCancelled(w) \/ Fail(w) \/ RequestCancel(w) \/ Crash(w)
    PROVE  OwnStep(w)
  <1>1. WorkerTypes /\ WorkerInv(w) /\ Rows!IInv
    BY DEF IInv
  <1>2. CASE StopCancelled(w)
    <2>1. /\ pc[w] \in {"read"} \cup Indexing /\ Index!Finish(w, "cancelled") /\ Dispose(w)
          /\ UNCHANGED <<version, job, stage, pages, generation, embedded, files, chosen>>
      BY <1>2 DEF StopCancelled, Index!StopCancelled, Finish, store, Index!store, Indexing
    <2>2. pc[w] \notin {"idle", "register"}
      BY <2>1 DEF Indexing, Index!Steps
    <2> QED  BY <1>1, <2>1, <2>2, QuietFinishSteps DEF WorkerTypes
  <1>3. CASE Fail(w)
    <2>1. /\ pc[w] \notin {"idle", "register"} /\ Index!Finish(w, "failed") /\ Dispose(w)
          /\ UNCHANGED <<version, job, stage, pages, generation, embedded, files, chosen>>
      BY <1>3 DEF Fail, Index!Fail, Finish, store, Index!store, Index!Steps
    <2> QED  BY <1>1, <2>1, QuietFinishSteps DEF WorkerTypes
  <1>4. CASE RequestCancel(w)
    <2>1. /\ UNCHANGED <<version, job, stage, pages, generation, embedded>>
          /\ UNCHANGED <<pc, target, request, chosen, outcome, files, disposition>>
      BY <1>4 DEF RequestCancel, Index!RequestCancel, Index!store
    <2>2. WorkerTypes' /\ (\A u \in Workers \ {w} : UNCHANGED Locals(u))
      BY <1>1, <2>1 DEF WorkerTypes, Locals
    <2>3. WorkerInv(w)'
      BY <1>1, <2>1
      DEF WorkerInv, Working, RowsAt, Reported, Held, Rows!CandidateOpen, Rows!SourceIsFree,
          Rows!GenerationsOf, Rows!IndexRows
    <2>4. RowsMove(w)
      BY <2>1 DEF RowsMove, Rows!store
    <2> QED  BY <2>1, <2>2, <2>3, <2>4 DEF OwnStep
  <1>5. CASE Crash(w)
    <2>1. WorkerTypes' /\ (\A u \in Workers \ {w} : UNCHANGED Locals(u))
      BY <1>1, <1>5 DEF WorkerTypes, Crash, Locals, Places, Results, Index!Outcomes
    <2>2. /\ pc'[w] = "idle" /\ target'[w] = NoRow /\ chosen'[w] = NoRow /\ outcome'[w] = "none"
      BY <1>1, <1>5 DEF WorkerTypes, Crash
    <2>3. WorkerInv(w)'
      BY <2>2 DEF WorkerInv, Held
    <2>4. RowsMove(w)
      BY <1>5 DEF RowsMove, Crash, store, Rows!store
    <2> QED  BY <2>1, <2>2, <2>3, <2>4 DEF OwnStep
  <1> QED  BY <1>2, <1>3, <1>4, <1>5

\* Whoever moves, its step is one of these.
LEMMA AnyStep == IInv /\ Next => \E w \in Workers : OwnStep(w)
  BY BeginSteps, IngestSteps, ProcessSteps, IndexSteps, EndSteps DEF Next, Work
------------------------------------------------------------------------------
(* The theorems.                                                           *)

\* What is known of a worker and its attempt is not lost to the step of another.
LEMMA OthersStay ==
    ASSUME IInv, NEW w \in Workers, RowsMove(w), NEW u \in Workers, UNCHANGED Locals(u),
           target[u] = NoRow \/ target[u] # target[w] \/ UNCHANGED Rows!store
    PROVE  WorkerInv(u)'
  <1>1. WorkerTypes /\ WorkerInv(u) /\ Rows!IInv
    BY DEF IInv
  <1>2. /\ pc'[u] = pc[u] /\ target'[u] = target[u] /\ request'[u] = request[u]
        /\ chosen'[u] = chosen[u] /\ outcome'[u] = outcome[u] /\ files'[u] = files[u]
        /\ disposition'[u] = disposition[u]
    BY DEF Locals
  <1>3. Held(u)'
    BY <1>1, <1>2, Moved, HeldStays DEF WorkerInv
  <1>4. ~ Rows!SourceIsFree(target[u]) => ~ Rows!SourceIsFree(target[u])'
    <2>1. PICK v : v = target[u]
      OBVIOUS
    <2>2. ~ Rows!SourceIsFree(v) => ~ Rows!SourceIsFree(v)'
      BY Moved
    <2> QED  BY <1>2, <2>1, <2>2 DEF Rows!SourceIsFree
  <1>5. CASE target[u] = NoRow
    <2>1. pc[u] = "idle" /\ outcome[u] = "none"
      BY <1>1, <1>5, NoChoiceAssumption DEF WorkerInv, Working
    <2> QED  BY <1>2, <1>3, <1>5, <2>1 DEF WorkerInv
  <1>6. CASE target[u] # NoRow
    <2>1. target[u] \in Versions
      BY <1>1, <1>6 DEF WorkerTypes
    <2>2. \A v \in Versions : v = target[u] => KeepsAttempt(v) \/ UNCHANGED Rows!store
      BY <1>6, Moved
    <2>3. /\ version'[target[u]] = version[target[u]] /\ job'[target[u]] = job[target[u]]
          /\ stage'[target[u]] = stage[target[u]]
      BY <2>1, <2>2 DEF KeepsAttempt, Rows!store
    <2>4. Working(u) => Working(u)'
      BY <1>2, <2>3 DEF Working, RowsAt, Rows!CandidateOpen
    <2>5. Reported(u) => Reported(u)'
      BY <1>2, <2>3 DEF Reported, Rows!CandidateOpen
    <2> QED  BY <1>1, <1>2, <1>3, <1>4, <2>4, <2>5 DEF WorkerInv
  <1> QED  BY <1>5, <1>6

\* Every step keeps the invariant.
LEMMA InvariantStep == IInv /\ [Next]_vars => IInv'
  <1>1. ASSUME IInv, NEW w \in Workers, OwnStep(w)
        PROVE  IInv'
    <2>1. WorkerTypes' /\ Rows!IInv' /\ Attempts' /\ OnePerDocument'
      BY <1>1, Moved DEF OwnStep
    <2>2. ASSUME NEW u \in Workers
          PROVE  WorkerInv(u)'
      <3>1. CASE u # w
        <4>1. target[u] = NoRow \/ target[u] # target[w]
          BY <1>1, <3>1 DEF IInv, Owned
        <4> QED  BY <1>1, <3>1, <4>1, OthersStay DEF OwnStep
      <3> QED  BY <1>1, <3>1 DEF OwnStep
    <2>3. Owned'
      <3>1. \A u \in Workers \ {w} : target'[u] = target[u]
        BY <1>1 DEF OwnStep, Locals
      <3> QED  BY <1>1, <3>1 DEF IInv, OwnStep, Owned
    <2> QED  BY <2>1, <2>2, <2>3 DEF IInv
  <1>2. ASSUME IInv, UNCHANGED vars
        PROVE  IInv'
    <2>1. /\ UNCHANGED <<version, job, stage, pages, generation, embedded>>
          /\ UNCHANGED <<pc, target, request, chosen, outcome, files, disposition>>
      BY <1>2 DEF vars, store
    <2>2. WorkerTypes' /\ Owned' /\ Rows!IInv'
      BY <1>2, <2>1, RowsAssumptions, Rows!InvariantStep
      DEF IInv, WorkerTypes, Owned, Rows!store
    <2>3. Attempts' /\ OnePerDocument'
      BY <1>2, <2>1
      DEF IInv, Attempts, OnePerDocument, NoIndex, Rows!GenerationsOf, Rows!IndexRows
    <2>4. ASSUME NEW u \in Workers
          PROVE  WorkerInv(u)'
      BY <1>2, <2>1, OthersStay DEF RowsMove, Rows!store, Locals
    <2> QED  BY <2>2, <2>3, <2>4 DEF IInv
  <1> QED  BY <1>1, <1>2, AnyStep

\* The inductive invariant of the workers and the rows of their attempts.
THEOREM Inductive == Spec => []IInv
  <1>1. Init => IInv
    <2> SUFFICES ASSUME Init PROVE IInv
      OBVIOUS
    <2> USE DEF Init, Store!Init, Index!CallersInit
    <2>1. Rows!IndexRows = {}
      BY DEF Rows!IndexRows
    <2>2. Rows!TypeOK
      BY DEF Rows!TypeOK, Rows!VersionStates, Rows!JobStates, Rows!JobStages, Rows!PageSets
    <2>3. Rows!IInv
      BY <2>1, <2>2
      DEF Rows!IInv, Rows!FollowsVersion, Rows!HasGeneration, Rows!OneActiveVersion,
          Rows!ChunkingHasPages, Rows!OneGenerationPerVersion, Rows!PublishedIsComplete
    <2>4. Attempts /\ OnePerDocument
      BY <2>1 DEF Attempts, OnePerDocument, NoIndex, Rows!GenerationsOf
    <2>5. WorkerTypes
      BY DEF WorkerTypes, Places, Results, Index!Outcomes
    <2>6. Owned /\ \A w \in Workers : WorkerInv(w)
      BY DEF Owned, WorkerInv, Held
    <2> QED  BY <2>3, <2>4, <2>5, <2>6 DEF IInv
  <1> QED  BY <1>1, InvariantStep, PTL DEF Spec

\* The rows, what every worker holds and the sources in memory are well typed.
THEOREM TypesHold == Spec => []TypeOK
  <1>1. IInv => TypeOK
    BY SameRows DEF IInv, Rows!IInv, WorkerTypes, Places, Results, TypeOK
  <1> QED  BY <1>1, Inductive, PTL

\* What BuildActiveDocument says of the registration of an import that returned is
\* what the database says of it.
THEOREM DispositionsAreTrue == Spec => []DispositionIsTrue
  <1>1. ASSUME IInv, NEW w \in Workers, pc[w] = "idle", target[w] # NoRow
        PROVE  CASE disposition[w] = "NOT_REGISTERED" -> version[target[w]] = "ABSENT"
                 [] disposition[w] = "REGISTERED_INCOMPLETE" ->
                       version[target[w]] \notin {"ABSENT", "ACTIVE"}
                 [] OTHER -> version[target[w]] = "ACTIVE" /\ outcome[w] = "activated"
    <2>1. Reported(w) /\ disposition[w] \in {"NONE", "NOT_REGISTERED", "REGISTERED_INCOMPLETE"}
      BY <1>1 DEF IInv, WorkerInv, WorkerTypes
    <2> QED  BY <2>1 DEF Reported
  <1>2. IInv => DispositionIsTrue
    BY <1>1 DEF DispositionIsTrue
  <1> QED  BY <1>2, Inductive, PTL

\* A refused duplicate leaves neither a row nor a stored source, and another attempt
\* holds its fingerprint (the compensation of ImportSyntheticPdf).
THEOREM DuplicatesLeaveNothing == Spec => []DuplicateLeavesNothing
  <1>1. ASSUME IInv, NEW w \in Workers, pc[w] = "idle", outcome[w] = "duplicate"
        PROVE  /\ version[target[w]] = "ABSENT"
               /\ target[w] \notin files[w]
               /\ ~ Store!SourceIsFree(target[w])
    <2>1. WorkerInv(w)
      BY <1>1 DEF IInv
    <2>2. target[w] # NoRow
      BY <1>1, <2>1 DEF WorkerInv
    <2> QED  BY <1>1, <2>1, <2>2, SameRows DEF WorkerInv, Reported
  <1>2. IInv => DuplicateLeavesNothing
    BY <1>1 DEF DuplicateLeavesNothing
  <1> QED  BY <1>2, Inductive, PTL

\* A cancelled import is recorded as cancelled or rests at the handoff to the
\* indexing; it is never left queued or half extracted.
THEOREM CancelledAreSettled == Spec => []CancelledIsSettled
  <1>1. ASSUME IInv, NEW w \in Workers, pc[w] = "idle", outcome[w] = "cancelled",
               version[target[w]] # "ABSENT"
        PROVE  \/ version[target[w]] = "CANDIDATE_CANCELLED" /\ job[target[w]] = "CANCELLED"
               \/ Store!CandidateOpen(target[w])
    <2>1. WorkerInv(w)
      BY <1>1 DEF IInv
    <2>2. target[w] # NoRow
      BY <1>1, <2>1 DEF WorkerInv
    <2> QED  BY <1>1, <2>1, <2>2, SameRows DEF WorkerInv, Reported
  <1>2. IInv => CancelledIsSettled
    BY <1>1 DEF CancelledIsSettled
  <1> QED  BY <1>2, Inductive, PTL

\* An attempt that is recorded as failed or cancelled has neither pages nor an index,
\* although the UPDATEs of record_terminal do not ask for the stage.
THEOREM TerminalsHaveNoIndex == Spec => []TerminalHasNoIndex
  <1>1. IInv => TerminalHasNoIndex
    BY SameRows DEF IInv, Attempts, NoIndex, TerminalHasNoIndex
  <1> QED  BY <1>1, Inductive, PTL
================================================================================
