---------------------------- MODULE ImportWorkflow ----------------------------
(***************************************************************************)
(* BuildActiveDocument: one PDF import from the file dialog to the active  *)
(* index, run by workers that are each the one serial worker thread of a   *)
(* process.  It composes ImportSyntheticPdf (store the source, register,   *)
(* compensate), ProcessNativePdfText (start, extract, stage, record a      *)
(* failure or a cancellation) and the calls of IndexPipeline.  The         *)
(* controlled source lives in the memory of the process, the rows in the   *)
(* database; a crash loses the first and the worker's place, never the     *)
(* second, and nothing in the program picks an interrupted attempt up.     *)
(***************************************************************************)
EXTENDS Naturals, FiniteSets

CONSTANTS
    Versions, Documents, Sources, Generations, Profiles,
    DocumentOf, SourceOf, ChunkCount, Replacements, NoRow, BatchSize,
    Workers,        \* processes, each with its one serial worker
    MaxAttempts     \* bound: imports that get as far as a selected file

VARIABLES
    version, job, stage, pages, generation, embedded,
    pc, target, request, chosen, missing, cancelled, outcome,
    files,          \* the sources each process holds in memory, by attempt
    disposition     \* what a worker was told about the registration of its attempt

Index == INSTANCE IndexPipeline WITH Callers <- Workers
Store == INSTANCE DocumentStore

\* The assumptions of DocumentStore, of the same constants.
ASSUME StoreAssumption ==
    /\ DocumentOf \in [Versions -> Documents]
    /\ SourceOf \in [Versions -> Sources]
    /\ ChunkCount \in [Versions -> [Profiles -> Nat \ {0}]]
    /\ NoRow \notin Store!GenerationRow
    /\ NoRow \notin [generation : Generations, vectors : SUBSET Nat]
ASSUME NoChoiceAssumption == NoRow \notin Versions \cup Profiles \cup Generations

store == <<version, job, stage, pages, generation, embedded>>
index == <<request, chosen, missing>>
vars == <<store, pc, target, request, chosen, missing, cancelled, outcome, files, disposition>>

\* The steps of an import before its processing result reaches the indexing.
EarlySteps ==
    {"read", "store", "register", "compensate", "registered", "start", "extract", "stage",
     "terminal", "processed"}

TypeOK ==
    /\ Store!TypeOK
    /\ pc \in [Workers -> EarlySteps \cup Index!Steps \cup {"idle"}]
    /\ target \in [Workers -> Versions \cup {NoRow}]
    /\ outcome \in [Workers -> Index!Outcomes \cup {"duplicate"}]
    /\ files \in [Workers -> SUBSET Versions]
    /\ disposition \in [Workers -> {"NONE", "NOT_REGISTERED", "REGISTERED_INCOMPLETE"}]

Init ==
    /\ Store!Init
    /\ Index!CallersInit
    /\ files = [w \in Workers |-> {}]
    /\ disposition = [w \in Workers |-> "NONE"]

Goto(w, step) ==
    /\ pc' = [pc EXCEPT ![w] = step]
    /\ UNCHANGED <<target, cancelled, outcome, index, disposition>>

\* Wrong variant: a failure right after the registration counts as one of it.
DispositionTooLate(step) ==
    IF step \in {"read", "store", "compensate", "registered"} THEN "NOT_REGISTERED"
                                                            ELSE "REGISTERED_INCOMPLETE"

\* The disposition an unsuccessful import is reported with depends only on where
\* it was left.
DispositionAt(step) ==
    IF step \in {"read", "store", "compensate"} THEN "NOT_REGISTERED" ELSE "REGISTERED_INCOMPLETE"

Dispose(w) ==
    IF pc'[w] = "idle" /\ outcome'[w] \notin {"activated", "reused"}
    THEN disposition' = [disposition EXCEPT ![w] = DispositionAt(pc[w])]
    ELSE UNCHANGED disposition

Finish(w, result) ==
    /\ Index!Finish(w, result)
    /\ Dispose(w)
    /\ UNCHANGED <<chosen, missing>>

\* The outcome is settled, but a clean-up comes before it is returned.
CleanUp(w, step, result) ==
    /\ pc' = [pc EXCEPT ![w] = step]
    /\ outcome' = [outcome EXCEPT ![w] = result]
    /\ UNCHANGED <<target, cancelled, index, disposition>>

Checkpoint(w) == Index!Checkpoint(w)
------------------------------------------------------------------------------
(* Selection and ImportSyntheticPdf.                                      *)

\* Identifiers are random: an attempt never shares its own with another.
Fresh(v) ==
    /\ version[v] = "ABSENT"
    /\ \A w \in Workers : target[w] # v /\ v \notin files[w]

Begin(w, v, p) ==
    /\ pc[w] = "idle"
    /\ Fresh(v)
    /\ Cardinality({x \in Versions : ~ Fresh(x)}) < MaxAttempts
    /\ pc' = [pc EXCEPT ![w] = "read"]
    /\ target' = [target EXCEPT ![w] = v]
    /\ request' = [request EXCEPT ![w] = p]
    /\ chosen' = [chosen EXCEPT ![w] = NoRow]
    /\ missing' = [missing EXCEPT ![w] = {}]
    /\ cancelled' = [cancelled EXCEPT ![w] = FALSE]
    /\ outcome' = [outcome EXCEPT ![w] = "none"]
    /\ disposition' = [disposition EXCEPT ![w] = "NONE"]
    /\ UNCHANGED <<store, files>>

\* Announce IMPORTING and read the selected file, between checkpoints.
ReadSelected(w) ==
    /\ pc[w] = "read"
    /\ Checkpoint(w)
    /\ Goto(w, "store")
    /\ UNCHANGED <<store, files>>

\* From here to the committed registration nobody looks at the flag.
StoreSource(w) ==
    /\ pc[w] = "store"
    /\ files' = [files EXCEPT ![w] = @ \cup {target[w]}]
    /\ Goto(w, "register")
    /\ UNCHANGED store

Register(w) ==
    /\ pc[w] = "register"
    /\ Store!Register(target[w])
    /\ Goto(w, "registered")
    /\ UNCHANGED files

RegistrationFails(w) ==
    /\ pc[w] = "register"
    /\ \/ CleanUp(w, "compensate", "failed")
       \/ ~ Store!SourceIsFree(target[w]) /\ CleanUp(w, "compensate", "duplicate")
    /\ UNCHANGED <<store, files>>

\* Wrong variant: the failed registration leaves the stored source behind.
CompensateNothing(w) ==
    /\ pc[w] = "compensate"
    /\ Finish(w, outcome[w])
    /\ UNCHANGED <<store, files>>

Compensate(w) ==
    /\ pc[w] = "compensate"
    /\ files' = [files EXCEPT ![w] = @ \ {target[w]}]
    /\ Finish(w, outcome[w])
    /\ UNCHANGED store

\* The source could not be deleted: a storage failure hides the first failure.
CompensationFails(w) ==
    /\ pc[w] = "compensate"
    /\ Finish(w, "failed")
    /\ UNCHANGED <<store, files>>

\* The announcement of EXTRACTING, the one step without a checkpoint between a
\* committed registration and its processing.
Announce(w) ==
    /\ pc[w] = "registered"
    /\ Goto(w, "start")
    /\ UNCHANGED <<store, files>>
------------------------------------------------------------------------------
(* ProcessNativePdfText.                                                   *)

StillInitial(v) == job[v] = "QUEUED" /\ stage[v] = "VALIDATING"

\* Wrong variant: a cancellation found before the start is just reported.
CancelBeforeStartUnrecorded(w) ==
    /\ pc[w] = "start"
    /\ cancelled[w]
    /\ Finish(w, "cancelled")
    /\ UNCHANGED <<store, files>>

CancelBeforeStart(w) ==
    /\ pc[w] = "start"
    /\ cancelled[w]
    /\ StillInitial(target[w])
    /\ Store!RecordTerminal(target[w], "CANCELLED")
    /\ Finish(w, "cancelled")
    /\ UNCHANGED files

Start(w) ==
    /\ pc[w] = "start"
    /\ Checkpoint(w)
    /\ Store!Start(target[w])
    /\ Goto(w, "extract")
    /\ UNCHANGED files

\* The start was rolled back after its graph had been read: the failure is
\* recorded all the same, on a job that is still queued.
StartFails(w) ==
    /\ pc[w] = "start"
    /\ Checkpoint(w)
    /\ StillInitial(target[w])
    /\ CleanUp(w, "terminal", "failed")
    /\ UNCHANGED <<store, files>>

ReadSource(w) ==
    /\ pc[w] = "extract"
    /\ Checkpoint(w)
    /\ target[w] \in files[w]
    /\ Goto(w, "stage")
    /\ UNCHANGED <<store, files>>

StagePages(w, quality) ==
    /\ pc[w] = "stage"
    /\ Checkpoint(w)
    /\ Store!StagePages(target[w], quality)
    /\ Goto(w, "processed")
    /\ UNCHANGED files

\* Wrong variant: failures of the indexing are recorded like those of the processing.
AnyStepFails(w) ==
    /\ pc[w] \in {"extract", "stage", "processed"} \cup Index!Steps
    /\ CleanUp(w, "terminal", "failed")
    /\ UNCHANGED <<store, files>>

\* The source is unreadable, has no usable text, or the write is rolled back.
ProcessingFails(w) ==
    /\ pc[w] \in {"extract", "stage"}
    /\ CleanUp(w, "terminal", "failed")
    /\ UNCHANGED <<store, files>>

ProcessingCancelled(w) ==
    /\ pc[w] \in {"extract", "stage"}
    /\ cancelled[w]
    /\ CleanUp(w, "terminal", "cancelled")
    /\ UNCHANGED <<store, files>>

RecordTerminal(w) ==
    /\ pc[w] = "terminal"
    /\ Store!RecordTerminal(target[w], IF outcome[w] = "cancelled" THEN "CANCELLED" ELSE "FAILED")
    /\ Finish(w, outcome[w])
    /\ UNCHANGED files

RecordingFails(w) ==
    /\ pc[w] = "terminal"
    /\ Finish(w, "failed")
    /\ UNCHANGED <<store, files>>

\* Announce INDEXING; the processing result is handed to PrepareIndexing.
HandOver(w) ==
    /\ pc[w] = "processed"
    /\ Checkpoint(w)
    /\ Goto(w, "discover")
    /\ UNCHANGED <<store, files>>
------------------------------------------------------------------------------
BuildIndex(w) == Index!Advance(w) /\ Dispose(w) /\ UNCHANGED files

StopCancelled(w) ==
    \/ /\ pc[w] \in {"read", "processed"}
       /\ cancelled[w]
       /\ Finish(w, "cancelled")
       /\ UNCHANGED <<store, files>>
    \/ Index!StopCancelled(w) /\ Dispose(w) /\ UNCHANGED files

\* Steps whose failure is raised as it is: nothing to undo, nothing recorded.
Fail(w) ==
    \/ /\ pc[w] \in {"read", "store", "registered", "start", "processed"}
       /\ Finish(w, "failed")
       /\ UNCHANGED <<store, files>>
    \/ Index!Fail(w) /\ Dispose(w) /\ UNCHANGED files

RequestCancel(w) == Index!RequestCancel(w) /\ UNCHANGED <<files, disposition>>

Crash(w) ==
    /\ pc' = [pc EXCEPT ![w] = "idle"]
    /\ target' = [target EXCEPT ![w] = NoRow]
    /\ request' = [request EXCEPT ![w] = NoRow]
    /\ chosen' = [chosen EXCEPT ![w] = NoRow]
    /\ missing' = [missing EXCEPT ![w] = {}]
    /\ cancelled' = [cancelled EXCEPT ![w] = FALSE]
    /\ outcome' = [outcome EXCEPT ![w] = "none"]
    /\ files' = [files EXCEPT ![w] = {}]
    /\ disposition' = [disposition EXCEPT ![w] = "NONE"]
    /\ UNCHANGED store

Work(w) ==
    \/ ReadSelected(w) \/ StoreSource(w) \/ Register(w) \/ RegistrationFails(w)
    \/ Compensate(w) \/ CompensationFails(w) \/ Announce(w)
    \/ CancelBeforeStart(w) \/ Start(w) \/ StartFails(w) \/ ReadSource(w)
    \/ \E quality \in {"CLEAN", "WARNED"} : StagePages(w, quality)
    \/ ProcessingFails(w) \/ ProcessingCancelled(w)
    \/ RecordTerminal(w) \/ RecordingFails(w) \/ HandOver(w)
    \/ BuildIndex(w) \/ StopCancelled(w) \/ Fail(w)

Next ==
    \E w \in Workers :
        \/ \E v \in Versions, p \in Profiles : Begin(w, v, p)
        \/ Work(w)
        \/ RequestCancel(w)
        \/ Crash(w)

\* The worker thread runs as long as its process lives.
Spec == Init /\ [][Next]_vars /\ \A w \in Workers : WF_vars(Work(w))
------------------------------------------------------------------------------
(* Properties.                                                             *)

\* What a worker is told about an import that returned is what the database
\* says, whatever else failed on the way: nothing was registered, or a row is
\* left that is not published, or the document is published.
DispositionIsTrue ==
    \A w \in Workers :
        pc[w] = "idle" /\ target[w] # NoRow =>
            CASE disposition[w] = "NOT_REGISTERED" -> version[target[w]] = "ABSENT"
              [] disposition[w] = "REGISTERED_INCOMPLETE" ->
                    version[target[w]] \notin {"ABSENT", "ACTIVE"}
              [] OTHER -> version[target[w]] = "ACTIVE" /\ outcome[w] = "activated"

\* A worker that is told the PDF is a duplicate has left nothing behind, row or
\* stored source, and there is another attempt that holds the fingerprint.
DuplicateLeavesNothing ==
    \A w \in Workers :
        pc[w] = "idle" /\ outcome[w] = "duplicate" =>
            /\ version[target[w]] = "ABSENT"
            /\ target[w] \notin files[w]
            /\ ~ Store!SourceIsFree(target[w])

\* An import that ended without an error of its own, cancelled at whatever
\* checkpoint, never leaves its attempt queued or half extracted: the
\* cancellation is recorded, or the attempt rests at the CHUNKING handoff.
CancelledIsSettled ==
    \A w \in Workers :
        LET v == target[w] IN
        pc[w] = "idle" /\ outcome[w] = "cancelled" /\ version[v] # "ABSENT" =>
            \/ version[v] = "CANDIDATE_CANCELLED" /\ job[v] = "CANCELLED"
            \/ Store!CandidateOpen(v)

\* The terminal UPDATEs do not look at the stage of a job, yet an attempt that is
\* recorded as failed or cancelled never has pages or an index, because no import
\* records an outcome once its pages are committed.
TerminalHasNoIndex ==
    \A v \in Versions :
        version[v] \in {"CANDIDATE_FAILED", "CANDIDATE_CANCELLED"} =>
            pages[v] = "ABSENT" /\ Store!GenerationsOf(v) = {}

\* A cancellation requested before the last checkpoint is never answered with a
\* published document, although most of the registration looks away from it.
CancelPreventsPublication ==
    \A w \in Workers :
        (cancelled[w] /\ pc[w] \notin {"idle", "activate"})
            ~> (pc[w] = "idle" /\ outcome[w] # "activated")

\* src/lexlocal/domain/processing.py:38 lets a queued job become only PROCESSING or
\* CANCELLED.  A start that is rolled back is recorded as FAILED nevertheless.
QueuedNeverFails ==
    [][\A v \in Versions : job[v] = "QUEUED" => job'[v] # "FAILED"]_vars
==============================================================================
