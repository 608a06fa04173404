# LexLocal: a verification project in TLA+

LexLocal imports PDF documents into a workspace, builds a vector index of each,
and answers questions about one document from that index. It is one desktop
process with two threads, an SQLite database, and a local model runtime. This
directory models the parts of it where the order of steps decides whether the
result is right. TLC checks the models on small instances, and TLAPS proves
their safety properties for all instances: every invariant that a passing run
checks, and both refinements. Liveness is only model-checked. Paths below are relative to
`src/lexlocal/` unless they start with `docs/` or `tests/`.

## 1. Inventory

| Component | State it keeps | Operations | What makes it correct |
|---|---|---|---|
| Document store (`domain/documents.py`, `domain/processing.py`, the SQLite ingestion, processing, index and embedding repositories, `001_initial.sql`) | rows for versions, processing jobs, pages, index generations, chunks, embeddings | register, start, stage pages, record terminal outcome, stage / replace candidate, add embedding batch, activate | a published index is complete, unique and matches its version; what is over does not change |
| Indexing use cases (`application/indexing.py`, `application/embeddings.py`) | what a caller read in earlier transactions: selected generation, missing chunks | `PrepareIndexing`, `EmbedStagingChunks`, `FinalizeIndexing` | stale knowledge never publishes or damages anything; calls end; cancellation is obeyed up to the last checkpoint |
| Import workflow (`application/document_workflow.py`, `ingestion.py`, `processing.py`) | the place in the pipeline, the stored source in memory | `BuildActiveDocument` and the use cases it calls, compensation, terminal updates | what the caller is told is what the database says, after any failure, cancellation or crash |
| Presentation session (`presentation/`, `bootstrap/ui.py`) | `PresentationState`, tokens and workspace epoch; signals in flight; `ThreadCancellationSource`; worker resources | user requests, worker slots, signal deliveries, closing | the screen shows what was committed; cancellations hit their own operation; operations end and the window closes, after the work |
| Workspaces (`application/workspaces.py`) | workspace rows, the worker's `ActiveWorkspaceScope` | create, list, select | work runs in the workspace that is on the screen |
| Chat completion (`application/chat.py`, chat repository) | QA requests, answers, citations | intake, completion, recorded failure, retry | one answer per request, from one consistent retrieval |
| Retrieval (`application/retrieval.py`) | retrieval runs, evidence | prepare, stage, rank | the ranking is a total order; a stored retrieval is reused only if nothing changed |
| Evidence sufficiency (`application/evidence_sufficiency.py`) | none (pure) | evaluate | an answer needs support and nothing against it |
| Page-aware chunking (`BuildPageAwareChunks`) | none (pure) | cut pages into windows | every character of a page that is not left out is in a chunk, none is cut twice for nothing |
| Migrations, unit of work, connections (`infrastructure/persistence/`) | `schema_migrations`; a connection with its snapshot and the write lock | read the history, apply what is missing; begin, commit, roll back | every migration is applied once and in order, whoever starts at the same time; the write lock comes back |
| Local model registry (`sqlite_local_model_repository.py`) | rows of `local_models` | `get_or_add_exact` | one row and one identifier per model, whoever registers it |
| Foundry runtime (`infrastructure/foundry/local_adapter.py`) | handles, which of them are loaded | resolve and check, adopt an identifier, load, infer, close | what is loaded is known and released |
| Startup composition (`bootstrap/`, `WorkflowWorker.initialize`) | the stage of the startup, opened resources | compose, bind, close | it ends; a session only asks for committed models; nothing stays open |
| PDF adapters, development security providers, widgets, settings, logging | - | pure input, rendering | not modelled, see section 7 |

How they interact. The GUI thread (`MainWindow`, `PresentationController`)
sends commands as queued Qt signals to one worker `QThread`; the worker's slots
run the use cases one after the other and answer with queued signals. Both
threads touch the `ThreadCancellationSource`, which has a lock. Use cases write
through short SQLite transactions (WAL, deferred `BEGIN`) and call the model
runtime outside of them. No lock keeps a second process away from the database;
`docs/INDEX-001.md:877` and its siblings ask that stale and concurrent
transitions fail closed, so the store, the pipeline and the startup are modelled
with concurrent callers. The controlled source of an import lives in the memory of
the process.

The hard behaviours are listed with their lines under `hazards` in
`PROJECT.json`: transactions that use what an earlier one read, two rows that
must change together, compensation and its failure, a crash between
registration and activation, cancellations racing admissions and final commits,
signals that arrive after the user has moved on, a shutdown behind a running
slot, launches that migrate and register models at the same time, and models
that cannot be unloaded.

## 2. Modules

| Module | Models | Composes |
|---|---|---|
| `PublishedIndex` | abstract: what the readers of a document are promised | |
| `DocumentStore` | the rows and the repository operations, one action per write transaction, called by anybody in any order | refines `PublishedIndex` |
| `DocumentStoreProofs` | theorems about `DocumentStore` | extends it |
| `IndexPipeline` | the three indexing use cases, several concurrent callers | instantiates `DocumentStore` |
| `IndexPipelineProofs` | theorems about `IndexPipeline` | extends it; instantiates `DocumentStoreProofs` |
| `ImportWorkflow` | one serial worker per process running `BuildActiveDocument`; crashes | instantiates `IndexPipeline` and `DocumentStore` |
| `ImportWorkflowProofs` | theorems about `ImportWorkflow` | extends it; instantiates `DocumentStoreProofs` |
| `WorkflowSession` | GUI thread, worker thread, both signal queues, the cancellation source | stands alone; an import and a question are reduced to what they commit and where they look at the flag |
| `WorkflowSessionProofs` | theorems about `WorkflowSession` | extends it |
| `QuestionLog` | abstract: what chat promises about the questions of a workspace | extends `PublishedIndex` |
| `ChatCompletion` | `StartSingleDocumentQuestion` and `CompleteChat` with retrieval staging and evidence sufficiency, several concurrent callers, the index changing under them | refines `QuestionLog`; its index is that of `PublishedIndex`, which `DocumentStore` refines |
| `ChatCompletionProofs` | theorems about `ChatCompletion` | extends it |
| `Startup` | launches of the program on one database: migrations, health checks, the transaction that binds the models, inference, closing, crashes; SQLite's snapshots and write lock | stands alone; the launch is what `WorkflowSession` sees as `Initialize` |
| `StartupProofs` | theorems about `Startup` | extends it |
| `PassageSelection` | `BuildPageAwareChunks` for every document in scope, then `rank_retrieval_candidates` | stands alone; gives the chunks that `DocumentStore` counts and the passages that `ChatCompletion` leaves open |
| `PassageSelectionProofs` | theorems about `PassageSelection` | extends it |
| `MC*` | values of the constants for TLC | extend the above |

Definitions named `... Wrong variant` in a comment are not used by any
specification. Each is the definition below it with a plausible mistake; with
the mistake in place the property it is paired with in `PROJECT.json` fails.

**DocumentStore.** `version`, `job`, `stage` are the state columns of
`document_versions` and `document_processing_jobs` (attempt 1 is the only one
the program makes, so a job is named by its version); `pages` is whether the
page set was committed and whether a page carries a warning; `generation` holds
`index_generations` rows; `embedded[g]` is the set of chunk positions that have
an `embeddings` row. Chunk rows are written with their generation and are
determined by text and profile, hence `ChunkCount`. An action's guard collects
the `WHERE` clauses, the row counts that are checked, the uniqueness constraints
and the re-validations of the code. A failing guard means that the transaction
is rolled back, that is, nothing happens. `RegisterReplacement` inserts a second
version of a document; the schema and `activate_candidate` provide for it but
only test fixtures do it, so it is marked external. Without it the archiving
branch would never run.

**IndexPipeline.** `pc` is the step a caller takes next. `Discover` and
`WriteCandidate` are the two transactions of `PrepareIndexing`;
`ReadPersisted`, `Generate`, `PersistBatch`, `VerifyComplete` are
`EmbedStagingChunks`; `LastCheckpoint` and `Activate` are `FinalizeIndexing`.
Several checkpoints between the same two transactions are one test of the flag.
`Fail` is any exception; `StopCancelled` a checkpoint that finds the flag set.
`ReturnedIsPublished` is a promise about what a call returned: complete, and
published until a later version of the document is (`Replaced`).
`RetriesPublish` is what the staged rows of a broken off call must not prevent: when
a caller is alone and nothing fails any more (`Undisturbed`; a step that is refused
still raises), its retries under one profile return the published index. The one
thing in the code that can stand in its way for good is an index of another
profile, staged or published, which nobody replaces. The module
repeats the assumptions of `DocumentStore` under a name of its own
(`StoreAssumption`), because a theorem about an instance does not inherit them;
`ImportWorkflow` does the same.

**ImportWorkflow.** `EarlySteps` name the steps before the handoff to indexing.
`files` is the in-memory source storage of each process, `disposition` what the
caller is told. Errors that lead to a further write (compensation, terminal
update) go through `CleanUp`; the write itself is a separate step, with a failing
alternative, because a crash or another process can come between. `Crash` forgets
everything but the rows.

**WorkflowSession.** `state` is `PresentationState` reduced to what its `actions`
and the handlers read; the tokens are `OperationToken`s. `commands` and `events`
are the two queues. A slot begins with `Admit` (`_start`, which calls
`ThreadCancellationSource.begin`), goes through the steps of `step`, emits one
terminal event, and ends with `Finish` (the `finally` block). The steps between
`Emit` and `Finish` are separate because the GUI thread can run in between.
Every `Accept...` action is a controller handler together with the window method
that calls it: `AcceptCapability`, for instance, also begins the first listing.
`asked` and `heard` record which cancellations the GUI requested and the source
accepted; no action reads them.

**ChatCompletion.** `state` is the state column of `qa_requests`, `retrieval`
the retrieval run with its evidence rows, `answer` the answer message with
verifier snapshot and citations. `Intake` is `add_intake`; `Load`, `Prepare`,
`Evaluate`, `Generate`, `Repair`, `LastCheckpoint`, `Commit` are the steps of
`CompleteChat.__call__`, `Reuse` its early return for a completed request,
`GiveUp` its `except` branch and `Record` the transaction of `_record_failure`.
`draft` is what a call prepares outside of transactions, and afterwards what it
returned. `Commit` has the guards that `_persist`, `StageRetrieval` and the two
repositories check inside the final transaction. A second thread of completion
does not exist in one process; a second process on the same database can.
Abstractions: texts, prompts and encryption are left out; all callers have the
same retrieval configuration, policy and models, so the checks that refuse a
result of another configuration always pass; a request has one document in its
scope, as intake makes it, and its version is named by its generation
(`OneGenerationPerVersion`); a retrieval selects any `TopK` passages at most, how
they are ranked is left open; a verifier may rate passages and a model may cite
them as it likes.

**Startup.** A launch `l` is one process; a restart is another launch. `history`
is what `load_applied_migrations` returned, `ran` how often a migration was
committed. `handles` and `loaded` are `FoundryLocalRuntime._handles`, reduced to
the identifier a capability's handle is under and to its flag; `sdk` is what the
SDK really holds, and `refused` remembers which unloads have raised. Between
`Select` and `Commit` the launch is in its unit of work: `snapshot` says whether
the transaction has read anything and whether others have committed since,
`view` what it sees, `writer` who holds the write lock. `Insert` waits for the
lock (the connection's busy timeout), and is refused at once when the snapshot is
left behind, which is how SQLite treats an upgrade from a stale read. `Commit`
also adopts the identifiers in the runtime, as `_bind_session` does before it
commits; `CommitFails` is a commit that was rolled back, or one that is durable
while something after it in the same call raised. `Work` stands for every other
unit of work of a running launch. Names and checksums of migration files are one
fact: a release ships the migrations `1..Ships[l]`, and the same number is the
same file. A launch that has started keeps running while a newer release migrates
the schema under it; `SchemaIsCurrent` promises that the schema is not older than
a launch's release, and nothing in the code promises that it is not newer.

**PassageSelection.** A page is its length and state; a READY page has text, a
WARNING page may have white space. `CutWindow` is one turn of the inner loop of
`BuildPageAwareChunks`, `SkipPage` the `continue`, `FinishDocument` what follows
the loops; when a document has no chunk (`NoEligibleChunks`) the behaviour ends.
`LoadCandidates` gives each chunk any score for its cosine, `RankNext` takes the
sorted sequence one element at a time. The actions use the code's sort key;
`TopRanked` counts what is ahead of a passage and never sorts.

## 3. Runs

All runs use two TLC workers. Fingerprints aside, each explores its instance
completely.

| Run | Instance | Distinct states | Checks |
|---|---|---|---|
| `document_store` | 3 versions (two of the same PDF, one a replacement), 3 generations, 2 profiles, 1-2 chunks | 12,421 | `TypeOK`, `PublishedIsComplete`, `PublicationPairs`, `OneGenerationPerVersion`, `EvidenceFrozen`, refinement `ReadersSpec` |
| `index_pipeline` | 2 callers, 1 version, 2 generations, 2 profiles, 3 chunks in batches of 2 | 43,814 | `TypeOK`, `ChoiceFits`, `ReturnedIsPublished`, `OneActivation`, `CallsReturn`, `RetriesPublish` |
| `index_reuse` | as above | stops | `EmbeddingsAreReused` is violated (finding 3) |
| `import_workflow` | 2 processes, 2 of 3 attempts, 2 PDFs, 2 generations, batches of 1 | 121,751 | `TypeOK`, `DispositionIsTrue`, `DuplicateLeavesNothing`, `CancelledIsSettled`, `TerminalHasNoIndex`, `CancelPreventsPublication` |
| `import_queued_fails` | as above | stops | `QueuedNeverFails` is violated (finding 4) |
| `session` | 2 workspaces, 6 operations and the shutdown | 257,774 | `TypeOK`, `CancellationIsItsOwn`, `ReportsAreTrue`, `IntakeIsKept`, `ScopeIsSelection`, `WindowOutlivesWork`, `ClosingShowsNothingNew`, `OperationsEnd`, `WindowCloses` |
| `session_lost_cancel` | 1 workspace, 5 operations | stops | `EarlyCancelIsKept` is violated (finding 2) |
| `session_cancelling` | 1 workspace, 5 operations | stops | `CancellingWaits` is violated (finding 1) |
| `chat_completion` | 1 question, 2 callers, a document of 2 passages with and without warnings, 1 replacement of its index | 620,533 | `TypeOK`, `WholeGraph`, `ReturnedIsStored`, `GroundedAnswers`, refinement `LogSpec`, `CancelEndsCall` |
| `chat_history` | as above | stops | `HistoryIsReadable` is violated (finding 5) |
| `startup` | 3 launches: one of the release before with the catalog of the second, one whose catalog differs in one model's identity and another's version | 155,553 | `TypeOK`, `SchemaIsCurrent`, `SessionsAgree`, `ModelsAreReleased`, `StartupEnds` |
| `passage_selection` | 2 documents, each a page of up to 6 characters or two of up to 4, with and without warnings; 10 windows; up to 4 chunks with 3 scores; 4 cuts | 2,187,320 | `ChunksCoverText`, `TopRanked` |

Bounds and why they suffice.

- The finite sets of versions and generations bound how many rows are ever
  created; identifiers are not reused. Three versions give a duplicate, a
  replacement and a bystander; a third generation would be the second of some
  version, which is what `OneGenerationPerVersion` excludes.
- `BatchSize` against `ChunkCount` gives full and partial batches and batches
  partly persisted by somebody else. `index_pipeline` has 3 chunks in batches
  of 2 for this; the import runs need only that a batch loop turns twice.
- Two callers are the smallest race; nothing in the code distinguishes a third.
- `MaxAttempts` (guard of `Begin` in `ImportWorkflow`) lets two of the three
  attempts be made, any two: both of one PDF, or one of each. Either process may
  make both.
- `MaxOperations` bounds the operations a session starts (guard of `Begin`). Five
  are needed for startup, listing, selection, import and question; the sixth is
  a retry, a second import or a second selection, which moves the epoch.
- `chat_completion` has one question because nothing a call does touches two
  requests. Two passages and three of the four ratings give support alone,
  support with a contradiction and neither; `RELATED_ONLY` is left out, since it
  only differs from `CONTRADICTS` by not standing against support. The callers
  may start any number of calls. They are interchangeable, hence the symmetry
  set; the two generations are not, one of them is the question's.
- `startup` has three launches, because the interesting meetings need an old
  release, a new one, and one that agrees in one model and conflicts in the
  other. Each launch starts once. Two migrations are enough for a history that is
  empty, behind, current or ahead.
- `passage_selection`: windows of one to four characters with every overlap,
  against pages shorter, equal and longer than a window, and warning pages before
  and after them. `MaxCandidates` (guard of `LoadCandidates`) keeps the ranking to
  four candidates, which with three scores and a `top_k` of one or three gives
  ties on both sides of the cut and scores below the threshold. The proofs need
  none of these bounds.
- `epoch` is bounded by the operations. No other counter exists.

`CHECK_DEADLOCK FALSE` is set where the system may stop: in the store when all
rows are final, in the session when its window is closed, in the startup when
every launch has ended, and after a ranking.

## 4. Fairness

- `IndexPipeline`, `ImportWorkflow`: weak fairness of each caller's `Work`. A
  thread that is inside a use case keeps running; each call it makes returns or
  raises. That failures stop and retries go on is not assumed of the system: it is
  the premise of `RetriesPublish`, and of that property only. A process may crash
  at any time, and nobody has to request anything.
- `WorkflowSession`: weak fairness of the two Qt event loops. Nothing is assumed
  of the user, so liveness is about what follows a request. That an
  uninterruptible call (a model inference) does return is an assumption about
  the model runtime; the code has no timeout for it, and the window cannot close
  before it does.
- `Startup`: weak fairness of what the thread of a launch does of itself when
  nothing around it fails (`Proceed`). That a failure, a crash or a lock timeout
  happens is never relied on, so `StartupEnds` says that the write lock is given
  back by everybody who takes it, not that a wait for it is cut short. That a
  health check returns is an assumption about the model runtime.
- `PassageSelection`, `DocumentStore` and `ChatCompletion` have safety properties only and no
  fairness: a call of `CompleteChat` has no loop, and whether it returns is up to
  the model runtime.

## 5. What is proved

`DocumentStoreProofs` proves, for every finite or infinite choice of versions,
documents, sources, generations and profiles that satisfies the assumptions
named in `DocumentStore` (`DocumentOfAssumption`, `SourceOfAssumption`,
`ChunkCountAssumption`: chunk sets are not empty, `NoRowAssumption`):

| Theorem | Property |
|---|---|
| `TypeCorrect` | `[]TypeOK` |
| `PublishedComplete` | `[]PublishedIsComplete` |
| `OneGeneration` | `[]OneGenerationPerVersion` |
| `PublicationIsPaired` | `[]PublicationPairs` |
| `EvidenceIsFrozen` | `EvidenceFrozen` |
| `ImplementsPublishedIndex` | `ReadersSpec` |
| `Inductive` | `[]IInv` |

The argument. `PublicationPairs` is not inductive: an activation archives the
previous version and the previous generation through two queries, and only if it
is known that a generation's state *follows* its version's can the two results be
the same pair. `IInv` therefore says (`FollowsVersion`) that an ACTIVE or
ARCHIVED generation belongs to a version in the same state and that any other
version's generations are STAGING; (`HasGeneration`) that a published version
has a generation; (`OneActiveVersion`) that a document has one ACTIVE version at
most; (`ChunkingHasPages`) that a job in stage CHUNKING has committed pages, which
the activation relies on without looking; and `PublishedIsComplete` and
`OneGenerationPerVersion` themselves. Each action has a lemma or a step of its
own; the long one is `ActivateStep`, resting on `ArchivedTogether`: what an
activation archives, it archives on both sides. TLC checked `IInv` on the
instance of `document_store` before the proof was written.

`EvidenceFrozen` follows from `IInv` step by step: each transaction works on a
version whose job is still open (`CandidateOpen`), the evidence of the others is
untouched (`OthersKept`), and an activation changes a closed version only by
archiving it.

`ReadersSpec`, the refinement of `PublishedIndex`, rests on `IInv` too. A document
has at most one ACTIVE generation (`OneActiveOf`), so what readers are shown does
not depend on a choice (`ShownIndex`). An activation is then the abstract
`Publish` of the candidate's chunk set (`ActivationPublishes`), and every other
transaction leaves what is shown as it is (`Unseen`): it adds STAGING rows only,
and writes vectors of STAGING generations only.

`IndexPipelineProofs` proves, for any number of callers and any batch size,
from `StoreAssumption` and `NoChoiceAssumption` (the empty choice is not a row):

| Theorem | Property |
|---|---|
| `TypesHold` | `[]TypeOK` |
| `ChoiceAlwaysFits` | `[]ChoiceFits` |
| `ReturnedArePublished` | `[]ReturnedIsPublished` |
| `ActivatedOnce` | `[]OneActivation` |
| `Inductive` | `[]IInv` |

A step of a caller is one transaction of `DocumentStore` or leaves the rows alone,
so `IInv` of `DocumentStoreProofs` holds of the rows without a second proof
(`Rows == INSTANCE DocumentStoreProofs`; `SameRows` and `SameTransactions` say that
both instances mean the same). On top of it comes one conjunct per caller
(`CallerInv`): what it chose is a row of its version under its profile, and what it
returned is past STAGING. `CallerStep` is the shape of every step: the own part is
established, and nothing of the others' is touched. Their part speaks of rows, and
those change in one direction (`RowsStay`). That a returned index is still
published, or was replaced, follows from `FollowsVersion` and from
`ArchivedIsReplaced`, which had to be made an invariant of the store first.
`OneActivation` holds because an activation finds its generation STAGING, and
everyone who was told of one before found it past that.

`ImportWorkflowProofs` proves, for any number of processes, attempts, PDFs and
batches, from `StoreAssumption` and `NoChoiceAssumption`:

| Theorem | Property |
|---|---|
| `TypesHold` | `[]TypeOK` |
| `DispositionsAreTrue` | `[]DispositionIsTrue` |
| `DuplicatesLeaveNothing` | `[]DuplicateLeavesNothing` |
| `CancelledAreSettled` | `[]CancelledIsSettled` |
| `TerminalsHaveNoIndex` | `[]TerminalHasNoIndex` |
| `Inductive` | `[]IInv` |

None of them is inductive. What a worker reports is true only as long as nobody
else writes rows of its attempt, and two facts are needed for that: an attempt has
at most one worker (`Owned`), and no document has two versions (`OnePerDocument`),
without which an activation would archive the version of somebody else's attempt.
`RowSteps` says that a transaction of one attempt then leaves the rows of all others
as they are (`KeepsAttempt`). `WorkerInv` ties the place of a worker to how far its
rows are (`RowsAt`) and, once it has returned, its report to the rows
(`Reported`). `Attempts` says that pages and generations exist only from stage
CHUNKING on; the `UPDATE`s that record a failure do not ask for the stage, and only
the place of the worker keeps them from an attempt that has an index.

`ChatCompletionProofs` proves, for any number of requests, callers and passages,
from `SourceOfAssumption`, `TopKAssumption`, `RatingsAssumption`, `NoneAssumption`
and `NoIndexAssumption` (the two empty values are no values):

| Theorem | Property |
|---|---|
| `TypesHold` | `[]TypeOK` |
| `GraphStaysWhole` | `[]WholeGraph` |
| `ReturnedAreStored` | `[]ReturnedIsStored` |
| `AnswersAreGrounded` | `[]GroundedAnswers` |
| `CancelObeyed` | `CancelEndsCall` |
| `ImplementsQuestionLog` | `LogSpec` |
| `Inductive` | `[]IInv` |

The hard part is what a call found before it started to talk to the model. `CallerInv`
says of a draft that its answer fits its passages (`Fits`), and, unless somebody
else has answered meanwhile, that its passages are found in the index the question
was asked about or that this index was swapped out (`Shown`). A generation that was
swapped out never comes back (`retired`), so one that is published at the commit
was published all the time. The rows move in two ways only, `Noted` and
`Answered` (`RowsMove`), and neither touches an answered request (`RowsKept`), so what
a call has returned stays what is stored. `ImplementsQuestionLog` maps an open
request with its state to the abstract standing, and `Commit` to the abstract
answer, which asks for an index that is published in that very step.

`WorkflowSessionProofs` proves, for any workspaces and any `MaxOperations` of two or
more, from `NoWorkspaceAssumption` and `MaxOperationsAssumption`:

| Theorem | Property |
|---|---|
| `TypesHold` | `[]TypeOK` |
| `CancellationsAreTheirOwn` | `[]CancellationIsItsOwn` |
| `ReportsStayTrue` | `[]ReportsAreTrue` |
| `IntakesAreKept` | `[]IntakeIsKept` |
| `ScopeFollowsSelection` | `[]ScopeIsSelection` |
| `WindowOutlives` | `[]WindowOutlivesWork` |
| `ClosingIsQuiet` | `ClosingShowsNothingNew` |
| `Inductive` | `[]IInv` |

What the screen will show is decided by signals that are still in a queue, so no
property of the screen is inductive; `IInv` has to say what every queued command
and signal says. Its base is `Live`: one operation at a time is on its way, as a
command, in a slot, or as signals of which only the last is a terminal one, and
unless the session is closing it is the one the screen shows as active, under the
same token (`Current`). A signal that is accepted is therefore the last thing in
flight if it is terminal (`Delivered`), and one that is overtaken by the shutdown has
a smaller number than the token of the shutdown (`Horizon`), which is why nothing
is shown any more. `Cancelling` relates the source to what the GUI asked,
`DocumentReports` and `RequestReports` relate each queued signal to the rows.
`QuestionShown` and `ScopeShown` are the two places where the threads know different
things: the worker may have committed an intake, or have changed its scope, of which
the GUI is only about to hear (`Told`), and no other request exists for the
document (`Only`). They are claimed while the session is not closing; afterwards
the GUI stops listening and they are false. The long lemmas are one per shape of
step: a slot moves on (`Moves`, `QuietSteps`), an operation is submitted
(`Submitted`), a signal that answers it is accepted (`ReleasedStep`), and one is
dropped (`DroppedStep`).

`PassageSelectionProofs` proves, for any documents, pages, windows, scores and
cuts that satisfy the assumptions in `PassageSelection` (a window is larger than
its overlap; a READY page is not empty):

| Theorem | Property |
|---|---|
| `TextIsCovered` | `[]ChunksCoverText` (and the types, which no run checks) |
| `RankingIsExact` | `[]TopRanked` |

`ChunksCoverText` speaks of pages that are done. The invariant behind it adds the
page in progress: its chunks cover it up to `start + overlap`, its last chunk ends
there, and documents that come later have no chunk yet. For the ranking, the
passages so far are strictly ordered, all of them precede everything in `rest`,
and together they are the eligible candidates; that as many are ahead of a
passage as its rank says is then a statement about cardinalities
(`FiniteSetTheorems`).

`StartupProofs` proves, for any number of launches, releases and models:

| Theorem | Property |
|---|---|
| `TypesHold` | `[]TypeOK` |
| `SchemaStaysCurrent` | `[]SchemaIsCurrent` |
| `SessionsStayAgreed` | `[]SessionsAgree` |
| `ModelsStayReleased` | `[]ModelsAreReleased` |

A step of one launch changes what another holds in one way only, it may leave its
snapshot behind (`OthersStay`), so each part is proved where its own launch steps.
`TypeInv` adds how far the handles and the bound rows have come (`Bindings`).
`SchemaInv` adds that what a launch read of the history stays true, from which
follows that a stale history always meets a script that refuses to run twice.
`SessionInv` is what makes `SessionsAgree` hold: a transaction that can still
write sees every committed row (`Transacts`), so the row it inserts is the only
one of its identity, and committing it adds rows and takes none away
(`RowsGrow`); what a session asks for is such a row (`Opened`). Without the
snapshot rule of SQLite this would fail. `Released` lets the model being tried,
and only that one, be in memory without being known.

The inductive invariants were checked by TLC on the instances above before the
proofs were written. The proofs trust nothing but the named assumptions on the
constants, and TLC evaluates each of them on the instance of a run.

Only model-checked: the liveness properties `CallsReturn`, `RetriesPublish`,
`CancelPreventsPublication` (a cancellation leads to an end without publication),
`StartupEnds`, `OperationsEnd` and `WindowCloses`, because fairness and ENABLED are out of the
prover's reach; and the five properties that section 6 refutes, which only need
a counterexample.

## 6. Findings

1. **A phase overwrites CANCELLING** (`session_cancelling`).
   `docs/UI-001.md:554` wants a cancelled document to wait with Cancel disabled.
   `accept_document_phase` (`presentation/controller.py:289`) accepts a phase that
   was already queued, the screen goes back to it and Cancel is enabled again.
   Nothing is lost, the cancellation still takes effect.
2. **A cancellation can be refused between two operations**
   (`session_lost_cancel`). `tests/integration/presentation/test_workflow_worker.py:489`
   and `:520` say that a cancellation before admission is not lost. The worker
   emits an operation's terminal signal before the `finally` block finishes it in
   the cancellation source. If the GUI begins the next operation and cancels it
   (or closes the window) in that gap, `cancel` (`presentation/workflow_worker.py:150`)
   returns False, its result is not used, and the operation runs to its end. The
   gap is short, but no lock or order of events excludes it.
3. **A retry throws persisted embeddings away** (`index_reuse`).
   `docs/EMBEDDING-001.md:534` promises that compatible rows are reused on retry.
   The only way to a handoff is `PrepareIndexing`, whose
   `replace_staging_candidate` deletes and reinserts the chunks, and the foreign
   key deletes the embeddings. The result is right, the work is done twice.
4. **A queued job fails** (`import_queued_fails`). The transition table in
   `domain/processing.py:38` has no step from QUEUED to FAILED; a rolled-back
   start records one (`application/processing.py:82`).
5. **A stored answer depends on the published index** (`chat_history`).
   `docs/03_USER_FLOWS_AND_STATES.md:1590` wants an old citation to open the
   version it was made from, archived or not. `get_completed` reads the stored
   retrieval, and `_map_registration`
   (`infrastructure/persistence/sqlite_retrieval_repository.py:611`) resolves the
   scope of the request again, among ACTIVE versions only. Once a second version
   is activated the answer cannot be read back. Today only fixtures register a
   second version.

Also met, without a run: `docs/UI-001.md:565` says that late output is never
rendered while a question is CANCELLING; `accept_question_completed` renders an
answer whose commit the cancellation came too late for, which is what
`ReportsAreTrue` needs.

## 7. Not modelled, and why

- What is inside rows: encrypted payloads, names, timestamps, hashes. The
  properties only need identity and equality of them.
- A commit whose outcome is unknown, except at startup (`CommitFails`). In the
  other modules every transaction commits or rolls back, and the caller knows
  which. (`SQLiteUnitOfWork.commit` also closes the connection, which SQLite does
  not let fail.)
- The reuse of chunk identifiers when a candidate is rebuilt (`_materialize`):
  chunks are named by their place, in `DocumentStore` and in `PassageSelection`.
- Vectors and cosines: a score is any number. The text protocol between the
  evidence verifier and the model, and prompts, are strings.
- `SerializedWorkflowHost.shutdown` with its timeout, used when the application
  quits without a window, and `select_workspace_locally`, which nothing calls.
- Rendering, the citation dialog, settings and logging: no state beyond what
  `WorkflowSession` has.
- PDF adapters: pure input, which succeeds or fails where it is asked for. The
  SDK behind `FoundryLocalRuntime` is external: it loads, unloads or raises.
- Workspace states other than ACTIVE, analyses, deletion and recovery: tables and
  enumerations exist, no code uses them.

## 8. Plan

In this order; the first eight are done.

1. `DocumentStore` with `PublishedIndex`, and its proofs.
2. `IndexPipeline`: stale handoffs and concurrent callers.
3. `ImportWorkflow`: failures, compensation, crashes.
4. `WorkflowSession`: threads, signals, cancellation, shutdown.
5. `ChatCompletion` with `QuestionLog`: retrieval reuse, repair, concurrent
   completions, recorded failures, retry.
6. `PassageSelection`: chunk windows and ranking, with proofs.
7. `Startup`: migrations, the binding transaction, the runtime, with proofs.
8. Proofs of `IndexPipeline`, `ImportWorkflow`, `ChatCompletion` and
   `WorkflowSession`: every invariant of their runs and the refinement
   `ChatCompletion => QuestionLog`.
9. Proofs of what the modules promise each other: a step of `ImportWorkflow` is one of
   `DocumentStore`, hence invisible to readers or a publication; and the safety halves
   of the liveness properties, such as that no step publishes an attempt whose
   cancellation was noticed.
10. The identifiers of rebuilt chunks, and a commit of an unknown outcome in the
    imports and questions.
