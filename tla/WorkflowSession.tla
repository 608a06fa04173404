---------------------------- MODULE WorkflowSession ----------------------------
(***************************************************************************)
(* One desktop session: the GUI thread with its MainWindow and             *)
(* PresentationController, the one worker thread of SerializedWorkflowHost *)
(* that runs the WorkflowWorker's slots, the queued signals between them   *)
(* in both directions, and the ThreadCancellationSource that both threads  *)
(* touch.  What the use cases do is reduced to what they commit and to     *)
(* where they look at the flag; ImportWorkflow has the rest of an import.  *)
(*                                                                         *)
(* A document, and a question's QA request, is named by the number of the  *)
(* operation that created it; 0 stands for none.                           *)
(***************************************************************************)
EXTENDS Naturals, Sequences, SequencesExt

CONSTANTS
    Workspaces,         \* workspace identifiers
    NoWorkspace,        \* the selection before there is one
    MaxOperations       \* bound on the operations of a session, besides its shutdown

ASSUME NoWorkspaceAssumption == NoWorkspace \notin Workspaces
\* The startup and the listing that follows it by itself.
ASSUME MaxOperationsAssumption == MaxOperations \in Nat /\ MaxOperations >= 2

VARIABLES
    state,          \* the controller's PresentationState
    next,           \* the number of the next operation token
    epoch,          \* the controller's workspace epoch
    window,         \* the main window: "open", "closing" or "closed"
    commands,       \* signals queued for the worker thread
    events,         \* signals queued for the GUI thread
    thread,         \* the QThread: "new", "running" or "finished"
    running,        \* the command whose slot the worker is in
    step,           \* how far that slot got
    source,         \* the ThreadCancellationSource
    scope,          \* the worker's ActiveWorkspaceScope
    resources,      \* what the worker holds: foundation, session, or all closed
    runtime,        \* the local model runtime
    rows,           \* workspace rows in the database
    documents,      \* per operation, the document its import left behind
    requests,       \* per operation, the QA request its intake committed
    asked,          \* operations whose cancellation the GUI requested
    heard           \* operations a request for was accepted by the source

gui == <<state, next, epoch, window>>
worker == <<thread, running, step, scope, resources, runtime>>
durable == <<rows, documents, requests>>
flags == <<source, asked, heard>>
vars == <<gui, worker, durable, flags, commands, events>>

Numbers == 1 .. MaxOperations + 1
Tokens == [number : Numbers, epoch : Nat]
NoToken == [number |-> 0, epoch |-> 0]
Operations == {"STARTUP", "LIST", "CREATE", "SELECT", "DOCUMENT", "QUESTION", "SHUTDOWN"}
NoCommand == [op |-> "NONE", token |-> NoToken]

Phases == {"IMPORTING", "EXTRACTING", "INDEXING", "EMBEDDING"}
DocumentDisplays == Phases \cup {"EMPTY", "READY", "CANCELLING", "CANCELLED", "FAILED"}
\* ANSWERED stands for a grounded answer and for the two kinds of non-answer.
QuestionDisplays ==
    {"IDLE", "PREPARING", "ASKING", "CANCELLING", "ANSWERED", "FAILED", "CANCELLED"}
Capabilities == {"STARTING", "READY", "MODEL_UNAVAILABLE", "FATAL_STARTUP"}

TypeOK ==
    /\ state \in [capability : Capabilities, workspaces : SUBSET Workspaces,
                  selected : Workspaces \cup {NoWorkspace},
                  document : DocumentDisplays, shown : 0 .. MaxOperations, incomplete : BOOLEAN,
                  question : QuestionDisplays, qa : 0 .. MaxOperations,
                  active : Operations \cup {"NONE"}, token : Tokens \cup {NoToken},
                  shuttingDown : BOOLEAN]
    /\ (state.active = "NONE") = (state.token = NoToken)
    /\ next \in 1 .. MaxOperations + 2
    /\ epoch \in Nat
    /\ window \in {"open", "closing", "closed"}
    /\ thread \in {"new", "running", "finished"}
    /\ source \in [active : Tokens \cup {NoToken}, set : BOOLEAN, pending : SUBSET Tokens]
    /\ scope \in Workspaces \cup {NoWorkspace}
    /\ resources \in {"none", "foundation", "session", "closed"}
    /\ runtime \in {"none", "open", "released"}
    /\ rows \subseteq Workspaces
    /\ documents \in [Numbers -> {"none", "registered", "active"}]
    /\ requests \in [Numbers -> {"none", "DRAFT", "COMPLETED", "FAILED", "CANCELLED"}]

Init ==
    /\ state = [capability |-> "STARTING", workspaces |-> {}, selected |-> NoWorkspace,
                document |-> "EMPTY", shown |-> 0, incomplete |-> FALSE,
                question |-> "IDLE", qa |-> 0,
                active |-> "NONE", token |-> NoToken, shuttingDown |-> FALSE]
    /\ next = 1 /\ epoch = 0 /\ window = "open"
    /\ commands = <<>> /\ events = <<>>
    /\ thread = "new" /\ running = NoCommand /\ step = "idle"
    /\ source = [active |-> NoToken, set |-> FALSE, pending |-> {}]
    /\ scope = NoWorkspace /\ resources = "none" /\ runtime = "none"
    /\ rows \in SUBSET Workspaces
    /\ documents = [n \in Numbers |-> "none"]
    /\ requests = [n \in Numbers |-> "none"]
    /\ asked = {} /\ heard = {}
------------------------------------------------------------------------------
(* The cancellation source; each of its methods holds the lock.            *)

\* Wrong variant: a pending cancellation is not looked at when its operation begins.
SourceBegunAfresh(token) == [active |-> token, set |-> FALSE, pending |-> {}]

\* Wrong variant: any pending cancellation, an outdated one too, cancels the operation.
SourceBegunByAny(token) == [active |-> token, set |-> source.pending # {}, pending |-> {}]

SourceBegun(token) == [active |-> token, set |-> token \in source.pending, pending |-> {}]

SourceFinished(token) ==
    IF source.active = token THEN [source EXCEPT !.active = NoToken, !.set = FALSE] ELSE source

Hears(token) == source.active \in {NoToken, token}

Cancel(token) ==
    /\ asked' = asked \cup {token.number}
    /\ heard' = IF Hears(token) THEN heard \cup {token.number} ELSE heard
    /\ source' = CASE source.active = NoToken -> [source EXCEPT !.pending = @ \cup {token}]
                   [] source.active = token -> [source EXCEPT !.set = TRUE]
                   [] OTHER -> source

\* Without a token: whatever is running, and nothing when nothing is.
CancelCurrent ==
    /\ source' = [source EXCEPT !.set = (source.active # NoToken)]
    /\ UNCHANGED <<asked, heard>>
------------------------------------------------------------------------------
(* The GUI thread: operations the user, or the window itself, begins.      *)

Idle == state.active = "NONE" /\ ~ state.shuttingDown
WorkspacesAvailable == state.capability \in {"READY", "MODEL_UNAVAILABLE"}
Token == [number |-> next, epoch |-> epoch]

\* PresentationController.begin and the queued signal of the command; "display"
\* is the state with what this operation changes on the screen.
Begin(op, display, command) ==
    /\ next <= MaxOperations
    /\ state' = [display EXCEPT !.active = op, !.token = Token]
    /\ next' = next + 1
    /\ commands' = Append(commands, command)

Submit(op, display, command) ==
    /\ window = "open"
    /\ Idle
    /\ Begin(op, display, command)
    /\ UNCHANGED <<epoch, window, events, worker, durable, flags>>

Start ==
    /\ thread = "new"
    /\ window = "open"
    /\ Idle
    /\ Begin("STARTUP", state, [op |-> "STARTUP", token |-> Token])
    /\ thread' = "running"
    /\ UNCHANGED <<epoch, window, events, running, step, scope, resources, runtime, durable, flags>>

RequestCreateWorkspace ==
    /\ WorkspacesAvailable
    /\ Submit("CREATE", state, [op |-> "CREATE", token |-> Token])

RequestSelectWorkspace(k) ==
    /\ WorkspacesAvailable
    /\ k \in state.workspaces
    /\ Submit("SELECT", state, [op |-> "SELECT", token |-> Token, workspace |-> k])

RequestImportPdf ==
    /\ state.capability = "READY"
    /\ state.selected # NoWorkspace
    /\ state.document = "EMPTY"
    /\ ~ state.incomplete
    /\ Submit("DOCUMENT", [state EXCEPT !.document = "IMPORTING"],
              [op |-> "DOCUMENT", token |-> Token])

RequestQuestion ==
    /\ state.capability = "READY"
    /\ state.document = "READY"
    /\ state.qa = 0
    /\ Submit("QUESTION", [state EXCEPT !.question = "PREPARING"],
              [op |-> "QUESTION", token |-> Token])

RequestQuestionRetry ==
    /\ state.qa # 0
    /\ state.question \in {"FAILED", "CANCELLED"}
    /\ Submit("QUESTION", [state EXCEPT !.question = "PREPARING"],
              [op |-> "RETRY", token |-> Token, qa |-> state.qa])

CanCancelDocument == state.active = "DOCUMENT" /\ state.document \in Phases
CanCancelQuestion == state.active = "QUESTION" /\ state.question \in {"PREPARING", "ASKING"}

RequestCancellation ==
    /\ window = "open"
    /\ \/ CanCancelDocument /\ state' = [state EXCEPT !.document = "CANCELLING"]
       \/ CanCancelQuestion /\ state' = [state EXCEPT !.question = "CANCELLING"]
    /\ Cancel(state.token)
    /\ UNCHANGED <<next, epoch, window, commands, events, worker, durable>>

\* Wrong variant: the window closes at once and leaves the worker to itself.
CloseWithoutWaiting ==
    /\ window = "open"
    /\ state' = [state EXCEPT !.shuttingDown = TRUE, !.active = "SHUTDOWN", !.token = Token]
    /\ next' = next + 1
    /\ IF state.token = NoToken THEN CancelCurrent ELSE Cancel(state.token)
    /\ window' = "closed"
    /\ commands' = Append(commands, [op |-> "SHUTDOWN", token |-> Token])
    /\ UNCHANGED <<epoch, events, worker, durable>>

\* closeEvent: cancel what is active, queue the clean-up, keep the window alive.
Close ==
    /\ window = "open"
    /\ state' = [state EXCEPT !.shuttingDown = TRUE, !.active = "SHUTDOWN", !.token = Token]
    /\ next' = next + 1
    /\ IF state.token = NoToken THEN CancelCurrent ELSE Cancel(state.token)
    /\ IF thread = "running"
       THEN /\ window' = "closing"
            /\ commands' = Append(commands, [op |-> "SHUTDOWN", token |-> Token])
       ELSE /\ window' = "closed"
            /\ UNCHANGED commands
    /\ UNCHANGED <<epoch, events, worker, durable>>
------------------------------------------------------------------------------
(* The GUI thread: delivery of the worker's signals.                       *)

\* Wrong variant: only the workspace epoch of an event is compared.
AcceptsEpoch(token) == token.epoch = epoch

Accepts(token) == token = state.token /\ token.epoch = epoch

\* Wrong variant: the operation is over, its token stays behind.
ReleasedButToken(display) == [display EXCEPT !.active = "NONE"]

Released(display) == [display EXCEPT !.active = "NONE", !.token = NoToken]

Deliver(kind) ==
    /\ events # <<>>
    /\ Head(events).kind = kind
    /\ Accepts(Head(events).token)
    /\ events' = Tail(events)
    /\ UNCHANGED <<window, worker, durable, flags>>

\* A usable startup begins the first listing of workspaces in the same slot.
AcceptCapability ==
    /\ Deliver("CAPABILITY")
    /\ LET display == [state EXCEPT !.capability = Head(events).capability] IN
       IF display.capability = "FATAL_STARTUP"
       THEN state' = Released(display) /\ UNCHANGED <<next, commands>>
       ELSE Begin("LIST", display, [op |-> "LIST", token |-> Token])
    /\ UNCHANGED epoch

AcceptWorkspaceListed ==
    /\ Deliver("LISTED")
    /\ LET listed == Head(events).workspaces IN
       state' = Released([state EXCEPT
                    !.workspaces = listed,
                    !.selected = IF @ \in listed THEN @ ELSE NoWorkspace])
    /\ UNCHANGED <<next, epoch, commands>>

AcceptWorkspaceCreated ==
    /\ Deliver("CREATED")
    /\ state' = Released([state EXCEPT !.workspaces = @ \cup {Head(events).workspace}])
    /\ UNCHANGED <<next, epoch, commands>>

AcceptWorkspaceSelected ==
    /\ Deliver("SELECTED")
    /\ LET k == Head(events).workspace IN
       IF k \in state.workspaces
       THEN /\ epoch' = epoch + 1
            /\ state' = Released([state EXCEPT
                            !.selected = k, !.document = "EMPTY", !.shown = 0,
                            !.incomplete = FALSE, !.question = "IDLE", !.qa = 0])
       ELSE state' = Released(state) /\ UNCHANGED epoch
    /\ UNCHANGED <<next, commands>>

AcceptDocumentPhase ==
    /\ Deliver("PHASE")
    /\ state' = [state EXCEPT !.document = Head(events).phase]
    /\ UNCHANGED <<next, epoch, commands>>

AcceptDocumentReady ==
    /\ Deliver("READY")
    /\ LET same == Head(events).workspace = state.selected IN
       state' = Released([state EXCEPT
                    !.document = IF same THEN "READY" ELSE "EMPTY",
                    !.shown = IF same THEN Head(events).token.number ELSE 0,
                    !.incomplete = FALSE])
    /\ UNCHANGED <<next, epoch, commands>>

AcceptQuestionPrepared ==
    /\ Deliver("PREPARED")
    /\ state' = [state EXCEPT !.question = "ASKING", !.qa = Head(events).qa]
    /\ UNCHANGED <<next, epoch, commands>>

AcceptQuestionCompleted ==
    /\ Deliver("COMPLETED")
    /\ LET same == state.qa # 0 /\ Head(events).qa = state.qa IN
       state' = Released([state EXCEPT !.question = IF same THEN "ANSWERED" ELSE "FAILED"])
    /\ UNCHANGED <<next, epoch, commands>>

\* A document that was registered is shown as incomplete, any other is forgotten.
Unfinished(shown) ==
    [state EXCEPT !.document = IF Head(events).registered THEN shown ELSE "EMPTY",
                  !.shown = 0,
                  !.incomplete = Head(events).registered]

\* Wrong variant: an unsuccessful question is dropped with its request.
UnansweredForgotten(shown) == [state EXCEPT !.question = shown, !.qa = 0]

Unanswered(shown) ==
    [state EXCEPT !.question = shown,
                  !.qa = IF Head(events).qa # 0 THEN Head(events).qa ELSE @]

Unsuccessful(shown) ==
    Released(CASE Head(events).op = "DOCUMENT" -> Unfinished(shown)
               [] Head(events).op = "QUESTION" -> Unanswered(shown)
               [] OTHER -> state)

AcceptCancelled ==
    /\ Deliver("CANCELLED")
    /\ state' = Unsuccessful("CANCELLED")
    /\ UNCHANGED <<next, epoch, commands>>

AcceptFailed ==
    /\ Deliver("FAILED")
    /\ state' = Unsuccessful("FAILED")
    /\ UNCHANGED <<next, epoch, commands>>

RejectStale ==
    /\ events # <<>>
    /\ Head(events).kind # "FINISHED"
    /\ ~ Accepts(Head(events).token)
    /\ events' = Tail(events)
    /\ UNCHANGED <<gui, commands, worker, durable, flags>>

AcceptShutdownComplete ==
    /\ events # <<>>
    /\ Head(events).kind = "FINISHED"
    /\ events' = Tail(events)
    /\ window' = IF window = "closing" THEN "closed" ELSE window
    /\ UNCHANGED <<state, next, epoch, commands, worker, durable, flags>>
------------------------------------------------------------------------------
(* The worker thread.                                                      *)

Emit(event) == events' = Append(events, event)

\* The command at the head of the worker's event queue, when no slot is running.
Pending(op) == thread = "running" /\ step = "idle" /\ commands # <<>> /\ Head(commands).op = op

\* WorkflowWorker.initialize: the foundation, the model runtime and the persisted
\* identities are set up in this order, and a failure closes what was opened.
Initialize ==
    /\ Pending("STARTUP")
    /\ commands' = Tail(commands)
    /\ \E outcome \in {<<"closed", "none", "FATAL_STARTUP">>,
                       <<"foundation", "none", "MODEL_UNAVAILABLE">>,
                       <<"foundation", "released", "MODEL_UNAVAILABLE">>,
                       <<"closed", "released", "FATAL_STARTUP">>,
                       <<"session", "open", "READY">>} :
          /\ resources' = outcome[1]
          /\ runtime' = outcome[2]
          /\ Emit([kind |-> "CAPABILITY", token |-> Head(commands).token, capability |-> outcome[3]])
    /\ UNCHANGED <<gui, thread, running, step, scope, durable, flags>>

FirstStep(op) == IF op = "RETRY" THEN "complete" ELSE "admitted"

Admit(op) ==
    /\ Pending(op)
    /\ source.active = NoToken
    /\ source' = SourceBegun(Head(commands).token)
    /\ running' = Head(commands)
    /\ step' = FirstStep(op)
    /\ commands' = Tail(commands)
    /\ UNCHANGED <<gui, events, thread, scope, resources, runtime, durable, asked, heard>>

Finish ==
    /\ step = "finish"
    /\ source' = SourceFinished(running.token)
    /\ running' = NoCommand
    /\ step' = "idle"
    /\ UNCHANGED <<gui, commands, events, thread, scope, resources, runtime, durable, asked, heard>>

In(op, at) == running.op = op /\ step = at
Number == running.token.number
Goto(at) ==
    /\ step' = at
    /\ UNCHANGED <<gui, commands, thread, running, resources, runtime, flags>>
Checkpoint == ~ source.set
HasFoundation == resources \in {"foundation", "session"}

ListWorkspaces ==
    /\ In("LIST", "admitted")
    /\ HasFoundation
    /\ Emit([kind |-> "LISTED", token |-> running.token, workspaces |-> rows])
    /\ Goto("finish")
    /\ UNCHANGED <<scope, durable>>

CreateWorkspace ==
    /\ In("CREATE", "admitted")
    /\ HasFoundation
    /\ \E k \in Workspaces \ rows :
          /\ rows' = rows \cup {k}
          /\ Emit([kind |-> "CREATED", token |-> running.token, workspace |-> k])
    /\ Goto("finish")
    /\ UNCHANGED <<scope, documents, requests>>

\* Wrong variant: the scope is switched before the workspace has been read, and
\* stays switched when that fails.
SelectBeforeReading ==
    /\ In("SELECT", "admitted")
    /\ HasFoundation
    /\ scope' = running.workspace
    /\ \/ /\ running.workspace \in rows
          /\ Emit([kind |-> "SELECTED", token |-> running.token, workspace |-> scope'])
       \/ Emit([kind |-> "FAILED", token |-> running.token, op |-> "SELECT"])
    /\ Goto("finish")
    /\ UNCHANGED durable

SelectWorkspace ==
    /\ In("SELECT", "admitted")
    /\ HasFoundation
    /\ running.workspace \in rows
    /\ scope' = running.workspace
    /\ Emit([kind |-> "SELECTED", token |-> running.token, workspace |-> running.workspace])
    /\ Goto("finish")
    /\ UNCHANGED durable

\* The phases of BuildActiveDocument, each behind a checkpoint, except that nobody
\* looks at the flag between the last checkpoint before the import and the start
\* of processing, nor between the last one of the indexing and the activation.
AnnouncePhase ==
    /\ running.op = "DOCUMENT"
    /\ Checkpoint
    /\ resources = "session"
    /\ \E move \in {<<"admitted", "IMPORTING">>, <<"EXTRACTING", "INDEXING">>,
                    <<"INDEXING", "EMBEDDING">>} :
          /\ step = move[1]
          /\ Goto(move[2])
          /\ Emit([kind |-> "PHASE", token |-> running.token, phase |-> move[2]])
    /\ UNCHANGED <<scope, durable>>

PassLastCheckpoint ==
    /\ Checkpoint
    /\ \/ In("DOCUMENT", "IMPORTING") /\ Goto("register")
       \/ In("DOCUMENT", "EMBEDDING") /\ Goto("activate")
       \/ In("QUESTION", "admitted") /\ resources = "session" /\ Goto("intake")
       \/ running.op \in {"QUESTION", "RETRY"} /\ step = "complete" /\ Goto("answer")
    /\ UNCHANGED <<events, scope, durable>>

RegisterDocument ==
    /\ In("DOCUMENT", "register")
    /\ documents' = [documents EXCEPT ![Number] = "registered"]
    /\ Emit([kind |-> "PHASE", token |-> running.token, phase |-> "EXTRACTING"])
    /\ Goto("EXTRACTING")
    /\ UNCHANGED <<scope, rows, requests>>

\* Wrong variant: a cancellation that raced the activation relabels its result.
ActivateUnlessCancelled ==
    /\ In("DOCUMENT", "activate")
    /\ documents' = [documents EXCEPT ![Number] = "active"]
    /\ Emit(IF source.set
            THEN [kind |-> "CANCELLED", token |-> running.token, op |-> "DOCUMENT",
                  registered |-> TRUE]
            ELSE [kind |-> "READY", token |-> running.token, workspace |-> scope])
    /\ Goto("finish")
    /\ UNCHANGED <<scope, rows, requests>>

ActivateDocument ==
    /\ In("DOCUMENT", "activate")
    /\ documents' = [documents EXCEPT ![Number] = "active"]
    /\ Emit([kind |-> "READY", token |-> running.token, workspace |-> scope])
    /\ Goto("finish")
    /\ UNCHANGED <<scope, rows, requests>>

\* The QA request of the running command, once there is one.
Request ==
    CASE running.op = "RETRY" -> running.qa
      [] running.op = "QUESTION" /\ step \in {"complete", "answer"} -> Number
      [] OTHER -> 0

CommitIntake ==
    /\ In("QUESTION", "intake")
    /\ requests' = [requests EXCEPT ![Number] = "DRAFT"]
    /\ Emit([kind |-> "PREPARED", token |-> running.token, qa |-> Number])
    /\ Goto("complete")
    /\ UNCHANGED <<scope, rows, documents>>

CommitAnswer ==
    /\ running.op \in {"QUESTION", "RETRY"}
    /\ step = "answer"
    /\ requests' = [requests EXCEPT ![Request] = "COMPLETED"]
    /\ Emit([kind |-> "COMPLETED", token |-> running.token, qa |-> Request])
    /\ Goto("finish")
    /\ UNCHANGED <<scope, rows, documents>>

\* CompleteChat records its failure in a transaction of its own, which may itself
\* fail; an intake that was not committed has nothing to record it on.
RecordQuestion(outcome) ==
    \/ UNCHANGED requests
    \/ Request # 0 /\ requests' = [requests EXCEPT ![Request] = outcome]

Unfinishable(kind) ==
    CASE running.op = "DOCUMENT" ->
            [kind |-> kind, token |-> running.token, op |-> "DOCUMENT",
             registered |-> documents[Number] # "none"]
      [] running.op \in {"QUESTION", "RETRY"} ->
            [kind |-> kind, token |-> running.token, op |-> "QUESTION", qa |-> Request]
      [] OTHER -> [kind |-> kind, token |-> running.token, op |-> running.op]

\* A checkpoint of a use case that finds the flag set.
StopCancelled ==
    /\ source.set
    /\ \/ running.op = "DOCUMENT" /\ step \in Phases \cup {"admitted"}
       \/ running.op \in {"QUESTION", "RETRY"} /\ step \in {"admitted", "complete"}
    /\ RecordQuestion("CANCELLED")
    /\ Emit(Unfinishable("CANCELLED"))
    /\ Goto("finish")
    /\ UNCHANGED <<scope, rows, documents>>

\* Wrong variant: a slot swallows its exception and emits nothing.
FailSilently ==
    /\ step \notin {"idle", "finish"}
    /\ RecordQuestion("FAILED")
    /\ Goto("finish")
    /\ UNCHANGED <<events, scope, rows, documents>>

\* Whatever else is raised in a slot: by the database, a provider, a closed worker.
Fail ==
    /\ step \notin {"idle", "finish"}
    /\ RecordQuestion("FAILED")
    /\ Emit(Unfinishable("FAILED"))
    /\ Goto("finish")
    /\ UNCHANGED <<scope, rows, documents>>

\* Wrong variant: a worker that has already closed everything does not answer.
ShutdownOnce ==
    /\ Pending("SHUTDOWN")
    /\ commands' = Tail(commands)
    /\ resources' = "closed"
    /\ runtime' = IF runtime = "open" THEN "released" ELSE runtime
    /\ IF resources = "closed" THEN UNCHANGED <<thread, events>>
       ELSE thread' = "finished" /\ Emit([kind |-> "FINISHED"])
    /\ UNCHANGED <<gui, running, step, scope, durable, flags>>

\* Closing everything ends the thread's event loop, which the GUI is told of.
Shutdown ==
    /\ Pending("SHUTDOWN")
    /\ commands' = Tail(commands)
    /\ resources' = "closed"
    /\ runtime' = IF runtime = "open" THEN "released" ELSE runtime
    /\ thread' = "finished"
    /\ Emit([kind |-> "FINISHED"])
    /\ UNCHANGED <<gui, running, step, scope, durable, flags>>
------------------------------------------------------------------------------
User ==
    \/ Start
    \/ RequestCreateWorkspace
    \/ \E k \in Workspaces : RequestSelectWorkspace(k)
    \/ RequestImportPdf
    \/ RequestQuestion \/ RequestQuestionRetry
    \/ RequestCancellation
    \/ Close

GuiEventLoop ==
    \/ AcceptCapability
    \/ AcceptWorkspaceListed \/ AcceptWorkspaceCreated \/ AcceptWorkspaceSelected
    \/ AcceptDocumentPhase \/ AcceptDocumentReady
    \/ AcceptQuestionPrepared \/ AcceptQuestionCompleted
    \/ AcceptCancelled \/ AcceptFailed
    \/ RejectStale \/ AcceptShutdownComplete

WorkerEventLoop ==
    \/ Initialize
    \/ \E op \in {"LIST", "CREATE", "SELECT", "DOCUMENT", "QUESTION", "RETRY"} : Admit(op)
    \/ ListWorkspaces \/ CreateWorkspace \/ SelectWorkspace
    \/ AnnouncePhase \/ PassLastCheckpoint \/ RegisterDocument \/ ActivateDocument
    \/ CommitIntake \/ CommitAnswer
    \/ StopCancelled \/ Fail \/ Finish
    \/ Shutdown

Next == User \/ GuiEventLoop \/ WorkerEventLoop

\* Both event loops run, and every call a slot makes returns: nothing is assumed
\* of the user.
Spec == Init /\ [][Next]_vars /\ WF_vars(GuiEventLoop) /\ WF_vars(WorkerEventLoop)
------------------------------------------------------------------------------
(* Properties.                                                             *)

\* A cancellation reaches its own operation and no other.  One the source accepted
\* stays with its operation until that ends, admitted or not, whatever begins or
\* finishes in between; and nothing is reported as cancelled that nobody asked to
\* cancel, so one that comes too late does not hit the next operation.
CancellationIsItsOwn ==
    /\ \A n \in heard :
        /\ \A c \in ToSet(commands) : c.token.number = n => c.token \in source.pending
        /\ source.active.number = n => source.set
    /\ \A e \in ToSet(events) : e.kind = "CANCELLED" => e.token.number \in asked

\* What the signals tell the GUI, and what the GUI shows, is what was committed:
\* an active document is never called cancelled, failed or unregistered, an
\* incomplete one never ready, and an answer on the screen is a stored one.
ReportsAreTrue ==
    /\ \A e \in ToSet(events) :
        /\ e.kind = "READY" => documents[e.token.number] = "active"
        /\ e.kind \in {"CANCELLED", "FAILED"} /\ e.op = "DOCUMENT" =>
              documents[e.token.number] = IF e.registered THEN "registered" ELSE "none"
    /\ state.document = "READY" => documents[state.shown] = "active"
    /\ state.question = "ANSWERED" => requests[state.qa] = "COMPLETED"

\* Between the operations, a QA request that was committed for the document on
\* the screen is the one the GUI holds: it is completed or can be retried, and a
\* second intake is never created beside it.
IntakeIsKept ==
    state.document = "READY" /\ Idle =>
        \A n \in Numbers :
            n > state.shown /\ requests[n] # "none" =>
                /\ n = state.qa
                /\ state.question \in
                      IF requests[n] = "COMPLETED" THEN {"ANSWERED"} ELSE {"FAILED", "CANCELLED"}

\* The workspace an import or a question runs in, which only the worker knows, is
\* the one that is selected on the screen.
ScopeIsSelection ==
    state.active \in {"DOCUMENT", "QUESTION"} => scope = state.selected

\* A window that is closing renders nothing more, whatever the worker still sends.
ClosingShowsNothingNew == [][state.shuttingDown => state' = state]_vars

\* The window outlives the work: when it is gone, the worker's thread has ended or
\* was never started, no slot is half way, and the model runtime was released.
WindowOutlivesWork ==
    window = "closed" => thread # "running" /\ step = "idle" /\ runtime # "open"

\* Every operation ends: the screen is released for the next one, or closing.
OperationsEnd == (state.active # "NONE") ~> (state.active = "NONE" \/ state.shuttingDown)

\* A window that was asked to close does close, even over a failed startup.
WindowCloses == (window = "closing") ~> (window = "closed")

\* tests/integration/presentation/test_workflow_worker.py:489 and :520 say that a
\* cancellation before the worker admits its operation is not lost, and assert that
\* the source accepts it.  The source refuses it while the worker is between the last
\* signal of the previous operation and the finish of that operation.
EarlyCancelIsKept ==
    \A c \in ToSet(commands) :
        /\ c.op \in {"DOCUMENT", "QUESTION", "RETRY"}
        /\ c.token.number \in asked
        => c.token \in source.pending

\* docs/UI-001.md:554 lets a document that is CANCELLING wait for the worker's
\* terminal signal with Cancel disabled; a phase that was on its way overwrites it.
CancellingWaits ==
    [][state.document = "CANCELLING" => state'.document \notin Phases]_vars
==============================================================================
