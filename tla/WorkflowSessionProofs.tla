------------------------- MODULE WorkflowSessionProofs -------------------------
(***************************************************************************)
(* Proofs about WorkflowSession for any workspaces and any number of       *)
(* operations.  Everything rests on what is in flight (Live): at most one  *)
(* operation at a time is queued, in a slot, or on its way back, its last  *)
(* signal is a terminal one, and while the window is open it is the one    *)
(* the screen shows as active.                                             *)
(***************************************************************************)
EXTENDS WorkflowSession, TLAPS

(* The queues.                                                             *)

\* What a queue holds after a signal is put at its end.
LEMMA Appended ==
    ASSUME NEW S, NEW s \in Seq(S), NEW e \in S
    PROVE  /\ Append(s, e) \in Seq(S) /\ Append(s, e) # <<>>
           /\ ToSet(Append(s, e)) = ToSet(s) \cup {e}
           /\ Len(Append(s, e)) = Len(s) + 1 /\ Append(s, e)[Len(s) + 1] = e
           /\ \A i \in 1 .. Len(s) : Append(s, e)[i] = s[i]
  BY DEF ToSet

\* What a queue holds after the signal at its head is taken.
LEMMA Taken ==
    ASSUME NEW S, NEW s \in Seq(S), s # <<>>
    PROVE  /\ Head(s) \in S /\ Head(s) \in ToSet(s) /\ Head(s) = s[1]
           /\ Tail(s) \in Seq(S) /\ ToSet(Tail(s)) \subseteq ToSet(s)
           /\ Len(s) >= 1 /\ Len(Tail(s)) = Len(s) - 1
           /\ \A i \in 1 .. Len(s) - 1 : Tail(s)[i] = s[i + 1]
  <1>1. Len(s) \in Nat /\ Len(s) >= 1 /\ DOMAIN s = 1 .. Len(s)
    OBVIOUS
  <1>2. Tail(s) \in Seq(S) /\ Len(Tail(s)) = Len(s) - 1 /\ DOMAIN Tail(s) = 1 .. Len(s) - 1
    OBVIOUS
  <1>3. \A i \in 1 .. Len(s) - 1 : Tail(s)[i] = s[i + 1]
    OBVIOUS
  <1>4. Head(s) \in S /\ Head(s) \in ToSet(s) /\ Head(s) = s[1]
    BY <1>1 DEF ToSet
  <1>5. ToSet(Tail(s)) \subseteq ToSet(s)
    BY <1>1, <1>2, <1>3 DEF ToSet
  <1> QED  BY <1>1, <1>2, <1>3, <1>4, <1>5

\* The elements of a queue are the signals at its places.
LEMMA Elements ==
    ASSUME NEW S, NEW s \in Seq(S)
    PROVE  /\ Len(s) \in Nat
           /\ s = <<>> <=> Len(s) = 0
           /\ \A x \in ToSet(s) : x \in S /\ \E i \in 1 .. Len(s) : s[i] = x
           /\ \A i \in 1 .. Len(s) : s[i] \in ToSet(s)
  <1>1. Len(s) \in Nat /\ (s = <<>> <=> Len(s) = 0)
    OBVIOUS
  <1>2. DOMAIN s = 1 .. Len(s) /\ \A i \in 1 .. Len(s) : s[i] \in S
    OBVIOUS
  <1> QED  BY <1>1, <1>2 DEF ToSet

\* The empty queue.
LEMMA Nothing == ToSet(<<>>) = {} /\ Len(<<>>) = 0
  BY DEF ToSet
------------------------------------------------------------------------------
(* The inductive invariant.                                                *)

OperationTokens == [number : 1 .. MaxOperations, epoch : Nat]

Command ==
    [op : {"STARTUP", "LIST", "CREATE", "DOCUMENT", "QUESTION"}, token : OperationTokens]
    \cup [op : {"SELECT"}, token : OperationTokens, workspace : Workspaces]
    \cup [op : {"RETRY"}, token : OperationTokens, qa : 1 .. MaxOperations]

Closing == [op : {"SHUTDOWN"}, token : Tokens]

Event ==
    [kind : {"CAPABILITY"}, token : OperationTokens, capability : Capabilities]
    \cup [kind : {"LISTED"}, token : OperationTokens, workspaces : SUBSET Workspaces]
    \cup [kind : {"CREATED", "SELECTED"}, token : OperationTokens, workspace : Workspaces]
    \cup [kind : {"PHASE"}, token : OperationTokens, phase : Phases]
    \cup [kind : {"READY"}, token : OperationTokens, workspace : Workspaces \cup {NoWorkspace}]
    \cup [kind : {"PREPARED", "COMPLETED"}, token : OperationTokens, qa : 1 .. MaxOperations]
    \cup [kind : {"CANCELLED", "FAILED"}, token : OperationTokens, op : {"DOCUMENT"},
          registered : BOOLEAN]
    \cup [kind : {"CANCELLED", "FAILED"}, token : OperationTokens, op : {"QUESTION"},
          qa : 0 .. MaxOperations]
    \cup [kind : {"CANCELLED", "FAILED"}, token : OperationTokens, op : {"LIST", "CREATE", "SELECT"}]

Finished == [kind |-> "FINISHED"]

\* What the controller's state may be.
Displays ==
    [capability : Capabilities, workspaces : SUBSET Workspaces,
     selected : Workspaces \cup {NoWorkspace},
     document : DocumentDisplays, shown : 0 .. MaxOperations, incomplete : BOOLEAN,
     question : QuestionDisplays, qa : 0 .. MaxOperations,
     active : Operations \cup {"NONE"}, token : Tokens \cup {NoToken},
     shuttingDown : BOOLEAN]

QueueTypes ==
    /\ commands \in Seq(Command \cup Closing)
    /\ events \in Seq(Event \cup {Finished})
    /\ running \in Command \cup {NoCommand}
    /\ asked \subseteq 1 .. MaxOperations
    /\ heard \subseteq 1 .. MaxOperations

\* A slot is under way.
Mid == step \notin {"idle", "finish"}

\* Signals that do not end their operation.
Interim(e) == e.kind \in {"PHASE", "PREPARED"}

\* The operation of the controller that a command or a signal belongs to.
OperationOf(c) == IF c.op = "RETRY" THEN "QUESTION" ELSE c.op
AnswerTo(e) ==
    CASE e.kind = "CAPABILITY" -> "STARTUP"
      [] e.kind = "LISTED" -> "LIST"
      [] e.kind = "CREATED" -> "CREATE"
      [] e.kind = "SELECTED" -> "SELECT"
      [] e.kind \in {"PHASE", "READY"} -> "DOCUMENT"
      [] e.kind \in {"PREPARED", "COMPLETED"} -> "QUESTION"
      [] OTHER -> e.op

\* Every operation's number is below it, that of the shutdown is not.
Horizon == IF state.shuttingDown THEN state.token.number ELSE next

\* What is in flight belongs to the operation on the screen, unless that was
\* overtaken by the shutdown.
Current(token, op) ==
    /\ token.number < Horizon
    /\ ~ state.shuttingDown => token = state.token /\ op = state.active

Live ==
    /\ state.active # "NONE" => state.token.number = next - 1
    /\ state.active # "NONE" /\ ~ state.shuttingDown => state.token.epoch = epoch
    /\ IF state.shuttingDown
       THEN state.active = "SHUTDOWN" /\ window # "open"
       ELSE state.active # "SHUTDOWN" /\ window = "open" /\ next <= MaxOperations + 1
    /\ \A i \in 1 .. Len(commands) :
        IF commands[i].op = "SHUTDOWN"
        THEN state.shuttingDown /\ commands[i].token = state.token
        ELSE /\ i = 1 /\ events = <<>> /\ ~ Mid
             /\ running.token # commands[i].token
             /\ Current(commands[i].token, OperationOf(commands[i]))
    /\ running = NoCommand <=> step = "idle"
    /\ running.token.number < Horizon
    /\ Mid => /\ running.op # "STARTUP"
              /\ Current(running.token, OperationOf(running))
              /\ \A e \in ToSet(events) : Interim(e)
    /\ \A e \in ToSet(events) :
        IF e = Finished THEN state.shuttingDown ELSE Current(e.token, AnswerTo(e))
    /\ ~ state.shuttingDown => \A i \in 1 .. Len(events) - 1 : Interim(events[i])

Threads ==
    /\ thread # "running" => step = "idle" /\ runtime # "open"
    /\ thread = "new" =>
          /\ commands = <<>> /\ events = <<>>
          /\ ~ state.shuttingDown =>
                state.capability = "STARTING" /\ state.active = "NONE" /\ state.document = "EMPTY"
    /\ thread = "finished" => window # "open"
    /\ Finished \in ToSet(events) => thread = "finished"
    /\ window = "closed" => thread # "running"

Cancelling ==
    /\ source.active = running.token
    /\ \A t \in source.pending : t.number \in asked
    /\ \A n \in heard : n < Horizon
    /\ Mid /\ source.set => running.token.number \in asked
    /\ CancellationIsItsOwn

DocumentReports ==
    /\ \A n \in Numbers : n >= Horizon => documents[n] = "none"
    /\ \A c \in ToSet(commands) : c.op # "SHUTDOWN" => documents[c.token.number] = "none"
    /\ Mid => documents[running.token.number] # "active"
    /\ \A e \in ToSet(events) :
        /\ e.kind = "READY" => documents[e.token.number] = "active"
        /\ e.kind \in {"CANCELLED", "FAILED"} /\ e.op = "DOCUMENT" =>
              documents[e.token.number] = IF e.registered THEN "registered" ELSE "none"
    /\ state.document = "READY" => state.shown # 0 /\ documents[state.shown] = "active"

\* A request that can be retried.
IsOpen(r) == requests[r] \in {"DRAFT", "FAILED", "CANCELLED"}

RequestReports ==
    /\ \A n \in Numbers : n >= Horizon => requests[n] = "none"
    /\ \A c \in ToSet(commands) :
        /\ c.op = "QUESTION" => requests[c.token.number] = "none"
        /\ c.op = "RETRY" => IsOpen(c.qa)
    /\ Mid => /\ Request # 0 => IsOpen(Request)
              /\ running.op = "QUESTION" /\ Request = 0 => requests[running.token.number] = "none"
    /\ \A e \in ToSet(events) : e.kind = "COMPLETED" => requests[e.qa] = "COMPLETED"
    /\ state.question = "ANSWERED" => state.qa # 0 /\ requests[state.qa] = "COMPLETED"

\* Of the requests made for the document on the screen there is none but r.
Only(r) == \A n \in Numbers : n > state.shown /\ requests[n] # "none" => n = r

\* The GUI holds r, or will when the signal that is on its way is delivered.
Told(r) ==
    /\ \A e \in ToSet(events) : e.kind = "PREPARED" => e.qa = r
    /\ \/ state.qa = r
       \/ state.qa = 0 /\ \E e \in ToSet(events) : e.kind = "PREPARED"

QuestionShown ==
    /\ state.qa # 0 => state.document = "READY"
    /\ state.active = "DOCUMENT" => state.qa = 0
    /\ state.active # "QUESTION" =>
        /\ state.document = "READY" => Only(state.qa)
        /\ state.qa # 0 =>
            \/ IsOpen(state.qa) /\ state.question \in {"FAILED", "CANCELLED"}
            \/ requests[state.qa] = "COMPLETED" /\ state.question = "ANSWERED"
    /\ state.active = "QUESTION" =>
        /\ state.document = "READY" /\ state.question # "ANSWERED"
        /\ \A c \in ToSet(commands) :
            /\ c.op = "QUESTION" => state.qa = 0 /\ Only(0)
            /\ c.op = "RETRY" => state.qa = c.qa /\ Only(c.qa)
        /\ Mid => Told(Request) /\ Only(Request)
        /\ \A e \in ToSet(events) :
            e.kind \in {"COMPLETED", "CANCELLED", "FAILED"} =>
                /\ Told(e.qa) /\ Only(e.qa)
                /\ e.kind # "COMPLETED" /\ e.qa # 0 => IsOpen(e.qa)

ScopeShown ==
    /\ state.active = "STARTUP" => state.capability = "STARTING"
    /\ state.capability = "STARTING" \/ state.active = "LIST" => state.selected = NoWorkspace
    /\ state.active # "SELECT" => scope = state.selected
    /\ state.active = "SELECT" =>
        /\ state.capability # "STARTING"
        /\ \A c \in ToSet(commands) : scope = state.selected /\ c.workspace \in state.workspaces
        /\ Mid => scope = state.selected /\ running.workspace \in state.workspaces
        /\ \A e \in ToSet(events) :
            IF e.kind = "SELECTED"
            THEN e.workspace = scope /\ scope \in state.workspaces
            ELSE scope = state.selected

IInv ==
    /\ TypeOK /\ QueueTypes
    /\ Live /\ Threads /\ Cancelling /\ DocumentReports /\ RequestReports
    /\ ~ state.shuttingDown => QuestionShown /\ ScopeShown
------------------------------------------------------------------------------
(* What a slot of the worker does between its admission and its end.       *)

\* It moves on and emits what is in "new": nothing, or one signal of its own, which
\* is the last one when the slot is done.
Moves(at, new) ==
    /\ Mid /\ at # "idle" /\ step' = at
    /\ UNCHANGED <<gui, commands, thread, running, resources, runtime, flags>>
    /\ new \subseteq Event
    /\ events' \in Seq(Event \cup {Finished})
    /\ ToSet(events') = ToSet(events) \cup new
    /\ \A i \in 1 .. Len(events') - 1 : events'[i] \in ToSet(events)
    /\ \A e \in new :
        /\ e.token = running.token /\ AnswerTo(e) = OperationOf(running)
        /\ Interim(e) \/ at = "finish"
        /\ e.kind = "CANCELLED" => source.set

\* A command that is being worked on has a token of its own.
LEMMA RunningTyped ==
    ASSUME QueueTypes, Live, Mid
    PROVE  /\ running \in Command /\ running.token \in OperationTokens
           /\ running.op \in {"LIST", "CREATE", "SELECT", "DOCUMENT", "QUESTION", "RETRY"}
           /\ running.token # NoToken
           /\ \A i \in 1 .. Len(commands) : commands[i].op = "SHUTDOWN"
  <1>1. running # NoCommand
    BY DEF Live, Mid
  <1>2. running \in Command /\ running.token \in OperationTokens
    BY <1>1 DEF QueueTypes, Command
  <1>3. running.op \in {"STARTUP", "LIST", "CREATE", "SELECT", "DOCUMENT", "QUESTION", "RETRY"}
    BY <1>2 DEF Command
  <1>4. running.token # NoToken
    BY <1>2 DEF OperationTokens, NoToken
  <1> QED  BY <1>2, <1>3, <1>4 DEF Live

\* A slot that emits one signal of its own moves.
LEMMA EmitMoves ==
    ASSUME QueueTypes, Mid, NEW at, at # "idle", step' = at, NEW e \in Event, Emit(e),
           UNCHANGED <<gui, commands, thread, running, resources, runtime, flags>>,
           e.token = running.token, AnswerTo(e) = OperationOf(running),
           Interim(e) \/ at = "finish", e.kind = "CANCELLED" => source.set
    PROVE  Moves(at, {e})
  <1> DEFINE S == Event \cup {Finished}
  <1>1. events \in Seq(S) /\ e \in S /\ events' = Append(events, e)
    BY DEF QueueTypes, Emit
  <1>2. /\ events' \in Seq(S) /\ ToSet(events') = ToSet(events) \cup {e}
        /\ Len(events') = Len(events) + 1
        /\ \A i \in 1 .. Len(events) : events'[i] = events[i]
    <2> HIDE DEF S
    <2> QED  BY <1>1, Appended
  <1>3. Len(events) \in Nat /\ \A i \in 1 .. Len(events) : events[i] \in ToSet(events)
    <2> HIDE DEF S
    <2> QED  BY <1>1, Elements
  <1>4. \A i \in 1 .. Len(events') - 1 : events'[i] \in ToSet(events)
    BY <1>2, <1>3
  <1> QED  BY <1>2, <1>4 DEF Moves

\* A slot that emits nothing moves.
LEMMA SilentMoves ==
    ASSUME QueueTypes, Mid, NEW at, at # "idle", step' = at, events' = events,
           UNCHANGED <<gui, commands, thread, running, resources, runtime, flags>>
    PROVE  Moves(at, {})
  <1>1. events \in Seq(Event \cup {Finished})
    BY DEF QueueTypes
  <1>2. Len(events) \in Nat /\ \A i \in 1 .. Len(events) : events[i] \in ToSet(events)
    BY <1>1, Elements
  <1> QED  BY <1>1, <1>2 DEF Moves

\* A move keeps what is in flight, the threads, and the cancellation flag in order.
LEMMA MovesLive ==
    ASSUME IInv, NEW at, NEW new, Moves(at, new)
    PROVE  Live' /\ Threads' /\ Cancelling'
  <1>1. QueueTypes /\ Live /\ Threads /\ Cancelling /\ Mid
    BY DEF IInv, Moves
  <1>2. /\ running \in Command /\ running.op # "STARTUP"
        /\ \A i \in 1 .. Len(commands) : commands[i].op = "SHUTDOWN"
        /\ \A e \in ToSet(events) : Interim(e) /\ e # Finished
        /\ Current(running.token, OperationOf(running)) /\ running # NoCommand
    <2>1. \A e \in ToSet(events) : Interim(e) => e # Finished
      BY DEF Interim, Finished
    <2> QED  BY <1>1, <2>1, RunningTyped DEF Live, Mid
  <1>3. /\ UNCHANGED <<state, next, epoch, window, source, asked, heard, commands, thread, running,
                       resources, runtime>>
        /\ step' = at /\ at # "idle" /\ step # "idle"
        /\ ToSet(events') = ToSet(events) \cup new
    BY <1>1 DEF Moves, gui, flags, Mid
  <1>4. \A e \in new : /\ e # Finished /\ e.token = running.token
                       /\ AnswerTo(e) = OperationOf(running)
    BY DEF Moves, Event, Finished
  <1>5. Horizon' = Horizon
    BY <1>3 DEF Horizon
  <1>6. \A token, op : Current(token, op) => Current(token, op)'
    BY <1>3, <1>5 DEF Current
  <1>7. \A e \in ToSet(events') : e # Finished /\ Current(e.token, AnswerTo(e))'
    BY <1>1, <1>2, <1>3, <1>4, <1>6 DEF Live
  <1>8. Mid' => \A e \in ToSet(events') : Interim(e)
    BY <1>2, <1>3 DEF Moves, Mid
  <1>9. \A i \in 1 .. Len(events') - 1 : Interim(events'[i])
    BY <1>2 DEF Moves
  <1>10. Live'
    BY <1>1, <1>2, <1>3, <1>5, <1>6, <1>7, <1>8, <1>9 DEF Live
  <1>11. Threads'
    BY <1>1, <1>2, <1>3, <1>7 DEF Threads
  <1>12. CancellationIsItsOwn'
    <2>1. \A e \in new : e.kind = "CANCELLED" => e.token.number \in asked
      BY <1>1, <1>4 DEF Moves, Cancelling
    <2> QED  BY <1>1, <1>3, <2>1 DEF Cancelling, CancellationIsItsOwn
  <1>13. Cancelling'
    BY <1>1, <1>3, <1>5, <1>12 DEF Cancelling, Mid
  <1> QED  BY <1>10, <1>11, <1>13

\* A move that writes well typed rows keeps the types.
LEMMA MovesTyped ==
    ASSUME IInv, NEW at, NEW new, Moves(at, new),
           scope' \in Workspaces \cup {NoWorkspace}, rows' \subseteq Workspaces,
           documents' \in [Numbers -> {"none", "registered", "active"}],
           requests' \in [Numbers -> {"none", "DRAFT", "COMPLETED", "FAILED", "CANCELLED"}]
    PROVE  TypeOK' /\ QueueTypes'
  <1>1. TypeOK'
    BY DEF IInv, TypeOK, Moves, gui, flags
  <1>2. QueueTypes'
    BY DEF IInv, QueueTypes, Moves, flags
  <1> QED  BY <1>1, <1>2

\* What nothing in flight or on the screen speaks of stays true when a slot moves on.
LEMMA MovesKeep ==
    ASSUME IInv, NEW at, NEW new, Moves(at, new)
    PROVE  /\ UNCHANGED <<state, next, epoch, commands, running, source, Horizon>>
           /\ \A c \in ToSet(commands) : c.op = "SHUTDOWN"
           /\ \A e \in ToSet(events) : Interim(e)
           /\ running.token \in OperationTokens /\ running.token.number \in Numbers
           /\ running.token.number < Horizon
           /\ ~ state.shuttingDown => state.active = OperationOf(running)
           /\ running.op \in {"LIST", "CREATE", "SELECT", "DOCUMENT", "QUESTION", "RETRY"}
  <1>1. QueueTypes /\ Live /\ Mid
    BY DEF IInv, Moves
  <1>2. commands \in Seq(Command \cup Closing)
    BY <1>1 DEF QueueTypes
  <1>3. \A c \in ToSet(commands) : \E i \in 1 .. Len(commands) : commands[i] = c
    BY <1>2, Elements
  <1>4. \A c \in ToSet(commands) : c.op = "SHUTDOWN"
    BY <1>1, <1>3, RunningTyped
  <1>5. running.token \in OperationTokens /\ running.token.number \in Numbers
    BY <1>1, RunningTyped, MaxOperationsAssumption DEF OperationTokens, Numbers
  <1>6. UNCHANGED <<state, next, epoch, commands, running, source, Horizon>>
    BY DEF Moves, gui, flags, Horizon
  <1> QED  BY <1>1, <1>4, <1>5, <1>6, RunningTyped DEF Live, Current

\* A slot that commits nothing about documents and requests.
LEMMA QuietMoves ==
    ASSUME IInv, NEW at, NEW new, Moves(at, new), UNCHANGED <<documents, requests>>,
           Mid' => Request' = Request,
           \A e \in new : e.kind \in {"LISTED", "CREATED", "SELECTED", "PHASE"},
           scope' \in Workspaces \cup {NoWorkspace}, rows' \subseteq Workspaces,
           ~ state.shuttingDown => ScopeShown'
    PROVE  IInv'
  <1>1. TypeOK /\ DocumentReports /\ RequestReports /\ (~ state.shuttingDown => QuestionShown) /\ Mid
    BY DEF IInv, Moves
  <1>2. /\ UNCHANGED <<state, next, epoch, commands, running, source, Horizon>>
        /\ ToSet(events') = ToSet(events) \cup new
    BY MovesKeep DEF Moves
  <1>3. TypeOK' /\ QueueTypes'
    BY <1>1, MovesTyped DEF TypeOK
  <1>4. DocumentReports'
    BY <1>1, <1>2 DEF DocumentReports
  <1>5. RequestReports'
    BY <1>1, <1>2 DEF RequestReports, IsOpen
  <1>6. ~ state.shuttingDown => QuestionShown'
    <2>1. \A r : Only(r)' <=> Only(r)
      BY <1>2 DEF Only
    <2>2. \A r : Told(r)' <=> Told(r)
      BY <1>2 DEF Told
    <2>3. \A r : IsOpen(r)' <=> IsOpen(r)
      BY DEF IsOpen
    <2> QED  BY <1>1, <1>2, <2>1, <2>2, <2>3 DEF QuestionShown
  <1> QED  BY <1>2, <1>3, <1>4, <1>5, <1>6, MovesLive DEF IInv

\* The scope is what the screen says, except behind a selection that is on its way.
LEMMA ScopeMoves ==
    ASSUME IInv, NEW at, NEW new, Moves(at, new), ~ state.shuttingDown,
           \/ scope' = scope /\ \A e \in new : e.kind # "SELECTED"
           \/ /\ state.active = "SELECT" /\ at = "finish"
              /\ scope' = running.workspace
              /\ \A e \in new : e.kind = "SELECTED" /\ e.workspace = scope'
    PROVE  ScopeShown'
  <1>1. ScopeShown /\ Mid
    BY DEF IInv, Moves
  <1>2. /\ UNCHANGED <<state, running>>
        /\ ToSet(events') = ToSet(events) \cup new
        /\ \A c \in ToSet(commands) : c.op = "SHUTDOWN"
        /\ \A e \in ToSet(events) : Interim(e) /\ AnswerTo(e) = state.active
        /\ \A e \in new : AnswerTo(e) = state.active
    <2>1. \A e \in ToSet(events) : Interim(e) => e # Finished
      BY DEF Interim, Finished
    <2> QED  BY <2>1, MovesKeep DEF Moves, IInv, Live, Current
  <1>3. \A c \in ToSet(commands) : FALSE
    <2>1. commands \in Seq(Command \cup Closing) /\ Live
      BY DEF IInv, QueueTypes
    <2>2. \A c \in ToSet(commands) : \E i \in 1 .. Len(commands) : commands[i] = c
      BY <2>1, Elements
    <2> QED  BY <1>2, <2>1, <2>2 DEF Live
  <1>4. \A e \in ToSet(events) : e.kind # "SELECTED" /\ state.active # "SELECT"
    BY <1>2 DEF Interim, AnswerTo
  <1>5. commands' = commands /\ step' = at
    BY DEF Moves
  <1> QED  BY <1>1, <1>2, <1>3, <1>4, <1>5 DEF ScopeShown, Mid

\* The steps of the worker that commit nothing about documents and requests.
LEMMA QuietSteps ==
    ASSUME IInv, \/ ListWorkspaces \/ CreateWorkspace \/ SelectWorkspace
                 \/ AnnouncePhase \/ PassLastCheckpoint
    PROVE  IInv'
  <1>1. /\ TypeOK /\ QueueTypes /\ Live
        /\ rows \subseteq Workspaces /\ scope \in Workspaces \cup {NoWorkspace}
    BY DEF IInv, TypeOK
  <1>2. Mid => /\ running \in Command /\ running.token \in OperationTokens
               /\ (~ state.shuttingDown => state.active = OperationOf(running))
    BY <1>1, RunningTyped DEF Live, Current
  <1>3. CASE ListWorkspaces
    <2> DEFINE e == [kind |-> "LISTED", token |-> running.token, workspaces |-> rows]
    <2>1. Mid /\ step' = "finish" /\ Emit(e) /\ UNCHANGED <<scope, durable>> /\ running.op = "LIST"
          /\ UNCHANGED <<gui, commands, thread, running, resources, runtime, flags>>
      BY <1>3 DEF ListWorkspaces, In, Goto, Mid
    <2>2. e \in Event /\ AnswerTo(e) = OperationOf(running)
      BY <1>1, <1>2, <2>1 DEF Event, AnswerTo, OperationOf
    <2>3. Moves("finish", {e})
      BY <1>1, <2>1, <2>2, EmitMoves
    <2>4. ~ state.shuttingDown => ScopeShown'
      BY <2>1, <2>3, ScopeMoves
    <2> QED  BY <1>1, <2>1, <2>3, <2>4, QuietMoves DEF durable, Mid
  <1>4. CASE CreateWorkspace
    <2>1. PICK k \in Workspaces :
             /\ rows' = rows \cup {k}
             /\ Emit([kind |-> "CREATED", token |-> running.token, workspace |-> k])
      BY <1>4 DEF CreateWorkspace
    <2> DEFINE e == [kind |-> "CREATED", token |-> running.token, workspace |-> k]
    <2>2. /\ Mid /\ step' = "finish" /\ UNCHANGED <<scope, documents, requests>>
          /\ running.op = "CREATE"
          /\ UNCHANGED <<gui, commands, thread, running, resources, runtime, flags>>
      BY <1>4 DEF CreateWorkspace, In, Goto, Mid
    <2>3. e \in Event /\ AnswerTo(e) = OperationOf(running)
      BY <1>2, <2>2 DEF Event, AnswerTo, OperationOf
    <2>4. Moves("finish", {e})
      BY <1>1, <2>1, <2>2, <2>3, EmitMoves
    <2>5. ~ state.shuttingDown => ScopeShown'
      BY <2>2, <2>4, ScopeMoves
    <2> QED  BY <1>1, <2>1, <2>2, <2>4, <2>5, QuietMoves DEF Mid
  <1>5. CASE SelectWorkspace
    <2> DEFINE e == [kind |-> "SELECTED", token |-> running.token, workspace |-> running.workspace]
    <2>1. /\ Mid /\ step' = "finish" /\ Emit(e) /\ UNCHANGED durable /\ running.op = "SELECT"
          /\ scope' = running.workspace /\ running.workspace \in rows
          /\ UNCHANGED <<gui, commands, thread, running, resources, runtime, flags>>
      BY <1>5 DEF SelectWorkspace, In, Goto, Mid
    <2>2. e \in Event /\ AnswerTo(e) = OperationOf(running)
      BY <1>1, <1>2, <2>1 DEF Event, AnswerTo, OperationOf
    <2>3. Moves("finish", {e})
      BY <1>1, <2>1, <2>2, EmitMoves
    <2>4. ~ state.shuttingDown => state.active = "SELECT"
      BY <1>2, <2>1 DEF OperationOf
    <2>5. ~ state.shuttingDown => ScopeShown'
      BY <2>1, <2>3, <2>4, ScopeMoves
    <2> QED  BY <1>1, <2>1, <2>3, <2>5, QuietMoves DEF durable, Mid
  <1>6. CASE AnnouncePhase
    <2>1. PICK at \in Phases :
             step' = at /\ Emit([kind |-> "PHASE", token |-> running.token, phase |-> at])
      BY <1>6 DEF AnnouncePhase, Goto, Phases
    <2> DEFINE e == [kind |-> "PHASE", token |-> running.token, phase |-> at]
    <2>2. /\ Mid /\ UNCHANGED <<scope, durable>> /\ running.op = "DOCUMENT"
          /\ UNCHANGED <<gui, commands, thread, running, resources, runtime, flags>>
      BY <1>6 DEF AnnouncePhase, Goto, Mid
    <2>3. e \in Event /\ AnswerTo(e) = OperationOf(running) /\ Interim(e) /\ at # "idle"
      BY <1>2, <2>2 DEF Event, AnswerTo, OperationOf, Interim, Phases
    <2>4. Moves(at, {e})
      BY <1>1, <2>1, <2>2, <2>3, EmitMoves
    <2>5. ~ state.shuttingDown => ScopeShown'
      BY <2>2, <2>4, ScopeMoves
    <2>6. Request' = Request
      BY <2>2 DEF Request
    <2> QED  BY <1>1, <2>2, <2>4, <2>5, <2>6, QuietMoves DEF durable
  <1>7. CASE PassLastCheckpoint
    <2>1. PICK at : /\ step' = at /\ at # "idle" /\ Mid
                    /\ UNCHANGED <<gui, commands, thread, running, resources, runtime, flags>>
                    /\ Request' = Request
      BY <1>7 DEF PassLastCheckpoint, Goto, In, Mid, Request, Number
    <2>2. UNCHANGED <<events, scope, durable>>
      BY <1>7 DEF PassLastCheckpoint
    <2>3. Moves(at, {})
      BY <1>1, <2>1, <2>2, SilentMoves
    <2>4. ~ state.shuttingDown => ScopeShown'
      BY <2>2, <2>3, ScopeMoves
    <2> QED  BY <1>1, <2>1, <2>2, <2>3, <2>4, QuietMoves DEF durable
  <1> QED  BY <1>3, <1>4, <1>5, <1>6, <1>7

\* A slot that commits nothing about requests.
LEMMA QuestionsStay ==
    ASSUME IInv, NEW at, NEW new, Moves(at, new), UNCHANGED requests, Mid' => Request' = Request,
           \A e \in new : e.kind \in {"PHASE", "READY"}
    PROVE  RequestReports' /\ (~ state.shuttingDown => QuestionShown')
  <1>1. RequestReports /\ (~ state.shuttingDown => QuestionShown) /\ Mid
    BY DEF IInv, Moves
  <1>2. /\ UNCHANGED <<state, next, epoch, commands, running, Horizon>>
        /\ ToSet(events') = ToSet(events) \cup new
    BY MovesKeep DEF Moves
  <1>3. RequestReports'
    BY <1>1, <1>2 DEF RequestReports, IsOpen
  <1>4. \A r : (Only(r)' <=> Only(r)) /\ (Told(r)' <=> Told(r)) /\ (IsOpen(r)' <=> IsOpen(r))
    BY <1>2 DEF Only, Told, IsOpen
  <1> QED  BY <1>1, <1>2, <1>3, <1>4 DEF QuestionShown

\* Registering the document of an import, or activating it.
LEMMA DocumentSteps ==
    ASSUME IInv, RegisterDocument \/ ActivateDocument
    PROVE  IInv'
  <1>1. /\ TypeOK /\ QueueTypes /\ Live /\ DocumentReports /\ Mid /\ running.op = "DOCUMENT"
        /\ UNCHANGED <<scope, rows, requests>>
        /\ UNCHANGED <<gui, commands, thread, running, resources, runtime, flags>>
    BY DEF IInv, RegisterDocument, ActivateDocument, In, Goto, Mid
  <1>2. /\ scope \in Workspaces \cup {NoWorkspace} /\ running.token \in OperationTokens
        /\ running.token.number \in Numbers
    BY <1>1, RunningTyped, MaxOperationsAssumption DEF TypeOK, OperationTokens, Numbers
  <1>3. PICK at \in {"EXTRACTING", "finish"}, e \in Event, s \in {"registered", "active"} :
            /\ e.token = running.token /\ e.kind \in {"PHASE", "READY"}
            /\ e.kind = "READY" <=> s = "active"
            /\ Interim(e) \/ at = "finish"
            /\ (at = "finish" <=> s = "active")
            /\ step' = at /\ Emit(e)
            /\ documents' = [documents EXCEPT ![running.token.number] = s]
    <2>1. CASE RegisterDocument
      <3> DEFINE e == [kind |-> "PHASE", token |-> running.token, phase |-> "EXTRACTING"]
      <3>1. e \in Event /\ Interim(e)
        BY <1>2 DEF Event, Phases, Interim
      <3> QED  BY <2>1, <3>1 DEF RegisterDocument, Goto, Number
    <2>2. CASE ActivateDocument
      <3> DEFINE e == [kind |-> "READY", token |-> running.token, workspace |-> scope]
      <3>1. e \in Event
        BY <1>2 DEF Event
      <3> QED  BY <2>2, <3>1 DEF ActivateDocument, Goto, Number
    <2> QED  BY <2>1, <2>2
  <1>4. AnswerTo(e) = OperationOf(running)
    BY <1>1, <1>3 DEF AnswerTo, OperationOf
  <1>5. Moves(at, {e})
    BY <1>1, <1>3, <1>4, EmitMoves
  <1>6. /\ UNCHANGED <<state, next, epoch, commands, running, Horizon>>
        /\ ToSet(events') = ToSet(events) \cup {e}
        /\ \A c \in ToSet(commands) : c.op = "SHUTDOWN"
        /\ \A x \in ToSet(events) : Interim(x)
        /\ running.token.number < Horizon
    <2>1. ToSet(events') = ToSet(events) \cup {e}
      BY <1>5 DEF Moves
    <2> QED  BY <1>1, <1>5, <2>1, MovesKeep DEF IInv
  <1>7. TypeOK' /\ QueueTypes'
    BY <1>1, <1>2, <1>3, <1>5, MovesTyped DEF TypeOK
  <1>8. \A n \in Numbers :
            documents'[n] = IF n = running.token.number THEN s ELSE documents[n]
    BY <1>1, <1>2, <1>3 DEF TypeOK
  <1>9. documents[running.token.number] # "active"
    BY <1>1 DEF DocumentReports
  <1>10. DocumentReports'
    <2>1. \A n \in Numbers : n >= Horizon' => documents'[n] = "none"
      <3> SUFFICES ASSUME NEW n \in Numbers, n >= Horizon
                   PROVE  documents'[n] = "none"
        BY <1>6
      <3>1. Horizon \in Nat
        BY <1>1 DEF Horizon, TypeOK, Tokens, NoToken, Numbers
      <3>2. n # running.token.number
        BY <1>2, <1>6, <3>1 DEF Numbers
      <3> QED  BY <1>1, <1>8, <3>2 DEF DocumentReports
    <2>2. \A c \in ToSet(commands') : c.op = "SHUTDOWN"
      BY <1>6
    <2>3. Mid' => documents'[running'.token.number] # "active"
      BY <1>2, <1>3, <1>6, <1>8 DEF Mid
    <2>4. \A x \in ToSet(events') :
            /\ x.kind = "READY" => documents'[x.token.number] = "active"
            /\ x.kind \notin {"CANCELLED", "FAILED"}
      BY <1>2, <1>3, <1>6, <1>8 DEF Interim
    <2>5. state.document = "READY" => state.shown # 0 /\ documents'[state.shown] = "active"
      <3> SUFFICES ASSUME state.document = "READY"
                   PROVE  state.shown # 0 /\ documents'[state.shown] = "active"
        OBVIOUS
      <3>1. state.shown # 0 /\ documents[state.shown] = "active" /\ state.shown \in Numbers
        BY <1>1, MaxOperationsAssumption DEF DocumentReports, TypeOK, Numbers
      <3> QED  BY <1>8, <1>9, <3>1
    <2> QED  BY <1>6, <2>1, <2>2, <2>3, <2>4, <2>5 DEF DocumentReports
  <1>11. Request' = Request
    BY <1>1 DEF Request
  <1>12. RequestReports' /\ (~ state.shuttingDown => QuestionShown')
    BY <1>1, <1>3, <1>5, <1>11, QuestionsStay
  <1>13. ~ state.shuttingDown => ScopeShown'
    BY <1>1, <1>3, <1>5, ScopeMoves
  <1> QED  BY <1>5, <1>6, <1>7, <1>10, <1>12, <1>13, MovesLive DEF IInv

\* A signal about an import that ends says what is committed; other signals say
\* nothing of documents.
LEMMA DocumentsStay ==
    ASSUME IInv, NEW at, NEW e, Moves(at, {e}), UNCHANGED documents, e.kind # "READY",
           e.kind \in {"CANCELLED", "FAILED"} /\ e.op = "DOCUMENT" =>
               e.registered = (documents[running.token.number] # "none")
    PROVE  DocumentReports'
  <1>1. TypeOK /\ DocumentReports /\ Mid
    BY DEF IInv, Moves
  <1>2. /\ UNCHANGED <<state, next, epoch, commands, running, Horizon>>
        /\ running.token.number \in Numbers
    BY <1>1, MovesKeep
  <1>3. ToSet(events') = ToSet(events) \cup {e} /\ e.token = running.token
    BY DEF Moves
  <1>4. documents[running.token.number] \in {"none", "registered"}
    BY <1>1, <1>2 DEF TypeOK, DocumentReports
  <1> QED  BY <1>1, <1>2, <1>3, <1>4 DEF DocumentReports

\* What a slot commits about the request of a question, and what it says of it.
LEMMA RequestsMove ==
    ASSUME IInv, NEW at, NEW e, Moves(at, {e}), running.op \in {"QUESTION", "RETRY"},
           NEW r \in 0 .. MaxOperations, e.kind # "PHASE", e.qa = r,
           \A n \in Numbers \ {r} : requests'[n] = requests[n],
           \/ /\ e.kind = "PREPARED" /\ Request = 0 /\ Request' = r /\ Mid' /\ r # 0
              /\ r = running.token.number
              /\ running.op = "QUESTION" /\ requests'[r] = "DRAFT"
           \/ /\ e.kind = "COMPLETED" /\ Request = r /\ ~ Mid' /\ r # 0
              /\ requests'[r] = "COMPLETED"
           \/ /\ e.kind \in {"CANCELLED", "FAILED"} /\ Request = r /\ ~ Mid'
              /\ r # 0 => IsOpen(r)'
    PROVE  RequestReports' /\ (~ state.shuttingDown => QuestionShown')
  <1>1. TypeOK /\ QueueTypes /\ Live /\ RequestReports /\ Mid
    BY DEF IInv, Moves
  <1>2. /\ UNCHANGED <<state, next, epoch, commands, running, Horizon>>
        /\ \A c \in ToSet(commands) : c.op = "SHUTDOWN"
        /\ \A x \in ToSet(events) : Interim(x)
        /\ running.token.number \in Numbers
        /\ running.token.number < Horizon
        /\ ~ state.shuttingDown => state.active = OperationOf(running)
    BY <1>1, MovesKeep DEF IInv
  <1>3. ToSet(events') = ToSet(events) \cup {e}
    BY DEF Moves
  <1>4. Horizon \in Nat /\ r \in Nat /\ (r # 0 => r \in Numbers)
    BY <1>1, MaxOperationsAssumption DEF Horizon, TypeOK, Tokens, NoToken, Numbers
  <1>5. r # 0 => /\ requests[r] # "COMPLETED" /\ r < Horizon
                 /\ Request # 0 \/ requests[r] = "none"
    <2>1. CASE Request = 0
      BY <1>1, <1>2, <2>1 DEF RequestReports
    <2>2. CASE Request = r
      <3> SUFFICES ASSUME r # 0
                   PROVE  requests[r] # "COMPLETED" /\ r < Horizon
        BY <2>2
      <3>1. IsOpen(r)
        BY <1>1, <2>2 DEF RequestReports
      <3>2. requests[r] # "none" /\ requests[r] # "COMPLETED"
        BY <3>1 DEF IsOpen
      <3> QED  BY <1>1, <1>4, <3>2 DEF RequestReports
    <2> QED  BY <2>1, <2>2
  <1>6. RequestReports'
    <2>1. \A n \in Numbers : n >= Horizon => n # r
      BY <1>4, <1>5 DEF Numbers
    <2>2. \A n \in Numbers : n >= Horizon' => requests'[n] = "none"
      BY <1>1, <1>2, <2>1 DEF RequestReports
    <2>3. Mid' => /\ Request' # 0 => IsOpen(Request)'
                  /\ running'.op = "QUESTION" /\ Request' = 0 =>
                        requests'[running'.token.number] = "none"
      BY DEF IsOpen
    <2>4. \A x \in ToSet(events') : x.kind = "COMPLETED" => requests'[x.qa] = "COMPLETED"
      BY <1>2, <1>3 DEF Interim
    <2>5. state.question = "ANSWERED" => state.qa # 0 /\ requests'[state.qa] = "COMPLETED"
      <3> SUFFICES ASSUME state.question = "ANSWERED"
                   PROVE  state.qa # 0 /\ requests'[state.qa] = "COMPLETED"
        OBVIOUS
      <3>1. state.qa # 0 /\ requests[state.qa] = "COMPLETED" /\ state.qa \in Numbers
        BY <1>1, MaxOperationsAssumption DEF RequestReports, TypeOK, Numbers
      <3> QED  BY <1>5, <3>1
    <2> QED  BY <1>2, <2>2, <2>3, <2>4, <2>5 DEF RequestReports
  <1>7. ~ state.shuttingDown => QuestionShown'
    <2> SUFFICES ASSUME ~ state.shuttingDown
                 PROVE  QuestionShown'
      OBVIOUS
    <2>1. QuestionShown /\ state.active = "QUESTION"
      BY <1>2 DEF IInv, OperationOf
    <2>2. Told(Request) /\ Only(Request)
      BY <1>1, <2>1 DEF QuestionShown
    <2>3. Only(r)'
      <3> SUFFICES ASSUME NEW n \in Numbers, n > state.shown, requests'[n] # "none", n # r
                   PROVE  FALSE
        BY <1>2 DEF Only
      <3>1. n = Request
        BY <2>2 DEF Only
      <3> QED  BY <3>1 DEF Numbers
    <2>4. Told(r)'
      <3>1. CASE e.kind = "PREPARED"
        <4>1. \A x \in ToSet(events) : x.kind # "PREPARED"
          <5> SUFFICES ASSUME NEW x \in ToSet(events), x.kind = "PREPARED"
                       PROVE  FALSE
            OBVIOUS
          <5>1. x.qa = 0
            BY <2>2, <3>1 DEF Told
          <5>2. x \in Event \cup {Finished}
            BY <1>1, Elements DEF QueueTypes
          <5> QED  BY <5>1, <5>2 DEF Event, Finished
        <4> QED  BY <1>2, <1>3, <2>2, <3>1, <4>1 DEF Told
      <3>2. CASE e.kind # "PREPARED"
        BY <1>2, <1>3, <2>2, <3>2 DEF Told
      <3> QED  BY <3>1, <3>2
    <2>5. \A c \in ToSet(commands') : c.op = "SHUTDOWN"
      BY <1>2
    <2>6. \A x \in ToSet(events') : x.kind \in {"COMPLETED", "CANCELLED", "FAILED"} =>
              x = e /\ e.kind # "PREPARED"
      BY <1>2, <1>3 DEF Interim
    <2>7. Mid' => Request' = r
      OBVIOUS
    <2>8. e.kind \in {"CANCELLED", "FAILED"} /\ r # 0 => IsOpen(r)'
      OBVIOUS
    <2> QED  BY <1>2, <2>1, <2>3, <2>4, <2>5, <2>6, <2>7, <2>8 DEF QuestionShown
  <1> QED  BY <1>6, <1>7

\* A question is registered, or answered.
LEMMA QuestionSteps ==
    ASSUME IInv, CommitIntake \/ CommitAnswer
    PROVE  IInv'
  <1>1. /\ TypeOK /\ QueueTypes /\ Live /\ Mid /\ running.op \in {"QUESTION", "RETRY"}
        /\ UNCHANGED <<scope, rows, documents>>
        /\ UNCHANGED <<gui, commands, thread, running, resources, runtime, flags>>
    BY DEF IInv, CommitIntake, CommitAnswer, In, Goto, Mid
  <1>2. /\ running \in Command /\ running.token \in OperationTokens
        /\ running.token.number \in 1 .. MaxOperations
        /\ requests \in [Numbers -> {"none", "DRAFT", "COMPLETED", "FAILED", "CANCELLED"}]
    BY <1>1, RunningTyped DEF TypeOK, OperationTokens
  <1>3. \A q \in 1 .. MaxOperations : q # 0 /\ q \in Numbers /\ q \in 0 .. MaxOperations
    BY MaxOperationsAssumption DEF Numbers
  <1>4. ASSUME NEW at, NEW e \in Event, NEW r \in 1 .. MaxOperations, NEW s,
               s \in {"DRAFT", "COMPLETED"},
               at # "idle", step' = at, Emit(e), e.token = running.token, e.qa = r,
               e.kind \in {"PREPARED", "COMPLETED"}, e.kind = "COMPLETED" => at = "finish",
               requests' = [requests EXCEPT ![r] = s],
               Moves(at, {e}) => RequestReports' /\ (~ state.shuttingDown => QuestionShown')
        PROVE  IInv'
    <2>1. AnswerTo(e) = OperationOf(running) /\ (Interim(e) \/ at = "finish")
      BY <1>1, <1>4 DEF AnswerTo, OperationOf, Interim
    <2>2. Moves(at, {e})
      BY <1>1, <1>4, <2>1, EmitMoves
    <2>3. requests' \in [Numbers -> {"none", "DRAFT", "COMPLETED", "FAILED", "CANCELLED"}]
      BY <1>2, <1>4
    <2>4. TypeOK' /\ QueueTypes'
      BY <1>1, <2>2, <2>3, MovesTyped DEF TypeOK
    <2>5. DocumentReports'
      BY <1>1, <1>4, <2>2, DocumentsStay
    <2>6. ~ state.shuttingDown => ScopeShown'
      BY <1>1, <1>4, <2>2, ScopeMoves
    <2>7. state' = state
      BY <1>1 DEF gui
    <2> QED  BY <1>4, <2>2, <2>4, <2>5, <2>6, <2>7, MovesLive DEF IInv
  <1>5. CASE CommitIntake
    <2>1. PICK r \in 1 .. MaxOperations, e \in Event :
             r = running.token.number /\ e = [kind |-> "PREPARED", token |-> running.token, qa |-> r]
      BY <1>2 DEF Event
    <2>2. e.kind = "PREPARED" /\ e.token = running.token /\ e.qa = r
      BY <2>1
    <2>3. /\ step = "intake" /\ step' = "complete" /\ Emit(e) /\ running.op = "QUESTION"
          /\ requests' = [requests EXCEPT ![r] = "DRAFT"]
      BY <1>5, <2>1 DEF CommitIntake, In, Goto, Number
    <2>4. Request = 0 /\ Request' = r /\ Mid'
      BY <1>1, <2>1, <2>3 DEF Request, Number, Mid
    <2>5. requests'[r] = "DRAFT" /\ \A n \in Numbers \ {r} : requests'[n] = requests[n]
      BY <1>2, <1>3, <2>3
    <2>6. ASSUME Moves("complete", {e})
          PROVE  RequestReports' /\ (~ state.shuttingDown => QuestionShown')
      BY <1>1, <1>3, <2>1, <2>2, <2>3, <2>4, <2>5, <2>6, RequestsMove
    <2>7. /\ "complete" # "idle" /\ e.kind \in {"PREPARED", "COMPLETED"} /\ e.kind # "COMPLETED"
          /\ "DRAFT" \in {"DRAFT", "COMPLETED"}
      BY <2>2
    <2> QED  BY <1>4, <2>2, <2>3, <2>6, <2>7
  <1>6. CASE CommitAnswer
    <2>1. PICK r \in 1 .. MaxOperations : r = Request
      BY <1>1, <1>2, <1>6 DEF CommitAnswer, Request, Number, Command
    <2>2. PICK e \in Event : e = [kind |-> "COMPLETED", token |-> running.token, qa |-> r]
      BY <1>2 DEF Event
    <2>3. e.kind = "COMPLETED" /\ e.token = running.token /\ e.qa = r
      BY <2>2
    <2>4. step' = "finish" /\ Emit(e) /\ requests' = [requests EXCEPT ![r] = "COMPLETED"]
      BY <1>6, <2>1, <2>2 DEF CommitAnswer, Goto
    <2>5. ~ Mid'
      BY <2>4 DEF Mid
    <2>6. requests'[r] = "COMPLETED" /\ \A n \in Numbers \ {r} : requests'[n] = requests[n]
      BY <1>2, <1>3, <2>4
    <2>7. ASSUME Moves("finish", {e})
          PROVE  RequestReports' /\ (~ state.shuttingDown => QuestionShown')
      BY <1>1, <1>3, <2>1, <2>3, <2>5, <2>6, <2>7, RequestsMove
    <2> QED  BY <1>4, <2>3, <2>4, <2>7
  <1> QED  BY <1>5, <1>6

\* A slot that is stopped, or in which something raises, says what it leaves behind.
LEMMA UnsuccessfulSteps ==
    ASSUME IInv, StopCancelled \/ Fail
    PROVE  IInv'
  <1>1. PICK kind \in {"CANCELLED", "FAILED"} :
            /\ Mid /\ (kind = "CANCELLED" => /\ source.set
                                             /\ running.op \in {"DOCUMENT", "QUESTION", "RETRY"})
            /\ RecordQuestion(kind) /\ Emit(Unfinishable(kind)) /\ step' = "finish"
            /\ UNCHANGED <<scope, rows, documents>>
            /\ UNCHANGED <<gui, commands, thread, running, resources, runtime, flags>>
    BY DEF StopCancelled, Fail, Goto, Mid, Phases
  <1>2. TypeOK /\ QueueTypes /\ Live /\ RequestReports /\ state' = state
    BY <1>1 DEF IInv, gui
  <1>3. /\ running \in Command /\ running.token \in OperationTokens
        /\ running.op \in {"LIST", "CREATE", "SELECT", "DOCUMENT", "QUESTION", "RETRY"}
        /\ running.token.number \in 1 .. MaxOperations
        /\ requests \in [Numbers -> {"none", "DRAFT", "COMPLETED", "FAILED", "CANCELLED"}]
    BY <1>1, <1>2, RunningTyped DEF TypeOK, OperationTokens
  <1>4. PICK r \in 0 .. MaxOperations : r = Request
    BY <1>3, MaxOperationsAssumption DEF Request, Number, Command
  <1>5. PICK e : e = Unfinishable(kind)
    OBVIOUS
  <1>6. /\ e \in Event /\ e.token = running.token /\ e.kind = kind
        /\ AnswerTo(e) = OperationOf(running)
        /\ e.op = "DOCUMENT" => e.registered = (documents[running.token.number] # "none")
        /\ running.op \in {"QUESTION", "RETRY"} => e.op = "QUESTION" /\ e.qa = r
        /\ running.op \notin {"QUESTION", "RETRY"} => e.op # "QUESTION" /\ r = 0
    <2>1. CASE running.op = "DOCUMENT"
      <3>1. e = [kind |-> kind, token |-> running.token, op |-> "DOCUMENT",
                 registered |-> documents[running.token.number] # "none"]
        BY <1>5, <2>1 DEF Unfinishable, Number
      <3>2. e \in Event
        BY <1>3, <3>1 DEF Event
      <3> QED  BY <1>4, <2>1, <3>1, <3>2 DEF AnswerTo, OperationOf, Request
    <2>2. CASE running.op \in {"QUESTION", "RETRY"}
      <3>1. e = [kind |-> kind, token |-> running.token, op |-> "QUESTION", qa |-> r]
        BY <1>4, <1>5, <2>2 DEF Unfinishable
      <3>2. e \in Event
        BY <1>3, <3>1 DEF Event
      <3> QED  BY <1>4, <2>2, <3>1, <3>2 DEF AnswerTo, OperationOf
    <2>3. CASE running.op \in {"LIST", "CREATE", "SELECT"}
      <3>1. e = [kind |-> kind, token |-> running.token, op |-> running.op]
        BY <1>5, <2>3 DEF Unfinishable
      <3>2. e \in Event
        BY <1>3, <2>3, <3>1 DEF Event
      <3> QED  BY <1>4, <2>3, <3>1, <3>2 DEF AnswerTo, OperationOf, Request
    <2> QED  BY <1>3, <2>1, <2>2, <2>3
  <1>7. Moves("finish", {e})
    BY <1>1, <1>2, <1>5, <1>6, EmitMoves
  <1>8. \/ requests' = requests
        \/ r # 0 /\ requests' = [requests EXCEPT ![r] = kind]
    BY <1>1, <1>4 DEF RecordQuestion
  <1>9. r # 0 => r \in Numbers
    BY MaxOperationsAssumption DEF Numbers
  <1>10. /\ requests' \in [Numbers -> {"none", "DRAFT", "COMPLETED", "FAILED", "CANCELLED"}]
         /\ \A n \in Numbers \ {r} : requests'[n] = requests[n]
    BY <1>3, <1>8, <1>9
  <1>11. TypeOK' /\ QueueTypes'
    BY <1>1, <1>2, <1>7, <1>10, MovesTyped DEF TypeOK
  <1>12. DocumentReports'
    BY <1>1, <1>6, <1>7, DocumentsStay
  <1>13. ~ state.shuttingDown => ScopeShown'
    BY <1>1, <1>6, <1>7, ScopeMoves
  <1>14. ~ Mid'
    BY <1>1 DEF Mid
  <1>15. RequestReports' /\ (~ state.shuttingDown => QuestionShown')
    <2>1. CASE running.op \in {"QUESTION", "RETRY"}
      <3>1. r # 0 => IsOpen(r)
        BY <1>1, <1>2, <1>4 DEF RequestReports
      <3>2. r # 0 => IsOpen(r)'
        BY <1>3, <1>8, <1>9, <3>1 DEF IsOpen
      <3> QED  BY <1>4, <1>6, <1>7, <1>10, <1>14, <2>1, <3>2, RequestsMove
    <2>2. CASE running.op \notin {"QUESTION", "RETRY"}
      <3>1. requests' = requests /\ AnswerTo(e) # "QUESTION"
        BY <1>3, <1>6, <1>8, <2>2 DEF OperationOf
      <3>2. /\ UNCHANGED <<state, next, epoch, commands, running, Horizon>>
            /\ ToSet(events') = ToSet(events) \cup {e}
            /\ (~ state.shuttingDown => state.active # "QUESTION")
        <4>1. ToSet(events') = ToSet(events) \cup {e}
          BY <1>7 DEF Moves
        <4> QED  BY <1>7, <2>2, <4>1, MovesKeep DEF OperationOf
      <3>3. RequestReports'
        BY <1>2, <1>6, <1>14, <3>1, <3>2 DEF RequestReports, IsOpen
      <3>4. ~ state.shuttingDown => QuestionShown'
        BY <3>1, <3>2 DEF IInv, QuestionShown, Only, IsOpen
      <3> QED  BY <3>3, <3>4
    <2> QED  BY <2>1, <2>2
  <1> QED  BY <1>2, <1>7, <1>11, <1>12, <1>13, <1>15, MovesLive DEF IInv
------------------------------------------------------------------------------
(* The worker's other steps: a slot begins or ends, the worker closes.     *)

\* Behind the command at the head of the queue there is the shutdown at most.
LEMMA Popped ==
    ASSUME QueueTypes, Live, commands # <<>>, commands' = Tail(commands)
    PROVE  /\ Head(commands) \in Command \cup Closing /\ Head(commands) \in ToSet(commands)
           /\ Head(commands).op # "SHUTDOWN" =>
                /\ events = <<>> /\ ~ Mid
                /\ Head(commands) \in Command /\ Head(commands).token \in OperationTokens
                /\ Current(Head(commands).token, OperationOf(Head(commands)))
           /\ commands' \in Seq(Command \cup Closing)
           /\ \A i \in 1 .. Len(commands') :
                commands'[i].op = "SHUTDOWN" /\ state.shuttingDown /\ commands'[i].token = state.token
           /\ \A c \in ToSet(commands') :
                c \in ToSet(commands) /\ c.op = "SHUTDOWN" /\ c.token = state.token
  <1> DEFINE S == Command \cup Closing
  <1>1. commands \in Seq(S)
    BY DEF QueueTypes
  <1>2. /\ Head(commands) \in S /\ Head(commands) \in ToSet(commands)
        /\ Head(commands) = commands[1] /\ Len(commands) >= 1
        /\ commands' \in Seq(S) /\ ToSet(commands') \subseteq ToSet(commands)
        /\ Len(commands') = Len(commands) - 1
        /\ \A i \in 1 .. Len(commands) - 1 : commands'[i] = commands[i + 1]
    <2> HIDE DEF S
    <2> QED  BY <1>1, Taken
  <1>3. /\ Len(commands) \in Nat
        /\ \A c \in ToSet(commands') : \E i \in 1 .. Len(commands') : commands'[i] = c
    <2> HIDE DEF S
    <2>1. Len(commands) \in Nat
      BY <1>1, Elements
    <2>2. PICK t \in Seq(S) : t = commands'
      BY <1>2
    <2>3. \A c \in ToSet(t) : \E i \in 1 .. Len(t) : t[i] = c
      BY Elements
    <2>4. \A c \in ToSet(commands') : \E i \in 1 .. Len(commands') : commands'[i] = c
      BY <2>2, <2>3
    <2> QED  BY <2>1, <2>4
  <1>4. ASSUME NEW i \in 1 .. Len(commands')
        PROVE  commands'[i].op = "SHUTDOWN" /\ state.shuttingDown /\ commands'[i].token = state.token
    <2>1. i + 1 \in 1 .. Len(commands) /\ i + 1 # 1 /\ commands'[i] = commands[i + 1]
      BY <1>2, <1>3, <1>4
    <2>2. \A j \in 1 .. Len(commands) : j # 1 =>
             commands[j].op = "SHUTDOWN" /\ state.shuttingDown /\ commands[j].token = state.token
      BY DEF Live
    <2> QED  BY <2>1, <2>2
  <1>5. ASSUME Head(commands).op # "SHUTDOWN"
        PROVE  /\ events = <<>> /\ ~ Mid
               /\ Head(commands) \in Command /\ Head(commands).token \in OperationTokens
               /\ Current(Head(commands).token, OperationOf(Head(commands)))
    <2>1. 1 \in 1 .. Len(commands)
      BY <1>2, <1>3
    <2>2. events = <<>> /\ ~ Mid /\ Current(Head(commands).token, OperationOf(Head(commands)))
      BY <1>2, <1>5, <2>1 DEF Live
    <2>3. Head(commands) \in Command /\ Head(commands).token \in OperationTokens
      BY <1>2, <1>5 DEF Command, Closing
    <2> QED  BY <2>2, <2>3
  <1> QED  BY <1>2, <1>3, <1>4, <1>5

\* Numbers are compared as numbers.
LEMMA NumbersTyped ==
    ASSUME TypeOK, Live
    PROVE  /\ next \in Nat /\ Horizon \in Nat /\ Horizon >= 1
           /\ state.token.number \in Nat
           /\ state.active # "NONE" => state.token \in Tokens /\ state.token.number >= 1
           /\ state.active = "NONE" => state.token = NoToken
           /\ Horizon <= next
  <1>1. /\ next \in 1 .. MaxOperations + 2 /\ state.token \in Tokens \cup {NoToken}
        /\ state.active = "NONE" <=> state.token = NoToken
    BY DEF TypeOK
  <1>2. next \in Nat /\ next >= 1
    BY <1>1, MaxOperationsAssumption
  <1>3. state.token \in Tokens => state.token.number \in Nat /\ state.token.number >= 1
    BY <1>1, MaxOperationsAssumption DEF Tokens, Numbers
  <1>4. NoToken.number = 0
    BY DEF NoToken
  <1>5. state.token.number \in Nat
    BY <1>1, <1>3, <1>4
  <1>6. state.active # "NONE" => state.token \in Tokens /\ state.token.number >= 1
    BY <1>1, <1>3
  <1>7. Horizon \in Nat /\ Horizon >= 1 /\ Horizon <= next
    BY <1>2, <1>5, <1>6 DEF Horizon, Live
  <1> QED  BY <1>1, <1>2, <1>5, <1>6, <1>7

\* The startup reports what it has opened.
LEMMA InitializeStep ==
    ASSUME IInv, Initialize
    PROVE  IInv'
  <1>1. /\ TypeOK /\ QueueTypes /\ Live /\ Threads /\ Cancelling /\ DocumentReports /\ RequestReports
        /\ (~ state.shuttingDown => QuestionShown /\ ScopeShown)
        /\ thread = "running" /\ step = "idle" /\ commands # <<>> /\ commands' = Tail(commands)
        /\ Head(commands).op = "STARTUP"
        /\ UNCHANGED <<state, next, epoch, window, thread, running, step, scope, rows, documents,
                       requests, source, asked, heard>>
    BY DEF IInv, Initialize, Pending, gui, durable, flags
  <1>2. /\ Head(commands) \in Command /\ Head(commands).token \in OperationTokens
        /\ events = <<>> /\ Current(Head(commands).token, "STARTUP")
        /\ commands' \in Seq(Command \cup Closing)
        /\ \A i \in 1 .. Len(commands') :
                commands'[i].op = "SHUTDOWN" /\ state.shuttingDown /\ commands'[i].token = state.token
        /\ \A c \in ToSet(commands') : c \in ToSet(commands) /\ c.op = "SHUTDOWN"
    BY <1>1, Popped DEF OperationOf
  <1>3. PICK e \in Event :
            /\ events' = Append(<<>>, e)
            /\ e.kind = "CAPABILITY" /\ e.token = Head(commands).token
            /\ resources' \in {"none", "foundation", "session", "closed"}
            /\ runtime' \in {"none", "open", "released"}
    <2>1. PICK capability \in Capabilities :
            /\ Emit([kind |-> "CAPABILITY", token |-> Head(commands).token, capability |-> capability])
            /\ resources' \in {"none", "foundation", "session", "closed"}
            /\ runtime' \in {"none", "open", "released"}
      BY <1>1 DEF Initialize, Capabilities
    <2>2. [kind |-> "CAPABILITY", token |-> Head(commands).token, capability |-> capability] \in Event
      BY <1>2 DEF Event
    <2> QED  BY <1>2, <2>1, <2>2 DEF Emit
  <1>4. /\ events' \in Seq(Event \cup {Finished}) /\ Len(events') = 1
        /\ ToSet(events') = {e} /\ e # Finished
    <2> DEFINE S == Event \cup {Finished}
    <2>1. <<>> \in Seq(S) /\ e \in S /\ e # Finished
      BY <1>3 DEF Finished
    <2>2. events' \in Seq(S) /\ Len(events') = Len(<<>>) + 1 /\ ToSet(events') = ToSet(<<>>) \cup {e}
      <3> HIDE DEF S
      <3>1. PICK t \in Seq(S) : t = <<>>
        BY <2>1
      <3>2. events' = Append(t, e)
        BY <1>3, <3>1
      <3>3. events' \in Seq(S) /\ Len(events') = Len(t) + 1 /\ ToSet(events') = ToSet(t) \cup {e}
        BY <2>1, <3>2, Appended
      <3> QED  BY <3>1, <3>3
    <2> QED  BY <2>1, <2>2, Nothing
  <1>5. TypeOK' /\ QueueTypes'
    BY <1>1, <1>2, <1>3, <1>4 DEF TypeOK, QueueTypes
  <1>6. Horizon' = Horizon /\ ~ Mid /\ ~ Mid' /\ AnswerTo(e) = "STARTUP"
    BY <1>1, <1>3 DEF Horizon, Mid, AnswerTo
  <1>7. Current(e.token, AnswerTo(e))'
    BY <1>1, <1>2, <1>3, <1>6 DEF Current
  <1>8. Live'
    BY <1>1, <1>2, <1>4, <1>6, <1>7 DEF Live
  <1>9. Threads'
    BY <1>1, <1>4 DEF Threads
  <1>10. Cancelling'
    BY <1>1, <1>2, <1>3, <1>4, <1>6 DEF Cancelling, CancellationIsItsOwn
  <1>11. DocumentReports'
    BY <1>1, <1>2, <1>3, <1>4, <1>6 DEF DocumentReports
  <1>12. RequestReports'
    BY <1>1, <1>2, <1>3, <1>4, <1>6 DEF RequestReports, IsOpen
  <1>13. ~ state.shuttingDown => state.active = "STARTUP"
    BY <1>2 DEF Current
  <1>14. ~ state.shuttingDown => QuestionShown' /\ ScopeShown'
    BY <1>1, <1>13 DEF QuestionShown, ScopeShown, Only, IsOpen
  <1> QED  BY <1>1, <1>5, <1>8, <1>9, <1>10, <1>11, <1>12, <1>14 DEF IInv

\* A slot begins: its command becomes the one that is running.
LEMMA AdmitStep ==
    ASSUME IInv,
           NEW op \in {"LIST", "CREATE", "SELECT", "DOCUMENT", "QUESTION", "RETRY"}, Admit(op)
    PROVE  IInv'
  <1>1. /\ TypeOK /\ QueueTypes /\ Live /\ Threads /\ Cancelling /\ DocumentReports /\ RequestReports
        /\ (~ state.shuttingDown => QuestionShown /\ ScopeShown)
        /\ thread = "running" /\ step = "idle" /\ commands # <<>> /\ commands' = Tail(commands)
        /\ Head(commands).op = op
        /\ step' = FirstStep(op)
        /\ UNCHANGED <<state, next, epoch, window, events, thread, scope, resources, runtime,
                       rows, documents, requests, asked, heard>>
    BY DEF IInv, Admit, Pending, gui, durable
  <1>2. PICK c \in Command :
            /\ c = Head(commands) /\ c.op = op /\ c \in ToSet(commands)
            /\ c.token \in OperationTokens /\ Current(c.token, OperationOf(c))
            /\ running' = c /\ source' = SourceBegun(c.token)
    BY <1>1, Popped DEF Admit
  <1>3. /\ events = <<>> /\ ToSet(events) = {} /\ Len(events) = 0
        /\ commands' \in Seq(Command \cup Closing)
        /\ \A i \in 1 .. Len(commands') :
                commands'[i].op = "SHUTDOWN" /\ state.shuttingDown /\ commands'[i].token = state.token
        /\ \A x \in ToSet(commands') :
                x \in ToSet(commands) /\ x.op = "SHUTDOWN" /\ x.token = state.token
    BY <1>1, Popped, Nothing
  <1>4. c.token \in Tokens /\ c.token # NoToken /\ c # NoCommand /\ c.token.number \in Numbers
    BY <1>2, MaxOperationsAssumption
       DEF OperationTokens, Tokens, Numbers, NoToken, NoCommand
  <1>5. TypeOK' /\ QueueTypes'
    BY <1>1, <1>2, <1>3, <1>4 DEF TypeOK, QueueTypes, SourceBegun
  <1>6. /\ Horizon' = Horizon /\ step' \in {"admitted", "complete"} /\ Mid'
        /\ Current(c.token, OperationOf(c))'
    BY <1>1, <1>2 DEF Horizon, Mid, FirstStep, Current
  <1>7. Live'
    BY <1>1, <1>2, <1>3, <1>4, <1>6 DEF Live, Current
  <1>8. Threads'
    BY <1>1, <1>3 DEF Threads
  <1>9. Cancelling'
    <2>1. /\ source'.active = c.token /\ source'.pending = {}
          /\ source'.set <=> c.token \in source.pending
      BY <1>2 DEF SourceBegun
    <2>2. source'.set => c.token.number \in asked
      BY <1>1, <2>1 DEF Cancelling
    <2>3. \A n \in heard : c.token.number = n => source'.set
      BY <1>1, <1>2, <2>1 DEF Cancelling, CancellationIsItsOwn
    <2>4. \A n \in heard : n < Horizon /\ n \in Nat
      BY <1>1, MaxOperationsAssumption DEF Cancelling, QueueTypes
    <2>5. \A x \in ToSet(commands') : x.token.number = Horizon
      BY <1>3, Elements DEF Horizon
    <2>6. \A n \in heard : \A x \in ToSet(commands') : x.token.number # n
      BY <1>1, <2>4, <2>5, NumbersTyped
    <2>7. CancellationIsItsOwn'
      BY <1>1, <1>3, <2>1, <2>3, <2>6 DEF CancellationIsItsOwn
    <2> QED  BY <1>1, <1>2, <1>6, <2>1, <2>2, <2>7 DEF Cancelling
  <1>10. DocumentReports'
    <2>1. documents[c.token.number] = "none"
      BY <1>1, <1>2 DEF DocumentReports
    <2> QED  BY <1>1, <1>2, <1>3, <1>6, <2>1 DEF DocumentReports
  <1>11. /\ Request' = IF op = "RETRY" THEN c.qa ELSE 0
         /\ (op = "QUESTION" => requests[c.token.number] = "none")
         /\ (op = "RETRY" => IsOpen(c.qa))
    <2>1. step' = IF op = "RETRY" THEN "complete" ELSE "admitted"
      BY <1>1 DEF FirstStep
    <2>2. Request' = IF op = "RETRY" THEN c.qa ELSE 0
      BY <1>2, <2>1 DEF Request
    <2> QED  BY <1>1, <1>2, <2>2 DEF RequestReports
  <1>12. RequestReports'
    <2>1. Mid' => /\ Request' # 0 => IsOpen(Request)'
                  /\ running'.op = "QUESTION" /\ Request' = 0 =>
                        requests'[running'.token.number] = "none"
      BY <1>1, <1>2, <1>11 DEF IsOpen
    <2> QED  BY <1>1, <1>3, <1>6, <2>1 DEF RequestReports, IsOpen
  <1>13. ~ state.shuttingDown => state.active = OperationOf(c)
    BY <1>2 DEF Current
  <1>14. ~ state.shuttingDown => QuestionShown'
    <2> SUFFICES ASSUME ~ state.shuttingDown
                 PROVE  QuestionShown'
      OBVIOUS
    <2>1. \A r : (Only(r)' <=> Only(r)) /\ (IsOpen(r)' <=> IsOpen(r))
      BY <1>1 DEF Only, IsOpen
    <2>2. CASE state.active # "QUESTION"
      BY <1>1, <2>1, <2>2 DEF QuestionShown
    <2>3. CASE state.active = "QUESTION"
      <3>1. op \in {"QUESTION", "RETRY"}
        BY <1>2, <1>13, <2>3 DEF OperationOf
      <3>2. state.qa = Request' /\ Only(Request')
        BY <1>1, <1>2, <1>11, <2>3, <3>1 DEF QuestionShown
      <3>3. Told(Request)' /\ Only(Request)'
        BY <1>1, <1>3, <2>1, <3>2 DEF Told, Only
      <3> QED  BY <1>1, <1>3, <2>1, <2>3, <3>3 DEF QuestionShown
    <2> QED  BY <2>2, <2>3
  <1>15. ~ state.shuttingDown => ScopeShown'
    BY <1>1, <1>2, <1>3 DEF ScopeShown
  <1> QED  BY <1>1, <1>5, <1>7, <1>8, <1>9, <1>10, <1>12, <1>14, <1>15 DEF IInv

\* A slot ends, after its last signal.
LEMMA FinishStep ==
    ASSUME IInv, Finish
    PROVE  IInv'
  <1>1. /\ TypeOK /\ QueueTypes /\ Live /\ Threads /\ Cancelling /\ DocumentReports /\ RequestReports
        /\ (~ state.shuttingDown => QuestionShown /\ ScopeShown)
        /\ step = "finish" /\ step' = "idle" /\ running' = NoCommand
        /\ source' = SourceFinished(running.token)
        /\ UNCHANGED <<state, next, epoch, window, commands, events, thread, scope, resources,
                       runtime, rows, documents, requests, asked, heard>>
    BY DEF IInv, Finish, gui, durable
  <1>2. /\ source' = [source EXCEPT !.active = NoToken, !.set = FALSE]
        /\ source \in [active : Tokens \cup {NoToken}, set : BOOLEAN, pending : SUBSET Tokens]
    BY <1>1 DEF SourceFinished, Cancelling, TypeOK
  <1>3. TypeOK' /\ QueueTypes'
    <2>1. source' \in [active : Tokens \cup {NoToken}, set : BOOLEAN, pending : SUBSET Tokens]
      BY <1>2
    <2>2. TypeOK'
      BY <1>1, <2>1 DEF TypeOK
    <2>3. QueueTypes'
      BY <1>1 DEF QueueTypes
    <2> QED  BY <2>2, <2>3
  <1>4. Horizon' = Horizon /\ ~ Mid /\ ~ Mid' /\ running'.token = NoToken /\ NoToken.number = 0
    BY <1>1 DEF Horizon, Mid, NoCommand, NoToken
  <1>5. \A token, op : Current(token, op) => Current(token, op)'
    BY <1>1, <1>4 DEF Current
  <1>6. Horizon \in Nat /\ Horizon >= 1
    BY <1>1, NumbersTyped
  <1>7. \A i \in 1 .. Len(commands) : commands[i].op # "SHUTDOWN" => commands[i].token # NoToken
    <2>1. commands \in Seq(Command \cup Closing)
      BY <1>1 DEF QueueTypes
    <2>2. \A i \in 1 .. Len(commands) : commands[i] \in Command \cup Closing
      BY <2>1
    <2>3. \A c \in Command \cup Closing : c.token # NoToken
      BY MaxOperationsAssumption DEF Command, Closing, OperationTokens, Tokens, Numbers, NoToken
    <2> QED  BY <2>2, <2>3
  <1>8. Live'
    BY <1>1, <1>4, <1>5, <1>6, <1>7 DEF Live
  <1>9. Threads'
    BY <1>1 DEF Threads
  <1>10. Cancelling'
    <2>1. source'.active = NoToken /\ ~ source'.set /\ source'.pending = source.pending
      BY <1>2
    <2>2. \A n \in heard : n # 0
      BY <1>1 DEF QueueTypes
    <2>3. CancellationIsItsOwn'
      BY <1>1, <1>4, <2>1, <2>2 DEF Cancelling, CancellationIsItsOwn
    <2> QED  BY <1>1, <1>4, <2>1, <2>3 DEF Cancelling
  <1>11. DocumentReports' /\ RequestReports'
    BY <1>1, <1>4 DEF DocumentReports, RequestReports, IsOpen
  <1>12. ~ state.shuttingDown => QuestionShown' /\ ScopeShown'
    BY <1>1, <1>4 DEF QuestionShown, ScopeShown, Only, IsOpen, Told
  <1> QED  BY <1>1, <1>3, <1>8, <1>9, <1>10, <1>11, <1>12 DEF IInv

\* The worker closes everything it holds and ends its thread.
LEMMA ShutdownStep ==
    ASSUME IInv, Shutdown
    PROVE  IInv'
  <1>1. /\ TypeOK /\ QueueTypes /\ Live /\ Threads /\ Cancelling /\ DocumentReports /\ RequestReports
        /\ step = "idle" /\ commands # <<>> /\ commands' = Tail(commands)
        /\ Head(commands).op = "SHUTDOWN"
        /\ resources' = "closed" /\ thread' = "finished"
        /\ runtime' = IF runtime = "open" THEN "released" ELSE runtime
        /\ events' = Append(events, Finished)
        /\ UNCHANGED <<state, next, epoch, window, running, step, scope, rows, documents, requests,
                       source, asked, heard>>
    BY DEF IInv, Shutdown, Pending, gui, durable, flags, Emit, Finished
  <1>2. /\ commands' \in Seq(Command \cup Closing)
        /\ \A i \in 1 .. Len(commands') :
                commands'[i].op = "SHUTDOWN" /\ state.shuttingDown /\ commands'[i].token = state.token
        /\ \A x \in ToSet(commands') : x \in ToSet(commands) /\ x.op = "SHUTDOWN"
    BY <1>1, Popped
  <1>3. state.shuttingDown
    <2>1. commands \in Seq(Command \cup Closing)
      BY <1>1 DEF QueueTypes
    <2>2. 1 \in 1 .. Len(commands) /\ Head(commands) = commands[1]
      BY <1>1, <2>1
    <2> QED  BY <1>1, <2>2 DEF Live
  <1>4. events' \in Seq(Event \cup {Finished}) /\ ToSet(events') = ToSet(events) \cup {Finished}
    <2> DEFINE S == Event \cup {Finished}
    <2>1. events \in Seq(S) /\ Finished \in S
      BY <1>1 DEF QueueTypes
    <2> HIDE DEF S
    <2>2. Append(events, Finished) \in Seq(S)
          /\ ToSet(Append(events, Finished)) = ToSet(events) \cup {Finished}
      BY <2>1, Appended
    <2> QED  BY <1>1, <2>2 DEF S
  <1>5. TypeOK' /\ QueueTypes'
    BY <1>1, <1>2, <1>4 DEF TypeOK, QueueTypes
  <1>6. /\ Horizon' = Horizon /\ ~ Mid /\ ~ Mid'
        /\ Finished.kind \notin {"READY", "CANCELLED", "FAILED", "COMPLETED"}
    BY <1>1 DEF Horizon, Mid, Finished
  <1>7. \A token, op : Current(token, op) => Current(token, op)'
    BY <1>1, <1>6 DEF Current
  <1>8. Live'
    BY <1>1, <1>2, <1>3, <1>4, <1>6, <1>7 DEF Live
  <1>9. Threads'
    BY <1>1, <1>3 DEF Threads, Live
  <1>10. Cancelling'
    BY <1>1, <1>2, <1>4, <1>6 DEF Cancelling, CancellationIsItsOwn
  <1>11. DocumentReports' /\ RequestReports'
    BY <1>1, <1>2, <1>4, <1>6 DEF DocumentReports, RequestReports, IsOpen
  <1> QED  BY <1>1, <1>3, <1>5, <1>8, <1>9, <1>10, <1>11 DEF IInv
------------------------------------------------------------------------------
(* What the GUI thread finds.                                              *)

\* Nothing is in flight when no operation is active.
LEMMA IdleIsQuiet ==
    ASSUME TypeOK, QueueTypes, Live, ~ state.shuttingDown, state.active = "NONE"
    PROVE  commands = <<>> /\ events = <<>> /\ ~ Mid
  <1>1. state.token = NoToken
    BY DEF TypeOK
  <1>2. commands \in Seq(Command \cup Closing) /\ events \in Seq(Event \cup {Finished})
    BY DEF QueueTypes
  <1>3. \A t \in OperationTokens : t # NoToken
    BY DEF OperationTokens, NoToken
  <1>4. commands = <<>>
    <2> SUFFICES ASSUME commands # <<>>
                 PROVE  FALSE
      OBVIOUS
    <2>1. 1 \in 1 .. Len(commands) /\ commands[1] \in Command \cup Closing
      BY <1>2
    <2>2. commands[1].op # "SHUTDOWN" /\ commands[1].token = NoToken
      BY <1>1, <2>1 DEF Live, Current
    <2>3. commands[1].token \in OperationTokens
      BY <2>1, <2>2 DEF Command, Closing
    <2> QED  BY <1>3, <2>2, <2>3
  <1>5. events = <<>>
    <2> SUFFICES ASSUME events # <<>>
                 PROVE  FALSE
      OBVIOUS
    <2>1. Head(events) \in Event \cup {Finished} /\ Head(events) \in ToSet(events)
      BY <1>2, Taken
    <2>2. Head(events) # Finished /\ Head(events).token = NoToken
      BY <1>1, <2>1 DEF Live, Current
    <2>3. Head(events).token \in OperationTokens
      BY <2>1, <2>2 DEF Event
    <2> QED  BY <1>3, <2>2, <2>3
  <1>6. ~ Mid
    BY <1>1, RunningTyped DEF Live, Current
  <1> QED  BY <1>4, <1>5, <1>6

\* A signal that is accepted belongs to the operation on the screen, which is nowhere
\* else in flight; if the signal is a terminal one, nothing of it is.
LEMMA Delivered ==
    ASSUME TypeOK, QueueTypes, Live, NEW kind, kind # "FINISHED", Deliver(kind)
    PROVE  /\ ~ state.shuttingDown /\ commands = <<>> /\ state.active # "NONE"
           /\ Head(events) \in Event /\ Head(events).kind = kind /\ Head(events) \in ToSet(events)
           /\ Head(events).token = state.token /\ AnswerTo(Head(events)) = state.active
           /\ state.token \in OperationTokens
           /\ events' \in Seq(Event \cup {Finished}) /\ ToSet(events') \subseteq ToSet(events)
           /\ ToSet(events) = {Head(events)} \cup ToSet(events')
           /\ \A i \in 1 .. Len(events') - 1 : Interim(events'[i])
           /\ ~ Interim(Head(events)) => events' = <<>> /\ ToSet(events') = {} /\ ~ Mid
  <1> DEFINE S == Event \cup {Finished}
  <1>1. /\ events \in Seq(S) /\ events # <<>> /\ events' = Tail(events)
        /\ Head(events).kind = kind /\ Head(events).token = state.token
    BY DEF QueueTypes, Deliver, Accepts
  <1>2. /\ Head(events) \in S /\ Head(events) \in ToSet(events) /\ Head(events) = events[1]
        /\ Tail(events) \in Seq(S) /\ ToSet(Tail(events)) \subseteq ToSet(events)
        /\ Len(events) \in Nat /\ Len(events) >= 1 /\ Len(Tail(events)) = Len(events) - 1
        /\ \A i \in 1 .. Len(events) - 1 : Tail(events)[i] = events[i + 1]
    <2> HIDE DEF S
    <2> QED  BY <1>1, Taken, Elements
  <1>3. Head(events) \in Event /\ Head(events) # Finished
    BY <1>1, <1>2 DEF Finished
  <1>4. Head(events).token \in OperationTokens /\ Head(events).token # NoToken
    BY <1>3 DEF Event, OperationTokens, NoToken
  <1>5. Current(Head(events).token, AnswerTo(Head(events)))
    BY <1>2, <1>3 DEF Live
  <1>6. ~ state.shuttingDown
    BY <1>1, <1>5, NumbersTyped DEF Current, Horizon
  <1>7. AnswerTo(Head(events)) = state.active /\ state.active # "NONE"
    BY <1>1, <1>4, <1>5, <1>6 DEF Current, TypeOK
  <1>8. commands = <<>>
    <2> SUFFICES ASSUME commands # <<>>
                 PROVE  FALSE
      OBVIOUS
    <2>1. commands \in Seq(Command \cup Closing)
      BY DEF QueueTypes
    <2>2. 1 \in 1 .. Len(commands)
      BY <2>1
    <2> QED  BY <1>1, <1>6, <2>2 DEF Live
  <1>9. \A i \in 1 .. Len(Tail(events)) - 1 : Interim(Tail(events)[i])
    <2> SUFFICES ASSUME NEW i \in 1 .. Len(Tail(events)) - 1
                 PROVE  Interim(Tail(events)[i])
      OBVIOUS
    <2>1. i \in 1 .. Len(events) - 1 /\ i + 1 \in 1 .. Len(events) - 1
      BY <1>2
    <2> QED  BY <1>2, <1>6, <2>1 DEF Live
  <1>10. ToSet(events) = {Head(events)} \cup ToSet(Tail(events))
    <2>1. \A x \in ToSet(events) : \E i \in 1 .. Len(events) : events[i] = x
      <3> HIDE DEF S
      <3> QED  BY <1>1, Elements
    <2>2. \A i \in 1 .. Len(events) - 1 : Tail(events)[i] \in ToSet(Tail(events))
      <3> HIDE DEF S
      <3>1. \A i \in 1 .. Len(Tail(events)) : Tail(events)[i] \in ToSet(Tail(events))
        BY <1>2, Elements
      <3> QED  BY <1>2, <3>1
    <2>3. \A i \in 1 .. Len(events) : i = 1 \/ (i - 1 \in 1 .. Len(events) - 1 /\ (i - 1) + 1 = i)
      BY <1>2
    <2>4. \A i \in 1 .. Len(events) : i # 1 => events[i] \in ToSet(Tail(events))
      BY <1>2, <2>2, <2>3
    <2> QED  BY <1>2, <2>1, <2>4
  <1>11. ASSUME ~ Interim(Head(events))
         PROVE  Tail(events) = <<>> /\ ToSet(Tail(events)) = {} /\ ~ Mid
    <2>1. ~ (1 \in 1 .. Len(events) - 1)
      BY <1>2, <1>6, <1>11 DEF Live
    <2>2. Len(Tail(events)) = 0
      BY <1>2, <2>1
    <2>3. Tail(events) = <<>>
      <3> HIDE DEF S
      <3> QED  BY <1>2, <2>2, Elements
    <2>4. ~ Mid
      BY <1>2, <1>11 DEF Live
    <2> QED  BY <2>3, <2>4, Nothing
  <1> QED  BY <1>1, <1>2, <1>3, <1>4, <1>6, <1>7, <1>8, <1>9, <1>10, <1>11
------------------------------------------------------------------------------
(* The GUI thread begins an operation.                                     *)

\* Nothing is in flight; the command c is queued, and it has the next number.
Begins(op, c) ==
    /\ ~ state.shuttingDown /\ state.active \notin {"SELECT", "QUESTION"}
    /\ commands = <<>> /\ events' = <<>> /\ ~ Mid
    /\ next <= MaxOperations /\ next' = next + 1
    /\ c \in Command /\ c.token = Token /\ OperationOf(c) = op
    /\ commands' = Append(commands, c)
    /\ state' = [state EXCEPT !.capability = state'.capability, !.document = state'.document,
                              !.question = state'.question, !.active = op, !.token = Token]
    /\ state'.capability \in Capabilities
    /\ state'.document \in {state.document, "IMPORTING"}
    /\ state'.question \in {state.question, "PREPARING"}
    /\ thread' = "running"
    /\ UNCHANGED <<epoch, window, running, step, scope, resources, runtime, rows, documents,
                   requests, source, asked, heard>>

\* What the queue of commands and the screen hold when an operation has begun.
LEMMA BegunFacts ==
    ASSUME IInv, NEW op, NEW c, Begins(op, c)
    PROVE  /\ op \in Operations \ {"SHUTDOWN"} /\ c.op # "SHUTDOWN" /\ c.token = Token
           /\ Token \in OperationTokens /\ Token \in Tokens /\ Token # NoToken /\ Token.number = next
           /\ Horizon = next /\ Horizon' = next + 1 /\ next \in Numbers /\ next \in Nat
           /\ ToSet(commands') = {c} /\ Len(commands') = 1 /\ commands'[1] = c
           /\ commands' \in Seq(Command \cup Closing)
           /\ state' \in Displays
           /\ state'.active = op /\ state'.token = Token /\ ~ state'.shuttingDown
           /\ state'.shown = state.shown /\ state'.qa = state.qa
           /\ state'.workspaces = state.workspaces /\ state'.selected = state.selected
  <1>1. TypeOK /\ QueueTypes /\ Live
    BY DEF IInv
  <1>2. /\ ~ state.shuttingDown /\ commands = <<>>
        /\ next <= MaxOperations /\ next' = next + 1
        /\ c \in Command /\ c.token = Token /\ OperationOf(c) = op
        /\ commands' = Append(commands, c)
        /\ state' = [state EXCEPT !.capability = state'.capability, !.document = state'.document,
                              !.question = state'.question, !.active = op, !.token = Token]
        /\ state'.capability \in Capabilities
        /\ state'.document \in {state.document, "IMPORTING"}
        /\ state'.question \in {state.question, "PREPARING"}
    BY DEF Begins
  <1>3. c.op \in {"STARTUP", "LIST", "CREATE", "DOCUMENT", "QUESTION", "SELECT", "RETRY"}
    BY <1>2 DEF Command
  <1>4. op \in Operations \ {"SHUTDOWN"} /\ c.op # "SHUTDOWN"
    BY <1>2, <1>3 DEF OperationOf, Operations
  <1>5. next \in 1 .. MaxOperations /\ next \in Numbers /\ next \in Nat /\ epoch \in Nat
    BY <1>1, <1>2, MaxOperationsAssumption DEF TypeOK, Numbers
  <1>6. Token \in OperationTokens /\ Token \in Tokens /\ Token # NoToken /\ Token.number = next
    BY <1>5 DEF Token, OperationTokens, Tokens, NoToken
  <1>7. state \in Displays
    BY <1>1 DEF TypeOK, Displays
  <1>8. state'.document \in DocumentDisplays /\ state'.question \in QuestionDisplays
    BY <1>2, <1>7 DEF Displays, DocumentDisplays, Phases, QuestionDisplays
  <1>9. /\ state' \in Displays
        /\ state'.active = op /\ state'.token = Token /\ ~ state'.shuttingDown
        /\ state'.shown = state.shown /\ state'.qa = state.qa
        /\ state'.workspaces = state.workspaces /\ state'.selected = state.selected
    <2> DEFINE a == state'.capability
               b == state'.document
               d == state'.question
    <2>1. /\ a \in Capabilities /\ b \in DocumentDisplays /\ d \in QuestionDisplays
          /\ state' = [state EXCEPT !.capability = a, !.document = b, !.question = d,
                                    !.active = op, !.token = Token]
      BY <1>2, <1>8
    <2> HIDE DEF a, b, d
    <2> QED  BY <1>2, <1>4, <1>6, <1>7, <2>1 DEF Displays
  <1>10. Horizon = next /\ Horizon' = next + 1
    BY <1>2, <1>9 DEF Horizon
  <1>11. /\ ToSet(commands') = {c} /\ Len(commands') = 1 /\ commands'[1] = c
         /\ commands' \in Seq(Command \cup Closing)
    <2> DEFINE S == Command \cup Closing
    <2>1. commands \in Seq(S) /\ c \in S /\ commands' = Append(commands, c)
      BY <1>1, <1>2 DEF QueueTypes
    <2> HIDE DEF S
    <2>2. /\ commands' \in Seq(S) /\ ToSet(commands') = ToSet(commands) \cup {c}
          /\ Len(commands') = Len(commands) + 1 /\ commands'[Len(commands) + 1] = c
      BY <2>1, Appended
    <2> QED  BY <1>2, <2>2, Nothing DEF S
  <1> QED  BY <1>2, <1>4, <1>5, <1>6, <1>9, <1>10, <1>11

\* An operation that begins keeps everything but what the screen shows.
LEMMA Begun ==
    ASSUME IInv, NEW op, NEW c, Begins(op, c), c.op = "RETRY" => IsOpen(c.qa)
    PROVE  /\ TypeOK' /\ QueueTypes' /\ Live' /\ Threads' /\ Cancelling'
           /\ DocumentReports' /\ RequestReports'
  <1>1. /\ TypeOK /\ QueueTypes /\ Live /\ Threads /\ Cancelling /\ DocumentReports /\ RequestReports
        /\ ~ state.shuttingDown /\ commands = <<>> /\ events' = <<>> /\ ~ Mid
        /\ next <= MaxOperations /\ next' = next + 1 /\ c \in Command /\ OperationOf(c) = op
        /\ state'.document \in {state.document, "IMPORTING"}
        /\ state'.question \in {state.question, "PREPARING"}
        /\ thread' = "running"
        /\ UNCHANGED <<epoch, window, running, step, scope, resources, runtime, rows, documents,
                       requests, source, asked, heard>>
    BY DEF IInv, Begins
  <1>2. /\ op \in Operations \ {"SHUTDOWN"} /\ c.op # "SHUTDOWN" /\ c.token = Token
        /\ Token \in OperationTokens /\ Token \in Tokens /\ Token # NoToken /\ Token.number = next
        /\ Horizon = next /\ Horizon' = next + 1 /\ next \in Numbers /\ next \in Nat
        /\ ToSet(commands') = {c} /\ Len(commands') = 1 /\ commands'[1] = c
        /\ commands' \in Seq(Command \cup Closing)
        /\ state'.active = op /\ state'.token = Token /\ ~ state'.shuttingDown
        /\ state'.shown = state.shown /\ state'.qa = state.qa
    BY BegunFacts
  <1>3. ToSet(events') = {} /\ Len(events') = 0 /\ ~ Mid' /\ op \notin {"NONE", "SHUTDOWN"}
    BY <1>1, <1>2, Nothing DEF Mid, Operations
  <1>4. TypeOK'
    <2>1. state' \in Displays
      BY BegunFacts
    <2>2. (state'.active = "NONE") = (state'.token = NoToken)
      BY <1>2, <1>3
    <2>3. next' \in 1 .. MaxOperations + 2
      BY <1>1, <1>2, MaxOperationsAssumption DEF TypeOK
    <2> QED  BY <1>1, <2>1, <2>2, <2>3 DEF TypeOK, Displays
  <1>5. QueueTypes'
    BY <1>1, <1>2 DEF QueueTypes
  <1>6. /\ running.token.number < next /\ running.token # Token
        /\ Token.epoch = epoch
    BY <1>1, <1>2 DEF Live, Token
  <1>7. running.token.number \in Nat
    <2>1. running.token \in OperationTokens \cup {NoToken}
      BY <1>1 DEF QueueTypes, Command, NoCommand
    <2> QED  BY <2>1, MaxOperationsAssumption DEF OperationTokens, NoToken
  <1>8. Live'
    <2>1. state'.token.number = next' - 1 /\ state'.token.epoch = epoch' /\ next' <= MaxOperations + 1
      BY <1>1, <1>2, <1>6, MaxOperationsAssumption
    <2>2. state'.active # "SHUTDOWN" /\ window' = "open" /\ ~ state'.shuttingDown
      BY <1>1, <1>2, <1>3 DEF Live
    <2>3. Current(c.token, OperationOf(c))'
      BY <1>1, <1>2 DEF Current
    <2>4. \A i \in 1 .. Len(commands') : i = 1 /\ commands'[i] = c
      BY <1>2
    <2>5. running'.token.number < Horizon'
      BY <1>1, <1>2, <1>6, <1>7
    <2>6. running' = NoCommand <=> step' = "idle"
      BY <1>1 DEF Live
    <2>7. \A i \in 1 .. Len(events') - 1 : Interim(events'[i])
      BY <1>3
    <2> QED  BY <1>1, <1>2, <1>3, <1>6, <2>1, <2>2, <2>3, <2>4, <2>5, <2>6, <2>7 DEF Live
  <1>9. Threads'
    BY <1>1, <1>3 DEF Threads, Live
  <1>10. Cancelling'
    <2>1. \A n \in heard : n \in Nat /\ n < next
      BY <1>1, <1>2, MaxOperationsAssumption DEF Cancelling, QueueTypes
    <2>2. \A n \in heard' : n < Horizon'
      BY <1>1, <1>2, <2>1
    <2>3. CancellationIsItsOwn'
      BY <1>1, <1>2, <1>3, <2>1 DEF Cancelling, CancellationIsItsOwn
    <2> QED  BY <1>1, <1>3, <2>2, <2>3 DEF Cancelling
  <1>11. \A n \in Numbers : n \in Nat
    BY MaxOperationsAssumption DEF Numbers
  <1>12. documents[next] = "none" /\ requests[next] = "none"
    BY <1>1, <1>2 DEF DocumentReports, RequestReports
  <1>13. DocumentReports'
    <2>1. \A n \in Numbers : n >= Horizon' => documents'[n] = "none"
      BY <1>1, <1>2, <1>11 DEF DocumentReports
    <2>2. state'.document = "READY" => state'.shown # 0 /\ documents'[state'.shown] = "active"
      BY <1>1, <1>2 DEF DocumentReports
    <2> QED  BY <1>1, <1>2, <1>3, <1>12, <2>1, <2>2 DEF DocumentReports
  <1>14. RequestReports'
    <2>1. \A n \in Numbers : n >= Horizon' => requests'[n] = "none"
      BY <1>1, <1>2, <1>11 DEF RequestReports
    <2>2. state'.question = "ANSWERED" => state'.qa # 0 /\ requests'[state'.qa] = "COMPLETED"
      BY <1>1, <1>2 DEF RequestReports
    <2> QED  BY <1>1, <1>2, <1>3, <1>12, <2>1, <2>2 DEF RequestReports, IsOpen
  <1> QED  BY <1>4, <1>5, <1>8, <1>9, <1>10, <1>13, <1>14

\* An operation that shows nothing of its own, and one that needs no scope.
LEMMA BegunShowing ==
    ASSUME IInv, NEW op, NEW c, Begins(op, c), c.op # "RETRY",
           op \in {"STARTUP", "LIST", "CREATE", "SELECT", "DOCUMENT", "QUESTION"},
           op = "STARTUP" => state'.capability = "STARTING",
           op = "LIST" => state.active = "STARTUP",
           op # "LIST" => state'.capability = state.capability,
           op = "SELECT" => c.workspace \in state.workspaces /\ state.capability # "STARTING",
           op = "DOCUMENT" => state.document = "EMPTY",
           op = "QUESTION" => state.document = "READY" /\ state.qa = 0 /\ state'.question = "PREPARING",
           op # "DOCUMENT" => state'.document = state.document,
           op # "QUESTION" => state'.question = state.question
    PROVE  IInv'
  <1>1. /\ QuestionShown /\ ScopeShown
        /\ ~ Mid /\ events' = <<>> /\ c \in Command /\ OperationOf(c) = op
        /\ state.active \notin {"SELECT", "QUESTION"}
        /\ UNCHANGED <<step, scope, requests>>
    BY DEF IInv, Begins
  <1>2. /\ ToSet(commands') = {c}
        /\ state'.active = op /\ state'.shown = state.shown /\ state'.qa = state.qa
        /\ state'.workspaces = state.workspaces /\ state'.selected = state.selected
    BY BegunFacts
  <1>3. ToSet(events') = {} /\ ~ Mid'
    BY <1>1, Nothing DEF Mid
  <1>4. \A r : (Only(r)' <=> Only(r)) /\ (IsOpen(r)' <=> IsOpen(r))
    BY <1>1, <1>2 DEF Only, IsOpen
  <1>5. QuestionShown'
    <2>1. CASE op = "DOCUMENT"
      <3>1. state.qa = 0 /\ state'.qa = 0 /\ state'.document # "READY"
        BY <1>1, <1>2, <2>1 DEF QuestionShown, Begins
      <3> QED  BY <1>2, <2>1, <3>1 DEF QuestionShown
    <2>2. CASE op = "QUESTION"
      <3>1. Only(0)
        BY <1>1, <2>2 DEF QuestionShown
      <3>2. Only(0)'
        BY <1>4, <3>1
      <3> QED  BY <1>2, <1>3, <2>2, <3>2 DEF QuestionShown
    <2>3. CASE op \notin {"DOCUMENT", "QUESTION"}
      <3>1. state'.document = state.document /\ state'.question = state.question
        BY <2>3
      <3>2. state.document = "READY" => Only(state.qa)
        BY <1>1 DEF QuestionShown
      <3>3. state.qa # 0 =>
            \/ IsOpen(state.qa) /\ state.question \in {"FAILED", "CANCELLED"}
            \/ requests[state.qa] = "COMPLETED" /\ state.question = "ANSWERED"
        BY <1>1 DEF QuestionShown
      <3>4. state.qa # 0 => state.document = "READY"
        BY <1>1 DEF QuestionShown
      <3>5. state'.document = "READY" => Only(state.qa)'
        BY <1>1, <1>2, <3>1, <3>2 DEF Only
      <3>6. state'.qa # 0 =>
            \/ IsOpen(state.qa)' /\ state'.question \in {"FAILED", "CANCELLED"}
            \/ requests'[state'.qa] = "COMPLETED" /\ state'.question = "ANSWERED"
        BY <1>1, <1>2, <3>1, <3>3 DEF IsOpen
      <3>7. state'.qa # 0 => state'.document = "READY"
        BY <1>2, <3>1, <3>4
      <3> QED  BY <1>2, <2>3, <3>5, <3>6, <3>7 DEF QuestionShown
    <2> QED  BY <2>1, <2>2, <2>3
  <1>6. ScopeShown'
    BY <1>1, <1>2, <1>3 DEF ScopeShown
  <1>7. /\ TypeOK' /\ QueueTypes' /\ Live' /\ Threads' /\ Cancelling'
        /\ DocumentReports' /\ RequestReports'
    BY Begun
  <1> QED  BY <1>5, <1>6, <1>7 DEF IInv

\* What Submit leaves alone, and what it finds.
LEMMA Submitted ==
    ASSUME IInv, NEW op, NEW display, NEW c, Submit(op, display, c),
           state.capability # "STARTING" \/ state.document # "EMPTY"
    PROVE  /\ ~ state.shuttingDown /\ state.active = "NONE"
           /\ commands = <<>> /\ events' = <<>> /\ ~ Mid
           /\ next \in 1 .. MaxOperations /\ next <= MaxOperations /\ next' = next + 1
           /\ Token \in OperationTokens
           /\ state' = [display EXCEPT !.active = op, !.token = Token]
           /\ commands' = Append(commands, c) /\ thread' = "running"
           /\ state.capability \in Capabilities
           /\ UNCHANGED <<epoch, window, running, step, scope, resources, runtime, rows, documents,
                          requests, source, asked, heard>>
  <1>1. TypeOK /\ QueueTypes /\ Live /\ Threads /\ ~ state.shuttingDown /\ state.active = "NONE"
    BY DEF IInv, Submit, Idle
  <1>2. commands = <<>> /\ events = <<>> /\ ~ Mid
    BY <1>1, IdleIsQuiet
  <1>3. /\ window = "open" /\ next <= MaxOperations /\ next' = next + 1 /\ events' = events
        /\ state' = [display EXCEPT !.active = op, !.token = Token]
        /\ commands' = Append(commands, c) /\ thread' = thread
        /\ UNCHANGED <<epoch, window, running, step, scope, resources, runtime, rows, documents,
                       requests, source, asked, heard>>
    BY DEF Submit, Begin, worker, durable, flags
  <1>4. next \in 1 .. MaxOperations /\ epoch \in Nat /\ state.capability \in Capabilities
    BY <1>1, <1>3, MaxOperationsAssumption DEF TypeOK
  <1>5. Token \in OperationTokens
    BY <1>4 DEF Token, OperationTokens
  <1>6. thread = "running"
    BY <1>1, <1>3 DEF Threads, TypeOK
  <1> QED  BY <1>1, <1>2, <1>3, <1>4, <1>5, <1>6

\* The window starts the worker's thread and the startup.
LEMMA StartStep ==
    ASSUME IInv, Start
    PROVE  IInv'
  <1>1. /\ TypeOK /\ QueueTypes /\ Live /\ Threads /\ ~ state.shuttingDown /\ state.active = "NONE"
        /\ thread = "new" /\ thread' = "running"
        /\ next <= MaxOperations /\ next' = next + 1
        /\ state' = [state EXCEPT !.active = "STARTUP", !.token = Token]
        /\ commands' = Append(commands, [op |-> "STARTUP", token |-> Token])
        /\ UNCHANGED <<epoch, window, events, running, step, scope, resources, runtime, rows,
                       documents, requests, source, asked, heard>>
    BY DEF IInv, Start, Begin, Idle, durable, flags
  <1>2. commands = <<>> /\ events = <<>> /\ ~ Mid /\ state.capability = "STARTING"
    BY <1>1, IdleIsQuiet DEF Threads
  <1>3. next \in 1 .. MaxOperations /\ epoch \in Nat /\ state.capability \in Capabilities
    BY <1>1, MaxOperationsAssumption DEF TypeOK
  <1>4. PICK c \in Command : c = [op |-> "STARTUP", token |-> Token]
    BY <1>3 DEF Token, OperationTokens, Command
  <1>5. Begins("STARTUP", c)
    <2>1. /\ state'.capability = state.capability /\ state'.document = state.document
          /\ state'.question = state.question
          /\ state' = [state EXCEPT !.capability = state.capability, !.document = state.document,
                              !.question = state.question, !.active = "STARTUP", !.token = Token]
      BY <1>1 DEF TypeOK
    <2> QED  BY <1>1, <1>2, <1>3, <1>4, <2>1 DEF Begins, OperationOf
  <1>6. /\ state'.capability = "STARTING" /\ state'.capability = state.capability
        /\ state'.document = state.document /\ state'.question = state.question /\ c.op # "RETRY"
    BY <1>1, <1>2, <1>4 DEF TypeOK
  <1> QED  BY <1>5, <1>6, BegunShowing

\* The user creates or selects a workspace.
LEMMA RequestWorkspaceSteps ==
    ASSUME IInv, RequestCreateWorkspace \/ \E k \in Workspaces : RequestSelectWorkspace(k)
    PROVE  IInv'
  <1>1. PICK op \in {"CREATE", "SELECT"}, c \in Command :
            /\ Submit(op, state, c) /\ state.capability # "STARTING"
            /\ c.op = op /\ c.token = Token
            /\ op = "SELECT" => c.workspace \in state.workspaces
    <2>1. CASE RequestCreateWorkspace
      <3>1. /\ Submit("CREATE", state, [op |-> "CREATE", token |-> Token])
            /\ state.capability # "STARTING"
        BY <2>1 DEF RequestCreateWorkspace, WorkspacesAvailable
      <3>2. Token \in OperationTokens
        BY <3>1, Submitted
      <3>3. [op |-> "CREATE", token |-> Token] \in Command
        BY <3>2 DEF Command
      <3> QED  BY <3>1, <3>3
    <2>2. ASSUME NEW k \in Workspaces, RequestSelectWorkspace(k)
          PROVE  \E op \in {"CREATE", "SELECT"}, c \in Command :
            /\ Submit(op, state, c) /\ state.capability # "STARTING"
            /\ c.op = op /\ c.token = Token
            /\ op = "SELECT" => c.workspace \in state.workspaces
      <3>1. /\ Submit("SELECT", state, [op |-> "SELECT", token |-> Token, workspace |-> k])
            /\ state.capability # "STARTING" /\ k \in state.workspaces
        BY <2>2 DEF RequestSelectWorkspace, WorkspacesAvailable
      <3>2. Token \in OperationTokens
        BY <3>1, Submitted
      <3>3. [op |-> "SELECT", token |-> Token, workspace |-> k] \in Command
        BY <3>2 DEF Command
      <3> QED  BY <3>1, <3>3
    <2> QED  BY <2>1, <2>2
  <1>2. /\ ~ state.shuttingDown /\ state.active = "NONE"
        /\ commands = <<>> /\ events' = <<>> /\ ~ Mid
        /\ next <= MaxOperations /\ next' = next + 1
        /\ state' = [state EXCEPT !.active = op, !.token = Token]
        /\ commands' = Append(commands, c) /\ thread' = "running"
        /\ state.capability \in Capabilities
        /\ UNCHANGED <<epoch, window, running, step, scope, resources, runtime, rows, documents,
                       requests, source, asked, heard>>
    BY <1>1, Submitted
  <1>3. /\ state'.capability = state.capability /\ state'.document = state.document
        /\ state'.question = state.question
        /\ state' = [state EXCEPT !.capability = state.capability, !.document = state.document,
                              !.question = state.question, !.active = op, !.token = Token]
    BY <1>2 DEF IInv, TypeOK
  <1>4. Begins(op, c)
    BY <1>1, <1>2, <1>3 DEF Begins, OperationOf
  <1> QED  BY <1>1, <1>3, <1>4, BegunShowing

\* The user imports a PDF.
LEMMA RequestImportStep ==
    ASSUME IInv, RequestImportPdf
    PROVE  IInv'
  <1>1. /\ Submit("DOCUMENT", [state EXCEPT !.document = "IMPORTING"],
                  [op |-> "DOCUMENT", token |-> Token])
        /\ state.document = "EMPTY"
        /\ state.capability # "STARTING" \/ state.document # "EMPTY"
    BY DEF RequestImportPdf
  <1>2. /\ ~ state.shuttingDown /\ state.active = "NONE"
        /\ commands = <<>> /\ events' = <<>> /\ ~ Mid
        /\ next <= MaxOperations /\ next' = next + 1 /\ Token \in OperationTokens
        /\ state' = [[state EXCEPT !.document = "IMPORTING"]
                        EXCEPT !.active = "DOCUMENT", !.token = Token]
        /\ commands' = Append(commands, [op |-> "DOCUMENT", token |-> Token])
        /\ thread' = "running" /\ state.capability \in Capabilities
        /\ UNCHANGED <<epoch, window, running, step, scope, resources, runtime, rows, documents,
                       requests, source, asked, heard>>
    <2> DEFINE display == [state EXCEPT !.document = "IMPORTING"]
               command == [op |-> "DOCUMENT", token |-> Token]
    <2>1. Submit("DOCUMENT", display, command)
      BY <1>1
    <2> HIDE DEF display, command
    <2>2. /\ ~ state.shuttingDown /\ state.active = "NONE"
          /\ commands = <<>> /\ events' = <<>> /\ ~ Mid
          /\ next \in 1 .. MaxOperations /\ next <= MaxOperations /\ next' = next + 1
          /\ Token \in OperationTokens
          /\ state' = [display EXCEPT !.active = "DOCUMENT", !.token = Token]
          /\ commands' = Append(commands, command) /\ thread' = "running"
          /\ state.capability \in Capabilities
          /\ UNCHANGED <<epoch, window, running, step, scope, resources, runtime, rows, documents,
                         requests, source, asked, heard>>
      BY <1>1, <2>1, Submitted
    <2> QED  BY <2>2 DEF display, command
  <1>3. PICK c \in Command : c = [op |-> "DOCUMENT", token |-> Token]
    BY <1>2 DEF Command
  <1>4. /\ state'.capability = state.capability /\ state'.document = "IMPORTING"
        /\ state'.question = state.question
        /\ state' = [state EXCEPT !.capability = state.capability, !.document = "IMPORTING",
                              !.question = state.question, !.active = "DOCUMENT", !.token = Token]
    BY <1>2 DEF IInv, TypeOK
  <1>5. Begins("DOCUMENT", c)
    BY <1>2, <1>3, <1>4 DEF Begins, OperationOf
  <1>6. c.op # "RETRY"
    BY <1>3
  <1> QED  BY <1>1, <1>4, <1>5, <1>6, BegunShowing

\* The user asks a question.
LEMMA RequestQuestionStep ==
    ASSUME IInv, RequestQuestion
    PROVE  IInv'
  <1>1. /\ Submit("QUESTION", [state EXCEPT !.question = "PREPARING"],
                  [op |-> "QUESTION", token |-> Token])
        /\ state.document = "READY" /\ state.qa = 0
    BY DEF RequestQuestion
  <1>2. /\ ~ state.shuttingDown /\ state.active = "NONE"
        /\ commands = <<>> /\ events' = <<>> /\ ~ Mid
        /\ next <= MaxOperations /\ next' = next + 1 /\ Token \in OperationTokens
        /\ state' = [[state EXCEPT !.question = "PREPARING"]
                        EXCEPT !.active = "QUESTION", !.token = Token]
        /\ commands' = Append(commands, [op |-> "QUESTION", token |-> Token])
        /\ thread' = "running" /\ state.capability \in Capabilities
        /\ UNCHANGED <<epoch, window, running, step, scope, resources, runtime, rows, documents,
                       requests, source, asked, heard>>
    BY <1>1, Submitted
  <1>3. PICK c \in Command : c = [op |-> "QUESTION", token |-> Token]
    BY <1>2 DEF Command
  <1>4. /\ state'.capability = state.capability /\ state'.document = state.document
        /\ state'.question = "PREPARING"
        /\ state' = [state EXCEPT !.capability = state.capability, !.document = state.document,
                              !.question = "PREPARING", !.active = "QUESTION", !.token = Token]
    BY <1>2 DEF IInv, TypeOK
  <1>5. Begins("QUESTION", c)
    BY <1>2, <1>3, <1>4 DEF Begins, OperationOf
  <1>6. c.op # "RETRY"
    BY <1>3
  <1> QED  BY <1>1, <1>4, <1>5, <1>6, BegunShowing

\* The user retries the question the GUI holds.
LEMMA RequestRetryStep ==
    ASSUME IInv, RequestQuestionRetry
    PROVE  IInv'
  <1>1. /\ Submit("QUESTION", [state EXCEPT !.question = "PREPARING"],
                  [op |-> "RETRY", token |-> Token, qa |-> state.qa])
        /\ state.qa # 0 /\ state.question \in {"FAILED", "CANCELLED"}
        /\ TypeOK /\ QuestionShown /\ ScopeShown
    BY DEF RequestQuestionRetry, IInv, Submit, Idle
  <1>2. state.document = "READY"
    BY <1>1 DEF QuestionShown
  <1>3. /\ ~ state.shuttingDown /\ state.active = "NONE"
        /\ commands = <<>> /\ events' = <<>> /\ ~ Mid
        /\ next <= MaxOperations /\ next' = next + 1 /\ Token \in OperationTokens
        /\ state' = [[state EXCEPT !.question = "PREPARING"]
                        EXCEPT !.active = "QUESTION", !.token = Token]
        /\ commands' = Append(commands, [op |-> "RETRY", token |-> Token, qa |-> state.qa])
        /\ thread' = "running" /\ state.capability \in Capabilities
        /\ UNCHANGED <<epoch, window, running, step, scope, resources, runtime, rows, documents,
                       requests, source, asked, heard>>
    BY <1>1, <1>2, Submitted
  <1>4. PICK c \in Command : c = [op |-> "RETRY", token |-> Token, qa |-> state.qa]
    <2>1. state.qa \in 1 .. MaxOperations
      BY <1>1, MaxOperationsAssumption DEF TypeOK
    <2> QED  BY <1>3, <2>1 DEF Command
  <1>5. /\ state'.capability = state.capability /\ state'.document = state.document
        /\ state'.question = "PREPARING"
        /\ state' = [state EXCEPT !.capability = state.capability, !.document = state.document,
                              !.question = "PREPARING", !.active = "QUESTION", !.token = Token]
    BY <1>1, <1>3 DEF TypeOK
  <1>6. Begins("QUESTION", c) /\ c.op = "RETRY" /\ c.qa = state.qa
    BY <1>3, <1>4, <1>5 DEF Begins, OperationOf
  <1>7. /\ ToSet(commands') = {c}
        /\ state'.active = "QUESTION" /\ state'.shown = state.shown /\ state'.qa = state.qa
        /\ state'.workspaces = state.workspaces /\ state'.selected = state.selected
    BY <1>6, BegunFacts
  <1>8. IsOpen(state.qa) /\ Only(state.qa)
    BY <1>1, <1>2, <1>3 DEF QuestionShown
  <1>9. ToSet(events') = {} /\ ~ Mid'
    BY <1>3, Nothing DEF Mid
  <1>10. Only(state.qa)'
    BY <1>3, <1>7, <1>8 DEF Only
  <1>11. QuestionShown'
    <2>1. Only(c.qa)' /\ state'.qa = c.qa
      BY <1>6, <1>7, <1>10 DEF Only
    <2> QED  BY <1>2, <1>5, <1>6, <1>7, <1>9, <2>1 DEF QuestionShown
  <1>12. ScopeShown'
    BY <1>1, <1>3, <1>5, <1>7, <1>9 DEF ScopeShown
  <1>13. /\ TypeOK' /\ QueueTypes' /\ Live' /\ Threads' /\ Cancelling'
         /\ DocumentReports' /\ RequestReports'
    BY <1>6, <1>8, Begun
  <1> QED  BY <1>11, <1>12, <1>13 DEF IInv
------------------------------------------------------------------------------
(* The GUI thread is told of an operation.                                 *)

\* Signals that end the operation release the screen, which then has to show what
\* is stored and where the worker is.
LEMMA ReleasedStep ==
    ASSUME IInv, NEW kind, kind \notin {"FINISHED", "PHASE", "PREPARED"}, Deliver(kind),
           next' = next, commands' = commands, epoch' \in Nat,
           NEW display \in Displays, state' = Released(display), ~ display.shuttingDown,
           display.document = "READY" =>
                /\ display.shown # 0 /\ documents[display.shown] = "active"
                /\ \A n \in Numbers : n > display.shown /\ requests[n] # "none" => n = display.qa,
           display.question = "ANSWERED" => display.qa # 0,
           display.qa # 0 =>
                /\ display.document = "READY"
                /\ \/ IsOpen(display.qa) /\ display.question \in {"FAILED", "CANCELLED"}
                   \/ requests[display.qa] = "COMPLETED" /\ display.question = "ANSWERED",
           display.capability = "STARTING" => display.selected = NoWorkspace,
           scope = display.selected
    PROVE  IInv'
  <1>1. /\ TypeOK /\ QueueTypes /\ Live /\ Threads /\ Cancelling /\ DocumentReports /\ RequestReports
        /\ events # <<>> /\ Head(events).kind = kind
        /\ UNCHANGED <<next, window, commands, thread, running, step, scope, resources, runtime, rows,
                       documents, requests, source, asked, heard>>
    BY DEF IInv, Deliver, worker, durable, flags
  <1>2. /\ ~ state.shuttingDown /\ commands = <<>> /\ events' = <<>> /\ ToSet(events') = {}
        /\ events' \in Seq(Event \cup {Finished}) /\ ~ Mid /\ state.active # "NONE"
    BY <1>1, Delivered DEF Interim
  <1>3. /\ state' \in Displays
        /\ state'.active = "NONE" /\ state'.token = NoToken /\ ~ state'.shuttingDown
        /\ state'.capability = display.capability /\ state'.selected = display.selected
        /\ state'.document = display.document /\ state'.shown = display.shown
        /\ state'.question = display.question /\ state'.qa = display.qa
    BY DEF Released, Displays
  <1>4. ToSet(commands') = {} /\ Len(commands') = 0 /\ Len(events') = 0 /\ ~ Mid'
    BY <1>1, <1>2, Nothing DEF Mid
  <1>5. Horizon = next /\ Horizon' = next
    BY <1>1, <1>2, <1>3 DEF Horizon
  <1>6. TypeOK' /\ QueueTypes'
    BY <1>1, <1>2, <1>3 DEF TypeOK, QueueTypes, Displays
  <1>7. \A i \in 1 .. Len(events') - 1 : Interim(events'[i])
    BY <1>4
  <1>8. Live'
    <2>1. window = "open" /\ next <= MaxOperations + 1 /\ running.token.number < Horizon
      BY <1>1, <1>2 DEF Live
    <2> QED  BY <1>1, <1>2, <1>3, <1>4, <1>5, <1>7, <2>1 DEF Live
  <1>9. Threads'
    BY <1>1, <1>2 DEF Threads
  <1>10. Cancelling'
    BY <1>1, <1>2, <1>4, <1>5 DEF Cancelling, CancellationIsItsOwn
  <1>11. DocumentReports'
    BY <1>1, <1>2, <1>3, <1>4, <1>5 DEF DocumentReports
  <1>12. RequestReports'
    <2>1. state'.question = "ANSWERED" => state'.qa # 0 /\ requests'[state'.qa] = "COMPLETED"
      BY <1>1, <1>3
    <2> QED  BY <1>1, <1>2, <1>4, <1>5, <2>1 DEF RequestReports
  <1>13. QuestionShown'
    <2>1. state'.document = "READY" => Only(display.qa)'
      BY <1>1, <1>3 DEF Only
    <2>2. state'.qa # 0 =>
            \/ IsOpen(display.qa)' /\ state'.question \in {"FAILED", "CANCELLED"}
            \/ requests'[state'.qa] = "COMPLETED" /\ state'.question = "ANSWERED"
      BY <1>1, <1>3 DEF IsOpen
    <2> QED  BY <1>3, <2>1, <2>2 DEF QuestionShown, Only, IsOpen
  <1>14. ScopeShown'
    BY <1>1, <1>3 DEF ScopeShown
  <1> QED  BY <1>6, <1>8, <1>9, <1>10, <1>11, <1>12, <1>13, <1>14 DEF IInv

\* The signal at the head of the queue, once it is accepted.
LEMMA Answered ==
    ASSUME IInv, NEW kind, kind # "FINISHED", Deliver(kind)
    PROVE  /\ state \in Displays /\ QuestionShown /\ ScopeShown /\ ~ state.shuttingDown
           /\ Head(events) \in Event /\ Head(events).kind = kind /\ Head(events) \in ToSet(events)
           /\ AnswerTo(Head(events)) = state.active
           /\ state.active # "QUESTION" =>
                /\ state.document = "READY" =>
                     /\ state.shown # 0 /\ documents[state.shown] = "active"
                     /\ \A n \in Numbers : n > state.shown /\ requests[n] # "none" => n = state.qa
                /\ state.question = "ANSWERED" => state.qa # 0
                /\ state.qa # 0 =>
                     /\ state.document = "READY"
                     /\ \/ IsOpen(state.qa) /\ state.question \in {"FAILED", "CANCELLED"}
                        \/ requests[state.qa] = "COMPLETED" /\ state.question = "ANSWERED"
           /\ state.capability = "STARTING" => state.selected = NoWorkspace
  <1>1. TypeOK /\ QueueTypes /\ Live /\ DocumentReports /\ RequestReports
    BY DEF IInv
  <1>2. /\ ~ state.shuttingDown
        /\ Head(events) \in Event /\ Head(events).kind = kind /\ Head(events) \in ToSet(events)
        /\ AnswerTo(Head(events)) = state.active
    BY <1>1, Delivered
  <1>3. QuestionShown /\ ScopeShown
    BY <1>2 DEF IInv
  <1>4. state \in Displays
    BY <1>1 DEF TypeOK, Displays
  <1>5. state.document = "READY" => state.shown # 0 /\ documents[state.shown] = "active"
    BY <1>1 DEF DocumentReports
  <1>6. state.question = "ANSWERED" => state.qa # 0
    BY <1>1 DEF RequestReports
  <1>7. state.active # "QUESTION" =>
          /\ state.document = "READY" =>
               \A n \in Numbers : n > state.shown /\ requests[n] # "none" => n = state.qa
          /\ state.qa # 0 =>
               /\ state.document = "READY"
               /\ \/ IsOpen(state.qa) /\ state.question \in {"FAILED", "CANCELLED"}
                  \/ requests[state.qa] = "COMPLETED" /\ state.question = "ANSWERED"
    BY <1>3 DEF QuestionShown, Only
  <1>8. state.capability = "STARTING" => state.selected = NoWorkspace
    BY <1>3 DEF ScopeShown
  <1> QED  BY <1>2, <1>3, <1>4, <1>5, <1>6, <1>7, <1>8

\* The foundation cannot be used, or the first listing begins in the same slot.
LEMMA CapabilityStep ==
    ASSUME IInv, AcceptCapability
    PROVE  IInv'
  <1>1. Deliver("CAPABILITY") /\ epoch' = epoch
    BY DEF AcceptCapability
  <1>2. PICK e \in Event : e = Head(events) /\ e.kind = "CAPABILITY"
    BY <1>1, Answered
  <1>3. /\ state \in Displays /\ QuestionShown /\ ScopeShown /\ ~ state.shuttingDown
        /\ e.capability \in Capabilities /\ state.active = "STARTUP"
    <2>1. e.capability \in Capabilities
      BY <1>2 DEF Event
    <2> QED  BY <1>1, <1>2, <2>1, Answered DEF AnswerTo
  <1>4. PICK display \in Displays : display = [state EXCEPT !.capability = e.capability]
    BY <1>3 DEF Displays
  <1>5. /\ display.capability = e.capability /\ ~ display.shuttingDown
        /\ display.document = state.document /\ display.shown = state.shown
        /\ display.question = state.question /\ display.qa = state.qa
        /\ display.selected = state.selected
    BY <1>3, <1>4 DEF Displays
  <1>6. scope = state.selected /\ state.selected = NoWorkspace
    BY <1>3 DEF ScopeShown
  <1>7. CASE display.capability = "FATAL_STARTUP"
    <2>1. state' = Released(display) /\ next' = next /\ commands' = commands /\ epoch' \in Nat
      BY <1>1, <1>2, <1>4, <1>7 DEF AcceptCapability, IInv, TypeOK
    <2>2. /\ display.document = "READY" =>
                /\ display.shown # 0 /\ documents[display.shown] = "active"
                /\ \A n \in Numbers : n > display.shown /\ requests[n] # "none" => n = display.qa
          /\ display.question = "ANSWERED" => display.qa # 0
          /\ display.qa # 0 =>
                /\ display.document = "READY"
                /\ \/ IsOpen(display.qa) /\ display.question \in {"FAILED", "CANCELLED"}
                   \/ requests[display.qa] = "COMPLETED" /\ display.question = "ANSWERED"
      BY <1>1, <1>3, <1>5, Answered
    <2> QED  BY <1>1, <1>5, <1>6, <2>1, <2>2, ReleasedStep
  <1>8. CASE display.capability # "FATAL_STARTUP"
    <2>1. /\ next <= MaxOperations /\ next' = next + 1
          /\ state' = [display EXCEPT !.active = "LIST", !.token = Token]
          /\ commands' = Append(commands, [op |-> "LIST", token |-> Token])
      BY <1>2, <1>4, <1>8 DEF AcceptCapability, Begin
    <2>2. commands = <<>> /\ events' = <<>> /\ ~ Mid /\ window = "open" /\ events # <<>>
      BY <1>1, <1>2, <1>3, Delivered DEF IInv, Interim, Live, Deliver
    <2>3. /\ thread' = "running"
          /\ UNCHANGED <<epoch, window, running, step, scope, resources, runtime, rows, documents,
                         requests, source, asked, heard>>
      BY <1>1, <2>2 DEF IInv, TypeOK, Threads, Deliver, worker, durable, flags
    <2>4. Token \in OperationTokens
      BY <2>1, MaxOperationsAssumption DEF IInv, TypeOK, Token, OperationTokens
    <2>5. PICK c \in Command : c = [op |-> "LIST", token |-> Token]
      BY <2>4 DEF Command
    <2>6. /\ state' = [state EXCEPT !.capability = e.capability, !.document = state.document,
                              !.question = state.question, !.active = "LIST", !.token = Token]
          /\ state'.capability = e.capability /\ state'.document = state.document
          /\ state'.question = state.question
      BY <1>3, <1>4, <2>1 DEF Displays
    <2>7. Begins("LIST", c)
      BY <1>3, <2>1, <2>2, <2>3, <2>5, <2>6 DEF Begins, OperationOf
    <2>8. c.op # "RETRY"
      BY <2>5
    <2> QED  BY <1>3, <2>6, <2>7, <2>8, BegunShowing
  <1> QED  BY <1>7, <1>8

\* What ends a workspace operation leaves the question and its document alone, or
\* clears them with the workspace.
LEMMA WorkspaceSteps ==
    ASSUME IInv, AcceptWorkspaceListed \/ AcceptWorkspaceCreated \/ AcceptWorkspaceSelected
    PROVE  IInv'
  <1>1. epoch \in Nat
    BY DEF IInv, TypeOK
  <1>2. CASE AcceptWorkspaceListed
    <2>1. Deliver("LISTED") /\ next' = next /\ epoch' = epoch /\ commands' = commands
      BY <1>2 DEF AcceptWorkspaceListed
    <2>2. PICK e \in Event : e = Head(events) /\ e.kind = "LISTED"
      BY <2>1, Answered
    <2>3. /\ state \in Displays /\ ScopeShown /\ ~ state.shuttingDown
          /\ e.workspaces \subseteq Workspaces /\ state.active = "LIST"
      <3>1. e.workspaces \subseteq Workspaces
        BY <2>2 DEF Event
      <3> QED  BY <2>1, <2>2, <3>1, Answered DEF AnswerTo
    <2>4. scope = NoWorkspace /\ state.selected = NoWorkspace
      BY <2>3 DEF ScopeShown
    <2>5. PICK display \in Displays :
            display = [state EXCEPT !.workspaces = e.workspaces, !.selected = NoWorkspace]
      BY <2>3 DEF Displays
    <2>6. state' = Released(display)
      <3>1. state' = Released([state EXCEPT !.workspaces = e.workspaces,
                        !.selected = IF state.selected \in e.workspaces
                                     THEN state.selected ELSE NoWorkspace])
        BY <1>2, <2>2, <2>3 DEF AcceptWorkspaceListed, Displays
      <3> QED  BY <2>4, <2>5, <3>1
    <2>7. /\ display.capability = state.capability /\ ~ display.shuttingDown
          /\ display.document = state.document /\ display.shown = state.shown
          /\ display.question = state.question /\ display.qa = state.qa
          /\ display.selected = NoWorkspace
      BY <2>3, <2>5 DEF Displays
    <2>8. /\ display.document = "READY" =>
                /\ display.shown # 0 /\ documents[display.shown] = "active"
                /\ \A n \in Numbers : n > display.shown /\ requests[n] # "none" => n = display.qa
          /\ display.question = "ANSWERED" => display.qa # 0
          /\ display.qa # 0 =>
                /\ display.document = "READY"
                /\ \/ IsOpen(display.qa) /\ display.question \in {"FAILED", "CANCELLED"}
                   \/ requests[display.qa] = "COMPLETED" /\ display.question = "ANSWERED"
      BY <2>1, <2>3, <2>7, Answered
    <2> QED  BY <1>1, <2>1, <2>4, <2>6, <2>7, <2>8, ReleasedStep
  <1>3. CASE AcceptWorkspaceCreated
    <2>1. Deliver("CREATED") /\ next' = next /\ epoch' = epoch /\ commands' = commands
      BY <1>3 DEF AcceptWorkspaceCreated
    <2>2. PICK e \in Event : e = Head(events) /\ e.kind = "CREATED"
      BY <2>1, Answered
    <2>3. /\ state \in Displays /\ ScopeShown /\ ~ state.shuttingDown
          /\ e.workspace \in Workspaces /\ state.active = "CREATE"
      <3>1. e.workspace \in Workspaces
        BY <2>2 DEF Event
      <3> QED  BY <2>1, <2>2, <3>1, Answered DEF AnswerTo
    <2>4. scope = state.selected
      BY <2>3 DEF ScopeShown
    <2>5. PICK display \in Displays :
            display = [state EXCEPT !.workspaces = state.workspaces \cup {e.workspace}]
      BY <2>3 DEF Displays
    <2>6. state' = Released(display)
      BY <1>3, <2>2, <2>3, <2>5 DEF AcceptWorkspaceCreated, Displays
    <2>7. /\ display.capability = state.capability /\ ~ display.shuttingDown
          /\ display.document = state.document /\ display.shown = state.shown
          /\ display.question = state.question /\ display.qa = state.qa
          /\ display.selected = state.selected
      BY <2>3, <2>5 DEF Displays
    <2>8. /\ display.document = "READY" =>
                /\ display.shown # 0 /\ documents[display.shown] = "active"
                /\ \A n \in Numbers : n > display.shown /\ requests[n] # "none" => n = display.qa
          /\ display.question = "ANSWERED" => display.qa # 0
          /\ display.qa # 0 =>
                /\ display.document = "READY"
                /\ \/ IsOpen(display.qa) /\ display.question \in {"FAILED", "CANCELLED"}
                   \/ requests[display.qa] = "COMPLETED" /\ display.question = "ANSWERED"
          /\ display.capability = "STARTING" => display.selected = NoWorkspace
      BY <2>1, <2>3, <2>7, Answered
    <2> QED  BY <1>1, <2>1, <2>4, <2>6, <2>7, <2>8, ReleasedStep
  <1>4. CASE AcceptWorkspaceSelected
    <2>1. Deliver("SELECTED") /\ next' = next /\ commands' = commands
      BY <1>4 DEF AcceptWorkspaceSelected
    <2>2. PICK e \in Event : e = Head(events) /\ e.kind = "SELECTED" /\ e \in ToSet(events)
      BY <2>1, Answered
    <2>3. /\ state \in Displays /\ ScopeShown /\ ~ state.shuttingDown
          /\ state.active = "SELECT"
      BY <2>1, <2>2, Answered DEF AnswerTo
    <2>4. /\ e.workspace = scope /\ scope \in state.workspaces /\ scope \in Workspaces
          /\ state.capability # "STARTING"
      BY <2>2, <2>3 DEF ScopeShown, Displays
    <2>5. PICK display \in Displays :
            display = [state EXCEPT !.selected = scope, !.document = "EMPTY", !.shown = 0,
                            !.incomplete = FALSE, !.question = "IDLE", !.qa = 0]
      <3>1. "EMPTY" \in DocumentDisplays /\ "IDLE" \in QuestionDisplays /\ 0 \in 0 .. MaxOperations
        BY MaxOperationsAssumption DEF DocumentDisplays, QuestionDisplays
      <3> QED  BY <2>3, <2>4, <3>1 DEF Displays
    <2>6. state' = Released(display) /\ epoch' \in Nat
      <3>1. Head(events).workspace = scope
        BY <2>2, <2>4
      <3>2. /\ epoch' = epoch + 1
            /\ state' = Released([state EXCEPT
                            !.selected = scope, !.document = "EMPTY", !.shown = 0,
                            !.incomplete = FALSE, !.question = "IDLE", !.qa = 0])
        BY <1>4, <2>4, <3>1 DEF AcceptWorkspaceSelected
      <3>3. state' = Released(display)
        BY <2>5, <3>2
      <3> QED  BY <1>1, <3>2, <3>3
    <2>7. /\ display.capability = state.capability /\ ~ display.shuttingDown
          /\ display.document = "EMPTY" /\ display.question = "IDLE" /\ display.qa = 0
          /\ display.selected = scope
      BY <2>3, <2>5 DEF Displays
    <2> QED  BY <2>1, <2>4, <2>6, <2>7, ReleasedStep
  <1> QED  BY <1>2, <1>3, <1>4

\* The document is active: no request was made for it yet.
LEMMA DocumentReadyStep ==
    ASSUME IInv, AcceptDocumentReady
    PROVE  IInv'
  <1>1. Deliver("READY") /\ next' = next /\ epoch' = epoch /\ commands' = commands
    BY DEF AcceptDocumentReady
  <1>2. PICK e \in Event : e = Head(events) /\ e.kind = "READY" /\ e \in ToSet(events)
    BY <1>1, Answered
  <1>3. /\ state \in Displays /\ QuestionShown /\ ScopeShown /\ ~ state.shuttingDown
        /\ state.active = "DOCUMENT"
        /\ state.capability = "STARTING" => state.selected = NoWorkspace
    BY <1>1, <1>2, Answered DEF AnswerTo
  <1>4. scope = state.selected /\ state.qa = 0 /\ epoch \in Nat
    BY <1>3 DEF ScopeShown, QuestionShown, IInv, TypeOK
  <1>5. /\ e.token = state.token /\ e.token.number = next - 1 /\ next \in Nat /\ Horizon = next
        /\ e.token.number \in 1 .. MaxOperations
    <2>1. TypeOK /\ QueueTypes /\ Live
      BY DEF IInv
    <2>2. e.token = state.token /\ state.token \in OperationTokens
      BY <1>1, <1>2, <2>1, Delivered
    <2> QED  BY <1>3, <2>1, <2>2, NumbersTyped DEF Live, OperationTokens, Horizon
  <1>6. documents[e.token.number] = "active"
    BY <1>2 DEF IInv, DocumentReports
  <1>7. \A n \in Numbers : n > e.token.number => requests[n] = "none"
    <2>1. \A n \in Numbers : n \in Nat
      BY MaxOperationsAssumption DEF Numbers
    <2>2. \A n \in Numbers : n > e.token.number => n >= Horizon
      BY <1>5, <2>1
    <2> QED  BY <2>2 DEF IInv, RequestReports
  <1>8. state.question # "ANSWERED"
    BY <1>4 DEF IInv, RequestReports
  <1>9. PICK document \in {"READY", "EMPTY"}, shown \in 0 .. MaxOperations :
            /\ state' = Released([state EXCEPT !.document = document, !.shown = shown,
                                               !.incomplete = FALSE])
            /\ document = "READY" => shown = e.token.number
    <2>1. CASE e.workspace = state.selected
      <3>1. state' = Released([state EXCEPT !.document = "READY", !.shown = e.token.number,
                                           !.incomplete = FALSE])
        BY <1>2, <2>1 DEF AcceptDocumentReady
      <3>2. "READY" \in {"READY", "EMPTY"} /\ e.token.number \in 0 .. MaxOperations
        BY <1>5, MaxOperationsAssumption
      <3> QED  BY <3>1, <3>2
    <2>2. CASE e.workspace # state.selected
      <3>1. state' = Released([state EXCEPT !.document = "EMPTY", !.shown = 0, !.incomplete = FALSE])
        BY <1>2, <2>2 DEF AcceptDocumentReady
      <3>2. "EMPTY" \in {"READY", "EMPTY"} /\ "EMPTY" # "READY" /\ 0 \in 0 .. MaxOperations
        BY MaxOperationsAssumption
      <3> QED  BY <3>1, <3>2
    <2> QED  BY <2>1, <2>2
  <1>10. PICK display \in Displays :
            display = [state EXCEPT !.document = document, !.shown = shown, !.incomplete = FALSE]
    BY <1>3, <1>9 DEF Displays, DocumentDisplays
  <1>11. /\ display.capability = state.capability /\ ~ display.shuttingDown
         /\ display.document = document /\ display.shown = shown
         /\ display.question = state.question /\ display.qa = 0
         /\ display.selected = state.selected
    BY <1>3, <1>4, <1>10 DEF Displays
  <1>12. display.document = "READY" =>
            /\ display.shown # 0 /\ documents[display.shown] = "active"
            /\ \A n \in Numbers : n > display.shown /\ requests[n] # "none" => n = display.qa
    BY <1>5, <1>6, <1>7, <1>9, <1>11
  <1> QED  BY <1>1, <1>3, <1>4, <1>8, <1>9, <1>10, <1>11, <1>12, ReleasedStep

\* What is known of a question when its terminal signal is at the head of the queue:
\* the GUI already holds the request the signal is about, and there is no other one.
LEMMA QuestionEnds ==
    ASSUME IInv, NEW kind \in {"COMPLETED", "CANCELLED", "FAILED"}, Deliver(kind),
           state.active = "QUESTION"
    PROVE  /\ Head(events).qa = state.qa /\ state.document = "READY"
           /\ state.shown # 0 /\ documents[state.shown] = "active"
           /\ \A n \in Numbers : n > state.shown /\ requests[n] # "none" => n = state.qa
           /\ kind = "COMPLETED" => state.qa # 0 /\ requests[state.qa] = "COMPLETED"
           /\ kind # "COMPLETED" /\ state.qa # 0 => IsOpen(state.qa)
           /\ scope = state.selected
  <1>1. PICK e \in Event : e = Head(events) /\ e.kind = kind /\ e \in ToSet(events)
    BY Answered
  <1>2. QuestionShown /\ ScopeShown
    BY Answered
  <1>3. \A x \in ToSet(events) : x.kind # "PREPARED"
    <2>1. ToSet(events) = {e} \cup ToSet(events') /\ ToSet(events') = {}
      BY <1>1, Delivered DEF IInv, Interim
    <2> QED  BY <1>1, <2>1
  <1>4. /\ Told(e.qa) /\ Only(e.qa) /\ state.document = "READY"
        /\ e.kind # "COMPLETED" /\ e.qa # 0 => IsOpen(e.qa)
    BY <1>1, <1>2 DEF QuestionShown
  <1>5. state.qa = e.qa
    BY <1>3, <1>4 DEF Told
  <1>6. kind = "COMPLETED" => e.qa # 0 /\ requests[e.qa] = "COMPLETED"
    <2>1. kind = "COMPLETED" => e.qa \in 1 .. MaxOperations
      BY <1>1 DEF Event
    <2>2. kind = "COMPLETED" => requests[e.qa] = "COMPLETED"
      BY <1>1 DEF IInv, RequestReports
    <2> QED  BY <2>1, <2>2
  <1>7. state.shown # 0 /\ documents[state.shown] = "active"
    BY <1>4 DEF IInv, DocumentReports
  <1>8. scope = state.selected
    BY <1>2 DEF ScopeShown
  <1> QED  BY <1>1, <1>4, <1>5, <1>6, <1>7, <1>8 DEF Only

\* The question is answered: the request is the one the GUI holds.
LEMMA QuestionCompletedStep ==
    ASSUME IInv, AcceptQuestionCompleted
    PROVE  IInv'
  <1>1. Deliver("COMPLETED") /\ next' = next /\ epoch' = epoch /\ commands' = commands
    BY DEF AcceptQuestionCompleted
  <1>2. /\ state \in Displays /\ ~ state.shuttingDown /\ state.active = "QUESTION"
        /\ state.capability = "STARTING" => state.selected = NoWorkspace
    BY <1>1, Answered DEF AnswerTo
  <1>3. /\ Head(events).qa = state.qa /\ state.document = "READY"
        /\ state.shown # 0 /\ documents[state.shown] = "active"
        /\ \A n \in Numbers : n > state.shown /\ requests[n] # "none" => n = state.qa
        /\ state.qa # 0 /\ requests[state.qa] = "COMPLETED" /\ scope = state.selected
    BY <1>1, <1>2, QuestionEnds
  <1>4. PICK display \in Displays : display = [state EXCEPT !.question = "ANSWERED"]
    BY <1>2 DEF Displays, QuestionDisplays
  <1>5. state' = Released(display) /\ epoch' \in Nat
    BY <1>1, <1>3, <1>4 DEF AcceptQuestionCompleted, IInv, TypeOK
  <1>6. /\ display.capability = state.capability /\ ~ display.shuttingDown
        /\ display.document = "READY" /\ display.shown = state.shown
        /\ display.question = "ANSWERED" /\ display.qa = state.qa
        /\ display.selected = state.selected
    BY <1>2, <1>3, <1>4 DEF Displays
  <1> QED  BY <1>1, <1>2, <1>3, <1>5, <1>6, ReleasedStep

\* A cancelled or failed operation, of any kind.
LEMMA UnsuccessfulStep ==
    ASSUME IInv, AcceptCancelled \/ AcceptFailed
    PROVE  IInv'
  <1>1. PICK kind \in {"CANCELLED", "FAILED"} :
            /\ Deliver(kind) /\ next' = next /\ epoch' = epoch /\ commands' = commands
            /\ state' = Unsuccessful(kind)
    BY DEF AcceptCancelled, AcceptFailed
  <1>2. PICK e \in Event : e = Head(events) /\ e.kind = kind
    BY <1>1, Answered
  <1>3. /\ state \in Displays /\ QuestionShown /\ ScopeShown /\ ~ state.shuttingDown
        /\ state.active = e.op
        /\ state.capability = "STARTING" => state.selected = NoWorkspace
    BY <1>1, <1>2, Answered DEF AnswerTo
  <1>4. e.op \in {"DOCUMENT", "QUESTION", "LIST", "CREATE", "SELECT"}
    BY <1>1, <1>2 DEF Event
  <1>5. epoch' \in Nat
    BY <1>1 DEF IInv, TypeOK
  <1>6. CASE e.op = "DOCUMENT"
    <2>1. state.qa = 0 /\ scope = state.selected /\ state.question # "ANSWERED"
      BY <1>3, <1>6 DEF QuestionShown, ScopeShown, IInv, RequestReports
    <2>2. e.registered \in BOOLEAN
      BY <1>1, <1>2, <1>6 DEF Event
    <2>3. PICK document \in {"CANCELLED", "FAILED", "EMPTY"} :
            state' = Released([state EXCEPT !.document = document, !.shown = 0,
                                           !.incomplete = e.registered])
      <3>1. CASE e.registered
        BY <1>1, <1>2, <1>6, <3>1 DEF Unsuccessful, Unfinished
      <3>2. CASE ~ e.registered
        BY <1>1, <1>2, <1>6, <3>2 DEF Unsuccessful, Unfinished
      <3> QED  BY <3>1, <3>2
    <2>4. PICK display \in Displays :
            display = [state EXCEPT !.document = document, !.shown = 0, !.incomplete = e.registered]
      <3>1. document \in DocumentDisplays /\ 0 \in 0 .. MaxOperations
        BY <2>3, MaxOperationsAssumption DEF DocumentDisplays
      <3> QED  BY <1>3, <2>2, <3>1 DEF Displays
    <2>5. /\ display.capability = state.capability /\ ~ display.shuttingDown
          /\ display.document # "READY" /\ display.question = state.question /\ display.qa = 0
          /\ display.selected = state.selected
      BY <1>3, <2>1, <2>3, <2>4 DEF Displays
    <2> QED  BY <1>1, <1>3, <1>5, <2>1, <2>3, <2>4, <2>5, ReleasedStep
  <1>7. CASE e.op = "QUESTION"
    <2>1. /\ e.qa = state.qa /\ state.document = "READY"
          /\ state.shown # 0 /\ documents[state.shown] = "active"
          /\ \A n \in Numbers : n > state.shown /\ requests[n] # "none" => n = state.qa
          /\ state.qa # 0 => IsOpen(state.qa)
          /\ scope = state.selected
      BY <1>1, <1>2, <1>3, <1>7, QuestionEnds
    <2>2. PICK display \in Displays : display = [state EXCEPT !.question = kind]
      BY <1>3 DEF Displays, QuestionDisplays
    <2>3. state' = Released(display)
      <3>1. state' = Released(Unanswered(kind))
        BY <1>1, <1>2, <1>7 DEF Unsuccessful
      <3>2. Unanswered(kind) = [state EXCEPT !.question = kind, !.qa = state.qa]
        BY <1>2, <2>1 DEF Unanswered
      <3>3. [state EXCEPT !.question = kind, !.qa = state.qa] = [state EXCEPT !.question = kind]
        BY <1>3 DEF Displays
      <3> QED  BY <2>2, <3>1, <3>2, <3>3
    <2>4. /\ display.capability = state.capability /\ ~ display.shuttingDown
          /\ display.document = "READY" /\ display.shown = state.shown
          /\ display.question = kind /\ display.qa = state.qa
          /\ display.selected = state.selected
      BY <1>3, <2>1, <2>2 DEF Displays
    <2> QED  BY <1>1, <1>3, <1>5, <2>1, <2>3, <2>4, ReleasedStep
  <1>8. CASE e.op \in {"LIST", "CREATE", "SELECT"}
    <2>1. state' = Released(state)
      BY <1>1, <1>2, <1>8 DEF Unsuccessful
    <2>2. scope = state.selected
      BY <1>1, <1>2, <1>3, Answered DEF ScopeShown
    <2>3. state.active # "QUESTION"
      BY <1>3, <1>8
    <2>4. /\ state.document = "READY" =>
                /\ state.shown # 0 /\ documents[state.shown] = "active"
                /\ \A n \in Numbers : n > state.shown /\ requests[n] # "none" => n = state.qa
          /\ state.question = "ANSWERED" => state.qa # 0
          /\ state.qa # 0 =>
                /\ state.document = "READY"
                /\ \/ IsOpen(state.qa) /\ state.question \in {"FAILED", "CANCELLED"}
                   \/ requests[state.qa] = "COMPLETED" /\ state.question = "ANSWERED"
      BY <1>1, <2>3, Answered
    <2> QED  BY <1>1, <1>3, <1>5, <2>1, <2>2, <2>4, ReleasedStep
  <1> QED  BY <1>4, <1>6, <1>7, <1>8

\* A phase, or the request of the question under way; the operation goes on.
LEMMA InterimStep ==
    ASSUME IInv, AcceptDocumentPhase \/ AcceptQuestionPrepared
    PROVE  IInv'
  <1>1. PICK kind \in {"PHASE", "PREPARED"} :
            /\ Deliver(kind)
            /\ kind = "PHASE" => AcceptDocumentPhase
            /\ kind = "PREPARED" => AcceptQuestionPrepared
    BY DEF AcceptDocumentPhase, AcceptQuestionPrepared
  <1>2. PICK e \in Event : e = Head(events) /\ e.kind = kind /\ e \in ToSet(events)
    BY <1>1, Answered
  <1>3. /\ TypeOK /\ QueueTypes /\ Live /\ Threads /\ Cancelling /\ DocumentReports /\ RequestReports
        /\ state \in Displays /\ QuestionShown /\ ScopeShown /\ ~ state.shuttingDown
        /\ events # <<>>
        /\ UNCHANGED <<next, epoch, window, commands, thread, running, step, scope, resources,
                       runtime, rows, documents, requests, source, asked, heard>>
    BY <1>1, Answered DEF IInv, Deliver, worker, durable, flags,
       AcceptDocumentPhase, AcceptQuestionPrepared
  <1>4. /\ commands = <<>>
        /\ events' \in Seq(Event \cup {Finished}) /\ ToSet(events') \subseteq ToSet(events)
        /\ \A i \in 1 .. Len(events') - 1 : Interim(events'[i])
        /\ state.active = AnswerTo(e)
    BY <1>1, <1>2, <1>3, Delivered
  <1>5. PICK document \in DocumentDisplays, question \in QuestionDisplays, qa \in 0 .. MaxOperations :
            /\ state' = [state EXCEPT !.document = document, !.question = question, !.qa = qa]
            /\ kind = "PHASE" =>
                  document \in Phases /\ question = state.question /\ qa = state.qa
            /\ kind = "PREPARED" =>
                  document = state.document /\ question = "ASKING" /\ qa = e.qa /\ qa # 0
    <2>1. CASE kind = "PHASE"
      <3>1. e.phase \in Phases /\ state' = [state EXCEPT !.document = e.phase]
        BY <1>1, <1>2, <2>1 DEF AcceptDocumentPhase, Event
      <3>2. e.phase \in DocumentDisplays
        BY <3>1 DEF DocumentDisplays
      <3>3. state' = [state EXCEPT !.document = e.phase, !.question = state.question,
                                   !.qa = state.qa]
        BY <1>3, <3>1 DEF Displays
      <3>4. state.question \in QuestionDisplays /\ state.qa \in 0 .. MaxOperations
        BY <1>3 DEF Displays
      <3> QED  BY <2>1, <3>1, <3>2, <3>3, <3>4
    <2>2. CASE kind = "PREPARED"
      <3>1. /\ e.qa \in 1 .. MaxOperations /\ e.qa # 0 /\ e.qa \in 0 .. MaxOperations
            /\ state' = [state EXCEPT !.question = "ASKING", !.qa = e.qa]
        <4>1. e.qa \in 1 .. MaxOperations
          BY <1>2, <2>2 DEF Event
        <4> QED  BY <1>1, <1>2, <2>2, <4>1, MaxOperationsAssumption DEF AcceptQuestionPrepared
      <3>2. "ASKING" \in QuestionDisplays
        BY DEF QuestionDisplays
      <3>3. state' = [state EXCEPT !.document = state.document, !.question = "ASKING", !.qa = e.qa]
        BY <1>3, <3>1 DEF Displays
      <3>4. state.document \in DocumentDisplays
        BY <1>3 DEF Displays
      <3> QED  BY <2>2, <3>1, <3>2, <3>3, <3>4
    <2> QED  BY <2>1, <2>2
  <1>6. /\ state' \in Displays
        /\ state'.capability = state.capability /\ state'.workspaces = state.workspaces
        /\ state'.selected = state.selected /\ state'.shown = state.shown
        /\ state'.active = state.active /\ state'.token = state.token /\ ~ state'.shuttingDown
        /\ state'.document = document /\ state'.question = question /\ state'.qa = qa
    BY <1>3, <1>5 DEF Displays
  <1>7. ToSet(commands') = {} /\ Len(commands') = 0 /\ (Mid' <=> Mid) /\ Horizon' = Horizon
    BY <1>3, <1>4, <1>6, Nothing DEF Mid, Horizon
  <1>8. \A token, op : Current(token, op) => Current(token, op)'
    BY <1>3, <1>6, <1>7 DEF Current
  <1>9. TypeOK' /\ QueueTypes'
    BY <1>3, <1>4, <1>6 DEF TypeOK, QueueTypes, Displays
  <1>10. Live'
    BY <1>3, <1>4, <1>6, <1>7, <1>8 DEF Live
  <1>11. Threads'
    BY <1>3, <1>4 DEF Threads
  <1>12. Cancelling'
    BY <1>3, <1>4, <1>7 DEF Cancelling, CancellationIsItsOwn
  <1>13. document = "READY" => state.document = "READY"
    BY <1>5 DEF Phases
  <1>14. DocumentReports'
    BY <1>3, <1>4, <1>6, <1>7, <1>13 DEF DocumentReports
  <1>15. question = "ANSWERED" => state.question = "ANSWERED" /\ qa = state.qa
    BY <1>5
  <1>16. RequestReports'
    <2>1. Request' = Request
      BY <1>3 DEF Request
    <2>2. state'.question = "ANSWERED" => state'.qa # 0 /\ requests'[state'.qa] = "COMPLETED"
      BY <1>3, <1>6, <1>15 DEF RequestReports
    <2>3. Mid' => /\ Request' # 0 => IsOpen(Request)'
                  /\ running'.op = "QUESTION" /\ Request' = 0 =>
                        requests'[running'.token.number] = "none"
      BY <1>3, <1>7, <2>1 DEF RequestReports, IsOpen
    <2>4. /\ \A n \in Numbers : n >= Horizon' => requests'[n] = "none"
          /\ \A x \in ToSet(events') : x.kind = "COMPLETED" => requests'[x.qa] = "COMPLETED"
      BY <1>3, <1>4, <1>7 DEF RequestReports
    <2>5. \A c \in ToSet(commands') :
            /\ c.op = "QUESTION" => requests'[c.token.number] = "none"
            /\ c.op = "RETRY" => IsOpen(c.qa)'
      BY <1>7
    <2> QED  BY <2>2, <2>3, <2>4, <2>5 DEF RequestReports
  <1>17. QuestionShown'
    <2>1. CASE kind = "PHASE"
      <3>1. state.active = "DOCUMENT" /\ state.qa = 0 /\ qa = 0 /\ document # "READY"
        BY <1>2, <1>3, <1>4, <1>5, <2>1 DEF AnswerTo, QuestionShown, Phases
      <3> QED  BY <1>6, <3>1 DEF QuestionShown
    <2>2. CASE kind = "PREPARED"
      <3>1. state.active = "QUESTION" /\ state.document = "READY"
        BY <1>2, <1>3, <1>4, <2>2 DEF AnswerTo, QuestionShown
      <3>2. Request' = Request /\ \A r : Only(r) => Only(r)'
        BY <1>3, <1>6 DEF Request, Only
      <3>3. \A r : Told(r) => Told(r)'
        BY <1>2, <1>4, <1>5, <1>6, <2>2 DEF Told
      <3>4. Mid' => Told(Request)' /\ Only(Request)'
        BY <1>3, <1>7, <3>1, <3>2, <3>3 DEF QuestionShown
      <3>5. \A x \in ToSet(events') :
                x.kind \in {"COMPLETED", "CANCELLED", "FAILED"} =>
                    /\ Told(x.qa)' /\ Only(x.qa)'
                    /\ x.kind # "COMPLETED" /\ x.qa # 0 => IsOpen(x.qa)'
        BY <1>3, <1>4, <3>1, <3>2, <3>3 DEF QuestionShown, IsOpen
      <3> QED  BY <1>5, <1>6, <1>7, <2>2, <3>1, <3>2, <3>4, <3>5 DEF QuestionShown
    <2> QED  BY <2>1, <2>2
  <1>18. ScopeShown'
    BY <1>3, <1>4, <1>6, <1>7 DEF ScopeShown
  <1> QED  BY <1>9, <1>10, <1>11, <1>12, <1>14, <1>16, <1>17, <1>18 DEF IInv
------------------------------------------------------------------------------
(* The GUI thread cancels, closes, and drops what it is told too late.     *)

\* While the window closes, whatever is taken from the GUI's queue leaves the rest
\* as it is, except that the window is gone once the worker's thread has ended.
LEMMA DroppedStep ==
    ASSUME IInv, RejectStale \/ AcceptShutdownComplete
    PROVE  IInv'
  <1>1. /\ TypeOK /\ QueueTypes /\ Live /\ Threads /\ Cancelling /\ DocumentReports /\ RequestReports
        /\ events # <<>> /\ events' = Tail(events)
        /\ UNCHANGED <<state, next, epoch, commands, thread, running, step, scope, resources, runtime,
                       rows, documents, requests, source, asked, heard>>
    BY DEF IInv, RejectStale, AcceptShutdownComplete, gui, worker, durable, flags
  <1>2. /\ Head(events) \in Event \cup {Finished} /\ Head(events) \in ToSet(events)
        /\ events' \in Seq(Event \cup {Finished}) /\ ToSet(events') \subseteq ToSet(events)
    <2> DEFINE S == Event \cup {Finished}
    <2>1. events \in Seq(S)
      BY <1>1 DEF QueueTypes
    <2> HIDE DEF S
    <2>2. /\ Head(events) \in S /\ Head(events) \in ToSet(events)
          /\ Tail(events) \in Seq(S) /\ ToSet(Tail(events)) \subseteq ToSet(events)
      BY <1>1, <2>1, Taken
    <2> QED  BY <1>1, <2>2 DEF S
  <1>3. /\ state.shuttingDown
        /\ \/ window' = window
           \/ window' = "closed" /\ thread = "finished"
    <2>1. CASE RejectStale
      <3>1. Head(events) # Finished /\ ~ Accepts(Head(events).token) /\ window' = window
        BY <2>1 DEF RejectStale, Finished, gui
      <3>2. Head(events).token \in OperationTokens /\ Head(events).token # NoToken
        BY <1>2, <3>1 DEF Event, OperationTokens, NoToken
      <3>3. Current(Head(events).token, AnswerTo(Head(events)))
        BY <1>1, <1>2, <3>1 DEF Live
      <3>4. ASSUME ~ state.shuttingDown
            PROVE  FALSE
        <4>1. Head(events).token = state.token /\ state.active # "NONE"
          BY <1>1, <3>2, <3>3, <3>4 DEF Current, TypeOK
        <4> QED  BY <1>1, <3>1, <3>4, <4>1 DEF Live, Accepts
      <3> QED  BY <3>1, <3>4
    <2>2. CASE AcceptShutdownComplete
      <3>1. Head(events).kind = "FINISHED"
        BY <2>2 DEF AcceptShutdownComplete
      <3>2. Head(events) = Finished
        BY <1>2, <3>1 DEF Event
      <3> QED  BY <1>1, <1>2, <2>2, <3>2 DEF AcceptShutdownComplete, Live, Threads
    <2> QED  BY <2>1, <2>2
  <1>4. TypeOK' /\ QueueTypes'
    BY <1>1, <1>2, <1>3 DEF TypeOK, QueueTypes
  <1>5. Horizon' = Horizon /\ (Mid' <=> Mid) /\ Request' = Request
    BY <1>1 DEF Horizon, Mid, Request
  <1>6. \A token, op : Current(token, op) => Current(token, op)'
    BY <1>1, <1>5 DEF Current
  <1>7. events' # <<>> => events # <<>>
    BY <1>1
  <1>8. Live'
    BY <1>1, <1>2, <1>3, <1>5, <1>6 DEF Live
  <1>9. Threads'
    BY <1>1, <1>2, <1>3 DEF Threads, Live
  <1>10. Cancelling'
    BY <1>1, <1>2, <1>5 DEF Cancelling, CancellationIsItsOwn
  <1>11. DocumentReports'
    BY <1>1, <1>2, <1>5 DEF DocumentReports
  <1>12. RequestReports'
    BY <1>1, <1>2, <1>5 DEF RequestReports, IsOpen
  <1> QED  BY <1>1, <1>3, <1>4, <1>8, <1>9, <1>10, <1>11, <1>12 DEF IInv

\* A request to cancel, or the closing of the window, sets the flag of the operation
\* on the screen or leaves word for it, and touches no other operation's.
LEMMA FlagStep ==
    ASSUME IInv, ~ state.shuttingDown,
           IF state.token = NoToken THEN CancelCurrent ELSE Cancel(state.token)
    PROVE  /\ source' \in [active : Tokens \cup {NoToken}, set : BOOLEAN, pending : SUBSET Tokens]
           /\ source'.active = running.token
           /\ asked \subseteq asked' /\ asked' \subseteq 1 .. MaxOperations
           /\ heard' \subseteq 1 .. MaxOperations
           /\ \A t \in source'.pending : t.number \in asked'
           /\ \A n \in heard' : n < next
           /\ Mid /\ source'.set => running.token.number \in asked'
           /\ \A n \in heard' :
                /\ \A c \in ToSet(commands) : c.token.number = n => c.token \in source'.pending
                /\ source'.active.number = n => source'.set
  <1>1. /\ TypeOK /\ QueueTypes /\ Live /\ Cancelling
        /\ source \in [active : Tokens \cup {NoToken}, set : BOOLEAN, pending : SUBSET Tokens]
        /\ asked \subseteq 1 .. MaxOperations /\ heard \subseteq 1 .. MaxOperations
        /\ source.active = running.token
        /\ \A t \in source.pending : t.number \in asked
        /\ Mid /\ source.set => running.token.number \in asked
        /\ \A n \in heard :
             /\ \A c \in ToSet(commands) : c.token.number = n => c.token \in source.pending
             /\ source.active.number = n => source.set
    BY DEF IInv, TypeOK, QueueTypes, Cancelling, CancellationIsItsOwn
  <1>2. \A n \in heard : n < next
    BY <1>1 DEF Cancelling, Horizon
  <1>3. CASE state.token = NoToken
    <2>1. /\ source' = [source EXCEPT !.set = (source.active # NoToken)]
          /\ asked' = asked /\ heard' = heard
      BY <1>3 DEF CancelCurrent
    <2>2. /\ source'.active = source.active /\ source'.pending = source.pending
          /\ source'.set <=> source.active # NoToken
          /\ source' \in [active : Tokens \cup {NoToken}, set : BOOLEAN, pending : SUBSET Tokens]
      BY <1>1, <2>1
    <2>3. ~ Mid
      BY <1>1, <1>3, IdleIsQuiet DEF TypeOK
    <2>4. \A n \in heard : source.active.number = n => source.active # NoToken
      BY <1>1 DEF NoToken
    <2> QED  BY <1>1, <1>2, <2>1, <2>2, <2>3, <2>4
  <1>4. CASE state.token # NoToken
    <2>1. PICK token \in Tokens : token = state.token
      BY <1>1, <1>4 DEF TypeOK
    <2>2. /\ asked' = asked \cup {token.number}
          /\ heard' = IF Hears(token) THEN heard \cup {token.number} ELSE heard
          /\ source' = CASE source.active = NoToken ->
                                [source EXCEPT !.pending = source.pending \cup {token}]
                         [] source.active = token -> [source EXCEPT !.set = TRUE]
                         [] OTHER -> source
      BY <1>4, <2>1 DEF Cancel
    <2>3. token.number = next - 1 /\ token.number \in 1 .. MaxOperations /\ token.number < next
      <3>1. state.active # "NONE" /\ token.number = next - 1 /\ next <= MaxOperations + 1
        BY <1>1, <1>4, <2>1 DEF TypeOK, Live
      <3>2. token.number \in Nat /\ token.number >= 1 /\ next \in Nat
        BY <1>1, <2>1, <3>1, NumbersTyped
      <3> QED  BY <3>1, <3>2, MaxOperationsAssumption
    <2>4. \A c \in ToSet(commands) : c.token = token /\ running.token # token
      <3> SUFFICES ASSUME NEW c \in ToSet(commands)
                   PROVE  c.token = token /\ running.token # token
        OBVIOUS
      <3>1. PICK i \in 1 .. Len(commands) : commands[i] = c
        BY <1>1, Elements DEF QueueTypes
      <3> QED  BY <1>1, <2>1, <3>1 DEF Live, Current
    <2>5. /\ source'.active = source.active
          /\ source' \in [active : Tokens \cup {NoToken}, set : BOOLEAN, pending : SUBSET Tokens]
          /\ source.pending \subseteq source'.pending
          /\ source'.pending \subseteq source.pending \cup {token}
          /\ source.set => source'.set
          /\ source'.set => source.set \/ source.active = token
          /\ source.active = NoToken => token \in source'.pending
          /\ source.active = token => source'.set
      <3>1. token # NoToken
        BY <1>4, <2>1
      <3>2. CASE source.active = NoToken
        BY <1>1, <2>2, <3>1, <3>2
      <3>3. CASE source.active = token
        BY <1>1, <2>2, <3>1, <3>3
      <3>4. CASE source.active \notin {NoToken, token}
        BY <1>1, <2>2, <3>4
      <3> QED  BY <3>2, <3>3, <3>4
    <2>6. \A n \in heard' :
                /\ \A c \in ToSet(commands) : c.token.number = n => c.token \in source'.pending
                /\ source'.active.number = n => source'.set
      <3> SUFFICES ASSUME NEW n \in heard'
                   PROVE  /\ \A c \in ToSet(commands) : c.token.number = n => c.token \in source'.pending
                          /\ source'.active.number = n => source'.set
        OBVIOUS
      <3>1. CASE n \in heard
        BY <1>1, <2>5, <3>1
      <3>2. CASE n \notin heard
        <4>1. n = token.number /\ source.active \in {NoToken, token}
          BY <2>2, <3>2 DEF Hears
        <4>2. \A c \in ToSet(commands) : c.token \in source'.pending
          BY <1>1, <2>4, <2>5, <4>1
        <4>3. source'.active.number = n => source'.set
          BY <2>3, <2>5, <4>1 DEF NoToken
        <4> QED  BY <4>2, <4>3
      <3> QED  BY <3>1, <3>2
    <2>7. \A n \in heard' : n < next /\ n \in 1 .. MaxOperations
      BY <1>1, <1>2, <2>2, <2>3
    <2>8. Mid /\ source'.set => running.token.number \in asked'
      BY <1>1, <2>2, <2>5
    <2> QED  BY <1>1, <2>2, <2>3, <2>5, <2>6, <2>7, <2>8
  <1> QED  BY <1>3, <1>4

\* The user cancels the import or the question on the screen.
LEMMA CancellationStep ==
    ASSUME IInv, RequestCancellation
    PROVE  IInv'
  <1>1. /\ TypeOK /\ QueueTypes /\ Live /\ Threads /\ Cancelling /\ DocumentReports /\ RequestReports
        /\ window = "open" /\ Cancel(state.token)
        /\ UNCHANGED <<next, epoch, window, commands, events, thread, running, step, scope, resources,
                       runtime, rows, documents, requests>>
    BY DEF IInv, RequestCancellation, worker, durable
  <1>2. /\ ~ state.shuttingDown /\ state.active \in {"DOCUMENT", "QUESTION"} /\ state \in Displays
        /\ QuestionShown /\ ScopeShown /\ state.token # NoToken
    <2>1. ~ state.shuttingDown /\ state.active \in {"DOCUMENT", "QUESTION"}
      BY <1>1 DEF Live, RequestCancellation, CanCancelDocument, CanCancelQuestion
    <2> QED  BY <1>1, <2>1 DEF IInv, TypeOK, Displays
  <1>3. PICK document \in DocumentDisplays, question \in QuestionDisplays :
            /\ state' = [state EXCEPT !.document = document, !.question = question]
            /\ \/ state.active = "DOCUMENT" /\ document = "CANCELLING" /\ question = state.question
               \/ state.active = "QUESTION" /\ document = state.document /\ question = "CANCELLING"
    <2>1. /\ "CANCELLING" \in DocumentDisplays /\ "CANCELLING" \in QuestionDisplays
          /\ state.document \in DocumentDisplays /\ state.question \in QuestionDisplays
      BY <1>2 DEF DocumentDisplays, QuestionDisplays, Displays
    <2>2. CASE CanCancelDocument /\ state' = [state EXCEPT !.document = "CANCELLING"]
      <3>1. state' = [state EXCEPT !.document = "CANCELLING", !.question = state.question]
        BY <1>2, <2>2 DEF Displays
      <3> QED  BY <2>1, <2>2, <3>1 DEF CanCancelDocument
    <2>3. CASE CanCancelQuestion /\ state' = [state EXCEPT !.question = "CANCELLING"]
      <3>1. state' = [state EXCEPT !.document = state.document, !.question = "CANCELLING"]
        BY <1>2, <2>3 DEF Displays
      <3> QED  BY <2>1, <2>3, <3>1 DEF CanCancelQuestion
    <2> QED  BY <2>2, <2>3 DEF RequestCancellation
  <1>4. /\ state' \in Displays
        /\ state'.capability = state.capability /\ state'.workspaces = state.workspaces
        /\ state'.selected = state.selected /\ state'.shown = state.shown /\ state'.qa = state.qa
        /\ state'.active = state.active /\ state'.token = state.token /\ ~ state'.shuttingDown
        /\ state'.document = document /\ state'.question = question
    BY <1>2, <1>3 DEF Displays
  <1>5. /\ source' \in [active : Tokens \cup {NoToken}, set : BOOLEAN, pending : SUBSET Tokens]
        /\ source'.active = running.token
        /\ asked \subseteq asked' /\ asked' \subseteq 1 .. MaxOperations
        /\ heard' \subseteq 1 .. MaxOperations
        /\ \A t \in source'.pending : t.number \in asked'
        /\ \A n \in heard' : n < next
        /\ Mid /\ source'.set => running.token.number \in asked'
        /\ \A n \in heard' :
             /\ \A c \in ToSet(commands) : c.token.number = n => c.token \in source'.pending
             /\ source'.active.number = n => source'.set
    BY <1>1, <1>2, FlagStep
  <1>6. /\ (Mid' <=> Mid) /\ Horizon' = Horizon /\ Horizon = next /\ Request' = Request
        /\ \A token, op : Current(token, op) => Current(token, op)'
    BY <1>1, <1>2, <1>4 DEF Mid, Horizon, Request, Current
  <1>7. TypeOK' /\ QueueTypes'
    BY <1>1, <1>4, <1>5 DEF TypeOK, QueueTypes, Displays
  <1>8. Live'
    BY <1>1, <1>2, <1>4, <1>6 DEF Live
  <1>9. Threads'
    <2>1. thread # "new"
      BY <1>1, <1>2 DEF Threads
    <2> QED  BY <1>1, <1>2, <2>1 DEF Threads
  <1>10. Cancelling'
    <2>1. CancellationIsItsOwn'
      BY <1>1, <1>5 DEF Cancelling, CancellationIsItsOwn
    <2> QED  BY <1>1, <1>5, <1>6, <2>1 DEF Cancelling
  <1>11. DocumentReports'
    <2>1. document = "READY" => state.document = "READY"
      BY <1>3
    <2> QED  BY <1>1, <1>4, <1>6, <2>1 DEF DocumentReports
  <1>12. RequestReports'
    <2>1. question = "ANSWERED" => state.question = "ANSWERED"
      BY <1>3
    <2> QED  BY <1>1, <1>4, <1>6, <2>1 DEF RequestReports, IsOpen
  <1>13. QuestionShown'
    <2>1. CASE state.active = "DOCUMENT"
      <3>1. state.qa = 0 /\ document # "READY"
        BY <1>2, <1>3, <2>1 DEF QuestionShown
      <3> QED  BY <1>4, <2>1, <3>1 DEF QuestionShown
    <2>2. CASE state.active = "QUESTION"
      <3>1. \A r : (Only(r) => Only(r)') /\ (Told(r) => Told(r)') /\ (IsOpen(r) => IsOpen(r)')
        BY <1>1, <1>4 DEF Only, Told, IsOpen
      <3>2. state'.document = "READY" /\ state'.question # "ANSWERED"
        BY <1>2, <1>3, <1>4, <2>2 DEF QuestionShown
      <3>3. \A c \in ToSet(commands') :
                /\ c.op = "QUESTION" => state'.qa = 0 /\ Only(0)'
                /\ c.op = "RETRY" => state'.qa = c.qa /\ Only(c.qa)'
        BY <1>1, <1>2, <1>4, <2>2, <3>1 DEF QuestionShown
      <3>4. Mid' => Told(Request)' /\ Only(Request)'
        BY <1>2, <1>6, <2>2, <3>1 DEF QuestionShown
      <3>5. \A e \in ToSet(events') :
                e.kind \in {"COMPLETED", "CANCELLED", "FAILED"} =>
                    /\ Told(e.qa)' /\ Only(e.qa)'
                    /\ e.kind # "COMPLETED" /\ e.qa # 0 => IsOpen(e.qa)'
        BY <1>1, <1>2, <2>2, <3>1 DEF QuestionShown
      <3> QED  BY <1>4, <2>2, <3>2, <3>3, <3>4, <3>5 DEF QuestionShown
    <2> QED  BY <1>2, <2>1, <2>2
  <1>14. ScopeShown'
    BY <1>1, <1>2, <1>4, <1>6 DEF ScopeShown
  <1> QED  BY <1>7, <1>8, <1>9, <1>10, <1>11, <1>12, <1>13, <1>14 DEF IInv

\* The user closes the window: the shutdown takes the next number.
LEMMA CloseStep ==
    ASSUME IInv, Close
    PROVE  IInv'
  <1>1. /\ TypeOK /\ QueueTypes /\ Live /\ Threads /\ Cancelling /\ DocumentReports /\ RequestReports
        /\ window = "open"
        /\ state' = [state EXCEPT !.shuttingDown = TRUE, !.active = "SHUTDOWN", !.token = Token]
        /\ next' = next + 1
        /\ IF state.token = NoToken THEN CancelCurrent ELSE Cancel(state.token)
        /\ UNCHANGED <<epoch, events, thread, running, step, scope, resources, runtime, rows,
                       documents, requests>>
    BY DEF IInv, Close, worker, durable
  <1>2. ~ state.shuttingDown /\ next <= MaxOperations + 1 /\ next \in Nat /\ Horizon = next
        /\ state \in Displays
    BY <1>1, NumbersTyped DEF Live, Horizon, TypeOK, Displays
  <1>3. Token \in Tokens /\ Token # NoToken /\ Token.number = next
    BY <1>1, <1>2, MaxOperationsAssumption DEF TypeOK, Token, Tokens, Numbers, NoToken
  <1>4. /\ state' \in Displays /\ state'.shuttingDown /\ state'.active = "SHUTDOWN"
        /\ state'.token = Token /\ state'.document = state.document /\ state'.shown = state.shown
        /\ state'.question = state.question /\ state'.qa = state.qa
    BY <1>1, <1>2, <1>3 DEF Displays, Operations
  <1>5. PICK c \in Closing : c = [op |-> "SHUTDOWN", token |-> Token]
    BY <1>3 DEF Closing
  <1>6. /\ window' \in {"closing", "closed"} /\ (window' = "closed" => thread # "running")
        /\ thread = "new" => commands' = commands
        /\ commands' \in Seq(Command \cup Closing) /\ ToSet(commands') \subseteq ToSet(commands) \cup {c}
        /\ \A i \in 1 .. Len(commands') :
              \/ commands'[i] = c
              \/ i \in 1 .. Len(commands) /\ commands'[i] = commands[i]
    <2>1. CASE thread = "running"
      <3>1. window' = "closing" /\ commands' = Append(commands, c)
        BY <1>5, <2>1 DEF Close
      <3> DEFINE S == Command \cup Closing
      <3>2. commands \in Seq(S) /\ c \in S
        BY <1>1 DEF QueueTypes
      <3> HIDE DEF S
      <3>3. /\ commands' \in Seq(S) /\ ToSet(commands') = ToSet(commands) \cup {c}
            /\ Len(commands') = Len(commands) + 1 /\ commands'[Len(commands) + 1] = c
            /\ \A i \in 1 .. Len(commands) : commands'[i] = commands[i]
        BY <3>1, <3>2, Appended
      <3>4. Len(commands) \in Nat
        BY <3>2, Elements
      <3>5. \A i \in 1 .. Len(commands') : i = Len(commands) + 1 \/ i \in 1 .. Len(commands)
        BY <3>3, <3>4
      <3> QED  BY <2>1, <3>1, <3>3, <3>5 DEF S
    <2>2. CASE thread # "running"
      BY <1>1, <2>2 DEF Close, QueueTypes
    <2> QED  BY <2>1, <2>2
  <1>7. /\ source' \in [active : Tokens \cup {NoToken}, set : BOOLEAN, pending : SUBSET Tokens]
        /\ source'.active = running.token
        /\ asked \subseteq asked' /\ asked' \subseteq 1 .. MaxOperations
        /\ heard' \subseteq 1 .. MaxOperations
        /\ \A t \in source'.pending : t.number \in asked'
        /\ \A n \in heard' : n < next
        /\ Mid /\ source'.set => running.token.number \in asked'
        /\ \A n \in heard' :
             /\ \A x \in ToSet(commands) : x.token.number = n => x.token \in source'.pending
             /\ source'.active.number = n => source'.set
    BY <1>1, <1>2, FlagStep
  <1>8. Horizon' = Horizon /\ (Mid' <=> Mid) /\ Request' = Request
        /\ \A token, op : Current(token, op) => Current(token, op)'
    BY <1>1, <1>2, <1>3, <1>4 DEF Horizon, Mid, Request, Current
  <1>9. TypeOK' /\ QueueTypes'
    <2>1. next' \in 1 .. MaxOperations + 2
      BY <1>1, <1>2, MaxOperationsAssumption
    <2> QED  BY <1>1, <1>3, <1>4, <1>6, <1>7, <2>1 DEF TypeOK, QueueTypes, Displays
  <1>10. Live'
    <2>1. state'.token.number = next' - 1
      BY <1>1, <1>2, <1>3, <1>4
    <2>2. \A i \in 1 .. Len(commands') :
            IF commands'[i].op = "SHUTDOWN"
            THEN commands'[i].token = state'.token
            ELSE /\ i = 1 /\ events' = <<>> /\ ~ Mid'
                 /\ running'.token # commands'[i].token
                 /\ Current(commands[i].token, OperationOf(commands[i]))'
                 /\ commands'[i] = commands[i]
      BY <1>1, <1>2, <1>4, <1>5, <1>6, <1>8 DEF Live
    <2> QED  BY <1>1, <1>2, <1>4, <1>6, <1>8, <2>1, <2>2 DEF Live
  <1>11. Threads'
    BY <1>1, <1>4, <1>6 DEF Threads
  <1>12. Cancelling'
    <2>1. \A n \in heard' : n # next
      BY <1>2, <1>7, MaxOperationsAssumption
    <2>2. CancellationIsItsOwn'
      BY <1>1, <1>3, <1>5, <1>6, <1>7, <2>1 DEF Cancelling, CancellationIsItsOwn
    <2> QED  BY <1>1, <1>2, <1>7, <1>8, <2>2 DEF Cancelling
  <1>13. DocumentReports'
    BY <1>1, <1>4, <1>5, <1>6, <1>8 DEF DocumentReports
  <1>14. RequestReports'
    BY <1>1, <1>4, <1>5, <1>6, <1>8 DEF RequestReports, IsOpen
  <1> QED  BY <1>4, <1>9, <1>10, <1>11, <1>12, <1>13, <1>14 DEF IInv
------------------------------------------------------------------------------
(* The theorems.                                                           *)

\* A session begins in the invariant.
LEMMA InvariantInit == Init => IInv
  <1> SUFFICES ASSUME Init
               PROVE  IInv
    OBVIOUS
  <1>1. /\ state = [capability |-> "STARTING", workspaces |-> {}, selected |-> NoWorkspace,
                    document |-> "EMPTY", shown |-> 0, incomplete |-> FALSE,
                    question |-> "IDLE", qa |-> 0,
                    active |-> "NONE", token |-> NoToken, shuttingDown |-> FALSE]
        /\ next = 1 /\ epoch = 0 /\ window = "open" /\ commands = <<>> /\ events = <<>>
        /\ thread = "new" /\ running = NoCommand /\ step = "idle"
        /\ source = [active |-> NoToken, set |-> FALSE, pending |-> {}]
        /\ scope = NoWorkspace /\ resources = "none" /\ runtime = "none"
        /\ rows \subseteq Workspaces
        /\ documents = [n \in Numbers |-> "none"] /\ requests = [n \in Numbers |-> "none"]
        /\ asked = {} /\ heard = {}
    BY DEF Init
  <1>2. ToSet(commands) = {} /\ ToSet(events) = {} /\ Len(commands) = 0 /\ Len(events) = 0
    BY <1>1, Nothing
  <1>3. running.token = NoToken /\ NoToken.number = 0 /\ ~ Mid /\ Horizon = 1
    BY <1>1 DEF NoCommand, NoToken, Mid, Horizon
  <1>4. TypeOK
    <2>1. 0 \in 0 .. MaxOperations /\ 1 \in 1 .. MaxOperations + 2
      BY MaxOperationsAssumption
    <2>2. state \in Displays
      BY <1>1, <2>1 DEF Displays, Capabilities, DocumentDisplays, QuestionDisplays
    <2> QED  BY <1>1, <2>1, <2>2 DEF TypeOK, Displays
  <1>5. QueueTypes
    BY <1>1 DEF QueueTypes
  <1>6. Live
    <2>1. \A i \in 1 .. Len(commands) : FALSE
      BY <1>2
    <2>2. \A i \in 1 .. Len(events) - 1 : Interim(events[i])
      BY <1>2
    <2> QED  BY <1>1, <1>2, <1>3, <2>1, <2>2, MaxOperationsAssumption DEF Live
  <1>7. Threads /\ Cancelling
    BY <1>1, <1>2, <1>3 DEF Threads, Cancelling, CancellationIsItsOwn, NoCommand
  <1>8. DocumentReports /\ RequestReports
    BY <1>1, <1>2, <1>3 DEF DocumentReports, RequestReports
  <1>9. QuestionShown /\ ScopeShown
    BY <1>1, <1>2 DEF QuestionShown, ScopeShown
  <1> QED  BY <1>4, <1>5, <1>6, <1>7, <1>8, <1>9 DEF IInv

\* The invariant is about the variables of the session only.
LEMMA InvariantStutter ==
    ASSUME IInv, UNCHANGED vars
    PROVE  IInv'
  <1>1. UNCHANGED <<state, next, epoch, window, commands, events, thread, running, step, scope,
                    resources, runtime, rows, documents, requests, source, asked, heard>>
    BY DEF vars, gui, worker, durable, flags
  <1>2. TypeOK' /\ QueueTypes' /\ Threads' /\ Cancelling' /\ DocumentReports'
    BY <1>1 DEF IInv, TypeOK, QueueTypes, Threads, Cancelling, CancellationIsItsOwn,
       DocumentReports, Mid, Horizon
  <1>3. Live'
    BY <1>1 DEF IInv, Live, Mid, Current, Horizon
  <1>4. /\ Request' = Request /\ (Mid' <=> Mid) /\ Horizon' = Horizon
        /\ \A r : (Only(r)' <=> Only(r)) /\ (Told(r)' <=> Told(r)) /\ (IsOpen(r)' <=> IsOpen(r))
    BY <1>1 DEF Request, Number, Mid, Horizon, Only, Told, IsOpen
  <1>5. RequestReports'
    <2>1. Mid' => /\ Request' # 0 => IsOpen(Request)'
                  /\ running'.op = "QUESTION" /\ Request' = 0 =>
                        requests'[running'.token.number] = "none"
      BY <1>1, <1>4 DEF IInv, RequestReports, IsOpen
    <2> QED  BY <1>1, <1>4, <2>1 DEF IInv, RequestReports, IsOpen
  <1>6. ASSUME ~ state.shuttingDown
        PROVE  QuestionShown' /\ ScopeShown'
    <2>1. QuestionShown /\ ScopeShown
      BY <1>6 DEF IInv
    <2>2. Mid' /\ state'.active = "QUESTION" => Told(Request)' /\ Only(Request)'
      BY <1>1, <1>4, <2>1 DEF QuestionShown, Told, Only
    <2>3. QuestionShown'
      BY <1>1, <1>4, <2>1, <2>2 DEF QuestionShown
    <2>4. ScopeShown'
      BY <1>1, <1>4, <2>1 DEF ScopeShown
    <2> QED  BY <2>3, <2>4
  <1> QED  BY <1>1, <1>2, <1>3, <1>5, <1>6 DEF IInv

\* Every step of a session keeps the invariant.
LEMMA InvariantStep == IInv /\ [Next]_vars => IInv'
  <1> SUFFICES ASSUME IInv, [Next]_vars
               PROVE  IInv'
    OBVIOUS
  <1>1. CASE Start
    BY <1>1, StartStep
  <1>2. CASE RequestCreateWorkspace \/ \E k \in Workspaces : RequestSelectWorkspace(k)
    BY <1>2, RequestWorkspaceSteps
  <1>3. CASE RequestImportPdf
    BY <1>3, RequestImportStep
  <1>4. CASE RequestQuestion
    BY <1>4, RequestQuestionStep
  <1>5. CASE RequestQuestionRetry
    BY <1>5, RequestRetryStep
  <1>6. CASE RequestCancellation
    BY <1>6, CancellationStep
  <1>7. CASE Close
    BY <1>7, CloseStep
  <1>8. CASE AcceptCapability
    BY <1>8, CapabilityStep
  <1>9. CASE AcceptWorkspaceListed \/ AcceptWorkspaceCreated \/ AcceptWorkspaceSelected
    BY <1>9, WorkspaceSteps
  <1>10. CASE AcceptDocumentPhase \/ AcceptQuestionPrepared
    BY <1>10, InterimStep
  <1>11. CASE AcceptDocumentReady
    BY <1>11, DocumentReadyStep
  <1>12. CASE AcceptQuestionCompleted
    BY <1>12, QuestionCompletedStep
  <1>13. CASE AcceptCancelled \/ AcceptFailed
    BY <1>13, UnsuccessfulStep
  <1>14. CASE RejectStale \/ AcceptShutdownComplete
    BY <1>14, DroppedStep
  <1>15. CASE Initialize
    BY <1>15, InitializeStep
  <1>16. CASE \E op \in {"LIST", "CREATE", "SELECT", "DOCUMENT", "QUESTION", "RETRY"} : Admit(op)
    BY <1>16, AdmitStep
  <1>17. CASE Finish
    BY <1>17, FinishStep
  <1>18. CASE Shutdown
    BY <1>18, ShutdownStep
  <1>19. CASE \/ ListWorkspaces \/ CreateWorkspace \/ SelectWorkspace
              \/ AnnouncePhase \/ PassLastCheckpoint
    BY <1>19, QuietSteps
  <1>20. CASE RegisterDocument \/ ActivateDocument
    BY <1>20, DocumentSteps
  <1>21. CASE CommitIntake \/ CommitAnswer
    BY <1>21, QuestionSteps
  <1>22. CASE StopCancelled \/ Fail
    BY <1>22, UnsuccessfulSteps
  <1>23. CASE UNCHANGED vars
    BY <1>23, InvariantStutter
  <1>24. CASE User
    BY <1>1, <1>2, <1>3, <1>4, <1>5, <1>6, <1>7, <1>24 DEF User
  <1>25. CASE GuiEventLoop
    BY <1>8, <1>9, <1>10, <1>11, <1>12, <1>13, <1>14, <1>25 DEF GuiEventLoop
  <1>26. CASE WorkerEventLoop
    BY <1>15, <1>16, <1>17, <1>18, <1>19, <1>20, <1>21, <1>22, <1>26 DEF WorkerEventLoop
  <1> QED  BY <1>23, <1>24, <1>25, <1>26 DEF Next

\* The invariant behind the theorems below: one operation at a time is in flight, the
\* queued signals say what was committed, and the screen shows the document, the
\* request and the workspace that the worker has, or is about to be told of them.
THEOREM Inductive == Spec => []IInv
  BY InvariantInit, InvariantStep, PTL DEF Spec

\* The screen, the queues' sources and the stored rows are well typed: the operations
\* never run out of numbers, and nothing is active without a token.
THEOREM TypesHold == Spec => []TypeOK
  BY Inductive, PTL DEF IInv

\* A cancellation that ThreadCancellationSource accepted stays with its operation, and
\* nothing is reported as cancelled that nobody asked to cancel.
THEOREM CancellationsAreTheirOwn == Spec => []CancellationIsItsOwn
  <1>1. IInv => CancellationIsItsOwn
    BY DEF IInv, Cancelling
  <1> QED  BY <1>1, Inductive, PTL

\* What the worker signals, and what PresentationController makes of it, is what was
\* committed, however the signals and the user's requests interleave.
THEOREM ReportsStayTrue == Spec => []ReportsAreTrue
  <1>1. IInv => ReportsAreTrue
    BY DEF IInv, DocumentReports, RequestReports, ReportsAreTrue
  <1> QED  BY <1>1, Inductive, PTL

\* Between the operations, the GUI holds the one QA request that was committed for the
\* document it shows: no intake is forgotten, and none is made twice.
THEOREM IntakesAreKept == Spec => []IntakeIsKept
  <1>1. ASSUME IInv, state.document = "READY", Idle,
               NEW n \in Numbers, n > state.shown, requests[n] # "none"
        PROVE  /\ n = state.qa
               /\ state.question \in
                     IF requests[n] = "COMPLETED" THEN {"ANSWERED"} ELSE {"FAILED", "CANCELLED"}
    <2>1. QuestionShown /\ state.active = "NONE"
      BY <1>1 DEF IInv, Idle
    <2>2. n = state.qa
      BY <1>1, <2>1 DEF QuestionShown, Only
    <2>3. n # 0
      BY MaxOperationsAssumption DEF Numbers
    <2> QED  BY <2>1, <2>2, <2>3 DEF QuestionShown, IsOpen
  <1>2. IInv => IntakeIsKept
    BY <1>1 DEF IntakeIsKept
  <1> QED  BY <1>2, Inductive, PTL

\* An import or a question runs in the workspace that is selected on the screen.
THEOREM ScopeFollowsSelection == Spec => []ScopeIsSelection
  <1>1. IInv => ScopeIsSelection
    BY DEF IInv, Live, ScopeShown, ScopeIsSelection
  <1> QED  BY <1>1, Inductive, PTL

\* The window is gone only when the worker's thread is not running, no slot is half
\* way and the model runtime was released.
THEOREM WindowOutlives == Spec => []WindowOutlivesWork
  <1>1. IInv => WindowOutlivesWork
    BY DEF IInv, Threads, WindowOutlivesWork
  <1> QED  BY <1>1, Inductive, PTL

\* Once the controller is shutting down, neither the user nor a signal that was still
\* on its way changes what the window shows.
THEOREM ClosingIsQuiet == Spec => ClosingShowsNothingNew
  <1>1. ASSUME IInv, [Next]_vars, state.shuttingDown
        PROVE  state' = state
    <2>1. TypeOK /\ QueueTypes /\ Live /\ window # "open"
      BY <1>1 DEF IInv, Live
    <2>2. CASE User
      <3>1. ASSUME NEW op, NEW display, NEW command
            PROVE  ~ Submit(op, display, command)
        BY <2>1 DEF Submit
      <3>2. ~ Start /\ ~ RequestCancellation /\ ~ Close
        BY <2>1 DEF Start, RequestCancellation, Close
      <3> QED  BY <2>2, <3>1, <3>2 DEF User, RequestCreateWorkspace, RequestSelectWorkspace,
                  RequestImportPdf, RequestQuestion, RequestQuestionRetry
    <2>3. CASE GuiEventLoop
      <3>1. ASSUME NEW kind, kind # "FINISHED"
            PROVE  ~ Deliver(kind)
        BY <1>1, <2>1, <3>1, Delivered
      <3>2. CASE RejectStale \/ AcceptShutdownComplete
        BY <3>2 DEF RejectStale, AcceptShutdownComplete, gui
      <3> QED  BY <2>3, <3>1, <3>2 DEF GuiEventLoop, AcceptCapability, AcceptWorkspaceListed,
                  AcceptWorkspaceCreated, AcceptWorkspaceSelected, AcceptDocumentPhase,
                  AcceptDocumentReady, AcceptQuestionPrepared, AcceptQuestionCompleted,
                  AcceptCancelled, AcceptFailed
    <2>4. CASE WorkerEventLoop
      BY <2>4 DEF WorkerEventLoop, Initialize, Admit, Finish, Goto, ListWorkspaces, CreateWorkspace,
         SelectWorkspace, AnnouncePhase, PassLastCheckpoint, RegisterDocument, ActivateDocument,
         CommitIntake, CommitAnswer, StopCancelled, Fail, Shutdown, gui
    <2>5. CASE UNCHANGED vars
      BY <2>5 DEF vars, gui
    <2> QED  BY <1>1, <2>2, <2>3, <2>4, <2>5 DEF Next
  <1>2. IInv /\ [Next]_vars => [state.shuttingDown => state' = state]_vars
    BY <1>1
  <1> QED  BY <1>2, Inductive, PTL DEF Spec, ClosingShowsNothingNew
================================================================================
