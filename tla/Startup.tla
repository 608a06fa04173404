------------------------------- MODULE Startup --------------------------------
(***************************************************************************)
(* Launches of the program, each a process of its own on one SQLite        *)
(* database: the migrations, the local model runtime with its health       *)
(* checks, the transaction that binds the resolved models to rows of       *)
(* local_models, inference, and the closing of what was opened.            *)
(*                                                                         *)
(* A unit of work is a deferred BEGIN: its first SELECT takes a snapshot,  *)
(* its first write takes the one write lock, and fails when any other      *)
(* transaction was committed since the snapshot.                           *)
(***************************************************************************)
EXTENDS Naturals

CONSTANTS
    Launches,       \* starts of the program; a restart is another launch
    NoLaunch,
    Latest,         \* the last migration any release of the program ships
    Ships,          \* the last migration the release of a launch ships
    Identities,     \* provider and resolved model id
    Details,        \* alias, version and dimensions
    Offer,          \* what the catalog of a launch resolves for a capability
    NoRow

Capabilities == {"CHAT", "EMBEDDING"}
Resolved == [identity : Identities, details : Details]

ASSUME LaunchesAssumption == NoLaunch \notin Launches
ASSUME ReleasesAssumption == Latest \in Nat /\ Ships \in [Launches -> 1..Latest]
ASSUME OfferAssumption == Offer \in [Launches -> [Capabilities -> Resolved]]

\* A row keeps the random identifier its launch drew for the capability.
ModelId == Launches \X Capabilities
ModelRow == [id : ModelId, capability : Capabilities, model : Resolved]

ASSUME NoRowAssumption == NoRow \notin ModelRow \cup ModelId

VARIABLES
    ran,        \* how often each migration was committed
    models,     \* the committed rows of local_models
    pc,         \* where a launch is
    history,    \* the applied migrations a launch read
    view,       \* the rows a launch's transaction sees
    snapshot,   \* "NONE", or whether that view still starts at the last commit
    writer,     \* the launch that holds the write lock
    bound,      \* the persisted row of each capability, in the transaction
    handles,    \* the identifier the runtime keeps a resolved model under
    session,    \* the identifier an open session asks the runtime for
    loaded,     \* handles flagged as loaded
    sdk,        \* models the SDK holds in memory
    refused     \* models whose unloading has raised

database == <<ran, models>>
transaction == <<view, snapshot, writer, bound>>
memory == <<loaded, sdk, refused>>
vars == <<database, pc, history, transaction, handles, session, memory>>

BindingSteps == {"select", "insert", "commit"}
StartingSteps == {"migrate", "resolve", "probe"} \cup BindingSteps
Migrated ==
    {"resolve", "probe", "ready", "unavailable", "fatal", "closed"} \cup BindingSteps

TypeOK ==
    /\ ran \in [1..Latest -> Nat]
    /\ models \subseteq ModelRow
    /\ pc \in [Launches -> {"off", "migrate", "exited", "dead"} \cup Migrated]
    /\ history \in [Launches -> SUBSET (1..Latest)]
    /\ view \in [Launches -> SUBSET ModelRow]
    /\ snapshot \in [Launches -> {"NONE", "LATEST", "STALE"}]
    /\ writer \in Launches \cup {NoLaunch}
    /\ \A l \in Launches : snapshot[l] # "NONE" => pc[l] \in BindingSteps
    /\ bound \in [Launches -> [Capabilities -> ModelRow \cup {NoRow}]]
    /\ handles \in [Launches -> [Capabilities -> ModelId \cup {NoRow}]]
    /\ session \in [Launches -> [Capabilities -> ModelId \cup {NoRow}]]
    /\ loaded \in [Launches -> SUBSET Capabilities]
    /\ sdk \in [Launches -> SUBSET Capabilities]
    /\ refused \in [Launches -> SUBSET Capabilities]

Unbound == [c \in Capabilities |-> NoRow]

Init ==
    /\ ran = [m \in 1..Latest |-> 0]
    /\ models = {}
    /\ pc = [l \in Launches |-> "off"]
    /\ history = [l \in Launches |-> {}]
    /\ view = [l \in Launches |-> {}]
    /\ snapshot = [l \in Launches |-> "NONE"]
    /\ writer = NoLaunch
    /\ bound = [l \in Launches |-> Unbound]
    /\ handles = [l \in Launches |-> Unbound]
    /\ session = [l \in Launches |-> Unbound]
    /\ loaded = [l \in Launches |-> {}]
    /\ sdk = [l \in Launches |-> {}]
    /\ refused = [l \in Launches |-> {}]

Goto(l, step) == pc' = [pc EXCEPT ![l] = step]

\* CHAT comes first, in the health checks and in the transaction.
Turn(f) == IF f["CHAT"] = NoRow THEN "CHAT" ELSE "EMBEDDING"
------------------------------------------------------------------------------
(* Transactions.                                                           *)

LockIsFree == writer = NoLaunch

\* Wrong variant: a commit touches launches that read nothing yet.
OutdatedAll(l) == [k \in Launches |-> IF k # l THEN "STALE" ELSE snapshot[k]]

\* A commit leaves the snapshots of the others behind.
Outdated(l) ==
    [k \in Launches |-> IF k # l /\ snapshot[k] = "LATEST" THEN "STALE" ELSE snapshot[k]]

\* Wrong variant: a unit of work that ends without a commit keeps the lock.
RollBackButLock(l) ==
    /\ view' = [view EXCEPT ![l] = {}]
    /\ snapshot' = [snapshot EXCEPT ![l] = "NONE"]
    /\ bound' = [bound EXCEPT ![l] = Unbound]
    /\ UNCHANGED writer

RollBack(l) ==
    /\ view' = [view EXCEPT ![l] = {}]
    /\ snapshot' = [snapshot EXCEPT ![l] = "NONE"]
    /\ bound' = [bound EXCEPT ![l] = Unbound]
    /\ writer' = IF writer = l THEN NoLaunch ELSE writer

\* A transaction that wrote nothing is committed without anyone noticing.
MakePermanent(l) ==
    /\ models' = IF writer = l THEN view[l] ELSE models
    /\ view' = [view EXCEPT ![l] = {}]
    /\ snapshot' = [IF writer = l THEN Outdated(l) ELSE snapshot EXCEPT ![l] = "NONE"]
    /\ bound' = [bound EXCEPT ![l] = Unbound]
    /\ writer' = IF writer = l THEN NoLaunch ELSE writer
------------------------------------------------------------------------------
(* Migrations.                                                             *)

Applied == {m \in 1..Latest : ran[m] > 0}

\* The history is read before the transaction that applies what is missing.
Launch(l) ==
    /\ pc[l] = "off"
    /\ history' = [history EXCEPT ![l] = Applied]
    /\ Goto(l, "migrate")
    /\ UNCHANGED <<database, transaction, handles, session, memory>>

\* What was read of the history is a local value of run_migrations.
Leave(l, step) ==
    /\ history' = [history EXCEPT ![l] = {}]
    /\ Goto(l, step)

HistoryFits(l) == \E n \in 0..Ships[l] : history[l] = 1..n

Pending(l) == (1..Ships[l]) \ history[l]

\* Wrong variant: scripts that apply themselves again.
ScriptRunsAgain(l) == TRUE

\* A migration that another launch has applied creates what exists already.
ScriptRuns(l) == Pending(l) \cap Applied = {}

Migrate(l) ==
    /\ pc[l] = "migrate"
    /\ HistoryFits(l)
    /\ Pending(l) # {} => LockIsFree /\ ScriptRuns(l)
    /\ ran' = [m \in 1..Latest |-> IF m \in Pending(l) THEN ran[m] + 1 ELSE ran[m]]
    /\ snapshot' = IF Pending(l) = {} THEN snapshot ELSE Outdated(l)
    /\ Leave(l, "resolve")
    /\ UNCHANGED <<models, view, writer, bound, handles, session, memory>>

MigrationRefused(l) ==
    /\ pc[l] = "migrate"
    /\ \/ ~ HistoryFits(l)
       \/ LockIsFree /\ ~ ScriptRuns(l)
    /\ Leave(l, "exited")
    /\ UNCHANGED <<database, transaction, handles, session, memory>>

\* Any other failure of these steps leaves run() by its exception.
MigrationFails(l) ==
    /\ pc[l] = "migrate"
    /\ Leave(l, "exited")
    /\ UNCHANGED <<database, transaction, handles, session, memory>>
------------------------------------------------------------------------------
(* The runtime: cached models only, each loaded, tried and unloaded again  *)
(* before it is offered, later loaded on demand.                           *)

\* Wrong variant: the first model that cannot be unloaded ends the clean-up.
ReleaseSome(l) ==
    \E gone \in SUBSET loaded[l] :
        /\ sdk' = [sdk EXCEPT ![l] = @ \ gone]
        /\ refused' = [refused EXCEPT ![l] = @ \cup (loaded[l] \ gone)]
        /\ loaded' = [loaded EXCEPT ![l] = @ \ gone]

\* Every loaded handle is tried, and none is held to be loaded afterwards.
Release(l) ==
    \E gone \in SUBSET loaded[l] :
        /\ sdk' = [sdk EXCEPT ![l] = @ \ gone]
        /\ refused' = [refused EXCEPT ![l] = @ \cup (loaded[l] \ gone)]
        /\ loaded' = [loaded EXCEPT ![l] = {}]

Resolve(l) ==
    /\ pc[l] = "resolve"
    /\ sdk' = [sdk EXCEPT ![l] = @ \cup {Turn(handles[l])}]
    /\ Goto(l, "probe")
    /\ UNCHANGED <<database, history, transaction, handles, session, loaded, refused>>

Healthy(l) ==
    /\ pc[l] = "probe"
    /\ LET c == Turn(handles[l]) IN
        /\ sdk' = [sdk EXCEPT ![l] = @ \ {c}]
        /\ handles' = [handles EXCEPT ![l][c] = <<l, c>>]
        /\ Goto(l, IF c = "CHAT" THEN "resolve" ELSE "select")
    /\ UNCHANGED <<database, history, transaction, session, loaded, refused>>

\* A model that fails its check is unloaded; one that stays loaded fails it too.
Unhealthy(l) ==
    /\ pc[l] = "probe"
    /\ LET c == Turn(handles[l]) IN
        \/ sdk' = [sdk EXCEPT ![l] = @ \ {c}] /\ UNCHANGED refused
        \/ refused' = [refused EXCEPT ![l] = @ \cup {c}] /\ UNCHANGED sdk
    /\ Goto(l, "unavailable")
    /\ UNCHANGED <<database, history, transaction, handles, session, loaded>>

\* The SDK, the catalog or the load fails; no handle is loaded yet.
RuntimeFails(l) ==
    /\ pc[l] = "resolve"
    /\ Release(l)
    /\ Goto(l, "unavailable")
    /\ UNCHANGED <<database, history, transaction, handles, session>>

\* What precedes the runtime opens nothing.
FoundationFails(l) ==
    /\ pc[l] = "resolve"
    /\ handles[l] = Unbound
    /\ Goto(l, "fatal")
    /\ UNCHANGED <<database, history, transaction, handles, session, memory>>
------------------------------------------------------------------------------
(* bind_persisted_identity: one unit of work over both capabilities.       *)

Bind(l, c, row) ==
    /\ bound' = [bound EXCEPT ![l][c] = row]
    /\ Goto(l, IF c = "CHAT" THEN "select" ELSE "commit")

SameIdentity(rows, l, c) ==
    {row \in rows : row.capability = c /\ row.model.identity = Offer[l][c].identity}

Seen(l) == IF snapshot[l] = "NONE" THEN models ELSE view[l]

\* A fresh identifier matches no row, so the identity decides.
Select(l) ==
    /\ pc[l] = "select"
    /\ view' = [view EXCEPT ![l] = Seen(l)]
    /\ snapshot' = [snapshot EXCEPT ![l] = IF @ = "NONE" THEN "LATEST" ELSE @]
    /\ LET c == Turn(bound[l])
           rows == SameIdentity(Seen(l), l, c)
       IN \/ rows = {} /\ Goto(l, "insert") /\ UNCHANGED bound
          \/ \E row \in rows : row.model = Offer[l][c] /\ Bind(l, c, row)
    /\ UNCHANGED <<database, history, writer, handles, session, memory>>

\* Wrong variant: a write on a snapshot that was left behind.
WriteIsAllowedLate(l) == writer \in {NoLaunch, l}

WriteIsAllowed(l) == writer \in {NoLaunch, l} /\ snapshot[l] = "LATEST"

Insert(l) ==
    /\ pc[l] = "insert"
    /\ WriteIsAllowed(l)
    /\ LET c == Turn(bound[l])
           row == [id |-> handles[l][c], capability |-> c, model |-> Offer[l][c]]
       IN /\ view' = [view EXCEPT ![l] = @ \cup {row}]
          /\ Bind(l, c, row)
    /\ writer' = l
    /\ UNCHANGED <<database, history, snapshot, handles, session, memory>>

Identifiers(l) == [c \in Capabilities |-> bound[l][c].id]

\* The handles are put under the persisted identifiers before the commit.
Commit(l) ==
    /\ pc[l] = "commit"
    /\ handles' = [handles EXCEPT ![l] = Identifiers(l)]
    /\ session' = [session EXCEPT ![l] = Identifiers(l)]
    /\ MakePermanent(l)
    /\ Goto(l, "ready")
    /\ UNCHANGED <<ran, history, memory>>

\* Wrong variant: a session is opened whether or not the commit succeeded.
CommitFailsUnnoticed(l) ==
    /\ pc[l] = "commit"
    /\ handles' = [handles EXCEPT ![l] = Identifiers(l)]
    /\ session' = [session EXCEPT ![l] = Identifiers(l)]
    /\ RollBack(l)
    /\ Goto(l, "ready")
    /\ UNCHANGED <<database, history, memory>>

\* The commit fails, or what comes after it in the same call: the rows are then
\* permanent although the launch gives up.
CommitFails(l) ==
    /\ pc[l] = "commit"
    /\ handles' = [handles EXCEPT ![l] = Identifiers(l)]
    /\ \/ RollBack(l) /\ UNCHANGED models
       \/ MakePermanent(l)
    /\ Release(l)
    /\ Goto(l, "fatal")
    /\ UNCHANGED <<ran, history, session>>

\* The row of the identity differs in its details, or the write comes too late.
Conflicts(l) ==
    \/ pc[l] = "select" /\ \E row \in SameIdentity(Seen(l), l, Turn(bound[l])) :
                                row.model # Offer[l][Turn(bound[l])]
    \/ pc[l] = "insert" /\ LockIsFree /\ ~ WriteIsAllowed(l)

BindingFails(l) ==
    /\ pc[l] \in {"select", "insert"}
    /\ RollBack(l)
    /\ Release(l)
    /\ Goto(l, "fatal")
    /\ UNCHANGED <<database, history, handles, session>>
------------------------------------------------------------------------------
(* A running launch, and its end.                                          *)

\* Any committed unit of work of the running program.
Work(l) ==
    /\ pc[l] \in {"ready", "unavailable"}
    /\ LockIsFree
    /\ snapshot' = Outdated(l)
    /\ UNCHANGED <<database, pc, history, view, writer, bound, handles, session, memory>>

Load(l, c) ==
    /\ pc[l] = "ready"
    /\ handles[l][c] = session[l][c]
    /\ loaded' = [loaded EXCEPT ![l] = @ \cup {c}]
    /\ sdk' = [sdk EXCEPT ![l] = @ \cup {c}]
    /\ UNCHANGED <<database, pc, history, transaction, handles, session, refused>>

\* A failed inference unloads its model and counts it as unloaded in any case.
InferenceFails(l, c) ==
    /\ pc[l] = "ready"
    /\ c \in loaded[l]
    /\ loaded' = [loaded EXCEPT ![l] = @ \ {c}]
    /\ \/ sdk' = [sdk EXCEPT ![l] = @ \ {c}] /\ UNCHANGED refused
       \/ refused' = [refused EXCEPT ![l] = @ \cup {c}] /\ UNCHANGED sdk
    /\ UNCHANGED <<database, pc, history, transaction, handles, session>>

Shutdown(l) ==
    /\ pc[l] \in {"ready", "unavailable", "fatal"}
    /\ Release(l)
    /\ session' = [session EXCEPT ![l] = Unbound]
    /\ Goto(l, "closed")
    /\ UNCHANGED <<database, history, transaction, handles>>

Crash(l) ==
    /\ pc[l] \notin {"off", "exited", "dead"}
    /\ RollBack(l)
    /\ handles' = [handles EXCEPT ![l] = Unbound]
    /\ session' = [session EXCEPT ![l] = Unbound]
    /\ loaded' = [loaded EXCEPT ![l] = {}]
    /\ sdk' = [sdk EXCEPT ![l] = {}]
    /\ refused' = [refused EXCEPT ![l] = {}]
    /\ Leave(l, "dead")
    /\ UNCHANGED database

\* What the thread of a launch does of itself when nothing around it fails.
Proceed(l) ==
    \/ Migrate(l) \/ MigrationRefused(l) \/ Resolve(l) \/ Healthy(l)
    \/ Select(l) \/ Insert(l) \/ Commit(l)
    \/ Conflicts(l) /\ BindingFails(l)

Step(l) ==
    \/ Launch(l) \/ Proceed(l)
    \/ MigrationFails(l) \/ FoundationFails(l) \/ RuntimeFails(l) \/ Unhealthy(l)
    \/ BindingFails(l) \/ CommitFails(l)
    \/ Work(l) \/ \E c \in Capabilities : Load(l, c) \/ InferenceFails(l, c)
    \/ Shutdown(l) \/ Crash(l)

Next == \E l \in Launches : Step(l)

\* A launched process runs; that a failure happens is nothing to rely on, nor is
\* the timeout of a wait for the write lock.
Spec == Init /\ [][Next]_vars /\ \A l \in Launches : WF_vars(Proceed(l))
------------------------------------------------------------------------------
(* Properties.                                                             *)

\* However many launches read the history before any of them migrates: every
\* migration is committed once and in order, and no launch goes on with a schema
\* older than its release.
SchemaIsCurrent ==
    /\ \E n \in 0..Latest : Applied = 1..n
    /\ \A m \in 1..Latest : ran[m] <= 1
    /\ \A l \in Launches : pc[l] \in Migrated => 1..Ships[l] \subseteq Applied

\* An open session asks for its models under identifiers that are committed,
\* although the runtime adopts them before the commit; and launches that resolve
\* the same model agree on its identifier, so that an index one of them builds
\* fits the others.
SessionsAgree ==
    \A l \in Launches : pc[l] = "ready" =>
        \A c \in Capabilities :
            /\ session[l][c] = handles[l][c]
            /\ \E row \in models : row.id = session[l][c] /\ row.model = Offer[l][c]
            /\ \A k \in Launches :
                pc[k] = "ready" /\ Offer[k][c] = Offer[l][c] => session[k][c] = session[l][c]

\* Through failed checks, failed inferences and every way to close, the SDK holds
\* no model in memory that the runtime does not know to be loaded, except where
\* the SDK itself refused to unload it; and a launch that has ended its session
\* or never got one knows of none.
ModelsAreReleased ==
    \A l \in Launches :
        /\ loaded[l] \subseteq sdk[l]
        /\ pc[l] # "probe" => sdk[l] \subseteq loaded[l] \cup refused[l]
        /\ loaded[l] # {} => pc[l] = "ready"

\* A launch comes to an end of its startup, with a session or without, and never
\* waits for a lock that is not given back.
StartupEnds == \A l \in Launches : pc[l] \in StartingSteps ~> pc[l] \notin StartingSteps
==============================================================================
