----------------------------- MODULE StartupProofs -----------------------------
(***************************************************************************)
(* Proofs about Startup for any number of launches, releases and models:   *)
(* the types, the migrations, the identifiers of the bound models and the  *)
(* models in memory.                                                       *)
(*                                                                         *)
(* A step of one launch changes what the others hold in one way only: it   *)
(* may leave their snapshots behind (OthersStay).  So most parts of the    *)
(* invariants speak of one launch and are proved where it steps itself.    *)
(***************************************************************************)
EXTENDS Startup, TLAPS

\* How far a launch has come is how far its models are resolved and bound.
Bindings(l) ==
    /\ pc[l] \notin BindingSteps => bound[l] = Unbound
    /\ pc[l] \in {"off", "migrate"} => handles[l] = Unbound
    /\ pc[l] \in {"resolve", "probe"} => handles[l]["EMBEDDING"] = NoRow
    /\ pc[l] \in BindingSteps => handles[l] \in [Capabilities -> ModelId]
    /\ pc[l] \in {"select", "insert"} => bound[l]["EMBEDDING"] = NoRow
    /\ pc[l] = "commit" => bound[l] \in [Capabilities -> ModelRow]

TypeInv == TypeOK /\ \A l \in Launches : Bindings(l)
------------------------------------------------------------------------------
(* Steps of one launch.                                                    *)

\* A step of one launch leaves the memory of every other one alone.
LEMMA OthersStay ==
    ASSUME TypeOK, NEW l \in Launches, Step(l), NEW k \in Launches, k # l
    PROVE  /\ pc'[k] = pc[k] /\ history'[k] = history[k]
           /\ view'[k] = view[k] /\ bound'[k] = bound[k]
           /\ handles'[k] = handles[k] /\ session'[k] = session[k]
           /\ loaded'[k] = loaded[k] /\ sdk'[k] = sdk[k] /\ refused'[k] = refused[k]
           /\ snapshot'[k] \in {snapshot[k], "STALE"} /\ (snapshot[k] = "NONE" => snapshot'[k] = "NONE")
  <1> USE DEF TypeOK, Goto
  <1>1. CASE Launch(l)
    BY <1>1 DEF Launch, database, transaction, memory
  <1>2. CASE Migrate(l)
    BY <1>2 DEF Migrate, Leave, Outdated, memory
  <1>3. CASE MigrationRefused(l) \/ MigrationFails(l)
    BY <1>3 DEF MigrationRefused, MigrationFails, Leave, transaction, memory
  <1>4. CASE Resolve(l) \/ Healthy(l) \/ Unhealthy(l)
    BY <1>4 DEF Resolve, Healthy, Unhealthy, transaction, memory
  <1>5. CASE RuntimeFails(l) \/ FoundationFails(l)
    BY <1>5 DEF RuntimeFails, FoundationFails, Release, transaction, memory
  <1>6. CASE Select(l)
    BY <1>6 DEF Select, Bind, memory
  <1>7. CASE Insert(l)
    BY <1>7 DEF Insert, Bind, memory
  <1>8. CASE Commit(l)
    BY <1>8 DEF Commit, MakePermanent, Outdated, memory
  <1>9. CASE CommitFails(l)
    BY <1>9 DEF CommitFails, RollBack, MakePermanent, Outdated, Release
  <1>10. CASE BindingFails(l)
    BY <1>10 DEF BindingFails, RollBack, Release
  <1>11. CASE Work(l)
    BY <1>11 DEF Work, Outdated, memory
  <1>12. CASE \E c \in Capabilities : Load(l, c) \/ InferenceFails(l, c)
    BY <1>12 DEF Load, InferenceFails, transaction
  <1>13. CASE Shutdown(l)
    BY <1>13 DEF Shutdown, Release, transaction
  <1>14. CASE Crash(l)
    BY <1>14 DEF Crash, RollBack, Leave
  <1> QED  BY <1>1, <1>2, <1>3, <1>4, <1>5, <1>6, <1>7, <1>8, <1>9, <1>10, <1>11, <1>12,
              <1>13, <1>14 DEF Step, Proceed
------------------------------------------------------------------------------
(* Types.                                                                  *)

\* What a launch offers is a model, and what it binds a row.
LEMMA Offered ==
    ASSUME NEW l \in Launches, NEW c \in Capabilities
    PROVE  Offer[l][c] \in Resolved
  BY OfferAssumption

\* The chat model is bound first, then the embedding model.
LEMMA Turns ==
    ASSUME NEW f
    PROVE  /\ Turn(f) \in Capabilities
           /\ Turn(f) = "CHAT" <=> f["CHAT"] = NoRow
  BY DEF Turn, Capabilities

\* NoRow is no row of the model registry.
LEMMA RowIsARow ==
    /\ NoRow \notin ModelRow /\ NoRow \notin ModelId
    /\ \A row \in ModelRow : row.id \in ModelId /\ row.capability \in Capabilities
                             /\ row.model \in Resolved
  BY NoRowAssumption DEF ModelRow

MemoryTypes(l) ==
    /\ loaded \in [Launches -> SUBSET Capabilities]
    /\ sdk \in [Launches -> SUBSET Capabilities]
    /\ refused \in [Launches -> SUBSET Capabilities]

\* The types after a release.
LEMMA ReleaseTypes ==
    ASSUME TypeOK, NEW l \in Launches, Release(l)
    PROVE  MemoryTypes(l)'
  <1>1. PICK gone \in SUBSET loaded[l] :
            /\ sdk' = [sdk EXCEPT ![l] = @ \ gone]
            /\ refused' = [refused EXCEPT ![l] = @ \cup (loaded[l] \ gone)]
            /\ loaded' = [loaded EXCEPT ![l] = {}]
    BY DEF Release
  <1> QED  BY <1>1 DEF TypeOK, MemoryTypes

\* A capability that is bound leads to the other one, or to the commit.
BoundTypes(l) ==
    /\ bound \in [Launches -> [Capabilities -> ModelRow \cup {NoRow}]]
    /\ pc[l] \in {"select", "commit"}
    /\ pc \in [Launches -> {"off", "migrate", "exited", "dead"} \cup Migrated]
    /\ pc[l] = "select" => bound[l]["EMBEDDING"] = NoRow
    /\ pc[l] = "commit" => bound[l] \in [Capabilities -> ModelRow]

\* The types after a binding.
LEMMA BindTypes ==
    ASSUME TypeOK, NEW l \in Launches, bound[l]["EMBEDDING"] = NoRow,
           NEW row \in ModelRow, Bind(l, Turn(bound[l]), row)
    PROVE  /\ BoundTypes(l)'
           /\ \A k \in Launches : k # l => pc'[k] = pc[k]
  <1> DEFINE c == Turn(bound[l])
  <1>1. /\ c \in Capabilities /\ (c = "CHAT" <=> bound[l]["CHAT"] = NoRow)
        /\ bound' = [bound EXCEPT ![l][c] = row]
        /\ pc' = [pc EXCEPT ![l] = IF c = "CHAT" THEN "select" ELSE "commit"]
    BY Turns DEF Bind, Goto
  <1> HIDE DEF c
  <1>2. bound'[l] = [bound[l] EXCEPT ![c] = row]
    BY <1>1 DEF TypeOK
  <1>3. bound' \in [Launches -> [Capabilities -> ModelRow \cup {NoRow}]]
    BY <1>1, <1>2 DEF TypeOK
  <1>4. pc'[l] = IF c = "CHAT" THEN "select" ELSE "commit"
    BY <1>1 DEF TypeOK
  <1>5. c = "CHAT" => bound'[l]["EMBEDDING"] = NoRow
    BY <1>1, <1>2 DEF TypeOK, Capabilities
  <1>6. c # "CHAT" => bound'[l] \in [Capabilities -> ModelRow]
    <2>1. bound[l]["CHAT"] # NoRow => bound[l]["CHAT"] \in ModelRow
      BY DEF TypeOK, Capabilities
    <2> QED  BY <1>1, <1>2, <2>1 DEF TypeOK, Capabilities
  <1>7. pc' \in [Launches -> {"off", "migrate", "exited", "dead"} \cup Migrated]
    BY <1>1 DEF TypeOK, Migrated, BindingSteps
  <1> QED  BY <1>1, <1>3, <1>4, <1>5, <1>6, <1>7 DEF BoundTypes, TypeOK

\* The launches begin well typed.
LEMMA InitTypes == Init => TypeInv
  BY DEF Init, TypeInv, TypeOK, Bindings, Unbound, Capabilities, BindingSteps, Migrated

\* A step of a launch keeps the types.
LEMMA TypesKept ==
    ASSUME TypeInv, NEW l \in Launches, Step(l)
    PROVE  TypeOK' /\ Bindings(l)'
  <1> USE DEF TypeInv, TypeOK, Bindings, Goto, BindingSteps, Migrated
  <1>1. CASE Launch(l)
    BY <1>1 DEF Launch, Applied, database, transaction, memory
  <1>2. CASE Migrate(l)
    <2>1. ran' \in [1..Latest -> Nat]
      BY <1>2 DEF Migrate
    <2>2. snapshot' \in [Launches -> {"NONE", "LATEST", "STALE"}]
      BY <1>2 DEF Migrate, Outdated
    <2>3. pc' = [pc EXCEPT ![l] = "resolve"] /\ history' = [history EXCEPT ![l] = {}]
          /\ pc[l] = "migrate"
          /\ UNCHANGED <<models, view, writer, bound, handles, session, loaded, sdk, refused>>
      BY <1>2 DEF Migrate, Leave, memory
    <2>4. \A k \in Launches : snapshot'[k] # "NONE" => snapshot[k] # "NONE"
      BY <1>2 DEF Migrate, Outdated
    <2>5. \A k \in Launches : snapshot'[k] # "NONE" => pc'[k] \in BindingSteps
      BY <2>3, <2>4
    <2>6. TypeOK'
      BY <2>1, <2>2, <2>3, <2>5
    <2>7. Bindings(l)'
      BY <2>3 DEF Unbound, Capabilities
    <2> QED  BY <2>6, <2>7
  <1>3. CASE MigrationRefused(l) \/ MigrationFails(l)
    BY <1>3 DEF MigrationRefused, MigrationFails, Leave, database, transaction, memory
  <1>4. CASE Resolve(l)
    BY <1>4, Turns DEF Resolve, database, transaction, memory
  <1>5. CASE Healthy(l)
    <2> DEFINE c == Turn(handles[l])
    <2>1. /\ c \in Capabilities /\ pc[l] = "probe"
          /\ sdk' = [sdk EXCEPT ![l] = @ \ {c}]
          /\ handles' = [handles EXCEPT ![l][c] = <<l, c>>]
          /\ pc' = [pc EXCEPT ![l] = IF c = "CHAT" THEN "resolve" ELSE "select"]
          /\ UNCHANGED <<database, history, transaction, session, loaded, refused>>
      BY <1>5, Turns DEF Healthy
    <2>2. handles'[l] = [handles[l] EXCEPT ![c] = <<l, c>>] /\ <<l, c>> \in ModelId
      BY <2>1 DEF ModelId
    <2>3. /\ handles' \in [Launches -> [Capabilities -> ModelId \cup {NoRow}]]
          /\ sdk' \in [Launches -> SUBSET Capabilities]
      BY <2>1, <2>2
    <2>4. c = "CHAT" => handles'[l]["EMBEDDING"] = NoRow
      BY <2>1, <2>2 DEF Capabilities
    <2>5. c # "CHAT" => handles'[l] \in [Capabilities -> ModelId]
      <3>1. handles[l]["CHAT"] # NoRow => handles[l]["CHAT"] \in ModelId
        BY DEF Capabilities
      <3> QED  BY <2>1, <2>2, <3>1, Turns DEF Capabilities
    <2>6. bound'[l] = bound[l] /\ bound[l] = Unbound
      BY <2>1 DEF transaction
    <2>7. TypeOK'
      BY <2>1, <2>3 DEF database, transaction
    <2>8. Bindings(l)'
      BY <2>1, <2>4, <2>5, <2>6 DEF Unbound, Capabilities
    <2> QED  BY <2>7, <2>8
  <1>6. CASE Unhealthy(l)
    <2> DEFINE c == Turn(handles[l])
    <2>1. /\ c \in Capabilities /\ pc[l] = "probe"
          /\ \/ sdk' = [sdk EXCEPT ![l] = @ \ {c}] /\ UNCHANGED refused
             \/ refused' = [refused EXCEPT ![l] = @ \cup {c}] /\ UNCHANGED sdk
          /\ pc' = [pc EXCEPT ![l] = "unavailable"]
          /\ UNCHANGED <<database, history, transaction, handles, session, loaded>>
      BY <1>6, Turns DEF Unhealthy
    <2> HIDE DEF c
    <2>2. /\ sdk' \in [Launches -> SUBSET Capabilities]
          /\ refused' \in [Launches -> SUBSET Capabilities]
      <3>1. [sdk EXCEPT ![l] = @ \ {c}] \in [Launches -> SUBSET Capabilities]
        OBVIOUS
      <3>2. [refused EXCEPT ![l] = @ \cup {c}] \in [Launches -> SUBSET Capabilities]
        BY <2>1
      <3> QED  BY <2>1, <3>1, <3>2
    <2>3. /\ pc[l] = "probe" /\ pc' = [pc EXCEPT ![l] = "unavailable"]
          /\ UNCHANGED <<database, history, transaction, handles, session, loaded>>
      BY <2>1
    <2>4. TypeOK'
      BY <2>2, <2>3 DEF database, transaction
    <2>5. Bindings(l)'
      BY <2>3 DEF transaction
    <2> QED  BY <2>4, <2>5
  <1>7. CASE RuntimeFails(l) \/ FoundationFails(l)
    <2>1. /\ pc[l] = "resolve" /\ pc' \in {[pc EXCEPT ![l] = "unavailable"], [pc EXCEPT ![l] = "fatal"]}
          /\ UNCHANGED <<database, history, transaction, handles, session>>
      BY <1>7 DEF RuntimeFails, FoundationFails, memory
    <2>2. MemoryTypes(l)'
      BY <1>7, ReleaseTypes DEF RuntimeFails, FoundationFails, MemoryTypes, memory
    <2> QED  BY <2>1, <2>2 DEF MemoryTypes, database, transaction
  <1>8. CASE Select(l)
    <2> DEFINE c == Turn(bound[l])
    <2>1. /\ c \in Capabilities /\ pc[l] = "select" /\ bound[l]["EMBEDDING"] = NoRow
          /\ view' = [view EXCEPT ![l] = Seen(l)]
          /\ snapshot' = [snapshot EXCEPT ![l] = IF @ = "NONE" THEN "LATEST" ELSE @]
          /\ UNCHANGED <<database, history, writer, handles, session, memory>>
      BY <1>8, Turns DEF Select
    <2>2. Seen(l) \subseteq ModelRow
      BY DEF Seen
    <2>3. /\ view' \in [Launches -> SUBSET ModelRow]
          /\ snapshot' \in [Launches -> {"NONE", "LATEST", "STALE"}]
          /\ \A k \in Launches : k # l => snapshot'[k] = snapshot[k]
      BY <2>1, <2>2
    <2>4. \/ pc' = [pc EXCEPT ![l] = "insert"] /\ UNCHANGED bound
          \/ \E row \in ModelRow : Bind(l, c, row)
      BY <1>8, <2>2 DEF Select, SameIdentity
    <2>5. CASE pc' = [pc EXCEPT ![l] = "insert"] /\ UNCHANGED bound
      BY <2>1, <2>3, <2>5 DEF database, memory
    <2>6. CASE \E row \in ModelRow : Bind(l, c, row)
      <3>1. PICK row \in ModelRow : Bind(l, c, row)
        BY <2>6
      <3>2. TypeOK /\ bound[l]["EMBEDDING"] = NoRow
        BY <2>1
      <3>3. BoundTypes(l)' /\ \A k \in Launches : k # l => pc'[k] = pc[k]
        BY ONLY <3>1, <3>2, BindTypes, l \in Launches
      <3>4. \A k \in Launches : snapshot'[k] # "NONE" => pc'[k] \in BindingSteps
        BY <2>3, <3>3 DEF BoundTypes
      <3>5. TypeOK'
        BY <2>1, <2>3, <3>3, <3>4 DEF BoundTypes, database, memory
      <3>6. handles'[l] \in [Capabilities -> ModelId]
        BY <2>1
      <3> QED  BY <3>3, <3>5, <3>6 DEF BoundTypes
    <2> QED  BY <2>4, <2>5, <2>6
  <1>9. CASE Insert(l)
    BY <1>9, RowIsARow, Offered DEF Insert, Bind, Turn, database, memory, Capabilities, ModelRow
  <1>10. CASE Commit(l)
    BY <1>10, RowIsARow DEF Commit, MakePermanent, Outdated, Identifiers, Unbound, memory
  <1>11. CASE CommitFails(l)
    <2>1. /\ pc[l] = "commit" /\ pc' = [pc EXCEPT ![l] = "fatal"]
          /\ handles' = [handles EXCEPT ![l] = Identifiers(l)]
          /\ UNCHANGED <<ran, history, session>>
      BY <1>11 DEF CommitFails
    <2>2. MemoryTypes(l)'
      BY <1>11, ReleaseTypes DEF CommitFails
    <2>3. Identifiers(l) \in [Capabilities -> ModelId]
      BY <2>1, RowIsARow DEF Identifiers
    <2>4. /\ models' \subseteq ModelRow /\ view' \in [Launches -> SUBSET ModelRow]
          /\ snapshot' \in [Launches -> {"NONE", "LATEST", "STALE"}]
          /\ \A k \in Launches : snapshot'[k] # "NONE" => k # l /\ snapshot[k] # "NONE"
          /\ writer' \in Launches \cup {NoLaunch}
          /\ bound' = [bound EXCEPT ![l] = Unbound]
      BY <1>11 DEF CommitFails, RollBack, MakePermanent, Outdated
    <2>5. \A k \in Launches : snapshot'[k] # "NONE" => pc'[k] \in BindingSteps
      BY <2>1, <2>4
    <2>6. bound' \in [Launches -> [Capabilities -> ModelRow \cup {NoRow}]]
      BY <2>4 DEF Unbound
    <2>7. handles' \in [Launches -> [Capabilities -> ModelId \cup {NoRow}]]
      BY <2>1, <2>3
    <2>8. TypeOK'
      BY <2>1, <2>2, <2>4, <2>5, <2>6, <2>7 DEF MemoryTypes
    <2> QED  BY <2>1, <2>4, <2>8
  <1>12. CASE BindingFails(l)
    BY <1>12 DEF BindingFails, RollBack, Unbound, Release, database
  <1>13. CASE Work(l)
    BY <1>13 DEF Work, Outdated, database, memory
  <1>14. CASE \E c \in Capabilities : Load(l, c) \/ InferenceFails(l, c)
    <2>1. PICK c \in Capabilities : Load(l, c) \/ InferenceFails(l, c)
      BY <1>14
    <2>2. /\ pc[l] = "ready" /\ UNCHANGED <<database, pc, history, transaction, handles, session>>
          /\ loaded' \in [Launches -> SUBSET Capabilities]
          /\ sdk' \in [Launches -> SUBSET Capabilities]
          /\ refused' \in [Launches -> SUBSET Capabilities]
      <3>1. /\ [sdk EXCEPT ![l] = @ \ {c}] \in [Launches -> SUBSET Capabilities]
            /\ [loaded EXCEPT ![l] = @ \ {c}] \in [Launches -> SUBSET Capabilities]
        OBVIOUS
      <3>2. /\ [sdk EXCEPT ![l] = @ \cup {c}] \in [Launches -> SUBSET Capabilities]
            /\ [loaded EXCEPT ![l] = @ \cup {c}] \in [Launches -> SUBSET Capabilities]
            /\ [refused EXCEPT ![l] = @ \cup {c}] \in [Launches -> SUBSET Capabilities]
        OBVIOUS
      <3> QED  BY <2>1, <3>1, <3>2 DEF Load, InferenceFails
    <2>3. TypeOK'
      BY <2>2 DEF database, transaction
    <2>4. Bindings(l)'
      BY <2>2 DEF transaction
    <2> QED  BY <2>3, <2>4
  <1>15. CASE Shutdown(l)
    BY <1>15 DEF Shutdown, Release, Unbound, database, transaction
  <1>16. CASE Crash(l)
    BY <1>16 DEF Crash, RollBack, Leave, Unbound, database
  <1> QED  BY <1>1, <1>2, <1>3, <1>4, <1>5, <1>6, <1>7, <1>8, <1>9, <1>10, <1>11, <1>12,
              <1>13, <1>14, <1>15, <1>16 DEF Step, Proceed

\* Every step keeps the types.
LEMMA TypesInductive == TypeInv /\ [Next]_vars => TypeInv'
  <1> SUFFICES ASSUME TypeInv, [Next]_vars PROVE TypeInv'
    OBVIOUS
  <1>1. CASE Next
    <2>1. PICK l \in Launches : Step(l)
      BY <1>1 DEF Next
    <2>2. TypeOK' /\ Bindings(l)'
      BY <2>1, TypesKept
    <2>3. ASSUME NEW k \in Launches, k # l PROVE Bindings(k)'
      BY <2>1, <2>3, OthersStay DEF TypeInv, Bindings
    <2> QED  BY <2>2, <2>3 DEF TypeInv
  <1>2. CASE UNCHANGED vars
    BY <1>2 DEF TypeInv, TypeOK, Bindings, vars, database, transaction, memory
  <1> QED  BY <1>1, <1>2

\* The rows and what every launch knows of them are well typed, and a transaction
\* is only open while models are being bound.
THEOREM TypesHold == Spec => []TypeOK
  <1>1. TypeInv => TypeOK
    BY DEF TypeInv
  <1> QED  BY InitTypes, TypesInductive, <1>1, PTL DEF Spec
------------------------------------------------------------------------------
(* Migrations.                                                             *)

\* What a launch read of the history stays true: migrations are never undone.
SchemaInv ==
    /\ SchemaIsCurrent
    /\ \A l \in Launches : pc[l] = "migrate" => history[l] \subseteq Applied

\* A launch whose history is behind the database finds something to apply that
\* is applied already; so what it applies is exactly what is missing.
LEMMA MigrateKeepsSchema ==
    ASSUME TypeOK, SchemaInv, NEW l \in Launches, Migrate(l)
    PROVE  SchemaInv'
  <1>1. /\ pc[l] = "migrate" /\ pc' = [pc EXCEPT ![l] = "resolve"]
        /\ history' = [history EXCEPT ![l] = {}]
        /\ HistoryFits(l) /\ (Pending(l) # {} => ScriptRuns(l))
        /\ ran' = [m \in 1..Latest |-> IF m \in Pending(l) THEN ran[m] + 1 ELSE ran[m]]
    BY DEF Migrate, Leave, Goto
  <1>2. PICK k \in 0..Ships[l] : history[l] = 1..k
    BY <1>1 DEF HistoryFits
  <1>3. PICK n \in 0..Latest : Applied = 1..n
    BY DEF SchemaInv, SchemaIsCurrent
  <1>4. Latest \in Nat /\ Ships[l] \in 1..Latest /\ \A i \in Launches : Ships[i] \in 1..Latest
    BY ReleasesAssumption
  <1>5. Pending(l) = (k + 1)..Ships[l]
    BY <1>2, <1>4 DEF Pending
  <1>6. k <= n
    <2>1. 1..k \subseteq 1..n
      BY <1>1, <1>2, <1>3 DEF SchemaInv
    <2> QED  BY <1>3, <1>4, <2>1
  <1>7. Pending(l) # {} => n <= k
    <2>1. ASSUME Pending(l) # {}, n > k PROVE FALSE
      <3>1. k + 1 \in Pending(l) /\ k + 1 \in Applied
        BY <1>2, <1>3, <1>4, <1>5, <2>1
      <3> QED  BY <1>1, <2>1, <3>1 DEF ScriptRuns
    <2> QED  BY <1>2, <1>3, <1>4, <2>1
  <1>8. \A m \in 1..Latest : ran[m] \in Nat /\ ran[m] <= 1 /\ (ran[m] > 0 <=> m \in 1..n)
    BY <1>3 DEF TypeOK, SchemaInv, SchemaIsCurrent, Applied
  <1>9. \A m \in 1..Latest : ran'[m] <= 1
    <2>1. ASSUME NEW m \in 1..Latest PROVE ran'[m] <= 1
      <3>1. CASE m \in Pending(l)
        BY <1>1, <1>2, <1>3, <1>4, <1>5, <1>7, <1>8, <3>1
      <3>2. CASE m \notin Pending(l)
        BY <1>1, <1>8, <3>2
      <3> QED  BY <3>1, <3>2
    <2> QED  BY <2>1
  <1>10. Applied' = Applied \cup Pending(l)
    <2>1. Pending(l) \subseteq 1..Latest
      BY <1>2, <1>4, <1>5
    <2>2. \A m \in 1..Latest : ran'[m] > 0 <=> ran[m] > 0 \/ m \in Pending(l)
      BY <1>1, <1>8
    <2> QED  BY <2>1, <2>2 DEF Applied
  <1>11. \E j \in 0..Latest : Applied' = 1..j
    <2>1. CASE Pending(l) = {}
      BY <1>3, <1>10, <2>1
    <2>2. CASE Pending(l) # {}
      <3>1. n = k /\ k < Ships[l]
        BY <1>2, <1>3, <1>4, <1>5, <1>6, <1>7, <2>2
      <3>2. Applied' = 1..Ships[l]
        BY <1>2, <1>3, <1>4, <1>5, <1>10, <3>1
      <3> QED  BY <1>4, <3>2
    <2> QED  BY <2>1, <2>2
  <1>12. 1..Ships[l] \subseteq Applied'
    <2>1. \A m \in 1..Ships[l] : m \in history[l] \/ m \in Pending(l)
      BY DEF Pending
    <2> QED  BY <1>1, <1>10, <2>1 DEF SchemaInv
  <1>13. \A i \in Launches : pc'[i] \in Migrated => 1..Ships[i] \subseteq Applied'
    <2>1. ASSUME NEW i \in Launches, i # l, pc'[i] \in Migrated
          PROVE  1..Ships[i] \subseteq Applied
      BY <1>1, <2>1 DEF TypeOK, SchemaInv, SchemaIsCurrent
    <2> QED  BY <1>10, <1>12, <2>1
  <1>14. \A i \in Launches : pc'[i] = "migrate" => history'[i] \subseteq Applied'
    <2>1. ASSUME NEW i \in Launches, pc'[i] = "migrate" PROVE history'[i] \subseteq Applied
      BY <1>1, <2>1 DEF TypeOK, SchemaInv
    <2> QED  BY <1>10, <2>1
  <1> QED  BY <1>9, <1>11, <1>13, <1>14 DEF SchemaInv, SchemaIsCurrent

\* Nothing but a launch and a migration touches the schema history.
LEMMA OtherStepsKeepSchema ==
    ASSUME TypeOK, NEW l \in Launches, Step(l), ~ Migrate(l), ~ Launch(l)
    PROVE  /\ ran' = ran
           /\ pc'[l] \in Migrated => pc[l] \in Migrated
           /\ pc'[l] = "migrate" => pc[l] = "migrate" /\ history'[l] = history[l]
  <1> USE DEF TypeOK, Goto, Migrated, BindingSteps
  <1>1. CASE MigrationRefused(l) \/ MigrationFails(l) \/ Crash(l)
    BY <1>1 DEF MigrationRefused, MigrationFails, Crash, RollBack, Leave, database
  <1>2. CASE Resolve(l) \/ Healthy(l) \/ Unhealthy(l) \/ RuntimeFails(l) \/ FoundationFails(l)
    BY <1>2 DEF Resolve, Healthy, Unhealthy, RuntimeFails, FoundationFails, database
  <1>3. CASE Select(l) \/ Insert(l)
    BY <1>3 DEF Select, Insert, Bind, database
  <1>4. CASE Commit(l) \/ CommitFails(l) \/ BindingFails(l)
    BY <1>4 DEF Commit, CommitFails, BindingFails, database
  <1>5. CASE Work(l) \/ Shutdown(l) \/ \E c \in Capabilities : Load(l, c) \/ InferenceFails(l, c)
    BY <1>5 DEF Work, Shutdown, Load, InferenceFails, database
  <1> QED  BY <1>1, <1>2, <1>3, <1>4, <1>5 DEF Step, Proceed

\* Every step keeps the invariant of the schema.
LEMMA SchemaInductive == TypeInv /\ SchemaInv /\ [Next]_vars => SchemaInv'
  <1> SUFFICES ASSUME TypeInv, SchemaInv, [Next]_vars PROVE SchemaInv'
    OBVIOUS
  <1>0. TypeOK
    BY DEF TypeInv
  <1>1. ASSUME NEW l \in Launches, Migrate(l) PROVE SchemaInv'
    BY <1>0, <1>1, MigrateKeepsSchema
  <1>2. ASSUME NEW l \in Launches, Launch(l) PROVE SchemaInv'
    <2>1. /\ ran' = ran /\ history' = [history EXCEPT ![l] = Applied]
          /\ pc' = [pc EXCEPT ![l] = "migrate"]
      BY <1>2 DEF Launch, Goto, database
    <2>2. Applied' = Applied
      BY <2>1 DEF Applied
    <2>3. \A k \in Launches : pc'[k] \in Migrated => pc[k] \in Migrated
      BY <1>0, <2>1 DEF TypeOK, Migrated, BindingSteps
    <2>4. \A k \in Launches : pc'[k] = "migrate" => history'[k] \subseteq Applied
      BY <1>0, <2>1 DEF TypeOK, SchemaInv
    <2> QED  BY <2>1, <2>2, <2>3, <2>4 DEF SchemaInv, SchemaIsCurrent
  <1>3. ASSUME NEW l \in Launches, Step(l), ~ Migrate(l), ~ Launch(l) PROVE SchemaInv'
    <2>1. ran' = ran /\ Applied' = Applied
      BY <1>0, <1>3, OtherStepsKeepSchema DEF Applied
    <2>2. \A k \in Launches : pc'[k] \in Migrated => pc[k] \in Migrated
      BY <1>0, <1>3, OtherStepsKeepSchema, OthersStay
    <2>3. \A k \in Launches : pc'[k] = "migrate" => pc[k] = "migrate" /\ history'[k] = history[k]
      BY <1>0, <1>3, OtherStepsKeepSchema, OthersStay
    <2> QED  BY <2>1, <2>2, <2>3 DEF SchemaInv, SchemaIsCurrent
  <1>4. CASE UNCHANGED vars
    BY <1>4 DEF SchemaInv, SchemaIsCurrent, Applied, vars, database
  <1> QED  BY <1>1, <1>2, <1>3, <1>4 DEF Next

\* No migration has run initially.
LEMMA InitSchema == Init => SchemaInv
  <1> SUFFICES ASSUME Init PROVE SchemaInv
    OBVIOUS
  <1>1. Latest \in Nat
    BY ReleasesAssumption
  <1>2. Applied = 1..0 /\ \A m \in 1..Latest : ran[m] = 0
    BY <1>1 DEF Init, Applied
  <1>3. \A l \in Launches : pc[l] = "off"
    BY DEF Init
  <1> QED  BY <1>1, <1>2, <1>3 DEF SchemaInv, SchemaIsCurrent, Migrated, BindingSteps

\* However many launches of whatever releases migrate one database, every
\* migration is committed once and in order, before a launch of its release goes on.
THEOREM SchemaStaysCurrent == Spec => []SchemaIsCurrent
  <1>1. TypeInv /\ SchemaInv /\ [Next]_vars => (TypeInv /\ SchemaInv)'
    BY TypesInductive, SchemaInductive
  <1>2. SchemaInv => SchemaIsCurrent
    BY DEF SchemaInv
  <1> QED  BY InitTypes, InitSchema, <1>1, <1>2, PTL DEF Spec
------------------------------------------------------------------------------
(* The models in memory.                                                   *)

\* Only the model that is being tried is in memory without being known.
Released(l) ==
    /\ loaded[l] \subseteq sdk[l]
    /\ pc[l] # "probe" => sdk[l] \subseteq loaded[l] \cup refused[l]
    /\ pc[l] = "probe" => sdk[l] \subseteq loaded[l] \cup refused[l] \cup {Turn(handles[l])}
    /\ loaded[l] # {} => pc[l] = "ready"

\* After a release, only models that the SDK refused to unload are left in it.
LEMMA ReleaseKnows ==
    ASSUME TypeOK, NEW l \in Launches, Release(l),
           loaded[l] \subseteq sdk[l], sdk[l] \subseteq loaded[l] \cup refused[l]
    PROVE  loaded'[l] = {} /\ sdk'[l] \subseteq refused'[l]
  <1>1. PICK gone \in SUBSET loaded[l] :
            /\ sdk' = [sdk EXCEPT ![l] = @ \ gone]
            /\ refused' = [refused EXCEPT ![l] = @ \cup (loaded[l] \ gone)]
            /\ loaded' = [loaded EXCEPT ![l] = {}]
    BY DEF Release
  <1>2. sdk'[l] = sdk[l] \ gone /\ refused'[l] = refused[l] \cup (loaded[l] \ gone)
        /\ loaded'[l] = {}
    BY <1>1 DEF TypeOK
  <1> QED  BY <1>2

\* A step of a launch keeps account of the models it has loaded.
LEMMA ReleasedKept ==
    ASSUME TypeOK, NEW l \in Launches, Released(l), Step(l)
    PROVE  Released(l)'
  <1> USE DEF TypeOK, Goto, Released
  <1>1. CASE Launch(l) \/ Migrate(l) \/ MigrationRefused(l) \/ MigrationFails(l)
    BY <1>1 DEF Launch, Migrate, MigrationRefused, MigrationFails, Leave, memory
  <1>2. CASE Resolve(l)
    BY <1>2 DEF Resolve
  <1>3. CASE Healthy(l)
    BY <1>3 DEF Healthy
  <1>4. CASE Unhealthy(l)
    BY <1>4 DEF Unhealthy
  <1>5. CASE RuntimeFails(l) \/ CommitFails(l) \/ BindingFails(l) \/ Shutdown(l)
    <2>1. pc[l] # "probe" /\ Release(l) /\ pc'[l] \in {"unavailable", "fatal", "closed"}
      BY <1>5 DEF RuntimeFails, CommitFails, BindingFails, Shutdown
    <2>2. loaded'[l] = {} /\ sdk'[l] \subseteq refused'[l]
      BY <2>1, ReleaseKnows
    <2> QED  BY <2>1, <2>2
  <1>6. CASE FoundationFails(l) \/ Work(l)
    BY <1>6 DEF FoundationFails, Work, memory
  <1>7. CASE Select(l) \/ Insert(l) \/ Commit(l)
    BY <1>7 DEF Select, Insert, Commit, Bind, memory
  <1>8. CASE \E c \in Capabilities : Load(l, c) \/ InferenceFails(l, c)
    BY <1>8 DEF Load, InferenceFails
  <1>9. CASE Crash(l)
    BY <1>9 DEF Crash, Leave
  <1> QED  BY <1>1, <1>2, <1>3, <1>4, <1>5, <1>6, <1>7, <1>8, <1>9 DEF Step, Proceed

\* No launch ever leaves a model in memory that it could have unloaded and does
\* not know of, whatever fails.
THEOREM ModelsStayReleased == Spec => []ModelsAreReleased
  <1> DEFINE Inv == TypeInv /\ \A l \in Launches : Released(l)
  <1>1. Init => Inv
    BY InitTypes DEF Init, Released
  <1>2. Inv /\ [Next]_vars => Inv'
    <2> SUFFICES ASSUME Inv, [Next]_vars PROVE \A l \in Launches : Released(l)'
      BY TypesInductive
    <2>1. ASSUME NEW k \in Launches, Step(k), NEW l \in Launches PROVE Released(l)'
      <3>1. TypeOK
        BY DEF TypeInv
      <3>2. CASE l = k
        BY <2>1, <3>1, <3>2, ReleasedKept
      <3>3. CASE l # k
        BY <2>1, <3>1, <3>3, OthersStay DEF Released
      <3> QED  BY <3>2, <3>3
    <2>2. CASE UNCHANGED vars
      BY <2>2 DEF Released, vars, memory
    <2> QED  BY <2>1, <2>2 DEF Next
  <1>3. Inv => ModelsAreReleased
    BY DEF Released, ModelsAreReleased
  <1> QED  BY <1>1, <1>2, <1>3, PTL DEF Spec
------------------------------------------------------------------------------
(* The identifiers of the bound models.                                    *)

Unique(rows) ==
    \A r, s \in rows :
        r.capability = s.capability /\ r.model.identity = s.model.identity => r = s

\* A transaction that can still write sees every committed row, and what it has
\* bound it sees.
Transacts(l) ==
    /\ snapshot[l] = "LATEST" => models \subseteq view[l]
    /\ snapshot[l] # "NONE" => Unique(view[l])
    /\ snapshot[l] # "NONE" /\ writer # l => view[l] \subseteq models
    /\ writer = l => snapshot[l] = "LATEST"
    /\ pc[l] \in {"insert", "commit"} => snapshot[l] # "NONE"
    /\ pc[l] = "insert" => SameIdentity(view[l], l, Turn(bound[l])) = {}
    /\ \A c \in Capabilities : bound[l][c] # NoRow =>
        /\ snapshot[l] # "NONE" /\ bound[l][c] \in view[l]
        /\ bound[l][c].capability = c /\ bound[l][c].model = Offer[l][c]

Opened(l) ==
    pc[l] = "ready" =>
        /\ session[l] = handles[l]
        /\ \A c \in Capabilities : \E row \in models :
            row.id = session[l][c] /\ row.capability = c /\ row.model = Offer[l][c]

SessionInv == Unique(models) /\ \A l \in Launches : Transacts(l) /\ Opened(l)

\* Rows are only added, by a transaction that sees all of them, and this leaves
\* the snapshots of the others behind.
LEMMA RowsGrow ==
    ASSUME TypeOK, Unique(models), NEW l \in Launches, Transacts(l), Step(l)
    PROVE  /\ models \subseteq models' /\ Unique(models')
           /\ \A k \in Launches : k # l =>
                /\ writer' = k <=> writer = k
                /\ models' = models \/ snapshot'[k] # "LATEST"
  <1>1. CASE UNCHANGED models
    <2>1. ASSUME NEW k \in Launches, k # l PROVE writer' = k <=> writer = k
      <3> USE <2>1, LaunchesAssumption
      <3>1. CASE Insert(l)
        BY <3>1 DEF Insert, WriteIsAllowed
      <3>2. CASE Commit(l) \/ CommitFails(l) \/ BindingFails(l) \/ Crash(l)
        BY <3>2 DEF Commit, CommitFails, BindingFails, Crash, RollBack, MakePermanent
      <3>3. CASE UNCHANGED writer
        BY <3>3
      <3> QED  BY <3>1, <3>2, <3>3 DEF Step, Proceed, Launch, Migrate, MigrationRefused,
                MigrationFails, Resolve, Healthy, Unhealthy, RuntimeFails, FoundationFails, Select,
                Work, Load, InferenceFails, Shutdown, transaction
    <2> QED  BY <1>1, <2>1 DEF Unique
  <1>2. CASE MakePermanent(l)
    <2>1. models' = IF writer = l THEN view[l] ELSE models
      BY <1>2 DEF MakePermanent
    <2>2. models \subseteq models' /\ Unique(models')
      BY <2>1 DEF Transacts, Unique
    <2>3. ASSUME NEW k \in Launches, k # l
          PROVE  /\ writer' = k <=> writer = k
                 /\ models' = models \/ snapshot'[k] # "LATEST"
      BY <1>2, <2>1, <2>3, LaunchesAssumption DEF MakePermanent, Outdated, TypeOK
    <2> QED  BY <2>2, <2>3
  <1>3. UNCHANGED models \/ MakePermanent(l)
    BY DEF Step, Proceed, Launch, Migrate, MigrationRefused, MigrationFails, Resolve, Healthy,
           Unhealthy, RuntimeFails, FoundationFails, Select, Insert, Commit, CommitFails,
           BindingFails, Work, Load, InferenceFails, Shutdown, Crash, database
  <1> QED  BY <1>1, <1>2, <1>3

\* A step keeps the transactions and sessions of the other launches.
LEMMA OthersKeepTheirs ==
    ASSUME TypeOK, SessionInv, NEW l \in Launches, Step(l), NEW k \in Launches, k # l
    PROVE  Transacts(k)' /\ Opened(k)'
  <1>1. /\ models \subseteq models' /\ (writer' = k <=> writer = k)
        /\ models' = models \/ snapshot'[k] # "LATEST"
    BY RowsGrow DEF SessionInv
  <1>2. /\ pc'[k] = pc[k] /\ view'[k] = view[k] /\ bound'[k] = bound[k]
        /\ handles'[k] = handles[k] /\ session'[k] = session[k]
        /\ snapshot'[k] \in {snapshot[k], "STALE"} /\ (snapshot[k] = "NONE" => snapshot'[k] = "NONE")
    BY OthersStay
  <1>3. Transacts(k) /\ Opened(k)
    BY DEF SessionInv
  <1>4. writer = k => snapshot'[k] = "LATEST"
    <2>1. ASSUME writer = k, snapshot'[k] # snapshot[k] PROVE FALSE
      <3>1. Migrate(l) \/ Work(l) \/ MakePermanent(l)
        BY <1>2, <2>1 DEF Step, Proceed, Launch, MigrationRefused, MigrationFails, Resolve,
           Healthy, Unhealthy, RuntimeFails, FoundationFails, Select, Insert, Commit, CommitFails,
           BindingFails, RollBack, Load, InferenceFails, Shutdown, Crash, transaction, TypeOK
      <3>2. LockIsFree \/ writer = l
        <4>1. CASE Migrate(l) \/ Work(l)
          BY <2>1, <4>1 DEF Migrate, Work
        <4>2. CASE MakePermanent(l)
          BY <2>1, <4>2 DEF MakePermanent, TypeOK
        <4> QED  BY <3>1, <4>1, <4>2
      <3> QED  BY <2>1, <3>2, LaunchesAssumption DEF LockIsFree
    <2> QED  BY <1>3, <2>1 DEF Transacts
  <1>5. Transacts(k)'
    BY <1>1, <1>2, <1>3, <1>4 DEF Transacts, Unique, SameIdentity, Turn
  <1>6. Opened(k)'
    BY <1>1, <1>2, <1>3 DEF Opened
  <1> QED  BY <1>5, <1>6

\* The steps of its transaction.
LEMMA SelectTransacts ==
    ASSUME TypeInv, SessionInv, NEW l \in Launches, Select(l)
    PROVE  Transacts(l)' /\ Opened(l)'
  <1> DEFINE c == Turn(bound[l])
  <1>1. /\ pc[l] = "select" /\ c \in Capabilities
        /\ view' = [view EXCEPT ![l] = Seen(l)]
        /\ snapshot' = [snapshot EXCEPT ![l] = IF @ = "NONE" THEN "LATEST" ELSE @]
        /\ models' = models /\ writer' = writer
    BY Turns DEF Select, database
  <1>2. TypeOK /\ Transacts(l) /\ Unique(models)
    BY DEF TypeInv, SessionInv
  <1>3. view'[l] = Seen(l) /\ snapshot'[l] = IF snapshot[l] = "NONE" THEN "LATEST" ELSE snapshot[l]
    BY <1>1, <1>2 DEF TypeOK
  <1>4. /\ snapshot'[l] # "NONE" /\ Unique(view'[l])
        /\ snapshot'[l] = "LATEST" => models \subseteq view'[l]
        /\ writer # l => view'[l] \subseteq models
        /\ writer = l => snapshot'[l] = "LATEST"
    BY <1>2, <1>3 DEF Seen, Transacts, TypeOK
  <1>5. \A d \in Capabilities : bound[l][d] # NoRow =>
            /\ bound[l][d] \in view'[l]
            /\ bound[l][d].capability = d /\ bound[l][d].model = Offer[l][d]
    BY <1>2, <1>3 DEF Seen, Transacts
  <1>6. CASE SameIdentity(Seen(l), l, c) = {} /\ Goto(l, "insert") /\ UNCHANGED bound
    <2>1. pc'[l] = "insert" /\ bound'[l] = bound[l]
      BY <1>2, <1>6 DEF Goto, TypeOK
    <2>2. SameIdentity(view'[l], l, Turn(bound'[l])) = {}
      BY <1>3, <1>6, <2>1
    <2>3. Transacts(l)'
      BY <1>1, <1>4, <1>5, <2>1, <2>2 DEF Transacts, Unique, SameIdentity, Turn
    <2> QED  BY <2>1, <2>3 DEF Opened
  <1>7. CASE \E row \in SameIdentity(Seen(l), l, c) : row.model = Offer[l][c] /\ Bind(l, c, row)
    <2>1. PICK row \in Seen(l) : row.capability = c /\ row.model = Offer[l][c] /\ Bind(l, c, row)
      BY <1>7 DEF SameIdentity
    <2>2. pc'[l] \in {"select", "commit"}
      BY <1>2, <2>1 DEF Bind, Goto, TypeOK
    <2>3. bound'[l] = [bound[l] EXCEPT ![c] = row] /\ bound[l] \in [Capabilities -> ModelRow \cup {NoRow}]
      BY <1>2, <2>1 DEF Bind, TypeOK
    <2>4. \A d \in Capabilities : bound'[l][d] # NoRow =>
            /\ bound'[l][d] \in view'[l]
            /\ bound'[l][d].capability = d /\ bound'[l][d].model = Offer[l][d]
      BY <1>1, <1>3, <1>5, <2>1, <2>3
    <2>5. Transacts(l)'
      BY <1>1, <1>4, <2>2, <2>4 DEF Transacts, Unique
    <2> QED  BY <2>2, <2>5 DEF Opened
  <1> QED  BY <1>6, <1>7 DEF Select

\* After an insert, the launch still sees the rows it has bound.
LEMMA InsertTransacts ==
    ASSUME TypeInv, SessionInv, NEW l \in Launches, Insert(l)
    PROVE  Transacts(l)' /\ Opened(l)'
  <1>1. PICK c, row : c = Turn(bound[l])
            /\ row = [id |-> handles[l][c], capability |-> c, model |-> Offer[l][c]]
    OBVIOUS
  <1>2. /\ pc[l] = "insert" /\ c \in Capabilities
        /\ snapshot[l] = "LATEST" /\ writer' = l
        /\ view' = [view EXCEPT ![l] = @ \cup {row}] /\ Bind(l, c, row)
        /\ models' = models /\ snapshot' = snapshot
    BY <1>1, Turns DEF Insert, WriteIsAllowed, database
  <1>3. row.capability = c /\ row.model = Offer[l][c]
    BY <1>1
  <1>4. TypeOK /\ Transacts(l) /\ Unique(models)
    BY DEF TypeInv, SessionInv
  <1>5. view'[l] = view[l] \cup {row} /\ models \subseteq view'[l]
    BY <1>2, <1>4 DEF Transacts, TypeOK
  <1>6. Unique(view'[l])
    <2>1. \A r \in view[l] : ~ (r.capability = c /\ r.model.identity = Offer[l][c].identity)
      BY <1>1, <1>2, <1>4 DEF Transacts, SameIdentity
    <2> QED  BY <1>2, <1>3, <1>4, <1>5, <2>1 DEF Transacts, Unique
  <1>7. pc'[l] \in {"select", "commit"}
    BY <1>2, <1>4 DEF Bind, Goto, TypeOK
  <1>8. bound'[l] = [bound[l] EXCEPT ![c] = row] /\ bound[l] \in [Capabilities -> ModelRow \cup {NoRow}]
    BY <1>2, <1>4 DEF Bind, TypeOK
  <1>9. \A d \in Capabilities : bound'[l][d] # NoRow =>
            /\ bound'[l][d] \in view'[l]
            /\ bound'[l][d].capability = d /\ bound'[l][d].model = Offer[l][d]
    BY <1>2, <1>3, <1>4, <1>5, <1>8 DEF Transacts
  <1>10. Transacts(l)'
    BY <1>2, <1>5, <1>6, <1>7, <1>9 DEF Transacts, Unique
  <1> QED  BY <1>7, <1>10 DEF Opened

\* What was bound is committed, whether this transaction wrote it or found it.
LEMMA CommitOpens ==
    ASSUME TypeInv, SessionInv, NEW l \in Launches, Commit(l)
    PROVE  Transacts(l)' /\ Opened(l)'
  <1>1. TypeOK /\ Transacts(l) /\ Bindings(l) /\ pc[l] = "commit"
    BY DEF TypeInv, SessionInv, Commit
  <1>2. /\ handles'[l] = Identifiers(l) /\ session'[l] = Identifiers(l)
        /\ bound'[l] = Unbound /\ snapshot'[l] = "NONE" /\ writer' # l /\ pc'[l] = "ready"
        /\ models' = IF writer = l THEN view[l] ELSE models
    BY <1>1, LaunchesAssumption DEF Commit, MakePermanent, Outdated, Goto, TypeOK
  <1>3. Transacts(l)'
    BY <1>2 DEF Transacts, Unbound
  <1>4. ASSUME NEW c \in Capabilities
        PROVE  \E row \in models' :
                row.id = session'[l][c] /\ row.capability = c /\ row.model = Offer[l][c]
    <2>1. bound[l][c] \in ModelRow /\ bound[l][c] # NoRow
      BY <1>1, RowIsARow DEF Bindings
    <2>2. bound[l][c] \in view[l] /\ bound[l][c].capability = c /\ bound[l][c].model = Offer[l][c]
      BY <1>1, <2>1 DEF Transacts
    <2>3. view[l] \subseteq models'
      BY <1>1, <1>2 DEF Transacts
    <2>4. session'[l][c] = bound[l][c].id
      BY <1>2 DEF Identifiers
    <2> QED  BY <2>2, <2>3, <2>4
  <1>5. Opened(l)'
    BY <1>2, <1>4 DEF Opened
  <1> QED  BY <1>3, <1>5

\* Every other step of a launch opens or ends nothing but its transaction.
LEMMA OtherStepsTransact ==
    ASSUME TypeInv, SessionInv, NEW l \in Launches, Step(l),
           ~ Select(l), ~ Insert(l), ~ Commit(l)
    PROVE  Transacts(l)' /\ Opened(l)'
  <1> USE LaunchesAssumption DEF TypeInv, TypeOK, Bindings, BindingSteps, Goto
  <1>1. /\ Transacts(l) /\ Opened(l) /\ Bindings(l)
        /\ models \subseteq models'
    BY RowsGrow DEF SessionInv
  <1>2. CASE CommitFails(l) \/ BindingFails(l) \/ Crash(l)
    <2>1. /\ snapshot'[l] = "NONE" /\ bound'[l] = Unbound /\ writer' # l
          /\ pc'[l] \in {"fatal", "dead"}
      BY <1>2 DEF CommitFails, BindingFails, Crash, Leave, RollBack, MakePermanent, Outdated
    <2> QED  BY <2>1 DEF Transacts, Opened, Unbound
  <1>3. CASE Work(l) \/ \E c \in Capabilities : Load(l, c) \/ InferenceFails(l, c)
    <2>1. /\ pc'[l] = pc[l] /\ pc[l] \notin BindingSteps
          /\ UNCHANGED <<models, view, writer, bound, handles, session>>
          /\ snapshot'[l] = snapshot[l]
      BY <1>3 DEF Work, Outdated, Load, InferenceFails, database, transaction, memory
    <2>2. snapshot[l] = "NONE" /\ bound[l] = Unbound
      BY <1>1, <2>1
    <2> QED  BY <1>1, <2>1, <2>2 DEF Transacts, Opened, Unbound
  <1>4. CASE Migrate(l)
    <2>1. snapshot[l] = "NONE" /\ bound[l] = Unbound
      BY <1>1, <1>4 DEF Migrate
    <2>2. snapshot'[l] = "NONE" /\ bound'[l] = Unbound /\ writer' = writer /\ pc'[l] = "resolve"
      BY <1>4, <2>1 DEF Migrate, Leave, Outdated
    <2> QED  BY <1>1, <2>1, <2>2 DEF Transacts, Opened, Unbound
  <1>5. CASE \/ Launch(l) \/ MigrationRefused(l) \/ MigrationFails(l) \/ Resolve(l)
             \/ Healthy(l) \/ Unhealthy(l) \/ RuntimeFails(l) \/ FoundationFails(l) \/ Shutdown(l)
    <2>1. /\ pc[l] \notin BindingSteps
          /\ pc'[l] \in {"migrate", "exited", "probe", "resolve", "select", "unavailable", "fatal", "closed"}
          /\ UNCHANGED transaction
      BY <1>5 DEF Launch, MigrationRefused, MigrationFails, Leave, Resolve, Healthy, Unhealthy,
                  RuntimeFails, FoundationFails, Shutdown
    <2>2. snapshot[l] = "NONE" /\ bound[l] = Unbound
      BY <1>1, <2>1
    <2> QED  BY <1>1, <2>1, <2>2 DEF Transacts, Opened, Unbound, transaction
  <1> QED  BY <1>2, <1>3, <1>4, <1>5 DEF Step, Proceed

\* Every step keeps the invariant of the sessions.
LEMMA SessionsInductive == TypeInv /\ SessionInv /\ [Next]_vars => SessionInv'
  <1> SUFFICES ASSUME TypeInv, SessionInv, [Next]_vars PROVE SessionInv'
    OBVIOUS
  <1>1. ASSUME NEW l \in Launches, Step(l) PROVE SessionInv'
    <2>1. TypeOK /\ Unique(models) /\ Transacts(l)
      BY DEF TypeInv, SessionInv
    <2>2. Unique(models')
      BY <1>1, <2>1, RowsGrow
    <2>3. Transacts(l)' /\ Opened(l)'
      BY <1>1, SelectTransacts, InsertTransacts, CommitOpens, OtherStepsTransact
    <2>4. ASSUME NEW k \in Launches, k # l PROVE Transacts(k)' /\ Opened(k)'
      BY <1>1, <2>1, <2>4, OthersKeepTheirs
    <2>5. Unique(models)'
      BY <2>2 DEF Unique
    <2> QED  BY <2>3, <2>4, <2>5 DEF SessionInv
  <1>2. CASE UNCHANGED vars
    BY <1>2 DEF SessionInv, Unique, Transacts, Opened, SameIdentity, Turn,
                vars, database, transaction
  <1> QED  BY <1>1, <1>2 DEF Next

\* No launch has a session initially.
LEMMA InitSessions == Init => SessionInv
  BY LaunchesAssumption DEF Init, SessionInv, Unique, Transacts, Opened, Unbound

\* Whatever the launches interleave, fail or crash at: the models of an open
\* session are committed under the identifiers it asks for, and two sessions on the
\* same model ask for it under the same one.
THEOREM SessionsStayAgreed == Spec => []SessionsAgree
  <1>1. TypeInv /\ SessionInv /\ [Next]_vars => (TypeInv /\ SessionInv)'
    BY TypesInductive, SessionsInductive
  <1>2. SessionInv => SessionsAgree
    <2> SUFFICES ASSUME SessionInv, NEW l \in Launches, pc[l] = "ready", NEW c \in Capabilities
                 PROVE  /\ session[l][c] = handles[l][c]
                        /\ \E row \in models : row.id = session[l][c] /\ row.model = Offer[l][c]
                        /\ \A k \in Launches :
                            pc[k] = "ready" /\ Offer[k][c] = Offer[l][c]
                                => session[k][c] = session[l][c]
      BY DEF SessionsAgree
    <2>1. PICK row \in models : row.id = session[l][c] /\ row.capability = c /\ row.model = Offer[l][c]
      BY DEF SessionInv, Opened
    <2>2. session[l] = handles[l]
      BY DEF SessionInv, Opened
    <2>3. ASSUME NEW k \in Launches, pc[k] = "ready", Offer[k][c] = Offer[l][c]
          PROVE  session[k][c] = session[l][c]
      <3>1. PICK other \in models :
                other.id = session[k][c] /\ other.capability = c /\ other.model = Offer[k][c]
        BY <2>3 DEF SessionInv, Opened
      <3>2. other = row
        BY <2>1, <2>3, <3>1 DEF SessionInv, Unique
      <3> QED  BY <2>1, <3>1, <3>2
    <2> QED  BY <2>1, <2>2, <2>3
  <1> QED  BY InitTypes, InitSessions, <1>1, <1>2, PTL DEF Spec
===============================================================================
