-------------------------- MODULE IndexPipelineProofs --------------------------
(***************************************************************************)
(* Proofs about IndexPipeline for any numbers of callers, versions,        *)
(* generations, profiles and chunks, and any batch size: the invariants    *)
(* about what a caller holds on to between its transactions.               *)
(*                                                                         *)
(* Every step of a caller is a transaction of DocumentStore or leaves the  *)
(* rows alone, so IInv of DocumentStoreProofs holds throughout.  What is   *)
(* proved here on top of it speaks of one caller at a time (CallerInv):    *)
(* its own steps establish it, and those of the others cannot break it     *)
(* because a row stays under its version and its profile (RowsStay).       *)
(***************************************************************************)
EXTENDS IndexPipeline, TLAPS

Rows == INSTANCE DocumentStoreProofs

\* The assumptions of DocumentStoreProofs hold.
LEMMA RowsAssumptions ==
    /\ DocumentOf \in [Versions -> Documents]
    /\ SourceOf \in [Versions -> Sources]
    /\ ChunkCount \in [Versions -> [Profiles -> Nat \ {0}]]
    /\ NoRow \notin Rows!GenerationRow
    /\ NoRow \notin [generation : Generations, vectors : SUBSET Nat]
  BY StoreAssumption DEF Store!GenerationRow, Rows!GenerationRow
------------------------------------------------------------------------------
(* Rows and Store are the same operators of the same rows.                 *)

\* The state formulae of the rows.
LEMMA SameRows ==
    /\ Store!TypeOK <=> Rows!TypeOK
    /\ Store!IndexRows = Rows!IndexRows
    /\ \A v : Store!GenerationsOf(v) = Rows!GenerationsOf(v)
    /\ \A g : Store!ChunkSet(g) = Rows!ChunkSet(g)
    /\ \A v : Store!CandidateOpen(v) <=> Rows!CandidateOpen(v)
    /\ \A g : Store!IsStaging(g) <=> Rows!IsStaging(g)
    /\ \A g : Store!Complete(g) <=> Rows!Complete(g)
    /\ \A v : Store!Siblings(v) = Rows!Siblings(v)
  BY DEF Store!TypeOK, Store!VersionStates, Store!JobStates, Store!JobStages, Store!PageSets,
         Store!GenerationRow, Store!IndexRows, Store!GenerationsOf, Store!ChunkSet,
         Store!CandidateOpen, Store!IsStaging, Store!Complete, Store!Siblings,
         Rows!TypeOK, Rows!VersionStates, Rows!JobStates, Rows!JobStages, Rows!PageSets,
         Rows!GenerationRow, Rows!IndexRows, Rows!GenerationsOf, Rows!ChunkSet,
         Rows!CandidateOpen, Rows!IsStaging, Rows!Complete, Rows!Siblings

\* The transactions of the indexing.
LEMMA SameTransactions ==
    ASSUME NEW g
    PROVE  /\ \A v, p : Store!StageCandidate(g, v, p) => Rows!StageCandidate(g, v, p)
           /\ Store!ReplaceCandidate(g) => Rows!ReplaceCandidate(g)
           /\ \A batch : Store!AddBatch(g, batch) => Rows!AddBatch(g, batch)
           /\ Store!Activate(g) => Rows!Activate(g)
  <1>1. \A v, p : Store!StageCandidate(g, v, p) => Rows!StageCandidate(g, v, p)
    BY DEF Store!StageCandidate, Store!HasStaging, Store!CandidateOpen,
           Store!GenerationsOf, Store!IndexRows,
           Rows!StageCandidate, Rows!HasStaging, Rows!CandidateOpen,
           Rows!GenerationsOf, Rows!IndexRows
  <1>2. Store!ReplaceCandidate(g) => Rows!ReplaceCandidate(g)
    BY SameRows DEF Store!ReplaceCandidate, Rows!ReplaceCandidate
  <1>3. \A batch : Store!AddBatch(g, batch) => Rows!AddBatch(g, batch)
    BY SameRows DEF Store!AddBatch, Rows!AddBatch
  <1>4. Store!Activate(g) => Rows!Activate(g)
    BY DEF Store!Activate, Store!IsStaging, Store!Complete, Store!ChunkSet,
           Store!CandidateOpen, Store!IndexRows, Store!PreviousIsAPair, Store!PreviousVersions,
           Store!PreviousGenerations, Store!Siblings, Store!ArchiveVersions,
           Store!ArchiveGenerations, Store!ReadyState,
           Rows!Activate, Rows!IsStaging, Rows!Complete, Rows!ChunkSet,
           Rows!CandidateOpen, Rows!IndexRows, Rows!PreviousIsAPair, Rows!PreviousVersions,
           Rows!PreviousGenerations, Rows!Siblings, Rows!ArchiveVersions,
           Rows!ArchiveGenerations, Rows!ReadyState
  <1> QED  BY <1>1, <1>2, <1>3, <1>4
------------------------------------------------------------------------------
(* The inductive invariant.                                                *)

Held(c) ==
    chosen[c] # NoRow =>
        /\ chosen[c] \in Rows!GenerationsOf(target[c])
        /\ generation[chosen[c]].profile = request[c]
        /\ missing[c] \subseteq Rows!ChunkSet(chosen[c])

\* What is true of a caller whatever the others do: it means to embed chunks only
\* after it chose a generation, it keeps what it chose, and what it returned was
\* published before.
CallerInv(c) ==
    /\ pc[c] # "idle" =>
         outcome[c] = "none" /\ target[c] \in Versions /\ request[c] \in Profiles
    /\ pc[c] \in {"discover", "write", "embed"} => missing[c] = {}
    /\ Held(c)
    /\ outcome[c] \in {"activated", "reused"} =>
         chosen[c] # NoRow /\ generation[chosen[c]].state # "STAGING"

CallerTypes ==
    /\ pc \in [Callers -> Steps \cup {"idle"}]
    /\ target \in [Callers -> Versions \cup {NoRow}]
    /\ request \in [Callers -> Profiles \cup {NoRow}]
    /\ chosen \in [Callers -> Generations \cup {NoRow}]
    /\ missing \in [Callers -> SUBSET Nat]
    /\ cancelled \in [Callers -> BOOLEAN]
    /\ outcome \in [Callers -> Outcomes]

IInv ==
    /\ CallerTypes
    /\ Rows!IInv
    /\ Rows!ArchivedIsReplaced
    /\ \A c \in Callers : CallerInv(c)
    /\ OneActivation

Locals(c) ==
    <<pc[c], target[c], request[c], chosen[c], missing[c], cancelled[c], outcome[c]>>

\* A step of one caller as the others see it: a transaction, in which nothing of
\* theirs changes, and which they may have to share the credit for only if the
\* generation was still a candidate.
CallerStep(c) ==
    /\ [Rows!Next]_(Rows!store)
    /\ CallerTypes'
    /\ CallerInv(c)'
    /\ \A d \in Callers \ {c} : UNCHANGED Locals(d)
    /\ outcome'[c] = "activated" => generation[chosen'[c]].state = "STAGING"

\* Citing DocumentStoreProofs, whose theorems stand under its assumptions.
LEMMA RowTypes ==
    ASSUME Rows!IInv, NEW g \in Rows!IndexRows
    PROVE  /\ Rows!TypeOK
           /\ g \in Generations /\ g # NoRow
           /\ generation[g].version \in Versions
           /\ Rows!ChunkSet(g) \subseteq Nat
  <1>1. Rows!TypeOK
    BY DEF Rows!IInv
  <1> QED
    BY <1>1, RowsAssumptions, NoChoiceAssumption, Rows!RowFields, Rows!ChunkSetIsNat

\* An index row keeps its version and its profile, and never returns to STAGING.
LEMMA RowsKept ==
    ASSUME Rows!IInv, [Rows!Next]_(Rows!store), NEW g \in Rows!IndexRows
    PROVE  /\ g \in Rows!IndexRows'
           /\ generation'[g].version = generation[g].version
           /\ generation'[g].profile = generation[g].profile
           /\ generation[g].state # "STAGING" => generation'[g].state # "STAGING"
           /\ Rows!ChunkSet(g)' = Rows!ChunkSet(g)
  BY RowsAssumptions, Rows!RowsStay

\* The rows keep their invariant, whichever transaction of DocumentStore is taken.
LEMMA RowsInvStep ==
    Rows!IInv /\ Rows!ArchivedIsReplaced /\ [Rows!Next]_(Rows!store)
        => Rows!IInv' /\ Rows!ArchivedIsReplaced'
  <1>1. Rows!IInv /\ [Rows!Next]_(Rows!store) => Rows!IInv'
    BY RowsAssumptions, Rows!InvariantStep
  <1>2. Rows!IInv /\ Rows!ArchivedIsReplaced /\ [Rows!Next]_(Rows!store)
            => Rows!ArchivedIsReplaced'
    BY RowsAssumptions, Rows!ReplacedStay
  <1> QED  BY <1>1, <1>2

\* A caller that holds on to a generation still holds on to it after a transaction.
LEMMA HeldStays ==
    ASSUME Rows!IInv, [Rows!Next]_(Rows!store), NEW c \in Callers, Held(c),
           target'[c] = target[c], request'[c] = request[c], chosen'[c] = chosen[c],
           missing'[c] \subseteq missing[c]
    PROVE  Held(c)'
  <1> SUFFICES ASSUME chosen[c] # NoRow
               PROVE  /\ chosen[c] \in Rows!GenerationsOf(target[c])'
                      /\ generation'[chosen[c]].profile = request[c]
                      /\ missing[c] \subseteq Rows!ChunkSet(chosen[c])'
    BY DEF Held, Rows!GenerationsOf, Rows!ChunkSet
  <1>1. chosen[c] \in Rows!IndexRows /\ generation[chosen[c]].version = target[c]
        /\ generation[chosen[c]].profile = request[c]
        /\ missing[c] \subseteq Rows!ChunkSet(chosen[c])
    BY DEF Held, Rows!GenerationsOf
  <1> DEFINE g == chosen[c]
  <1>2. /\ g \in Rows!IndexRows'
        /\ generation'[g].version = generation[g].version
        /\ generation'[g].profile = generation[g].profile
        /\ Rows!ChunkSet(chosen[c])' = Rows!ChunkSet(g)
    <2>1. ASSUME NEW h \in Rows!IndexRows, h = g
          PROVE  /\ h \in Rows!IndexRows'
                 /\ generation'[h].version = generation[h].version
                 /\ generation'[h].profile = generation[h].profile
                 /\ Rows!ChunkSet(h)' = Rows!ChunkSet(h)
      BY RowsKept
    <2> QED  BY <1>1, <2>1 DEF Rows!ChunkSet
  <1> QED  BY <1>1, <1>2 DEF Rows!GenerationsOf
------------------------------------------------------------------------------
(* The steps, one lemma for each kind.                                     *)

\* The rows and what the caller holds stay; it goes on, or its call ends without
\* an index, or its flag is raised.
LEMMA QuietStep ==
    ASSUME IInv, NEW c \in Callers, pc[c] # "idle",
           UNCHANGED <<store, target, request, chosen, missing>>,
           \/ /\ pc[c] \notin {"discover", "write", "embed"}
              /\ \E step \in Steps \ {"discover", "write", "embed"} : Goto(c, step)
           \/ Finish(c, "cancelled") \/ Finish(c, "failed")
           \/ UNCHANGED <<pc, outcome>> /\ cancelled' = [cancelled EXCEPT ![c] = TRUE]
    PROVE  CallerStep(c)
  <1>1. CallerTypes /\ CallerInv(c) /\ Rows!IInv
    BY DEF IInv
  <1>2. [Rows!Next]_(Rows!store)
    BY DEF Rows!store, store
  <1>3. CallerTypes'
    BY <1>1 DEF CallerTypes, Goto, Finish, Steps, Outcomes
  <1>4. \A d \in Callers \ {c} : UNCHANGED Locals(d)
    BY <1>1 DEF CallerTypes, Goto, Finish, Locals
  <1>5. /\ outcome'[c] \in {"none", "cancelled", "failed"}
        /\ pc'[c] # "idle" => outcome'[c] = "none"
        /\ pc'[c] \in {"discover", "write", "embed"} => pc'[c] = pc[c]
    BY <1>1 DEF CallerTypes, CallerInv, Goto, Finish
  <1>6. Held(c)'
    BY <1>1, <1>2, HeldStays DEF CallerInv
  <1>7. CallerInv(c)'
    BY <1>1, <1>5, <1>6 DEF CallerInv
  <1> QED  BY <1>2, <1>3, <1>4, <1>5, <1>7 DEF CallerStep

\* A call begins with nothing in its hands.
LEMMA CallSteps ==
    ASSUME IInv, NEW c \in Callers, NEW v \in Versions, NEW p \in Profiles, Call(c, v, p)
    PROVE  CallerStep(c)
  <1>1. CallerTypes
    BY DEF IInv
  <1>2. [Rows!Next]_(Rows!store)
    BY DEF Call, Rows!store, store
  <1>3. CallerTypes'
    BY <1>1 DEF CallerTypes, Call, Steps, Outcomes
  <1>4. \A d \in Callers \ {c} : UNCHANGED Locals(d)
    BY <1>1 DEF CallerTypes, Call, Locals
  <1>5. /\ pc'[c] = "discover" /\ outcome'[c] = "none" /\ target'[c] = v /\ request'[c] = p
        /\ chosen'[c] = NoRow /\ missing'[c] = {}
    BY <1>1 DEF CallerTypes, Call
  <1>6. CallerInv(c)'
    BY <1>5 DEF CallerInv, Held
  <1> QED  BY <1>2, <1>3, <1>4, <1>5, <1>6 DEF CallerStep

\* A compatible generation is one of the target's, under the profile asked for.
LEMMA CompatibleFits ==
    ASSUME NEW c \in Callers, NEW g \in Compatible(c)
    PROVE  /\ g \in Rows!IndexRows /\ g \in Rows!GenerationsOf(target[c])
           /\ generation[g].profile = request[c]
  BY SameRows DEF Compatible, Rows!GenerationsOf

\* A caller that chooses a compatible generation returns it if it is published, or
\* goes on to write.
LEMMA ChoiceSteps ==
    ASSUME IInv, NEW c \in Callers, pc[c] \in {"discover", "write"},
           UNCHANGED <<version, job, stage, pages, generation, embedded, missing>>,
           NEW g \in Compatible(c), chosen' = [chosen EXCEPT ![c] = g],
           \/ IsActive(g) /\ Finish(c, "reused")
           \/ Goto(c, "write")
    PROVE  CallerStep(c)
  <1>1. CallerTypes /\ CallerInv(c) /\ Rows!IInv
    BY DEF IInv
  <1>2. [Rows!Next]_(Rows!store)
    BY DEF Rows!store
  <1>3. missing[c] = {} /\ outcome[c] = "none"
    BY <1>1 DEF CallerInv
  <1>4. /\ g \in Rows!IndexRows /\ g \in Generations /\ g # NoRow
        /\ g \in Rows!GenerationsOf(target[c]) /\ generation[g].profile = request[c]
    BY <1>1, CompatibleFits, RowTypes
  <1>5. CallerTypes' /\ (\A d \in Callers \ {c} : UNCHANGED Locals(d))
    BY <1>1, <1>4 DEF CallerTypes, Goto, Finish, Locals, Steps, Outcomes
  <1>6. /\ chosen'[c] = g /\ missing'[c] = {} /\ target'[c] = target[c] /\ request'[c] = request[c]
        /\ \/ pc'[c] = "idle" /\ outcome'[c] = "reused" /\ IsActive(g)
           \/ pc'[c] = "write" /\ outcome'[c] = "none"
    BY <1>1, <1>3 DEF CallerTypes, Goto, Finish
  <1>7. g \in Rows!GenerationsOf(target[c])'
    BY <1>4, <1>6 DEF Rows!GenerationsOf, Rows!IndexRows
  <1>8. Held(c)'
    BY <1>4, <1>6, <1>7 DEF Held
  <1>9. CallerInv(c)'
    BY <1>1, <1>4, <1>6, <1>8 DEF CallerInv, IsActive
  <1> QED  BY <1>2, <1>5, <1>6, <1>9 DEF CallerStep

\* A caller that finds a compatible active index returns it.
LEMMA ReuseSteps ==
    ASSUME IInv, NEW c \in Callers, pc[c] \in {"discover", "write"}, ReuseActive(c),
           UNCHANGED <<version, job, stage, pages, generation, embedded, missing>>
    PROVE  CallerStep(c)
  <1>1. PICK g \in Compatible(c) :
            IsActive(g) /\ chosen' = [chosen EXCEPT ![c] = g] /\ Finish(c, "reused")
    BY DEF ReuseActive
  <1> QED  BY <1>1, ChoiceSteps

\* The reading transaction chooses a compatible generation or none.
LEMMA DiscoverSteps ==
    ASSUME IInv, NEW c \in Callers, Discover(c)
    PROVE  CallerStep(c)
  <1>1. /\ CallerTypes /\ CallerInv(c) /\ Rows!IInv /\ pc[c] = "discover"
        /\ UNCHANGED <<version, job, stage, pages, generation, embedded, missing>>
    BY DEF IInv, Discover, store
  <1>2. [Rows!Next]_(Rows!store)
    BY <1>1 DEF Rows!store
  <1>3. missing[c] = {} /\ outcome[c] = "none"
    BY <1>1 DEF CallerInv
  <1>4. CASE Compatible(c) = {} /\ Goto(c, "write") /\ UNCHANGED chosen
    <2>1. CallerTypes' /\ (\A d \in Callers \ {c} : UNCHANGED Locals(d))
      BY <1>1, <1>4 DEF CallerTypes, Goto, Locals, Steps
    <2>2. Held(c)'
      BY <1>1, <1>2, <1>4, HeldStays DEF CallerInv, Goto
    <2>3. CallerInv(c)'
      BY <1>1, <1>3, <1>4, <2>2 DEF CallerInv, CallerTypes, Goto
    <2> QED  BY <1>1, <1>2, <1>3, <1>4, <2>1, <2>3 DEF CallerStep, Goto
  <1>5. ASSUME NEW g \in Compatible(c), chosen' = [chosen EXCEPT ![c] = g], Goto(c, "write")
        PROVE  CallerStep(c)
    BY <1>1, <1>5, ChoiceSteps
  <1>6. CASE ReuseActive(c)
    BY <1>1, <1>6, ReuseSteps
  <1> QED  BY <1>4, <1>5, <1>6 DEF Discover

\* A caller holds on to what it chose through a transaction that leads it on to the
\* embedding, with no chunk to embed yet.
LEMMA WriteSteps ==
    ASSUME IInv, NEW c \in Callers, WriteCandidate(c)
    PROVE  CallerStep(c)
  <1>1. /\ CallerTypes /\ CallerInv(c) /\ Rows!IInv /\ pc[c] = "write" /\ UNCHANGED missing
    BY DEF IInv, WriteCandidate
  <1>2. missing[c] = {} /\ outcome[c] = "none" /\ target[c] \in Versions /\ request[c] \in Profiles
    BY <1>1 DEF CallerInv
  <1>3. CASE ReuseActive(c) /\ UNCHANGED store
    BY <1>1, <1>3, ReuseSteps DEF store
  <1>4. ASSUME NEW g \in Generations, Store!StageCandidate(g, target[c], request[c]),
               chosen' = [chosen EXCEPT ![c] = g], Goto(c, "embed")
        PROVE  CallerStep(c)
    <2>1. Rows!StageCandidate(g, target[c], request[c])
      BY <1>4, SameTransactions
    <2>2. [Rows!Next]_(Rows!store)
      BY <1>2, <2>1 DEF Rows!Next, Rows!BuildIndex
    <2>3. g # NoRow
      BY NoChoiceAssumption
    <2>4. CallerTypes' /\ (\A d \in Callers \ {c} : UNCHANGED Locals(d))
      BY <1>1, <1>4 DEF CallerTypes, Goto, Locals, Steps
    <2>5. /\ chosen'[c] = g /\ missing'[c] = {} /\ target'[c] = target[c] /\ request'[c] = request[c]
          /\ pc'[c] = "embed" /\ outcome'[c] = "none"
      BY <1>1, <1>2, <1>4 DEF CallerTypes, Goto
    <2>6. generation'[g] = [state |-> "STAGING", version |-> target[c], profile |-> request[c]]
      BY <1>1, <2>1 DEF Rows!StageCandidate, Rows!IInv, Rows!TypeOK
    <2>7. generation'[g] # NoRow /\ generation'[g].version = target[c]
          /\ generation'[g].profile = request[c]
      BY <1>2, <2>6, RowsAssumptions DEF Rows!GenerationRow
    <2>8. Held(c)'
      BY <2>5, <2>7 DEF Held, Rows!GenerationsOf, Rows!IndexRows
    <2>9. CallerInv(c)'
      BY <1>2, <2>5, <2>8 DEF CallerInv
    <2> QED  BY <2>2, <2>4, <2>5, <2>9 DEF CallerStep
  <1>5. CASE Store!ReplaceCandidate(chosen[c]) /\ Goto(c, "embed") /\ UNCHANGED chosen
    <2>1. Rows!ReplaceCandidate(chosen[c])
      BY <1>5, SameTransactions
    <2>2. chosen[c] \in Generations
      BY <2>1 DEF Rows!ReplaceCandidate, Rows!IsStaging, Rows!IndexRows
    <2>3. [Rows!Next]_(Rows!store)
      BY <2>1, <2>2 DEF Rows!Next, Rows!BuildIndex
    <2>4. CallerTypes' /\ (\A d \in Callers \ {c} : UNCHANGED Locals(d))
      BY <1>1, <1>5 DEF CallerTypes, Goto, Locals, Steps
    <2>5. Held(c)'
      BY <1>1, <1>5, <2>3, HeldStays DEF CallerInv, Goto
    <2>6. CallerInv(c)'
      BY <1>1, <1>2, <1>5, <2>5 DEF CallerInv, CallerTypes, Goto
    <2> QED  BY <1>2, <1>5, <2>3, <2>4, <2>6 DEF CallerStep, Goto
  <1> QED  BY <1>3, <1>4, <1>5 DEF WriteCandidate

\* What is missing of the chosen generation are chunks of it.
LEMMA ReadSteps ==
    ASSUME IInv, NEW c \in Callers, ReadPersisted(c)
    PROVE  CallerStep(c)
  <1> DEFINE absent == Store!ChunkSet(chosen[c]) \ embedded[chosen[c]]
  <1>1. /\ CallerTypes /\ CallerInv(c) /\ Rows!IInv /\ pc[c] = "embed"
        /\ UNCHANGED <<version, job, stage, pages, generation, embedded, chosen>>
        /\ missing' = [missing EXCEPT ![c] = absent]
        /\ Goto(c, IF absent = {} THEN "verify" ELSE "generate")
        /\ Store!IsStaging(chosen[c])
    BY DEF IInv, ReadPersisted, store
  <1>2. [Rows!Next]_(Rows!store)
    BY <1>1 DEF Rows!store
  <1>3. outcome[c] = "none" /\ target[c] \in Versions /\ request[c] \in Profiles
    BY <1>1 DEF CallerInv
  <1>4. chosen[c] \in Rows!IndexRows
    BY <1>1, SameRows DEF Rows!IsStaging
  <1>5. absent \subseteq Rows!ChunkSet(chosen[c]) /\ absent \subseteq Nat
    <2>1. Store!ChunkSet(chosen[c]) = Rows!ChunkSet(chosen[c])
      BY SameRows
    <2> QED  BY <1>1, <1>4, <2>1, RowTypes
  <1> HIDE DEF absent
  <1>6. CallerTypes' /\ (\A d \in Callers \ {c} : UNCHANGED Locals(d))
    BY <1>1, <1>5 DEF CallerTypes, Goto, Locals, Steps
  <1>7. /\ chosen'[c] = chosen[c] /\ missing'[c] = absent /\ target'[c] = target[c]
        /\ request'[c] = request[c] /\ outcome'[c] = "none" /\ pc'[c] \in {"verify", "generate"}
    BY <1>1, <1>3 DEF CallerTypes, Goto
  <1>8. Held(c)'
    BY <1>1, <1>5, <1>7 DEF CallerInv, Held, Rows!GenerationsOf, Rows!IndexRows, Rows!ChunkSet
  <1>9. CallerInv(c)'
    BY <1>3, <1>7, <1>8 DEF CallerInv
  <1> QED  BY <1>2, <1>6, <1>7, <1>9 DEF CallerStep

\* A batch is persisted in one transaction, or found persisted by somebody else.
LEMMA PersistSteps ==
    ASSUME IInv, NEW c \in Callers, PersistBatch(c)
    PROVE  CallerStep(c)
  <1>1. /\ CallerTypes /\ CallerInv(c) /\ Rows!IInv /\ pc[c] = "persist" /\ UNCHANGED chosen
        /\ missing' = [missing EXCEPT ![c] = @ \ Batch(c)]
        /\ Goto(c, IF missing[c] = Batch(c) THEN "verify" ELSE "generate")
    BY DEF IInv, PersistBatch
  <1>2. [Rows!Next]_(Rows!store)
    <2>1. CASE Store!AddBatch(chosen[c], Pending(c))
      <3>1. Rows!AddBatch(chosen[c], Pending(c))
        BY <2>1, SameTransactions
      <3>2. chosen[c] \in Rows!IndexRows /\ chosen[c] \in Generations
            /\ Pending(c) \in SUBSET Rows!ChunkSet(chosen[c])
        BY <3>1 DEF Rows!AddBatch, Rows!IsStaging, Rows!IndexRows
      <3> QED  BY <3>1, <3>2 DEF Rows!Next, Rows!BuildIndex
    <2>2. CASE UNCHANGED store
      BY <2>2 DEF store, Rows!store
    <2> QED  BY <2>1, <2>2 DEF PersistBatch
  <1>3. outcome[c] = "none" /\ target[c] \in Versions /\ request[c] \in Profiles
    BY <1>1 DEF CallerInv
  <1>4. CallerTypes' /\ (\A d \in Callers \ {c} : UNCHANGED Locals(d))
    BY <1>1 DEF CallerTypes, Goto, Locals, Steps
  <1>5. /\ chosen'[c] = chosen[c] /\ missing'[c] \subseteq missing[c] /\ target'[c] = target[c]
        /\ request'[c] = request[c] /\ outcome'[c] = "none" /\ pc'[c] \in {"verify", "generate"}
    BY <1>1, <1>3 DEF CallerTypes, Goto
  <1>6. Held(c)'
    BY <1>1, <1>2, <1>5, HeldStays DEF CallerInv
  <1>7. CallerInv(c)'
    BY <1>3, <1>5, <1>6 DEF CallerInv
  <1> QED  BY <1>2, <1>4, <1>5, <1>7 DEF CallerStep

\* The caller that activates found the generation a candidate, and leaves it active.
LEMMA ActivateSteps ==
    ASSUME IInv, NEW c \in Callers, Activate(c)
    PROVE  CallerStep(c)
  <1>1. /\ CallerTypes /\ CallerInv(c) /\ Rows!IInv /\ pc[c] = "activate"
        /\ UNCHANGED <<chosen, missing>> /\ Finish(c, "activated")
    BY DEF IInv, Activate
  <1>2. Rows!Activate(chosen[c])
    BY SameTransactions DEF Activate
  <1>3. chosen[c] \in Rows!IndexRows /\ chosen[c] \in Generations
        /\ generation[chosen[c]].state = "STAGING"
    BY <1>2 DEF Rows!Activate, Rows!IsStaging, Rows!IndexRows
  <1>4. [Rows!Next]_(Rows!store)
    BY <1>2, <1>3 DEF Rows!Next, Rows!BuildIndex
  <1>5. chosen[c] # NoRow
    BY <1>3, NoChoiceAssumption
  <1>6. generation'[chosen[c]].state = "ACTIVE"
    <2>1. ASSUME NEW g \in Generations, g = chosen[c]
          PROVE  generation'[g].state = "ACTIVE"
      BY <1>1, <1>2, <1>3, <2>1, RowsAssumptions, Rows!ActivatedRows
    <2> QED  BY <1>3, <2>1
  <1>7. CallerTypes' /\ (\A d \in Callers \ {c} : UNCHANGED Locals(d))
    BY <1>1 DEF CallerTypes, Finish, Locals, Outcomes
  <1>8. /\ chosen'[c] = chosen[c] /\ pc'[c] = "idle" /\ outcome'[c] = "activated"
    BY <1>1 DEF CallerTypes, Finish
  <1>9. Held(c)'
    BY <1>1, <1>4, HeldStays DEF CallerInv, Finish
  <1>10. CallerInv(c)'
    BY <1>5, <1>6, <1>8, <1>9 DEF CallerInv
  <1> QED  BY <1>3, <1>4, <1>7, <1>8, <1>10 DEF CallerStep

\* Whoever moves, its step is one of these.
LEMMA AnyStep == IInv /\ Next => \E c \in Callers : CallerStep(c)
  <1> SUFFICES ASSUME IInv, NEW c \in Callers,
                      \/ \E v \in Versions, p \in Profiles : Call(c, v, p)
                      \/ Advance(c) \/ StopCancelled(c) \/ Fail(c) \/ RequestCancel(c)
               PROVE  CallerStep(c)
    BY DEF Next
  <1>1. CASE Generate(c) \/ VerifyComplete(c) \/ LastCheckpoint(c)
    BY <1>1, QuietStep DEF Generate, VerifyComplete, LastCheckpoint, Goto, Steps
  <1>2. CASE StopCancelled(c)
    BY <1>2, QuietStep DEF StopCancelled, Finish, Steps
  <1>3. CASE Fail(c)
    BY <1>3, QuietStep DEF Fail, Finish, Steps
  <1>4. CASE RequestCancel(c)
    BY <1>4, QuietStep DEF RequestCancel
  <1> QED
    BY <1>1, <1>2, <1>3, <1>4, CallSteps, DiscoverSteps, WriteSteps, ReadSteps, PersistSteps,
       ActivateSteps
    DEF Advance
------------------------------------------------------------------------------
(* The theorems.                                                           *)

\* Nothing of what is known of a caller is lost to the step of another one.
LEMMA OthersStay ==
    ASSUME IInv, [Rows!Next]_(Rows!store), NEW d \in Callers, UNCHANGED Locals(d)
    PROVE  CallerInv(d)'
  <1>1. Rows!IInv /\ CallerInv(d) /\ CallerTypes
    BY DEF IInv
  <1>2. /\ pc'[d] = pc[d] /\ target'[d] = target[d] /\ request'[d] = request[d]
        /\ chosen'[d] = chosen[d] /\ missing'[d] = missing[d] /\ outcome'[d] = outcome[d]
    BY DEF Locals
  <1>3. Held(d)'
    BY <1>1, <1>2, HeldStays DEF CallerInv
  <1>4. ASSUME outcome[d] \in {"activated", "reused"}
        PROVE  generation'[chosen[d]].state # "STAGING"
    <2>1. chosen[d] \in Rows!IndexRows /\ generation[chosen[d]].state # "STAGING"
      BY <1>1, <1>4 DEF CallerInv, Held, Rows!GenerationsOf
    <2> QED  BY <1>1, <2>1, RowsKept
  <1> QED  BY <1>1, <1>2, <1>3, <1>4 DEF CallerInv

\* Every step keeps the invariant.
LEMMA InvariantStep == IInv /\ [Next]_vars => IInv'
  <1>1. ASSUME IInv, NEW c \in Callers, CallerStep(c)
        PROVE  IInv'
    <2>1. CallerTypes' /\ Rows!IInv' /\ Rows!ArchivedIsReplaced'
      BY <1>1, RowsInvStep DEF IInv, CallerStep
    <2>2. \A d \in Callers : CallerInv(d)'
      BY <1>1, OthersStay DEF CallerStep
    <2>3. OneActivation'
      <3>1. ASSUME NEW d \in Callers \ {c}, outcome'[c] = "activated", outcome'[d] = "activated",
                   chosen'[c] = chosen'[d]
            PROVE  FALSE
        <4>1. outcome[d] = "activated" /\ chosen[d] = chosen'[c]
          BY <1>1, <3>1 DEF CallerStep, Locals
        <4>2. generation[chosen[d]].state # "STAGING"
          BY <1>1, <4>1 DEF IInv, CallerInv
        <4> QED  BY <1>1, <3>1, <4>1, <4>2 DEF CallerStep
      <3>2. ASSUME NEW d \in Callers \ {c}, NEW e \in Callers \ {c},
                   outcome'[e] = "activated", outcome'[d] = "activated", chosen'[e] = chosen'[d]
            PROVE  e = d
        BY <1>1, <3>2 DEF IInv, OneActivation, CallerStep, Locals
      <3> QED  BY <3>1, <3>2 DEF OneActivation
    <2> QED  BY <2>1, <2>2, <2>3 DEF IInv
  <1>2. ASSUME IInv, UNCHANGED vars
        PROVE  IInv'
    <2>1. [Rows!Next]_(Rows!store) /\ CallerTypes' /\ OneActivation'
      BY <1>2 DEF vars, store, callers, Rows!store, IInv, CallerTypes, OneActivation
    <2>2. \A d \in Callers : CallerInv(d)'
      BY <1>2, <2>1, OthersStay DEF vars, callers, Locals
    <2> QED  BY <1>2, <2>1, <2>2, RowsInvStep DEF IInv
  <1> QED  BY <1>1, <1>2, AnyStep

\* The inductive invariant of the callers and the rows they share.
THEOREM Inductive == Spec => []IInv
  <1>1. Init => IInv
    <2> SUFFICES ASSUME Init PROVE IInv
      OBVIOUS
    <2>1. Rows!IndexRows = {}
      BY DEF Init, Rows!IndexRows
    <2>2. Rows!TypeOK
      BY DEF Init, Rows!TypeOK, Rows!VersionStates, Rows!JobStates, Rows!JobStages, Rows!PageSets
    <2>3. Rows!IInv
      BY <2>1, <2>2
      DEF Init, Rows!IInv, Rows!FollowsVersion, Rows!HasGeneration, Rows!OneActiveVersion,
          Rows!ChunkingHasPages, Rows!OneGenerationPerVersion, Rows!PublishedIsComplete
    <2>4. Rows!ArchivedIsReplaced
      BY DEF Init, Rows!ArchivedIsReplaced
    <2>5. CallerTypes
      BY DEF Init, CallersInit, CallerTypes, Outcomes
    <2>6. (\A c \in Callers : CallerInv(c)) /\ OneActivation
      BY DEF Init, CallersInit, CallerInv, Held, OneActivation
    <2> QED  BY <2>3, <2>4, <2>5, <2>6 DEF IInv
  <1> QED  BY <1>1, InvariantStep, PTL DEF Spec

\* The rows and what every caller holds are well typed.
THEOREM TypesHold == Spec => []TypeOK
  <1>1. IInv => TypeOK
    BY SameRows DEF IInv, Rows!IInv, CallerTypes, TypeOK
  <1> QED  BY <1>1, Inductive, PTL

\* What a caller read in an earlier transaction still fits the rows, whatever the
\* others did since (the handoffs of PrepareIndexing and EmbedStagingChunks).
THEOREM ChoiceAlwaysFits == Spec => []ChoiceFits
  <1>1. IInv => ChoiceFits
    BY SameRows DEF IInv, CallerInv, Held, ChoiceFits
  <1> QED  BY <1>1, Inductive, PTL

\* An index that a call returned is complete and published, until a later version
\* of its document replaces it (FinalizeIndexing and the reuse of an active index).
THEOREM ReturnedArePublished == Spec => []ReturnedIsPublished
  <1>1. ASSUME IInv, NEW c \in Callers, outcome[c] \in {"activated", "reused"}
        PROVE  /\ embedded[chosen[c]] = Store!ChunkSet(chosen[c])
               /\ IF IsActive(chosen[c]) THEN version[target[c]] = "ACTIVE"
                                         ELSE Replaced(target[c])
    <2>1. /\ CallerInv(c) /\ Rows!TypeOK /\ Rows!FollowsVersion /\ Rows!PublishedIsComplete
          /\ Rows!ArchivedIsReplaced
      BY <1>1 DEF IInv, Rows!IInv
    <2>2. /\ chosen[c] \in Rows!IndexRows /\ generation[chosen[c]].version = target[c]
          /\ generation[chosen[c]].state # "STAGING"
      BY <1>1, <2>1 DEF CallerInv, Held, Rows!GenerationsOf
    <2>3. target[c] \in Versions /\ generation[chosen[c]].state \in {"ACTIVE", "ARCHIVED"}
      <3>1. \A g \in Rows!IndexRows : generation[g].version \in Versions
                    /\ generation[g].state \in {"STAGING", "ACTIVE", "ARCHIVED"}
        BY <2>1, RowsAssumptions, Rows!RowFields
      <3> QED  BY <2>2, <3>1
    <2>4. embedded[chosen[c]] = Store!ChunkSet(chosen[c])
      BY <2>1, <2>2, SameRows DEF Rows!PublishedIsComplete
    <2>5. version[target[c]] = generation[chosen[c]].state
      BY <2>1, <2>2 DEF Rows!FollowsVersion
    <2>6. version[target[c]] = "ARCHIVED" => Replaced(target[c])
      BY <2>1, <2>3, SameRows DEF Rows!ArchivedIsReplaced, Replaced
    <2> QED  BY <2>3, <2>4, <2>5, <2>6 DEF IsActive
  <1>2. IInv => ReturnedIsPublished
    BY <1>1 DEF ReturnedIsPublished
  <1> QED  BY <1>2, Inductive, PTL

\* Of the callers that race with one staged generation at most one activates it.
THEOREM ActivatedOnce == Spec => []OneActivation
  BY Inductive, PTL DEF IInv
================================================================================
