---------------------------- MODULE IndexPipeline ----------------------------
(***************************************************************************)
(* The indexing use cases run by several callers over the same rows:       *)
(* PrepareIndexing, EmbedStagingChunks and FinalizeIndexing.  A caller     *)
(* holds what it read in earlier transactions (the generation it selected, *)
(* the chunks it found missing) while other callers move the rows on, may  *)
(* be cancelled at every checkpoint, and may fail at every step: a         *)
(* transaction that fails is rolled back, a provider call writes nothing.  *)
(*                                                                         *)
(* Between two transactions a caller only computes, so the checkpoints     *)
(* around one transaction are one test of the flag; the last one, before   *)
(* the activating transaction, is a step of its own because no later       *)
(* request can undo what follows it.                                       *)
(***************************************************************************)
EXTENDS Naturals, FiniteSets

CONSTANTS
    Versions, Documents, Sources, Generations, Profiles,
    DocumentOf, SourceOf, ChunkCount, Replacements, NoRow,
    Callers,        \* threads that run the use cases, of one process or several
    BatchSize       \* chunks embedded by one provider call

ASSUME BatchSizeAssumption == BatchSize \in Nat \ {0}

VARIABLES
    version, job, stage, pages, generation, embedded,
    pc,             \* the step a caller is about to take
    target,         \* the version whose processing result it holds
    request,        \* the profile it asks for
    chosen,         \* the generation it selected, staged or found published
    missing,        \* the chunks it still means to embed
    cancelled,      \* its cancellation flag
    outcome         \* what its last call returned

Store == INSTANCE DocumentStore

\* The assumptions of DocumentStore, of the same constants.
ASSUME StoreAssumption ==
    /\ DocumentOf \in [Versions -> Documents]
    /\ SourceOf \in [Versions -> Sources]
    /\ ChunkCount \in [Versions -> [Profiles -> Nat \ {0}]]
    /\ NoRow \notin Store!GenerationRow
    /\ NoRow \notin [generation : Generations, vectors : SUBSET Nat]
ASSUME NoChoiceAssumption == NoRow \notin Versions \cup Profiles \cup Generations

store == <<version, job, stage, pages, generation, embedded>>
callers == <<pc, target, request, chosen, missing, cancelled, outcome>>
vars == <<store, callers>>

Steps == {"discover", "write", "embed", "generate", "persist", "verify", "finalize", "activate"}
Outcomes == {"none", "activated", "reused", "cancelled", "failed"}

TypeOK ==
    /\ Store!TypeOK
    /\ pc \in [Callers -> Steps \cup {"idle"}]
    /\ target \in [Callers -> Versions \cup {NoRow}]
    /\ request \in [Callers -> Profiles \cup {NoRow}]
    /\ chosen \in [Callers -> Generations \cup {NoRow}]
    /\ missing \in [Callers -> SUBSET Nat]
    /\ cancelled \in [Callers -> BOOLEAN]
    /\ outcome \in [Callers -> Outcomes]

CallersInit ==
    /\ pc = [c \in Callers |-> "idle"]
    /\ target = [c \in Callers |-> NoRow]
    /\ request = [c \in Callers |-> NoRow]
    /\ chosen = [c \in Callers |-> NoRow]
    /\ missing = [c \in Callers |-> {}]
    /\ cancelled = [c \in Callers |-> FALSE]
    /\ outcome = [c \in Callers |-> "none"]

\* Processing has committed every version's pages and handed them over.
Init ==
    /\ version = [v \in Versions |-> "CANDIDATE_PROCESSING"]
    /\ job = [v \in Versions |-> "PROCESSING"]
    /\ stage = [v \in Versions |-> "CHUNKING"]
    /\ pages \in [Versions -> {"CLEAN", "WARNED"}]
    /\ generation = [g \in Generations |-> NoRow]
    /\ embedded = [g \in Generations |-> {}]
    /\ CallersInit
------------------------------------------------------------------------------
Goto(c, step) ==
    /\ pc' = [pc EXCEPT ![c] = step]
    /\ UNCHANGED <<target, request, cancelled, outcome>>

Finish(c, result) ==
    /\ pc' = [pc EXCEPT ![c] = "idle"]
    /\ outcome' = [outcome EXCEPT ![c] = result]
    /\ UNCHANGED <<target, request, cancelled>>

Checkpoint(c) == ~ cancelled[c]

Call(c, v, p) ==
    /\ pc[c] = "idle"
    /\ pc' = [pc EXCEPT ![c] = "discover"]
    /\ target' = [target EXCEPT ![c] = v]
    /\ request' = [request EXCEPT ![c] = p]
    /\ chosen' = [chosen EXCEPT ![c] = NoRow]
    /\ missing' = [missing EXCEPT ![c] = {}]
    /\ cancelled' = [cancelled EXCEPT ![c] = FALSE]
    /\ outcome' = [outcome EXCEPT ![c] = "none"]
    /\ UNCHANGED store
------------------------------------------------------------------------------
(* PrepareIndexing.                                                        *)

\* Wrong variant: the profile of a generation is not compared.
AnyLiveGeneration(c) ==
    {g \in Store!GenerationsOf(target[c]) : generation[g].state \in {"STAGING", "ACTIVE"}}

Compatible(c) ==
    {g \in Store!GenerationsOf(target[c]) :
        /\ generation[g].state \in {"STAGING", "ACTIVE"}
        /\ generation[g].profile = request[c]}

IsActive(g) == generation[g].state = "ACTIVE"

ReuseActive(c) ==
    \E g \in Compatible(c) :
        /\ Compatible(c) = {g}
        /\ IsActive(g)
        /\ chosen' = [chosen EXCEPT ![c] = g]
        /\ Finish(c, "reused")

\* The first, reading transaction.  A staging choice is read back whole, which
\* needs its version to be open still; two compatible generations are an error.
Discover(c) ==
    /\ pc[c] = "discover"
    /\ Checkpoint(c)
    /\ \/ ReuseActive(c)
       \/ /\ Compatible(c) = {}
          /\ Goto(c, "write")
          /\ UNCHANGED chosen
       \/ \E g \in Compatible(c) :
            /\ Compatible(c) = {g}
            /\ Store!IsStaging(g)
            /\ chosen' = [chosen EXCEPT ![c] = g]
            /\ Goto(c, "write")
    /\ UNCHANGED <<store, missing>>

\* Wrong variant: a candidate that is staged already is not taken up again.
WriteOnlyNew(c) ==
    /\ pc[c] = "write"
    /\ Checkpoint(c)
    /\ \/ ReuseActive(c) /\ UNCHANGED store
       \/ \E g \in Generations :
            /\ chosen[c] = NoRow
            /\ Compatible(c) = {}
            /\ Store!StageCandidate(g, target[c], request[c])
            /\ chosen' = [chosen EXCEPT ![c] = g]
            /\ Goto(c, "embed")
    /\ UNCHANGED missing

\* The writing transaction looks again, and goes on only if nothing happened to
\* its choice in between.
WriteCandidate(c) ==
    /\ pc[c] = "write"
    /\ Checkpoint(c)
    /\ \/ ReuseActive(c) /\ UNCHANGED store
       \/ \E g \in Generations :
            /\ chosen[c] = NoRow
            /\ Compatible(c) = {}
            /\ Store!StageCandidate(g, target[c], request[c])
            /\ chosen' = [chosen EXCEPT ![c] = g]
            /\ Goto(c, "embed")
       \/ /\ Compatible(c) = {chosen[c]}
          /\ Store!ReplaceCandidate(chosen[c])
          /\ Goto(c, "embed")
          /\ UNCHANGED chosen
    /\ UNCHANGED missing
------------------------------------------------------------------------------
(* EmbedStagingChunks.                                                     *)

ReadPersisted(c) ==
    /\ pc[c] = "embed"
    /\ Checkpoint(c)
    /\ Store!IsStaging(chosen[c])
    /\ LET absent == Store!ChunkSet(chosen[c]) \ embedded[chosen[c]] IN
       /\ missing' = [missing EXCEPT ![c] = absent]
       /\ Goto(c, IF absent = {} THEN "verify" ELSE "generate")
    /\ UNCHANGED <<store, chosen>>

\* The provider call, outside any transaction.
Generate(c) ==
    /\ pc[c] = "generate"
    /\ Checkpoint(c)
    /\ Goto(c, "persist")
    /\ UNCHANGED <<store, chosen, missing>>

\* The chunks at the head of the missing ones, in document order.
Batch(c) ==
    {n \in missing[c] : Cardinality({m \in missing[c] : m <= n}) <= BatchSize}

Pending(c) == Batch(c) \ embedded[chosen[c]]

\* Wrong variant: the batch stays among the chunks to embed.
PersistSameBatch(c) ==
    /\ pc[c] = "persist"
    /\ Checkpoint(c)
    /\ \/ Pending(c) # {} /\ Store!AddBatch(chosen[c], Pending(c))
       \/ Pending(c) = {} /\ Store!IsStaging(chosen[c]) /\ UNCHANGED store
    /\ Goto(c, "generate")
    /\ UNCHANGED <<chosen, missing>>

PersistBatch(c) ==
    /\ pc[c] = "persist"
    /\ Checkpoint(c)
    /\ \/ Pending(c) # {} /\ Store!AddBatch(chosen[c], Pending(c))
       \/ Pending(c) = {} /\ Store!IsStaging(chosen[c]) /\ UNCHANGED store
    /\ missing' = [missing EXCEPT ![c] = @ \ Batch(c)]
    /\ Goto(c, IF missing[c] = Batch(c) THEN "verify" ELSE "generate")
    /\ UNCHANGED chosen

VerifyComplete(c) ==
    /\ pc[c] = "verify"
    /\ Store!IsStaging(chosen[c])
    /\ Store!Complete(chosen[c])
    /\ Goto(c, "finalize")
    /\ UNCHANGED <<store, chosen, missing>>
------------------------------------------------------------------------------
(* FinalizeIndexing.                                                       *)

\* Wrong variant: finalization starts without looking at the flag.
NoLastCheckpoint(c) ==
    /\ pc[c] = "finalize"
    /\ Goto(c, "activate")
    /\ UNCHANGED <<store, chosen, missing>>

LastCheckpoint(c) ==
    /\ pc[c] = "finalize"
    /\ Checkpoint(c)
    /\ Goto(c, "activate")
    /\ UNCHANGED <<store, chosen, missing>>

\* Wrong variant: an index that is active already counts as activated by this call.
ActivateOrFound(c) ==
    /\ pc[c] = "activate"
    /\ \/ Store!Activate(chosen[c])
       \/ IsActive(chosen[c]) /\ UNCHANGED store
    /\ Finish(c, "activated")
    /\ UNCHANGED <<chosen, missing>>

Activate(c) ==
    /\ pc[c] = "activate"
    /\ Store!Activate(chosen[c])
    /\ Finish(c, "activated")
    /\ UNCHANGED <<chosen, missing>>
------------------------------------------------------------------------------
Advance(c) ==
    \/ Discover(c) \/ WriteCandidate(c)
    \/ ReadPersisted(c) \/ Generate(c) \/ PersistBatch(c) \/ VerifyComplete(c)
    \/ LastCheckpoint(c) \/ Activate(c)

\* A checkpoint that finds the flag set; nothing is recorded about it.
StopCancelled(c) ==
    /\ pc[c] \in Steps \ {"activate"}
    /\ cancelled[c]
    /\ Finish(c, "cancelled")
    /\ UNCHANGED <<store, chosen, missing>>

\* A stale handoff, a busy or full database, a provider or an embedding that is
\* not what was asked for: the step raises and the call ends.
Fail(c) ==
    /\ pc[c] \in Steps
    /\ Finish(c, "failed")
    /\ UNCHANGED <<store, chosen, missing>>

RequestCancel(c) ==
    /\ pc[c] # "idle"
    /\ cancelled' = [cancelled EXCEPT ![c] = TRUE]
    /\ UNCHANGED <<store, pc, target, request, chosen, missing, outcome>>

Next ==
    \E c \in Callers :
        \/ \E v \in Versions, p \in Profiles : Call(c, v, p)
        \/ Advance(c)
        \/ StopCancelled(c)
        \/ Fail(c)
        \/ RequestCancel(c)

\* The thread of a call keeps running: each step is taken, or raises.
Work(c) == Advance(c) \/ StopCancelled(c) \/ Fail(c)

Spec == Init /\ [][Next]_vars /\ \A c \in Callers : WF_vars(Work(c))
------------------------------------------------------------------------------
(* Properties.                                                             *)

\* The generation a caller holds on to, across any number of transactions of the
\* others, stays one of its own version under the profile it asked for, and the
\* chunks it still means to embed are chunks of that generation.
ChoiceFits ==
    \A c \in Callers :
        chosen[c] # NoRow =>
            /\ chosen[c] \in Store!GenerationsOf(target[c])
            /\ generation[chosen[c]].profile = request[c]
            /\ missing[c] \subseteq Store!ChunkSet(chosen[c])

Replaced(v) ==
    /\ version[v] = "ARCHIVED"
    /\ \E u \in Store!Siblings(v) : version[u] = "ACTIVE"

\* A call that returned an index, activated by itself or by another caller that
\* was faster, returned the one that is published, complete, until a later version
\* of the document replaces both the version and its index.
ReturnedIsPublished ==
    \A c \in Callers :
        outcome[c] \in {"activated", "reused"} =>
            /\ embedded[chosen[c]] = Store!ChunkSet(chosen[c])
            /\ IF IsActive(chosen[c]) THEN version[target[c]] = "ACTIVE" ELSE Replaced(target[c])

\* Of callers that race with the same staged generation at most one is told that
\* it activated it; the others fail, or find it published on their next call.
OneActivation ==
    \A c, d \in Callers :
        /\ outcome[c] = "activated"
        /\ outcome[d] = "activated"
        /\ chosen[c] = chosen[d]
        => c = d

\* Every call returns: the batch loop embeds what it found missing and no more,
\* even when a concurrent rebuild keeps deleting what was embedded.
CallsReturn == \A c \in Callers : pc[c] # "idle" ~> pc[c] = "idle"

\* A caller is alone and nothing around it fails: it calls, or its call goes on, or a
\* checkpoint finds an old request to cancel, or what it holds is refused.
Undisturbed(c) ==
    \/ \E v \in Versions, p \in Profiles : Call(c, v, p)
    \/ Advance(c)
    \/ StopCancelled(c)
    \/ Fail(c) /\ ~ ENABLED Advance(c)

\* However calls failed, were cancelled, were abandoned or overtook each other, what
\* they left behind does not keep a version from being published: once a caller is
\* alone, its retries under one profile return the published index, unless an
\* index of another profile came first or a later version replaced this one.
RetriesPublish ==
    \A c \in Callers, v \in Versions, p \in Profiles :
        /\ <>[][Undisturbed(c)]_vars
        /\ []<><<Call(c, v, p)>>_vars
        => \/ []<>(/\ target[c] = v /\ request[c] = p
                  /\ outcome[c] \in {"activated", "reused"})
           \/ <>(Replaced(v) \/ \E g \in Store!GenerationsOf(v) : generation[g].profile # p)

\* docs/EMBEDDING-001.md:534 says that a retry reuses the compatible embedding
\* rows of an interrupted run.  The only way back to a handoff is
\* PrepareIndexing, whose replacement of the chunk rows deletes them.
EmbeddingsAreReused ==
    [][\A g \in Generations : embedded[g] \subseteq embedded'[g]]_vars
==============================================================================
