---------------------------- MODULE ChatCompletion ----------------------------
(***************************************************************************)
(* StartSingleDocumentQuestion and CompleteChat: a question is committed   *)
(* as a DRAFT request; a call that completes it reads the request, holds   *)
(* what it read while it retrieves passages, has them evaluated and an     *)
(* answer generated, all outside any transaction, and then writes the      *)
(* retrieval, the answer and its citations in one.  A call may be          *)
(* cancelled, may raise at every step, may die with its process, and may   *)
(* be overtaken by other calls for the same request and by an activation   *)
(* that replaces the published index under it.                             *)
(*                                                                         *)
(* The index is what PublishedIndex says of it.  DocumentStore keeps one   *)
(* generation per version, so the version in a request's scope is named by *)
(* its generation: it is ACTIVE exactly while that one is published.       *)
(***************************************************************************)
EXTENDS Naturals, FiniteSets

CONSTANTS
    Documents, Generations, Sizes, NoIndex,     \* of the published index
    Requests,       \* QA requests, one per question
    Callers,        \* threads that run the use cases, of one process or several
    SourceOf,       \* the generation of the document a question was asked in
    TopK,           \* passages a retrieval selects at most
    Ratings,        \* the ratings the verifier may give a passage
    None            \* no retrieval, no answer, nobody

ASSUME SourceOfAssumption == SourceOf \in [Requests -> Generations]
ASSUME TopKAssumption == TopK \in Nat \ {0}
ASSUME RatingsAssumption == Ratings \subseteq {"SUPPORTS", "RELATED_ONLY", "CONTRADICTS", "IRRELEVANT"}

VARIABLES
    index, retired,
    warned,         \* generations whose job is READY_WITH_WARNINGS, for good
    state,          \* qa_requests.state
    retrieval,      \* the retrieval run of a request with its evidence rows
    answer,         \* its answer message, verifier snapshot and citations
    pc,             \* the step a caller is about to take
    asked,          \* the request its call is about
    target,         \* the state of the request that it read at the start
    draft,          \* the graph it is preparing, or was given back
    cancelled,      \* its cancellation flag
    outcome         \* how its last call ended

rows == <<state, retrieval, answer>>
callers == <<pc, asked, target, draft, cancelled, outcome>>
vars == <<index, retired, warned, rows, callers>>

Log == INSTANCE QuestionLog WITH
    Questions <- Requests,
    About <- SourceOf,
    NoReply <- None,
    standing <- [q \in Requests |-> IF answer[q] = None THEN state[q] ELSE "ANSWERED"],
    reply <- [q \in Requests |->
                IF answer[q] = None THEN None
                ELSE [seen |-> retrieval[q].evidence, cited |-> answer[q].cited]]

Open == {"DRAFT", "FAILED", "CANCELLED"}
Completed == {"COMPLETED", "COMPLETED_INSUFFICIENT"}
Steps == {"intake", "load", "prepare", "evaluate", "generate", "repair", "persist", "commit"}

Passages == UNION {1 .. n : n \in UNION {Sizes[d] : d \in Documents}}
Evaluations == UNION {[evidence -> Ratings] : evidence \in SUBSET Passages}
Retrieval == [run : Callers, evidence : SUBSET Passages]
Answer == [by : Callers, relation : Evaluations, cited : SUBSET Passages]

\* Nothing that exists is mistaken for what does not: no retrieval, answer, caller
\* or published index.
ASSUME NoneAssumption == None \notin Callers \cup Retrieval \cup Answer
ASSUME NoIndexAssumption == NoIndex \notin Log!Index

NoAnswer == [by |-> None, relation |-> <<>>, cited |-> {}]
NoDraft == [retrieval |-> None, answer |-> NoAnswer]

TypeOK ==
    /\ warned \subseteq Generations
    /\ state \in [Requests -> {"ABSENT"} \cup Open \cup Completed]
    /\ retrieval \in [Requests -> Retrieval \cup {None}]
    /\ answer \in [Requests -> Answer \cup {None}]
    /\ pc \in [Callers -> Steps \cup {"idle", "record"}]
    /\ asked \in [Callers -> Requests \cup {None}]
    /\ target \in [Callers -> Open \cup {None}]
    /\ draft \in [Callers -> [retrieval : Retrieval \cup {None}, answer : Answer \cup {NoAnswer}]]
    /\ cancelled \in [Callers -> BOOLEAN]
    /\ outcome \in [Callers -> {"none", "created", "reused", "FAILED", "CANCELLED"}]

Init ==
    /\ Log!Init
    /\ warned \in SUBSET {SourceOf[q] : q \in Requests}
    /\ state = [q \in Requests |-> "ABSENT"]
    /\ retrieval = [q \in Requests |-> None]
    /\ answer = [q \in Requests |-> None]
    /\ pc = [c \in Callers |-> "idle"]
    /\ asked = [c \in Callers |-> None]
    /\ target = [c \in Callers |-> None]
    /\ draft = [c \in Callers |-> NoDraft]
    /\ cancelled = [c \in Callers |-> FALSE]
    /\ outcome = [c \in Callers |-> "none"]
------------------------------------------------------------------------------
Goto(c, step) ==
    /\ pc' = [pc EXCEPT ![c] = step]
    /\ UNCHANGED <<index, retired, warned, asked, cancelled, outcome>>

Return(c, result) ==
    /\ pc' = [pc EXCEPT ![c] = "idle"]
    /\ outcome' = [outcome EXCEPT ![c] = result]
    /\ target' = [target EXCEPT ![c] = None]
    /\ cancelled' = [cancelled EXCEPT ![c] = FALSE]
    /\ UNCHANGED <<index, retired, warned, asked>>

Checkpoint(c) == ~ cancelled[c]

Begin(c, q, step) ==
    /\ pc[c] = "idle"
    /\ pc' = [pc EXCEPT ![c] = step]
    /\ asked' = [asked EXCEPT ![c] = q]
    /\ draft' = [draft EXCEPT ![c] = NoDraft]
    /\ outcome' = [outcome EXCEPT ![c] = "none"]
    /\ UNCHANGED <<index, retired, warned, rows, target, cancelled>>

\* The user asks in a document that is, or was when it was shown, published.
Ask(c, q) ==
    /\ Log!IsPublished(SourceOf[q]) \/ SourceOf[q] \in retired
    /\ Begin(c, q, "intake")

\* A request that was committed is completed again: retried, or looked up.
Retry(c, q) ==
    /\ state[q] # "ABSENT"
    /\ Begin(c, q, "load")

\* Wrong variant: any scope resolves, to the index the question was asked in.
ResolvesAlways(q) == TRUE

\* The document, the version and the generation of the scope are all ACTIVE.
Resolves(q) == Log!IsPublished(SourceOf[q])

\* add_intake inserts the request, or finds the one this registration made.
Intake(c) ==
    LET q == asked[c] IN
    /\ pc[c] = "intake"
    /\ Checkpoint(c)
    /\ Log!IsPublished(SourceOf[q])
    /\ state[q] \in {"ABSENT", "DRAFT"}
    /\ state' = [state EXCEPT ![q] = "DRAFT"]
    /\ Goto(c, "load")
    /\ UNCHANGED <<retrieval, answer, target, draft>>
------------------------------------------------------------------------------
(* CompleteChat, up to its final transaction.                              *)

\* A completed request is handed out as it is stored, which means reading its
\* retrieval back, and that resolves the scope of the request once more.
Reuse(c) ==
    LET q == asked[c] IN
    /\ pc[c] = "load"
    /\ state[q] \in Completed
    /\ Resolves(q)
    /\ draft' = [draft EXCEPT ![c] = [retrieval |-> retrieval[q], answer |-> answer[q]]]
    /\ Return(c, "reused")
    /\ UNCHANGED rows

\* Wrong variant: a request in any state is eligible for completion.
LoadAnyState(c) ==
    /\ pc[c] = "load"
    /\ target' = [target EXCEPT ![c] = state[asked[c]]]
    /\ Goto(c, "prepare")
    /\ UNCHANGED <<rows, draft>>

Load(c) ==
    /\ pc[c] = "load"
    /\ state[asked[c]] \in Open
    /\ target' = [target EXCEPT ![c] = state[asked[c]]]
    /\ Goto(c, "prepare")
    /\ UNCHANGED <<rows, draft>>

\* PrepareRetrieval: the stored retrieval of the request if there is one,
\* otherwise passages ranked among those of the published index.
Prepare(c) ==
    LET q == asked[c] IN
    /\ pc[c] = "prepare"
    /\ Checkpoint(c)
    /\ Resolves(q)
    /\ \/ /\ retrieval[q] # None
          /\ draft' = [draft EXCEPT ![c].retrieval = retrieval[q]]
       \/ /\ retrieval[q] = None
          /\ \E evidence \in SUBSET Log!PassagesOf(SourceOf[q]) :
                /\ Cardinality(evidence) <= TopK
                /\ draft' = [draft EXCEPT ![c].retrieval = [run |-> c, evidence |-> evidence]]
    /\ Goto(c, "evaluate")
    /\ UNCHANGED <<rows, target>>

Rated(relation, rating) == {e \in DOMAIN relation : relation[e] = rating}

\* Wrong variant: contradicting passages do not count against supporting ones.
SufficientIfSupported(q, relation) ==
    /\ SourceOf[q] \notin warned
    /\ Rated(relation, "SUPPORTS") # {}

Sufficient(q, relation) ==
    /\ SourceOf[q] \notin warned
    /\ Rated(relation, "SUPPORTS") # {}
    /\ Rated(relation, "CONTRADICTS") = {}

Related(relation) == DOMAIN relation \ Rated(relation, "IRRELEVANT")

\* The verifier rates each passage.  Passages that are not sufficient make a
\* fixed text that cites the related ones, and no model is called for it.
Evaluate(c) ==
    /\ pc[c] = "evaluate"
    /\ Checkpoint(c)
    /\ \E relation \in [draft[c].retrieval.evidence -> Ratings] :
          LET enough == Sufficient(asked[c], relation) IN
          /\ draft' = [draft EXCEPT ![c].answer =
                [by |-> c, relation |-> relation, cited |-> IF enough THEN {} ELSE Related(relation)]]
          /\ Goto(c, IF enough THEN "generate" ELSE "persist")
    /\ UNCHANGED <<rows, target>>

\* Output that parses cites a non-empty set of the passages it was shown.
UsableOutput(c) ==
    \E labels \in SUBSET draft[c].retrieval.evidence :
        /\ labels # {}
        /\ draft' = [draft EXCEPT ![c].answer.cited = labels]
        /\ Goto(c, "persist")

Generate(c) ==
    /\ pc[c] = "generate"
    /\ Checkpoint(c)
    /\ \/ UsableOutput(c)
       \/ Goto(c, "repair") /\ UNCHANGED draft
    /\ UNCHANGED <<rows, target>>

\* The one repair; when its output is not usable either, the call raises.
Repair(c) ==
    /\ pc[c] = "repair"
    /\ Checkpoint(c)
    /\ UsableOutput(c)
    /\ UNCHANGED <<rows, target>>
------------------------------------------------------------------------------
(* The final transaction.                                                  *)

\* Wrong variant: the final transaction is entered without looking at the flag.
NoLastCheckpoint(c) ==
    /\ pc[c] = "persist"
    /\ Goto(c, "commit")
    /\ UNCHANGED <<rows, target, draft>>

\* The last look at the flag is inside the transaction, before its commit.
LastCheckpoint(c) ==
    /\ pc[c] = "persist"
    /\ Checkpoint(c)
    /\ Goto(c, "commit")
    /\ UNCHANGED <<rows, target, draft>>

\* Wrong variant: the request is not compared with what was read of it.
AnyTarget(c) == TRUE

\* The request is as it was read at the start, and so has no answer yet.
SameTarget(c) == state[asked[c]] = target[c] /\ answer[asked[c]] = None

\* StageRetrieval, and the read-back of the staged retrieval by chat.add.
StageRetrieval(q, prepared) ==
    /\ Resolves(q)
    /\ retrieval[q] \in {None, prepared}
    /\ retrieval' = [retrieval EXCEPT ![q] = prepared]

Commit(c) ==
    LET q == asked[c]
        made == draft[c].answer
    IN
    /\ pc[c] = "commit"
    /\ SameTarget(c)
    /\ StageRetrieval(q, draft[c].retrieval)
    /\ answer' = [answer EXCEPT ![q] = made]
    /\ state' = [state EXCEPT ![q] =
                    IF Sufficient(q, made.relation) THEN "COMPLETED" ELSE "COMPLETED_INSUFFICIENT"]
    /\ Return(c, "created")
    /\ UNCHANGED draft
------------------------------------------------------------------------------
(* The ends of a call that does not succeed.                               *)

\* Before the request is read and found eligible nothing is recorded about it.
GiveUp(c, result) ==
    /\ IF pc[c] \in {"intake", "load"}
       THEN Return(c, result)
       ELSE /\ pc' = [pc EXCEPT ![c] = "record"]
            /\ outcome' = [outcome EXCEPT ![c] = result]
            /\ UNCHANGED <<index, retired, warned, asked, target, cancelled>>
    /\ draft' = [draft EXCEPT ![c] = NoDraft]
    /\ UNCHANGED rows

StopCancelled(c) ==
    /\ pc[c] \in Steps \ {"load", "commit"}
    /\ cancelled[c]
    /\ GiveUp(c, "CANCELLED")

\* A stale target or scope, a busy database, a provider, output that cannot be
\* used: the step raises.
Raise(c) ==
    /\ pc[c] \in Steps
    /\ GiveUp(c, "FAILED")

\* Wrong variant: the failure is recorded whatever has become of the request.
RecordAnyState(c) ==
    /\ pc[c] = "record"
    /\ state' = [state EXCEPT ![asked[c]] = outcome[c]]
    /\ Return(c, outcome[c])
    /\ UNCHANGED <<retrieval, answer, draft>>

\* A transaction of its own, on the request as it is now, whatever the call read
\* at its start.  It is refused on a completed request; an error is swallowed.
Record(c) ==
    /\ pc[c] = "record"
    /\ \/ /\ state[asked[c]] \in Open
          /\ state' = [state EXCEPT ![asked[c]] = outcome[c]]
       \/ UNCHANGED state
    /\ Return(c, outcome[c])
    /\ UNCHANGED <<retrieval, answer, draft>>

\* Once the last checkpoint is behind it the flag of a call is not read again.
RequestCancel(c) ==
    /\ pc[c] \in Steps \ {"commit"}
    /\ cancelled' = [cancelled EXCEPT ![c] = TRUE]
    /\ UNCHANGED <<index, retired, warned, rows, pc, asked, target, draft, outcome>>

\* The process of a caller ends; what it had not committed is gone with it.
Die(c) ==
    /\ pc[c] # "idle"
    /\ draft' = [draft EXCEPT ![c] = NoDraft]
    /\ Return(c, "none")
    /\ UNCHANGED rows

\* Another index is published, for the first time or in the place of one.
Republish ==
    /\ \E d \in Documents, g \in Generations : \E n \in Sizes[d] : Log!Publish(d, g, n)
    /\ UNCHANGED <<warned, rows, callers>>
------------------------------------------------------------------------------
Advance(c) ==
    \/ Intake(c) \/ Reuse(c) \/ Load(c) \/ Prepare(c) \/ Evaluate(c)
    \/ Generate(c) \/ Repair(c) \/ LastCheckpoint(c) \/ Commit(c)

Next ==
    \/ Republish
    \/ \E c \in Callers :
        \/ \E q \in Requests : Ask(c, q) \/ Retry(c, q)
        \/ Advance(c)
        \/ StopCancelled(c) \/ Raise(c) \/ Record(c)
        \/ RequestCancel(c) \/ Die(c)

Spec == Init /\ [][Next]_vars
------------------------------------------------------------------------------
(* Properties.                                                             *)

\* The retrieval, the answer and the terminal state of a request appear
\* together, whatever calls failed, died or overtook each other around the final
\* transaction: there is no stored retrieval without its answer, and no late
\* failure takes the state of an answered request back.
WholeGraph ==
    \A q \in Requests :
        /\ state[q] \in Completed <=> answer[q] # None
        /\ answer[q] # None <=> retrieval[q] # None

\* What a call returned, made by itself or found, is what is stored and stays
\* stored: two calls for one request never hand out different answers.
ReturnedIsStored ==
    \A c \in Callers :
        outcome[c] \in {"created", "reused"} =>
            draft[c] = [retrieval |-> retrieval[asked[c]], answer |-> answer[asked[c]]]

\* A stored answer fits the passages stored with it: a grounded one has support
\* from a document read without warnings, nothing that contradicts it, and cites
\* passages of its own retrieval; a fixed text is only stored where that does
\* not hold, and cites the related passages, all of them and no other.
GroundedAnswers ==
    \A q \in Requests :
        answer[q] # None =>
            LET relation == answer[q].relation
                cited == answer[q].cited
            IN
            /\ DOMAIN relation = retrieval[q].evidence
            /\ IF state[q] = "COMPLETED"
               THEN /\ SourceOf[q] \notin warned
                    /\ \E e \in DOMAIN relation : relation[e] = "SUPPORTS"
                    /\ \A e \in DOMAIN relation : relation[e] # "CONTRADICTS"
                    /\ cited # {} /\ cited \subseteq DOMAIN relation
               ELSE /\ cited = {e \in DOMAIN relation : relation[e] # "IRRELEVANT"}
                    /\ \/ SourceOf[q] \in warned
                       \/ \A e \in DOMAIN relation : relation[e] # "SUPPORTS"
                       \/ \E e \in DOMAIN relation : relation[e] = "CONTRADICTS"

\* Chat implements the question log: one answer per question, made from the
\* index that is published when it is committed, never changed by a retry, a
\* concurrent call or a failure that is recorded late.
LogSpec == Log!LogSpec

\* A cancellation requested before the last checkpoint is obeyed wherever it
\* meets the call, before retrieval, between the two inferences or inside the
\* final transaction: the call takes no further step, it ends.
CancelEndsCall ==
    [][\A c \in Callers :
        cancelled[c] /\ pc[c] \in Steps \ {"load", "commit"} =>
            pc'[c] \in {pc[c], "record", "idle"}]_vars

\* docs/03_USER_FLOWS_AND_STATES.md:1590 says that an old answer's citation
\* always opens the version it was generated from, archived or not.  Reading a
\* stored answer back resolves its scope among the ACTIVE versions only.
HistoryIsReadable == \A q \in Requests : state[q] \in Completed => Resolves(q)
==============================================================================
