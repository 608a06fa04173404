------------------------- MODULE ChatCompletionProofs -------------------------
(***************************************************************************)
(* Proofs about ChatCompletion for any numbers of requests, callers,       *)
(* documents and passages: what is stored of a request is whole, fits the  *)
(* passages stored with it and is what every call returned, and chat       *)
(* implements QuestionLog.                                                 *)
(*                                                                         *)
(* What a caller prepares outside a transaction is its own (CallerInv);    *)
(* the steps of others touch it only where it speaks of the rows of its    *)
(* request, which change in one direction, and of the published index,     *)
(* where a generation that was swapped out never comes back: so passages   *)
(* found in an index are still those of that index when it is found        *)
(* published at the end.                                                   *)
(***************************************************************************)
EXTENDS ChatCompletion, TLAPS

DraftType == [retrieval : Retrieval \cup {None}, answer : Answer \cup {NoAnswer}]
------------------------------------------------------------------------------
(* The published index.                                                    *)

IndexInv ==
    /\ index \in [Documents -> Log!Index \cup {NoIndex}]
    /\ \A d, e \in Documents : \A g \in Log!Published(d) : g \in Log!Published(e) => d = e
    /\ \A d \in Documents : Log!Published(d) \cap retired = {}

\* Passages that were found in an index are passages of it for as long as it is
\* published.
Shown(g, evidence) ==
    \/ g \in retired
    \/ Log!IsPublished(g) /\ evidence \subseteq Log!PassagesOf(g)

\* What a publication does to the indexes of the documents.
LEMMA PublishedIndexes ==
    ASSUME IndexInv, NEW d \in Documents, NEW g \in Generations, NEW n \in Sizes[d],
           Log!Publish(d, g, n)
    PROVE  /\ index' \in [Documents -> Log!Index \cup {NoIndex}]
           /\ Log!Published(d)' = {g}
           /\ \A e \in Documents \ {d} :
                 index'[e] = index[e] /\ Log!Published(e)' = Log!Published(e)
           /\ retired' = retired \cup Log!Published(d)
           /\ g \notin retired /\ \A e \in Documents : g \notin Log!Published(e)
  <1> DEFINE new == [generation |-> g, vectors |-> 1 .. n]
  <1>1. new \in Log!Index
    BY DEF Log!Index
  <1>2. index' = [index EXCEPT ![d] = new]
    BY DEF Log!Publish
  <1>3. index'[d] = new /\ new # NoIndex /\ new.generation = g
    BY <1>1, <1>2, NoIndexAssumption DEF IndexInv
  <1>4. Log!Published(d)' = {g}
    BY <1>3 DEF Log!Published
  <1>5. index' \in [Documents -> Log!Index \cup {NoIndex}]
    BY <1>1, <1>2 DEF IndexInv
  <1>6. \A e \in Documents \ {d} : index'[e] = index[e]
    BY <1>2 DEF IndexInv
  <1>7. \A e \in Documents \ {d} : Log!Published(e)' = Log!Published(e)
    BY <1>6 DEF Log!Published
  <1> QED  BY <1>4, <1>5, <1>6, <1>7 DEF Log!Publish

\* A generation is published for one document at a time, and never after it was retired.
LEMMA IndexStep == IndexInv /\ [Log!Next]_<<index, retired>> => IndexInv'
  <1>1. ASSUME IndexInv, NEW d \in Documents, NEW g \in Generations, NEW n \in Sizes[d],
               Log!Publish(d, g, n)
        PROVE  IndexInv'
    <2>1. /\ index' \in [Documents -> Log!Index \cup {NoIndex}]
          /\ Log!Published(d)' = {g}
          /\ \A e \in Documents \ {d} : Log!Published(e)' = Log!Published(e)
          /\ retired' = retired \cup Log!Published(d)
          /\ g \notin retired /\ \A e \in Documents : g \notin Log!Published(e)
      BY <1>1, PublishedIndexes
    <2>2. \A e, f \in Documents : \A h \in Log!Published(e)' : h \in Log!Published(f)' => e = f
      BY <1>1, <2>1 DEF IndexInv
    <2>3. \A e \in Documents : Log!Published(e)' \cap retired' = {}
      BY <1>1, <2>1 DEF IndexInv
    <2> QED  BY <2>1, <2>2, <2>3 DEF IndexInv
  <1>2. IndexInv /\ UNCHANGED <<index, retired>> => IndexInv'
    BY DEF IndexInv, Log!Published
  <1> QED  BY <1>1, <1>2 DEF Log!Next

\* Passages of a published index stay so until its generation is retired.
LEMMA ShownStays ==
    ASSUME IndexInv, [Log!Next]_<<index, retired>>, NEW g, NEW evidence, Shown(g, evidence)
    PROVE  Shown(g, evidence)'
  <1>1. CASE UNCHANGED <<index, retired>>
    BY <1>1 DEF Shown, Log!IsPublished, Log!PassagesOf, Log!Published
  <1>2. ASSUME NEW d \in Documents, NEW h \in Generations, NEW n \in Sizes[d],
               Log!Publish(d, h, n), Log!IsPublished(g), evidence \subseteq Log!PassagesOf(g),
               g \notin Log!Published(d)
        PROVE  Shown(g, evidence)'
    <2>1. /\ Log!Published(d)' = {h}
          /\ \A e \in Documents \ {d} :
                index'[e] = index[e] /\ Log!Published(e)' = Log!Published(e)
          /\ \A e \in Documents : h \notin Log!Published(e)
      BY <1>2, PublishedIndexes
    <2>2. PICK e \in Documents \ {d} : g \in Log!Published(e)
      BY <1>2 DEF Log!IsPublished
    <2>3. \A f \in Documents : g \in Log!Published(f) => f = e
      BY <2>2 DEF IndexInv
    <2>4. Log!PassagesOf(g) = index[e].vectors
      BY <2>2, <2>3 DEF Log!PassagesOf
    <2>5. \A f \in Documents : g \in Log!Published(f)' <=> f = e
      BY <2>1, <2>2, <2>3
    <2>6. Log!PassagesOf(g)' = index'[e].vectors
      BY <2>2, <2>5 DEF Log!PassagesOf
    <2>7. index'[e] = index[e] /\ Log!IsPublished(g)'
      BY <2>1, <2>2, <2>5 DEF Log!IsPublished
    <2> QED  BY <1>2, <2>4, <2>6, <2>7 DEF Shown
  <1>3. ASSUME NEW d \in Documents, NEW h \in Generations, NEW n \in Sizes[d], Log!Publish(d, h, n)
        PROVE  Shown(g, evidence)'
    <2>1. retired' = retired \cup Log!Published(d)
      BY <1>3 DEF Log!Publish
    <2> QED  BY <1>2, <1>3, <2>1 DEF Shown
  <1> QED  BY <1>1, <1>3 DEF Log!Next

\* A published index shows passages only.
LEMMA PassagesAreTyped == IndexInv => \A g : Log!PassagesOf(g) \subseteq Passages
  <1> SUFFICES ASSUME IndexInv, NEW g, NEW d \in Documents, g \in Log!Published(d),
                      NEW passage \in index[d].vectors
               PROVE  passage \in Passages
    BY DEF Log!PassagesOf
  <1>1. index[d] \in Log!Index
    BY DEF IndexInv, Log!Published
  <1>2. index[d].vectors \in {1 .. n : n \in UNION {Sizes[e] : e \in Documents}}
    BY <1>1 DEF Log!Index
  <1> QED  BY <1>2 DEF Passages
------------------------------------------------------------------------------
(* The inductive invariant.                                                *)

Retrieved == {"evaluate", "generate", "repair", "persist", "commit"}
Evaluated == {"generate", "repair", "persist", "commit"}

\* The answer that a caller is about to store fits its passages.
Fits(c) ==
    /\ draft[c].answer \in Answer
    /\ DOMAIN draft[c].answer.relation = draft[c].retrieval.evidence
    /\ pc[c] \in {"generate", "repair"} => Sufficient(asked[c], draft[c].answer.relation)
    /\ pc[c] \in {"persist", "commit"} =>
          IF Sufficient(asked[c], draft[c].answer.relation)
          THEN /\ draft[c].answer.cited # {}
               /\ draft[c].answer.cited \subseteq draft[c].retrieval.evidence
          ELSE draft[c].answer.cited = Related(draft[c].answer.relation)

CallerInv(c) ==
    /\ pc[c] # "idle" => asked[c] \in Requests
    /\ pc[c] \in Retrieved \cup {"prepare", "record"} => target[c] \in Open
    /\ pc[c] \in Steps => outcome[c] = "none"
    /\ pc[c] = "record" => outcome[c] \in {"FAILED", "CANCELLED"}
    /\ pc[c] \in Retrieved =>
          /\ draft[c].retrieval \in Retrieval
          /\ answer[asked[c]] = None => Shown(SourceOf[asked[c]], draft[c].retrieval.evidence)
    /\ pc[c] \in Evaluated => Fits(c)
    /\ outcome[c] \in {"created", "reused"} =>
          /\ asked[c] \in Requests
          /\ answer[asked[c]] # None
          /\ draft[c] = [retrieval |-> retrieval[asked[c]], answer |-> answer[asked[c]]]

IInv ==
    /\ TypeOK
    /\ IndexInv
    /\ WholeGraph
    /\ GroundedAnswers
    /\ \A c \in Callers : CallerInv(c)

Locals(c) == <<pc[c], asked[c], target[c], draft[c], cancelled[c], outcome[c]>>

\* The state of a request changes, but for its answer: it is registered, or the end
\* of an attempt is noted.
Noted(q, s) ==
    /\ \/ state[q] = "ABSENT" /\ s = "DRAFT" /\ Log!IsPublished(SourceOf[q])
       \/ state[q] = "DRAFT" /\ s = "DRAFT"
       \/ state[q] \in Open /\ s \in {"FAILED", "CANCELLED"}
    /\ state' = [state EXCEPT ![q] = s]
    /\ UNCHANGED <<retrieval, answer>>

\* A retrieval and an answer that fit are stored with the state they make.
Answered(q, r, a) ==
    /\ state[q] \in Open /\ answer[q] = None
    /\ Resolves(q) /\ Shown(SourceOf[q], r.evidence)
    /\ r \in Retrieval /\ a \in Answer /\ DOMAIN a.relation = r.evidence
    /\ IF Sufficient(q, a.relation)
       THEN a.cited # {} /\ a.cited \subseteq r.evidence
       ELSE a.cited = Related(a.relation)
    /\ retrieval' = [retrieval EXCEPT ![q] = r]
    /\ answer' = [answer EXCEPT ![q] = a]
    /\ state' = [state EXCEPT ![q] = IF Sufficient(q, a.relation) THEN "COMPLETED"
                                                               ELSE "COMPLETED_INSUFFICIENT"]

RowsMove ==
    \/ UNCHANGED rows
    \/ \E q \in Requests, s \in Open : Noted(q, s)
    \/ \E q \in Requests : \E r, a : Answered(q, r, a)

CallerTypes ==
    /\ pc \in [Callers -> Steps \cup {"idle", "record"}]
    /\ asked \in [Callers -> Requests \cup {None}]
    /\ target \in [Callers -> Open \cup {None}]
    /\ draft \in [Callers -> DraftType]
    /\ cancelled \in [Callers -> BOOLEAN]
    /\ outcome \in [Callers -> {"none", "created", "reused", "FAILED", "CANCELLED"}]

CallerStep(c) ==
    /\ UNCHANGED <<index, retired, warned>>
    /\ RowsMove
    /\ CallerTypes'
    /\ CallerInv(c)'
    /\ \A d \in Callers \ {c} : UNCHANGED Locals(d)

\* An answered request is left alone; whatever moves, the rows stay whole, and what
\* is stored fits.
LEMMA RowsKept ==
    ASSUME IInv, RowsMove, warned' = warned
    PROVE  /\ state' \in [Requests -> {"ABSENT"} \cup Open \cup Completed]
           /\ retrieval' \in [Requests -> Retrieval \cup {None}]
           /\ answer' \in [Requests -> Answer \cup {None}]
           /\ WholeGraph' /\ GroundedAnswers'
           /\ \A q \in Requests : answer[q] # None =>
                  answer'[q] = answer[q] /\ retrieval'[q] = retrieval[q]
  <1>1. TypeOK /\ WholeGraph /\ GroundedAnswers
    BY DEF IInv
  <1>2. CASE UNCHANGED rows
    BY <1>1, <1>2 DEF rows, TypeOK, WholeGraph, GroundedAnswers
  <1>3. ASSUME NEW q \in Requests, NEW s \in Open, Noted(q, s)
        PROVE  /\ state' \in [Requests -> {"ABSENT"} \cup Open \cup Completed]
               /\ WholeGraph' /\ GroundedAnswers'
    <2>1. /\ state' = [state EXCEPT ![q] = s] /\ retrieval' = retrieval /\ answer' = answer
          /\ state[q] \notin Completed /\ s \notin Completed
      BY <1>3 DEF Noted, Open, Completed
    <2>2. answer[q] = None
      BY <1>1, <2>1 DEF WholeGraph
    <2>3. \A p \in Requests : state'[p] = IF p = q THEN s ELSE state[p]
      BY <1>1, <2>1 DEF TypeOK
    <2>4. WholeGraph'
      BY <1>1, <2>1, <2>3 DEF WholeGraph
    <2>5. GroundedAnswers'
      BY <1>1, <2>1, <2>2, <2>3 DEF GroundedAnswers
    <2> QED  BY <1>1, <2>1, <2>4, <2>5 DEF TypeOK
  <1>4. ASSUME NEW q \in Requests, NEW r, NEW a, Answered(q, r, a)
        PROVE  /\ state' \in [Requests -> {"ABSENT"} \cup Open \cup Completed]
               /\ retrieval' \in [Requests -> Retrieval \cup {None}]
               /\ answer' \in [Requests -> Answer \cup {None}]
               /\ WholeGraph' /\ GroundedAnswers'
               /\ \A p \in Requests : answer[p] # None =>
                      answer'[p] = answer[p] /\ retrieval'[p] = retrieval[p]
    <2>1. /\ r \in Retrieval /\ a \in Answer /\ r # None /\ a # None /\ answer[q] = None
      BY <1>4, NoneAssumption DEF Answered
    <2>2. /\ state' \in [Requests -> {"ABSENT"} \cup Open \cup Completed]
          /\ retrieval' \in [Requests -> Retrieval \cup {None}]
          /\ answer' \in [Requests -> Answer \cup {None}]
      BY <1>1, <1>4, <2>1 DEF Answered, TypeOK, Completed
    <2>3. \A p \in Requests :
            /\ retrieval'[p] = IF p = q THEN r ELSE retrieval[p]
            /\ answer'[p] = IF p = q THEN a ELSE answer[p]
            /\ state'[p] = IF p = q
                           THEN IF Sufficient(q, a.relation) THEN "COMPLETED"
                                                             ELSE "COMPLETED_INSUFFICIENT"
                           ELSE state[p]
      BY <1>1, <1>4 DEF Answered, TypeOK
    <2>4. WholeGraph'
      BY <1>1, <2>1, <2>3 DEF WholeGraph, Completed
    <2>5. /\ DOMAIN a.relation = r.evidence
          /\ IF Sufficient(q, a.relation)
             THEN /\ SourceOf[q] \notin warned
                  /\ \E e \in DOMAIN a.relation : a.relation[e] = "SUPPORTS"
                  /\ \A e \in DOMAIN a.relation : a.relation[e] # "CONTRADICTS"
                  /\ a.cited # {} /\ a.cited \subseteq DOMAIN a.relation
             ELSE /\ a.cited = {e \in DOMAIN a.relation : a.relation[e] # "IRRELEVANT"}
                  /\ \/ SourceOf[q] \in warned
                     \/ \A e \in DOMAIN a.relation : a.relation[e] # "SUPPORTS"
                     \/ \E e \in DOMAIN a.relation : a.relation[e] = "CONTRADICTS"
      BY <1>4 DEF Answered, Sufficient, Rated, Related
    <2>6. ASSUME NEW p \in Requests, answer'[p] # None
          PROVE  LET relation == answer'[p].relation
                     cited == answer'[p].cited
                 IN
                 /\ DOMAIN relation = retrieval'[p].evidence
                 /\ IF state'[p] = "COMPLETED"
                    THEN /\ SourceOf[p] \notin warned'
                         /\ \E e \in DOMAIN relation : relation[e] = "SUPPORTS"
                         /\ \A e \in DOMAIN relation : relation[e] # "CONTRADICTS"
                         /\ cited # {} /\ cited \subseteq DOMAIN relation
                    ELSE /\ cited = {e \in DOMAIN relation : relation[e] # "IRRELEVANT"}
                         /\ \/ SourceOf[p] \in warned'
                            \/ \A e \in DOMAIN relation : relation[e] # "SUPPORTS"
                            \/ \E e \in DOMAIN relation : relation[e] = "CONTRADICTS"
      <3>1. CASE p = q
        <4>1. answer'[p] = a /\ retrieval'[p] = r
              /\ (state'[p] = "COMPLETED" <=> Sufficient(q, a.relation))
          BY <2>3, <3>1
        <4> QED  BY <2>5, <3>1, <4>1
      <3>2. CASE p # q
        <4>1. answer'[p] = answer[p] /\ retrieval'[p] = retrieval[p] /\ state'[p] = state[p]
          BY <2>3, <3>2
        <4> QED  BY <1>1, <2>6, <4>1 DEF GroundedAnswers
      <3> QED  BY <3>1, <3>2
    <2>7. GroundedAnswers'
      BY <2>6 DEF GroundedAnswers
    <2> QED  BY <2>1, <2>2, <2>3, <2>4, <2>7
  <1>5. TypeOK => /\ retrieval \in [Requests -> Retrieval \cup {None}]
                  /\ answer \in [Requests -> Answer \cup {None}]
    BY DEF TypeOK
  <1>6. (\E q \in Requests, s \in Open : Noted(q, s)) => retrieval' = retrieval /\ answer' = answer
    BY DEF Noted
  <1> QED  BY <1>1, <1>2, <1>3, <1>4, <1>5, <1>6 DEF RowsMove, rows
------------------------------------------------------------------------------
(* The shapes of a caller's step.                                          *)

\* The next step of a call that is under way.
LEMMA GoSteps ==
    ASSUME IInv, NEW c \in Callers, pc[c] # "idle", NEW step \in Steps,
           Goto(c, step), UNCHANGED rows,
           target' \in [Callers -> Open \cup {None}], draft' \in [Callers -> DraftType],
           \A d \in Callers \ {c} : target'[d] = target[d] /\ draft'[d] = draft[d],
           CallerInv(c)'
    PROVE  CallerStep(c)
  <1>1. CallerTypes'
    BY DEF IInv, TypeOK, CallerTypes, Goto
  <1>2. \A d \in Callers \ {c} : UNCHANGED Locals(d)
    BY DEF IInv, TypeOK, Goto, Locals
  <1> QED  BY <1>1, <1>2 DEF CallerStep, RowsMove, Goto

\* A call ends without an answer.
LEMMA ReturnSteps ==
    ASSUME IInv, NEW c \in Callers, NEW result \in {"none", "FAILED", "CANCELLED"},
           Return(c, result), RowsMove,
           draft' \in [Callers -> DraftType], \A d \in Callers \ {c} : draft'[d] = draft[d]
    PROVE  CallerStep(c)
  <1>1. CallerTypes'
    BY DEF IInv, TypeOK, CallerTypes, Return
  <1>2. \A d \in Callers \ {c} : UNCHANGED Locals(d)
    BY DEF IInv, TypeOK, Return, Locals
  <1>3. pc'[c] = "idle" /\ outcome'[c] = result
    BY DEF IInv, TypeOK, Return
  <1>4. CallerInv(c)'
    BY <1>3 DEF CallerInv, Steps, Retrieved, Evaluated
  <1> QED  BY <1>1, <1>2, <1>4 DEF CallerStep, Return

\* A caller without a draft is well typed.
LEMMA NoDraftTyped == NoDraft \in DraftType
  BY DEF NoDraft, DraftType

\* A call begins.
LEMMA BeginSteps ==
    ASSUME IInv, NEW c \in Callers, NEW q \in Requests, Ask(c, q) \/ Retry(c, q)
    PROVE  CallerStep(c)
  <1>1. PICK step \in {"intake", "load"} : Begin(c, q, step)
    BY DEF Ask, Retry
  <1>2. CallerTypes'
    BY <1>1, NoDraftTyped DEF IInv, TypeOK, CallerTypes, Begin, Steps, DraftType
  <1>3. \A d \in Callers \ {c} : UNCHANGED Locals(d)
    BY <1>1 DEF IInv, TypeOK, Begin, Locals
  <1>4. pc'[c] = step /\ outcome'[c] = "none" /\ asked'[c] = q
    BY <1>1 DEF IInv, TypeOK, Begin
  <1>5. CallerInv(c)'
    BY <1>4 DEF CallerInv, Steps, Retrieved, Evaluated
  <1> QED  BY <1>1, <1>2, <1>3, <1>5 DEF CallerStep, Begin, RowsMove

\* Registering the request, reading it, or handing out what is stored of it.
LEMMA LoadSteps ==
    ASSUME IInv, NEW c \in Callers, Intake(c) \/ Reuse(c) \/ Load(c)
    PROVE  CallerStep(c)
  <1>1. TypeOK /\ CallerInv(c) /\ WholeGraph /\ asked[c] \in Requests /\ draft \in [Callers -> DraftType]
    BY DEF IInv, CallerInv, Intake, Reuse, Load, TypeOK, DraftType
  <1>2. CASE Intake(c)
    <2>1. Noted(asked[c], "DRAFT")
      BY <1>2 DEF Intake, Noted
    <2>2. CallerTypes' /\ (\A d \in Callers \ {c} : UNCHANGED Locals(d))
      BY <1>1, <1>2 DEF TypeOK, CallerTypes, Intake, Goto, Locals, Steps
    <2>3. pc'[c] = "load" /\ asked'[c] = asked[c] /\ outcome'[c] = outcome[c] /\ outcome[c] = "none"
      BY <1>1, <1>2 DEF TypeOK, Intake, Goto, CallerInv, Steps
    <2>4. CallerInv(c)'
      BY <1>1, <2>3 DEF CallerInv, Retrieved, Evaluated
    <2> QED  BY <1>1, <1>2, <2>1, <2>2, <2>4 DEF CallerStep, RowsMove, Intake, Goto, Open
  <1>3. CASE Load(c)
    <2>1. /\ pc'[c] = "prepare" /\ asked'[c] = asked[c] /\ outcome'[c] = "none"
          /\ target'[c] \in Open
      BY <1>1, <1>3 DEF TypeOK, Load, Goto, CallerInv, Steps
    <2>2. CallerInv(c)'
      BY <1>1, <2>1 DEF CallerInv, Retrieved, Evaluated
    <2>3. /\ target' \in [Callers -> Open \cup {None}]
          /\ \A d \in Callers \ {c} : target'[d] = target[d] /\ draft'[d] = draft[d]
      BY <1>1, <1>3 DEF TypeOK, Load
    <2>4. "prepare" \in Steps /\ pc[c] # "idle"
      BY <1>3 DEF Load, Steps
    <2> QED  BY <1>1, <1>3, <2>2, <2>3, <2>4, GoSteps DEF Load
  <1>4. CASE Reuse(c)
    <2> DEFINE q == asked[c]
               found == [retrieval |-> retrieval[q], answer |-> answer[q]]
    <2>1. answer[q] # None /\ retrieval[q] # None
      BY <1>1, <1>4 DEF Reuse, WholeGraph
    <2>2. found \in DraftType
      BY <1>1, <2>1 DEF TypeOK, DraftType
    <2>3. /\ draft' = [draft EXCEPT ![c] = found] /\ Return(c, "reused") /\ UNCHANGED rows
      BY <1>4 DEF Reuse
    <2> HIDE DEF found
    <2>4. CallerTypes' /\ (\A d \in Callers \ {c} : UNCHANGED Locals(d))
      BY <1>1, <2>2, <2>3 DEF TypeOK, CallerTypes, Return, Locals
    <2>5. pc'[c] = "idle" /\ outcome'[c] = "reused" /\ asked'[c] = q /\ draft'[c] = found
      BY <1>1, <2>3 DEF TypeOK, Return
    <2>6. CallerInv(c)'
      BY <1>1, <2>1, <2>3, <2>5 DEF CallerInv, Retrieved, Evaluated, Steps, rows, found
    <2> QED  BY <2>3, <2>4, <2>6 DEF CallerStep, RowsMove, Return
  <1> QED  BY <1>2, <1>3, <1>4

\* What a caller retrieved stays an open question's passages while it works on them.
LEMMA SeenStays ==
    ASSUME NEW c \in Callers, CallerInv(c), pc[c] \in Retrieved,
           UNCHANGED <<index, retired, rows, asked>>,
           draft'[c].retrieval = draft[c].retrieval
    PROVE  /\ draft'[c].retrieval \in Retrieval
           /\ answer'[asked'[c]] = None =>
                 Shown(SourceOf[asked[c]], draft[c].retrieval.evidence)'
  BY DEF CallerInv, rows, Shown, Log!IsPublished, Log!PassagesOf, Log!Published

\* Retrieval: the passages of the published index, or what is stored of a request
\* that somebody else has answered in the meantime.
LEMMA PrepareSteps ==
    ASSUME IInv, NEW c \in Callers, Prepare(c)
    PROVE  CallerStep(c)
  <1>1. /\ TypeOK /\ IndexInv /\ WholeGraph /\ CallerInv(c) /\ pc[c] = "prepare"
        /\ Goto(c, "evaluate") /\ UNCHANGED <<rows, target>> /\ Resolves(asked[c])
    BY DEF IInv, Prepare
  <1>2. asked[c] \in Requests /\ outcome[c] = "none" /\ target[c] \in Open
    BY <1>1 DEF CallerInv, Steps
  <1>3. PICK r : /\ draft' = [draft EXCEPT ![c].retrieval = r]
                 /\ r \in Retrieval
                 /\ answer[asked[c]] = None => Shown(SourceOf[asked[c]], r.evidence)
    <2>1. CASE retrieval[asked[c]] # None /\ draft' = [draft EXCEPT ![c].retrieval = retrieval[asked[c]]]
      <3>1. retrieval[asked[c]] \in Retrieval /\ answer[asked[c]] # None
        BY <1>1, <1>2, <2>1 DEF TypeOK, WholeGraph
      <3> QED  BY <2>1, <3>1
    <2>2. ASSUME NEW evidence \in SUBSET Log!PassagesOf(SourceOf[asked[c]]),
                 draft' = [draft EXCEPT ![c].retrieval = [run |-> c, evidence |-> evidence]]
          PROVE  \E r : /\ draft' = [draft EXCEPT ![c].retrieval = r]
                        /\ r \in Retrieval
                        /\ answer[asked[c]] = None => Shown(SourceOf[asked[c]], r.evidence)
      <3> DEFINE r == [run |-> c, evidence |-> evidence]
      <3>1. r \in Retrieval
        BY <1>1, PassagesAreTyped DEF Retrieval
      <3>2. Shown(SourceOf[asked[c]], r.evidence)
        BY <1>1 DEF Shown, Resolves
      <3> QED  BY <2>2, <3>1, <3>2
    <2> QED  BY <2>1, <2>2 DEF Prepare
  <1>4. draft \in [Callers -> DraftType]
    BY <1>1 DEF TypeOK, DraftType
  <1>5. draft' = [draft EXCEPT ![c] = [draft[c] EXCEPT !.retrieval = r]]
    BY <1>3, <1>4
  <1>6. [draft[c] EXCEPT !.retrieval = r] \in DraftType
    BY <1>3, <1>4 DEF DraftType
  <1>7. [draft[c] EXCEPT !.retrieval = r].retrieval = r
    BY <1>4 DEF DraftType
  <1>8. /\ draft' \in [Callers -> DraftType] /\ draft'[c].retrieval = r
        /\ \A d \in Callers \ {c} : draft'[d] = draft[d]
    BY <1>4, <1>5, <1>6, <1>7
  <1>9. /\ pc'[c] = "evaluate" /\ asked' = asked /\ outcome'[c] = "none" /\ target'[c] \in Open
        /\ target' = target /\ UNCHANGED <<index, retired>>
    BY <1>1, <1>2 DEF TypeOK, Goto
  <1>10. Shown(SourceOf[asked[c]], r.evidence) => Shown(SourceOf[asked[c]], r.evidence)'
    BY <1>9 DEF Shown, Log!IsPublished, Log!PassagesOf, Log!Published
  <1>11. CallerInv(c)'
    BY <1>1, <1>2, <1>3, <1>8, <1>9, <1>10 DEF CallerInv, Retrieved, Evaluated, rows, Steps
  <1>12. "evaluate" \in Steps /\ target \in [Callers -> Open \cup {None}]
    BY <1>1 DEF Steps, TypeOK
  <1> QED  BY <1>1, <1>8, <1>9, <1>11, <1>12, GoSteps

\* A step of a call that has its passages and goes on with an answer that fits.
LEMMA AnswerSteps ==
    ASSUME IInv, NEW c \in Callers, pc[c] \in Retrieved, NEW step \in Evaluated, Goto(c, step),
           UNCHANGED <<rows, target>>, NEW a \in Answer,
           draft' = [draft EXCEPT ![c].answer = a],
           DOMAIN a.relation = draft[c].retrieval.evidence,
           IF step \in {"generate", "repair"} THEN Sufficient(asked[c], a.relation)
           ELSE IF Sufficient(asked[c], a.relation)
                THEN a.cited # {} /\ a.cited \subseteq draft[c].retrieval.evidence
                ELSE a.cited = Related(a.relation)
    PROVE  CallerStep(c)
  <1>1. TypeOK /\ CallerInv(c) /\ draft \in [Callers -> DraftType]
    BY DEF IInv, TypeOK, DraftType
  <1>2. pc[c] # "idle" /\ asked[c] \in Requests /\ outcome[c] = "none" /\ target[c] \in Open
    BY <1>1 DEF CallerInv, Steps, Retrieved
  <1>3. draft' = [draft EXCEPT ![c] = [draft[c] EXCEPT !.answer = a]]
    BY <1>1
  <1>4. /\ [draft[c] EXCEPT !.answer = a] \in DraftType
        /\ [draft[c] EXCEPT !.answer = a].answer = a
        /\ [draft[c] EXCEPT !.answer = a].retrieval = draft[c].retrieval
    BY <1>1 DEF DraftType
  <1>5. /\ draft' \in [Callers -> DraftType]
        /\ draft'[c].answer = a /\ draft'[c].retrieval = draft[c].retrieval
        /\ \A d \in Callers \ {c} : draft'[d] = draft[d]
    BY <1>1, <1>3, <1>4
  <1>6. /\ pc'[c] = step /\ asked' = asked /\ outcome'[c] = "none" /\ target'[c] \in Open
        /\ target' = target /\ UNCHANGED <<index, retired, warned>>
    BY <1>1, <1>2 DEF TypeOK, Goto
  <1>7. /\ draft'[c].retrieval \in Retrieval
        /\ answer'[asked'[c]] = None =>
              Shown(SourceOf[asked[c]], draft[c].retrieval.evidence)'
    BY <1>1, <1>5, <1>6, SeenStays
  <1>8. Sufficient(asked[c], a.relation)' <=> Sufficient(asked[c], a.relation)
    BY <1>6 DEF Sufficient
  <1>9. Fits(c)'
    BY <1>5, <1>6, <1>8 DEF Fits, Sufficient, Evaluated
  <1>10. step \in Steps /\ step \notin {"idle", "record"}
    BY DEF Evaluated, Steps
  <1>11. CallerInv(c)'
    BY <1>2, <1>6, <1>7, <1>9, <1>10 DEF CallerInv
  <1> QED  BY <1>1, <1>2, <1>5, <1>6, <1>10, <1>11, GoSteps DEF TypeOK

\* The verifier's ratings make a fixed answer, or send the call on to the model.
LEMMA EvaluateSteps ==
    ASSUME IInv, NEW c \in Callers, Evaluate(c)
    PROVE  CallerStep(c)
  <1>1. /\ CallerInv(c) /\ pc[c] = "evaluate" /\ pc[c] \in Retrieved /\ UNCHANGED <<rows, target>>
        /\ draft[c].retrieval \in Retrieval
    BY DEF IInv, Evaluate, CallerInv, Retrieved
  <1>2. PICK relation \in [draft[c].retrieval.evidence -> Ratings] :
            /\ draft' = [draft EXCEPT ![c].answer =
                  [by |-> c, relation |-> relation,
                   cited |-> IF Sufficient(asked[c], relation) THEN {} ELSE Related(relation)]]
            /\ Goto(c, IF Sufficient(asked[c], relation) THEN "generate" ELSE "persist")
    BY DEF Evaluate
  <1> DEFINE a == [by |-> c, relation |-> relation,
                   cited |-> IF Sufficient(asked[c], relation) THEN {} ELSE Related(relation)]
  <1>3. draft[c].retrieval.evidence \subseteq Passages
    BY <1>1 DEF Retrieval
  <1>4. relation \in Evaluations /\ DOMAIN relation = draft[c].retrieval.evidence
    BY <1>3 DEF Evaluations
  <1>5. Related(relation) \subseteq Passages
    BY <1>3, <1>4 DEF Related
  <1>6. a \in Answer
    BY <1>4, <1>5 DEF Answer
  <1> QED  BY <1>1, <1>2, <1>4, <1>6, AnswerSteps DEF Evaluated

\* The model's output is usable, or it is asked once more for it.
LEMMA GenerateSteps ==
    ASSUME IInv, NEW c \in Callers, Generate(c) \/ Repair(c) \/ LastCheckpoint(c)
    PROVE  CallerStep(c)
  <1>1. /\ CallerInv(c) /\ pc[c] \in {"generate", "repair", "persist"} /\ UNCHANGED <<rows, target>>
        /\ draft \in [Callers -> DraftType]
    BY DEF IInv, Generate, Repair, LastCheckpoint, TypeOK, DraftType
  <1>2. Fits(c) /\ draft[c].retrieval \in Retrieval /\ pc[c] \in Retrieved
    BY <1>1 DEF CallerInv, Retrieved, Evaluated
  <1>3. PICK a \in Answer : a = draft[c].answer
    BY <1>2 DEF Fits
  <1>4. DOMAIN a.relation = draft[c].retrieval.evidence
    BY <1>2, <1>3 DEF Fits
  <1>5. CASE UsableOutput(c) /\ pc[c] \in {"generate", "repair"}
    <2>1. PICK labels \in SUBSET draft[c].retrieval.evidence :
              labels # {} /\ draft' = [draft EXCEPT ![c].answer.cited = labels] /\ Goto(c, "persist")
      BY <1>5 DEF UsableOutput
    <2>2. draft' = [draft EXCEPT ![c].answer = [a EXCEPT !.cited = labels]]
      BY <1>1, <1>3, <2>1
    <2>3. labels \subseteq Passages
      BY <1>2 DEF Retrieval
    <2>4. /\ [a EXCEPT !.cited = labels] \in Answer
          /\ [a EXCEPT !.cited = labels].relation = a.relation
          /\ [a EXCEPT !.cited = labels].cited = labels
      BY <2>3 DEF Answer
    <2>5. Sufficient(asked[c], a.relation)
      BY <1>2, <1>3, <1>5 DEF Fits
    <2>6. PICK b : b = [a EXCEPT !.cited = labels]
      OBVIOUS
    <2> QED  BY <1>1, <1>2, <1>4, <2>1, <2>2, <2>4, <2>5, <2>6, AnswerSteps DEF Evaluated
  <1>6. CASE draft' = draft /\ \/ pc[c] = "generate" /\ Goto(c, "repair")
                               \/ pc[c] = "persist" /\ Goto(c, "commit")
    <2>1. draft' = [draft EXCEPT ![c].answer = a]
      BY <1>1, <1>3, <1>6 DEF DraftType
    <2> QED  BY <1>1, <1>2, <1>3, <1>4, <1>6, <2>1, AnswerSteps DEF Evaluated, Fits
  <1> QED  BY <1>1, <1>5, <1>6 DEF Generate, Repair, LastCheckpoint

\* The final transaction: the request is still open, its scope resolves, so the
\* passages are those of the published index, and what is stored is the draft.
LEMMA CommitSteps ==
    ASSUME IInv, NEW c \in Callers, Commit(c)
    PROVE  CallerStep(c)
  <1>1. /\ TypeOK /\ WholeGraph /\ CallerInv(c) /\ draft \in [Callers -> DraftType]
        /\ pc[c] = "commit" /\ Return(c, "created") /\ draft' = draft
    BY DEF IInv, Commit, TypeOK, DraftType
  <1>2. /\ asked[c] \in Requests /\ target[c] \in Open /\ Fits(c)
        /\ draft[c].retrieval \in Retrieval
        /\ answer[asked[c]] = None => Shown(SourceOf[asked[c]], draft[c].retrieval.evidence)
    BY <1>1 DEF CallerInv, Retrieved, Evaluated
  <1>3. PICK r \in Retrieval, a \in Answer : r = draft[c].retrieval /\ a = draft[c].answer
    BY <1>2 DEF Fits
  <1>4. draft[c] = [retrieval |-> r, answer |-> a]
    BY <1>1, <1>3 DEF DraftType
  <1>5. PICK q \in Requests : q = asked[c]
    BY <1>2
  <1>6. /\ state[q] \in Open /\ answer[q] = None /\ Resolves(q)
        /\ retrieval' = [retrieval EXCEPT ![q] = r]
        /\ answer' = [answer EXCEPT ![q] = a]
        /\ state' = [state EXCEPT ![q] = IF Sufficient(q, a.relation) THEN "COMPLETED"
                                                                   ELSE "COMPLETED_INSUFFICIENT"]
    BY <1>2, <1>3, <1>5 DEF Commit, SameTarget, StageRetrieval
  <1>7. Answered(q, r, a)
    BY <1>1, <1>2, <1>3, <1>5, <1>6 DEF Answered, Fits
  <1>8. CallerTypes' /\ \A d \in Callers \ {c} : UNCHANGED Locals(d)
    BY <1>1 DEF TypeOK, CallerTypes, Return, Locals
  <1>9. pc'[c] = "idle" /\ outcome'[c] = "created" /\ asked'[c] = q /\ draft'[c] = draft[c]
    BY <1>1, <1>5 DEF TypeOK, Return
  <1>10. retrieval'[q] = r /\ answer'[q] = a /\ a # None
    BY <1>1, <1>3, <1>6, NoneAssumption DEF TypeOK
  <1>11. CallerInv(c)'
    BY <1>4, <1>9, <1>10 DEF CallerInv, Steps, Retrieved, Evaluated
  <1> QED  BY <1>1, <1>7, <1>8, <1>11 DEF CallerStep, RowsMove, Return

\* A call that stops or raises gives its draft up, and has its end recorded if it got
\* as far as reading the request.
LEMMA GiveUpSteps ==
    ASSUME IInv, NEW c \in Callers, pc[c] \in Steps,
           NEW result \in {"FAILED", "CANCELLED"}, GiveUp(c, result)
    PROVE  CallerStep(c)
  <1>1. /\ TypeOK /\ CallerInv(c) /\ draft \in [Callers -> DraftType]
        /\ draft' = [draft EXCEPT ![c] = NoDraft] /\ UNCHANGED rows
    BY DEF IInv, GiveUp, TypeOK, DraftType
  <1>2. draft' \in [Callers -> DraftType] /\ \A d \in Callers \ {c} : draft'[d] = draft[d]
    BY <1>1, NoDraftTyped
  <1>3. CASE pc[c] \in {"intake", "load"}
    BY <1>1, <1>2, <1>3, ReturnSteps DEF GiveUp, RowsMove
  <1>4. CASE pc[c] \notin {"intake", "load"}
    <2>1. /\ pc' = [pc EXCEPT ![c] = "record"] /\ outcome' = [outcome EXCEPT ![c] = result]
          /\ UNCHANGED <<index, retired, warned, asked, target, cancelled>>
      BY <1>4 DEF GiveUp
    <2>2. CallerTypes' /\ \A d \in Callers \ {c} : UNCHANGED Locals(d)
      BY <1>1, <1>2, <2>1 DEF TypeOK, CallerTypes, Locals
    <2>3. asked[c] \in Requests /\ target[c] \in Open
      BY <1>1, <1>4 DEF CallerInv, Steps, Retrieved
    <2>4. pc'[c] = "record" /\ outcome'[c] = result /\ asked'[c] = asked[c] /\ target'[c] = target[c]
      BY <1>1, <2>1 DEF TypeOK
    <2>5. CallerInv(c)'
      BY <2>3, <2>4 DEF CallerInv, Steps, Retrieved, Evaluated
    <2> QED  BY <1>1, <2>1, <2>2, <2>5 DEF CallerStep, RowsMove
  <1> QED  BY <1>3, <1>4

\* The end of a call is noted on a request that is open, or nothing is.
LEMMA RecordSteps ==
    ASSUME IInv, NEW c \in Callers, Record(c)
    PROVE  CallerStep(c)
  <1>1. /\ TypeOK /\ CallerInv(c) /\ draft \in [Callers -> DraftType]
        /\ pc[c] = "record" /\ Return(c, outcome[c]) /\ UNCHANGED <<retrieval, answer, draft>>
    BY DEF IInv, Record, TypeOK, DraftType
  <1>2. asked[c] \in Requests /\ outcome[c] \in {"FAILED", "CANCELLED"}
    BY <1>1 DEF CallerInv
  <1>3. CASE UNCHANGED state
    BY <1>1, <1>2, <1>3, ReturnSteps DEF RowsMove, rows
  <1>4. CASE state[asked[c]] \in Open /\ state' = [state EXCEPT ![asked[c]] = outcome[c]]
    <2>1. Noted(asked[c], outcome[c])
      BY <1>1, <1>2, <1>4 DEF Noted
    <2>2. RowsMove
      BY <1>2, <2>1 DEF RowsMove, Open
    <2> QED  BY <1>1, <1>2, <2>2, ReturnSteps
  <1> QED  BY <1>3, <1>4 DEF Record

\* A cancellation sets a flag; a caller whose process ended starts anew.
LEMMA InterruptSteps ==
    ASSUME IInv, NEW c \in Callers, RequestCancel(c) \/ Die(c)
    PROVE  CallerStep(c)
  <1>1. TypeOK /\ CallerInv(c) /\ draft \in [Callers -> DraftType]
    BY DEF IInv, TypeOK, DraftType
  <1>2. CASE RequestCancel(c)
    <2>1. /\ cancelled' = [cancelled EXCEPT ![c] = TRUE]
          /\ UNCHANGED <<index, retired, warned, rows, pc, asked, target, draft, outcome>>
      BY <1>2 DEF RequestCancel
    <2>2. CallerTypes' /\ \A d \in Callers \ {c} : UNCHANGED Locals(d)
      BY <1>1, <2>1 DEF TypeOK, DraftType, CallerTypes, Locals
    <2>3. Fits(c) => Fits(c)'
      BY <2>1 DEF Fits, Sufficient
    <2>4. ASSUME NEW evidence, Shown(SourceOf[asked[c]], evidence)
          PROVE  Shown(SourceOf[asked[c]], evidence)'
      BY <2>1, <2>4 DEF Shown, Log!IsPublished, Log!PassagesOf, Log!Published
    <2>5. CallerInv(c)'
      BY <1>1, <2>1, <2>3, <2>4 DEF CallerInv, rows
    <2> QED  BY <2>1, <2>2, <2>5 DEF CallerStep, RowsMove
  <1>3. CASE Die(c)
    <2>1. draft' \in [Callers -> DraftType] /\ \A d \in Callers \ {c} : draft'[d] = draft[d]
      BY <1>1, <1>3, NoDraftTyped DEF Die
    <2> QED  BY <1>3, <2>1, ReturnSteps DEF Die, RowsMove
  <1> QED  BY <1>2, <1>3

\* Every step is the republishing of an index or a step of one caller.
LEMMA AnyStep ==
    ASSUME IInv, Next
    PROVE  Republish \/ \E c \in Callers : CallerStep(c)
  <1>1. ASSUME NEW c \in Callers, StopCancelled(c) \/ Raise(c)
        PROVE  CallerStep(c)
    BY <1>1, GiveUpSteps DEF StopCancelled, Raise
  <1>2. ASSUME NEW c \in Callers, Advance(c)
        PROVE  CallerStep(c)
    BY <1>2, LoadSteps, PrepareSteps, EvaluateSteps, GenerateSteps, CommitSteps DEF Advance
  <1> QED  BY <1>1, <1>2, BeginSteps, RecordSteps, InterruptSteps DEF Next
------------------------------------------------------------------------------
(* The invariant is inductive.                                             *)

\* What a caller holds is not disturbed by the steps of others.
LEMMA OthersStay ==
    ASSUME IInv, NEW d \in Callers, UNCHANGED Locals(d), warned' = warned,
           [Log!Next]_<<index, retired>>, RowsMove
    PROVE  CallerInv(d)'
  <1>1. CallerInv(d) /\ IndexInv
    BY DEF IInv
  <1>2. /\ pc'[d] = pc[d] /\ asked'[d] = asked[d] /\ target'[d] = target[d]
        /\ draft'[d] = draft[d] /\ outcome'[d] = outcome[d]
    BY DEF Locals
  <1>3. Fits(d) => Fits(d)'
    BY <1>2 DEF Fits, Sufficient
  <1>4. \A q \in Requests : answer[q] # None =>
            answer'[q] = answer[q] /\ retrieval'[q] = retrieval[q]
    BY RowsKept
  <1>5. PICK g, evidence : g = SourceOf[asked[d]] /\ evidence = draft[d].retrieval.evidence
    OBVIOUS
  <1>6. Shown(g, evidence) => Shown(g, evidence)'
    BY <1>1, ShownStays
  <1>7. pc[d] \in Retrieved =>
            /\ draft'[d].retrieval \in Retrieval
            /\ answer'[asked'[d]] = None =>
                  Shown(SourceOf[asked[d]], draft[d].retrieval.evidence)'
    <2> SUFFICES ASSUME pc[d] \in Retrieved, answer'[asked'[d]] = None
                 PROVE  Shown(g, evidence)'
      BY <1>1, <1>2, <1>5 DEF CallerInv, Shown
    <2>1. asked[d] \in Requests /\ answer[asked[d]] = None
      BY <1>1, <1>2, <1>4 DEF CallerInv, Retrieved
    <2> QED  BY <1>1, <1>5, <1>6, <2>1 DEF CallerInv
  <1>8. outcome[d] \in {"created", "reused"} =>
            /\ asked[d] \in Requests /\ answer'[asked[d]] # None
            /\ draft[d] = [retrieval |-> retrieval'[asked[d]], answer |-> answer'[asked[d]]]
    BY <1>1, <1>4 DEF CallerInv
  <1> QED  BY <1>1, <1>2, <1>3, <1>7, <1>8 DEF CallerInv

\* Republishing an index keeps the invariant.
LEMMA RepublishKeeps == IInv /\ Republish => IInv'
  <1> SUFFICES ASSUME IInv, Republish
               PROVE  IInv'
    OBVIOUS
  <1>1. Log!Next /\ UNCHANGED <<warned, rows, callers>>
    BY DEF Republish, Log!Next
  <1>2. \A d \in Callers : CallerInv(d)'
    BY <1>1, OthersStay DEF RowsMove, Locals, callers
  <1>3. IndexInv'
    BY <1>1, IndexStep DEF IInv
  <1>4. TypeOK' /\ WholeGraph' /\ GroundedAnswers'
    BY <1>1 DEF IInv, TypeOK, WholeGraph, GroundedAnswers, rows, callers
  <1> QED  BY <1>2, <1>3, <1>4 DEF IInv

\* A step of one caller keeps the invariant, the other callers' parts included.
LEMMA CallerStepKeeps ==
    ASSUME IInv, NEW c \in Callers, CallerStep(c)
    PROVE  IInv'
  <1>1. UNCHANGED <<index, retired, warned>> /\ RowsMove /\ CallerTypes' /\ CallerInv(c)'
    BY DEF CallerStep
  <1>2. \A d \in Callers : CallerInv(d)'
    BY <1>1, OthersStay DEF CallerStep
  <1>3. IndexInv'
    BY <1>1, IndexStep DEF IInv
  <1>4. TypeOK' /\ WholeGraph' /\ GroundedAnswers'
    BY <1>1, RowsKept DEF IInv, TypeOK, CallerTypes, DraftType
  <1> QED  BY <1>2, <1>3, <1>4 DEF IInv

\* The invariant holds initially.
LEMMA InvariantInit == Init => IInv
  <1> SUFFICES ASSUME Init
               PROVE  IInv
    OBVIOUS
  <1>1. TypeOK
    BY SourceOfAssumption, NoDraftTyped DEF Init, TypeOK, DraftType, Open
  <1>2. index = [d \in Documents |-> NoIndex] /\ retired = {}
    BY DEF Init, Log!Init
  <1>3. IndexInv
    BY <1>2 DEF IndexInv, Log!Published
  <1>4. WholeGraph /\ GroundedAnswers
    BY DEF Init, WholeGraph, GroundedAnswers, Completed
  <1>5. \A c \in Callers : CallerInv(c)
    BY DEF Init, CallerInv, Retrieved, Evaluated, Steps
  <1> QED  BY <1>1, <1>3, <1>4, <1>5 DEF IInv

\* Every step keeps the invariant.
LEMMA InvariantStep == IInv /\ [Next]_vars => IInv'
  <1>1. IInv /\ Next => IInv'
    BY AnyStep, RepublishKeeps, CallerStepKeeps
  <1>2. IInv /\ UNCHANGED vars => IInv'
    <2> SUFFICES ASSUME IInv, UNCHANGED vars
                 PROVE  IInv'
      OBVIOUS
    <2>1. UNCHANGED <<index, retired, warned, rows, callers>>
      BY DEF vars
    <2>2. \A d \in Callers : CallerInv(d)'
      BY <2>1, OthersStay DEF RowsMove, Locals, callers
    <2>3. IndexInv'
      BY <2>1, IndexStep DEF IInv
    <2>4. TypeOK' /\ WholeGraph' /\ GroundedAnswers'
      BY <2>1 DEF IInv, TypeOK, WholeGraph, GroundedAnswers, rows, callers
    <2> QED  BY <2>2, <2>3, <2>4 DEF IInv
  <1> QED  BY <1>1, <1>2

\* The invariant behind the theorems below: what is stored is whole and fits, what a
\* caller holds fits its passages, and those are the passages of the published
\* index unless it was replaced or the request was answered by somebody else.
THEOREM Inductive == Spec => []IInv
  BY InvariantInit, InvariantStep, PTL DEF Spec
------------------------------------------------------------------------------
(* The properties.                                                         *)

\* The rows, and what every caller holds, are well typed.
THEOREM TypesHold == Spec => []TypeOK
  BY Inductive, PTL DEF IInv

\* CompleteChat stores retrieval, answer and terminal state together, and neither a
\* late failure nor a second call takes one of them back.
THEOREM GraphStaysWhole == Spec => []WholeGraph
  BY Inductive, PTL DEF IInv

\* What CompleteChat returned is what is stored, whoever answered the request and
\* whatever happens to it afterwards.
THEOREM ReturnedAreStored == Spec => []ReturnedIsStored
  <1>1. IInv => ReturnedIsStored
    BY DEF IInv, CallerInv, ReturnedIsStored
  <1> QED  BY <1>1, Inductive, PTL

\* A stored answer has the passages, the support and the citations that its state
\* claims.
THEOREM AnswersAreGrounded == Spec => []GroundedAnswers
  BY Inductive, PTL DEF IInv

\* A call whose cancellation was requested before its last checkpoint takes no
\* further step but to end.
THEOREM CancelObeyed == Spec => CancelEndsCall
  <1>1. ASSUME TypeOK, Next, NEW c \in Callers, cancelled[c],
               pc[c] \in Steps \ {"load", "commit"}
        PROVE  pc'[c] \in {pc[c], "record", "idle"}
    <2>1. ASSUME NEW d \in Callers, NEW step, pc' = [pc EXCEPT ![d] = step],
                 d = c => step \in {"record", "idle"}
          PROVE  pc'[c] \in {pc[c], "record", "idle"}
      BY <1>1, <2>1 DEF TypeOK
    <2>2. CASE Republish \/ \E d \in Callers : RequestCancel(d)
      BY <1>1, <2>2 DEF Republish, RequestCancel, callers
    <2>3. CASE \E d \in Callers : \/ Record(d) \/ Die(d) \/ Reuse(d) \/ Commit(d)
                                  \/ StopCancelled(d) \/ Raise(d)
      BY <2>1, <2>3 DEF Record, Die, Reuse, Commit, StopCancelled, Raise, GiveUp, Return
    <2>4. CASE \E d \in Callers : \/ \E q \in Requests : Ask(d, q) \/ Retry(d, q)
                                  \/ Intake(d) \/ Load(d) \/ Prepare(d) \/ LastCheckpoint(d)
      BY <1>1, <2>1, <2>4
         DEF Steps, Ask, Retry, Begin, Intake, Load, Prepare, LastCheckpoint, Goto, Checkpoint
    <2>5. CASE \E d \in Callers : Evaluate(d) \/ Generate(d) \/ Repair(d)
      BY <1>1, <2>1, <2>5 DEF Evaluate, Generate, Repair, UsableOutput, Goto, Checkpoint
    <2> QED  BY <1>1, <2>2, <2>3, <2>4, <2>5 DEF Next, Advance
  <1>2. TypeOK /\ [Next]_vars =>
            [\A c \in Callers :
                cancelled[c] /\ pc[c] \in Steps \ {"load", "commit"} =>
                    pc'[c] \in {pc[c], "record", "idle"}]_vars
    BY <1>1
  <1> QED  BY <1>2, TypesHold, PTL DEF Spec, CancelEndsCall

\* Chat implements the question log: a question is asked about the published index,
\* is answered at most once, from passages that index shows at that moment, and its
\* reply never changes.
THEOREM ImplementsQuestionLog == Spec => LogSpec
  <1> DEFINE standing == [q \in Requests |-> IF answer[q] = None THEN state[q] ELSE "ANSWERED"]
             reply == [q \in Requests |->
                         IF answer[q] = None THEN None
                         ELSE [seen |-> retrieval[q].evidence, cited |-> answer[q].cited]]
  <1>1. Init => Log!LogInit
    <2> SUFFICES ASSUME Init
                 PROVE  /\ standing = [q \in Requests |-> "ABSENT"]
                        /\ reply = [q \in Requests |-> None]
      BY DEF Init, Log!LogInit
    <2> QED  BY DEF Init
  <1>2. ASSUME IInv, UNCHANGED rows
        PROVE  standing' = standing /\ reply' = reply
    BY <1>2 DEF rows
  <1>3. ASSUME IInv, NEW q \in Requests, NEW s \in Open, Noted(q, s), UNCHANGED <<index, retired>>
        PROVE  [Log!LogNext]_<<index, retired, Log!questions>>
    <2>1. /\ TypeOK /\ WholeGraph /\ state' = [state EXCEPT ![q] = s]
          /\ answer' = answer /\ retrieval' = retrieval /\ state[q] \notin Completed
      BY <1>3 DEF IInv, Noted, Open, Completed
    <2>2. answer[q] = None
      BY <2>1 DEF WholeGraph
    <2>3. standing[q] = state[q] /\ standing' = [standing EXCEPT ![q] = s] /\ reply' = reply
      BY <2>1, <2>2 DEF TypeOK
    <2>4. CASE state[q] = "ABSENT"
      <3>1. Log!AskAbout(q)
        BY <1>3, <2>3, <2>4 DEF Log!AskAbout, Noted, Open
      <3> QED  BY <3>1 DEF Log!LogNext
    <2>5. CASE state[q] = "DRAFT" /\ s = "DRAFT"
      <3>1. standing' = standing
        BY <2>3, <2>5
      <3> QED  BY <1>3, <2>3, <3>1 DEF Log!questions
    <2>6. CASE state[q] \in Open /\ s \in {"FAILED", "CANCELLED"}
      <3>1. Log!Note(q, s)
        BY <1>3, <2>3, <2>6 DEF Log!Note, Log!Open, Open
      <3> QED  BY <2>6, <3>1 DEF Log!LogNext
    <2> QED  BY <1>3, <2>4, <2>5, <2>6 DEF Noted
  <1>4. ASSUME IInv, NEW q \in Requests, NEW r, NEW a, Answered(q, r, a),
               UNCHANGED <<index, retired>>
        PROVE  [Log!LogNext]_<<index, retired, Log!questions>>
    <2>1. /\ TypeOK /\ IndexInv /\ answer[q] = None /\ state[q] \in Open
          /\ r \in Retrieval /\ a \in Answer /\ a # None
          /\ answer' = [answer EXCEPT ![q] = a] /\ retrieval' = [retrieval EXCEPT ![q] = r]
          /\ Resolves(q) /\ Shown(SourceOf[q], r.evidence)
      BY <1>4, NoneAssumption DEF IInv, Answered
    <2>2. r.evidence \subseteq Log!PassagesOf(SourceOf[q])
      BY <2>1 DEF Resolves, Shown, IndexInv, Log!IsPublished
    <2>3. a.cited \subseteq r.evidence
      BY <1>4 DEF Answered, Related
    <2>4. \A p \in Requests \ {q} :
            answer'[p] = answer[p] /\ retrieval'[p] = retrieval[p] /\ state'[p] = state[p]
      BY <1>4, <2>1 DEF TypeOK, Answered
    <2>5. answer'[q] = a /\ retrieval'[q] = r
      BY <2>1 DEF TypeOK
    <2>6. standing' = [standing EXCEPT ![q] = "ANSWERED"]
      BY <2>1, <2>4, <2>5
    <2>7. reply' = [reply EXCEPT ![q] = [seen |-> r.evidence, cited |-> a.cited]]
      BY <2>1, <2>4, <2>5
    <2>8. standing[q] \in Open
      BY <2>1
    <2>9. Log!Answer(q, r.evidence, a.cited)
      BY <1>4, <2>1, <2>2, <2>3, <2>6, <2>7, <2>8 DEF Log!Answer, Log!Open, Open, Resolves
    <2> QED  BY <2>2, <2>3, <2>9 DEF Log!LogNext
  <1>5. ASSUME IInv, [Next]_vars
        PROVE  [Log!LogNext]_<<index, retired, Log!questions>>
    <2>1. CASE Republish
      <3>1. Log!Next /\ UNCHANGED rows
        BY <2>1 DEF Republish, Log!Next
      <3> QED  BY <1>2, <1>5, <3>1 DEF Log!LogNext, Log!questions
    <2>2. CASE UNCHANGED vars
      BY <1>2, <1>5, <2>2 DEF vars, Log!questions
    <2>3. ASSUME NEW c \in Callers, CallerStep(c)
          PROVE  [Log!LogNext]_<<index, retired, Log!questions>>
      <3>1. UNCHANGED <<index, retired>> /\ RowsMove
        BY <2>3 DEF CallerStep
      <3>2. CASE UNCHANGED rows
        BY <1>2, <1>5, <3>1, <3>2 DEF Log!questions
      <3> QED  BY <1>3, <1>4, <1>5, <3>1, <3>2 DEF RowsMove
    <2> QED  BY <1>5, <2>1, <2>2, <2>3, AnyStep
  <1> QED  BY <1>1, <1>5, Inductive, PTL DEF Spec, LogSpec, Log!LogSpec
================================================================================
