----------------------------- MODULE QuestionLog -----------------------------
(***************************************************************************)
(* What chat promises about the questions of a workspace.  A question is   *)
(* asked once, about an index that is published; attempts at it that fail  *)
(* or are cancelled leave a note, and the note of a later attempt replaces *)
(* it; it is answered at most once, in one step, from passages of an index *)
(* that is published at that moment; its reply never changes.              *)
(***************************************************************************)
EXTENDS PublishedIndex

CONSTANTS
    Questions,
    About,          \* the generation each question was asked about
    NoReply

VARIABLES
    standing,       \* of each question: unasked, open (with a note), answered
    reply           \* the passages a reply had before it and the ones it cites

questions == <<standing, reply>>

Open == {"DRAFT", "FAILED", "CANCELLED"}

IsPublished(g) == \E d \in Documents : g \in Published(d)

PassagesOf(g) == UNION {index[d].vectors : d \in {e \in Documents : g \in Published(e)}}

LogInit ==
    /\ Init
    /\ standing = [q \in Questions |-> "ABSENT"]
    /\ reply = [q \in Questions |-> NoReply]

AskAbout(q) ==
    /\ standing[q] = "ABSENT"
    /\ IsPublished(About[q])
    /\ standing' = [standing EXCEPT ![q] = "DRAFT"]
    /\ UNCHANGED <<index, retired, reply>>

Note(q, remark) ==
    /\ standing[q] \in Open
    /\ standing' = [standing EXCEPT ![q] = remark]
    /\ UNCHANGED <<index, retired, reply>>

Answer(q, seen, cited) ==
    /\ standing[q] \in Open
    /\ IsPublished(About[q])
    /\ seen \subseteq PassagesOf(About[q])
    /\ cited \subseteq seen
    /\ standing' = [standing EXCEPT ![q] = "ANSWERED"]
    /\ reply' = [reply EXCEPT ![q] = [seen |-> seen, cited |-> cited]]
    /\ UNCHANGED <<index, retired>>

LogNext ==
    \/ Next /\ UNCHANGED questions
    \/ \E q \in Questions :
        \/ AskAbout(q)
        \/ \E remark \in {"FAILED", "CANCELLED"} : Note(q, remark)
        \/ \E seen \in SUBSET PassagesOf(About[q]) :
               \E cited \in SUBSET seen : Answer(q, seen, cited)

LogSpec == LogInit /\ [][LogNext]_<<index, retired, questions>>
=============================================================================
