--------------------------- MODULE PassageSelection ---------------------------
(***************************************************************************)
(* From the pages of documents to the passages a question is answered      *)
(* from: BuildPageAwareChunks cuts the text of every page into overlapping *)
(* windows, and rank_retrieval_candidates picks the best of the chunks of  *)
(* all documents in scope.                                                 *)
(*                                                                         *)
(* A page is its length and its state, a chunk the page and the offsets it *)
(* was cut at; its place in the sequence is its document order.  The       *)
(* cosine of a chunk and the question is any score.                        *)
(***************************************************************************)
EXTENDS Naturals, Sequences, FiniteSets

CONSTANTS
    LastDocument,   \* the documents in scope, in the order of their identifiers
    Texts,          \* sequences of pages
    Windows,        \* chunk configurations: size and overlap
    Scores,         \* similarities
    Cuts,           \* retrieval configurations: top_k and min_similarity
    MaxCandidates   \* a bound of the model: more chunks are not ranked

Documents == 1..LastDocument
Page == [length : Nat, state : {"READY", "WARNING"}]

ASSUME DocumentsAssumption == LastDocument \in Nat \ {0}
\* A page is READY exactly if its text has a character that is no space.
ASSUME TextsAssumption ==
    /\ Texts \subseteq Seq(Page)
    /\ \A pages \in Texts : pages # <<>>
    /\ \A pages \in Texts : \A p \in DOMAIN pages :
            pages[p].state = "READY" => pages[p].length > 0
ASSUME WindowsAssumption ==
    /\ Windows \subseteq [size : Nat, overlap : Nat]
    /\ \A w \in Windows : w.overlap < w.size
ASSUME CutsAssumption ==
    /\ Scores \subseteq Nat
    /\ Cuts \subseteq [top_k : Nat \ {0}, min_similarity : Scores]

VARIABLES
    text,           \* the pages of each document
    window, cut,    \* the configurations
    step,
    document,       \* the document and the page that are cut
    page,
    page_order,     \* how many chunks the page has got
    start,          \* where its next chunk starts
    chunks,         \* the chunks of each document
    score,          \* the score of each candidate
    rest,           \* eligible candidates that are not ranked yet
    evidence        \* the ranked passages

vars == <<text, window, cut, step, document, page, page_order, start, chunks,
          score, rest, evidence>>

Chunk == [page : Nat, page_order : Nat, start : Nat, end : Nat]
Candidate == [document : Documents, order : Nat]

TypeOK ==
    /\ text \in [Documents -> Texts]
    /\ window \in Windows
    /\ cut \in Cuts
    /\ step \in {"chunk", "load", "rank", "ranked", "failed"}
    /\ document \in Documents
    /\ page \in Nat \ {0}
    /\ page_order \in Nat
    /\ start \in Nat
    /\ chunks \in [Documents -> Seq(Chunk)]
    /\ DOMAIN score \subseteq Candidate
    /\ rest \subseteq Candidate
    /\ evidence \in Seq(Candidate)

Init ==
    /\ text \in [Documents -> Texts]
    /\ window \in Windows
    /\ cut \in Cuts
    /\ step = "chunk"
    /\ document = 1
    /\ page = 1 /\ page_order = 0 /\ start = 0
    /\ chunks = [d \in Documents |-> <<>>]
    /\ score = <<>> /\ rest = {} /\ evidence = <<>>
------------------------------------------------------------------------------
(* BuildPageAwareChunks.                                                   *)

Least(m, n) == IF m < n THEN m ELSE n

Pages(d) == DOMAIN text[d]

HasText(d, p) == text[d][p].state = "READY" /\ text[d][p].length > 0

Turn(p) == page' = p /\ page_order' = 0 /\ start' = 0

\* A page with a warning is left out, whatever text it has.
SkipPage ==
    /\ step = "chunk"
    /\ page \in Pages(document)
    /\ ~ HasText(document, page)
    /\ Turn(page + 1)
    /\ UNCHANGED <<text, window, cut, step, document, chunks, score, rest, evidence>>

End == Least(start + window.size, text[document][page].length)

\* Wrong variant: the windows are laid end to end and one character is lost.
StartAfterGap(end) == end + 1

NextStart(end) == end - window.overlap

CutWindow ==
    /\ step = "chunk"
    /\ page \in Pages(document)
    /\ HasText(document, page)
    /\ chunks' = [chunks EXCEPT ![document] =
            Append(@, [page |-> page, page_order |-> page_order, start |-> start, end |-> End])]
    /\ IF End = text[document][page].length
       THEN Turn(page + 1)
       ELSE start' = NextStart(End) /\ page_order' = page_order + 1 /\ UNCHANGED page
    /\ UNCHANGED <<text, window, cut, step, document, score, rest, evidence>>

\* Without a chunk the document has no index.
FinishDocument ==
    /\ step = "chunk"
    /\ page \notin Pages(document)
    /\ IF chunks[document] = <<>>
       THEN step' = "failed" /\ UNCHANGED <<document, page, page_order, start>>
       ELSE IF document + 1 \in Documents
       THEN document' = document + 1 /\ Turn(1) /\ UNCHANGED step
       ELSE step' = "load" /\ UNCHANGED <<document, page, page_order, start>>
    /\ UNCHANGED <<text, window, cut, chunks, score, rest, evidence>>
------------------------------------------------------------------------------
(* rank_retrieval_candidates.                                              *)

Candidates ==
    UNION {{[document |-> d, order |-> i - 1] : i \in DOMAIN chunks[d]} : d \in Documents}

Eligible(scores) == {c \in DOMAIN scores : scores[c] >= cut.min_similarity}

LoadCandidates ==
    /\ step = "load"
    /\ Cardinality(Candidates) <= MaxCandidates
    /\ score' \in [Candidates -> Scores]
    /\ rest' = Eligible(score')
    /\ step' = "rank"
    /\ UNCHANGED <<text, window, cut, document, page, page_order, start, chunks, evidence>>

\* Wrong variant: passages of one score keep the order they were loaded in.
PrecedesByScore(c, d) == score[c] > score[d]

\* The ranking key; no two chunks of a generation share a document order, so the
\* identifier of the chunk never decides.
Precedes(c, d) ==
    \/ score[c] > score[d]
    \/ (score[c] = score[d] /\ c.document < d.document)
    \/ (score[c] = score[d] /\ c.document = d.document /\ c.order < d.order)

\* The sorted sequence, cut at top_k: the next passage has none before it.
RankNext ==
    /\ step = "rank"
    /\ IF rest # {} /\ Len(evidence) < cut.top_k
       THEN \E c \in rest :
            /\ \A d \in rest : ~ Precedes(d, c)
            /\ evidence' = Append(evidence, c)
            /\ rest' = rest \ {c}
            /\ UNCHANGED step
       ELSE step' = "ranked" /\ UNCHANGED <<rest, evidence>>
    /\ UNCHANGED <<text, window, cut, document, page, page_order, start, chunks, score>>

Next == SkipPage \/ CutWindow \/ FinishDocument \/ LoadCandidates \/ RankNext

Spec == Init /\ [][Next]_vars
------------------------------------------------------------------------------
(* Properties.                                                             *)

\* Every position of a page before the given one lies in one of its chunks.
Covered(d, p, length) ==
    \A x \in 0..(length - 1) :
        \E i \in DOMAIN chunks[d] :
            chunks[d][i].page = p /\ chunks[d][i].start <= x /\ x < chunks[d][i].end

Done(d, p) ==
    \/ step \notin {"chunk", "failed"}
    \/ d < document
    \/ d = document /\ p < page

PagesAreCovered(d) ==
    \A p \in Pages(d) : HasText(d, p) /\ Done(d, p) => Covered(d, p, text[d][p].length)

FitsItsPage(d, c) ==
    /\ c.page \in Pages(d) /\ HasText(d, c.page)
    /\ c.start < c.end /\ c.end <= text[d][c.page].length
    /\ c.end <= c.start + window.size

Follows(c, next) ==
    IF next.page = c.page
    THEN /\ next.page_order = c.page_order + 1
         /\ next.start + window.overlap = c.end
         /\ next.start > c.start /\ next.end > c.end
    ELSE next.page > c.page /\ next.page_order = 0 /\ next.start = 0

\* No text is lost and none is cut twice for nothing: the chunks of a page that is
\* done, and of every page once passages are ranked, cover it; none is longer than
\* the window or reaches over its page, each starts after the one before it, sharing
\* exactly the overlap, and the orders have no gap.
ChunksCoverText ==
    \A d \in Documents :
        /\ PagesAreCovered(d)
        /\ \A i \in DOMAIN chunks[d] : FitsItsPage(d, chunks[d][i])
        /\ \A i \in 1..(Len(chunks[d]) - 1) : Follows(chunks[d][i], chunks[d][i + 1])

\* The order of the passages is that of their scores, and for equal scores that
\* of the document and of the place in it.
Ahead(c, d) ==
    score[c] >= score[d]
        /\ (score[c] = score[d] => c.document <= d.document
            /\ (c.document = d.document => c.order < d.order))

\* The passage of a rank has as many eligible ones ahead of it as its rank says,
\* and the cut drops only passages behind all that are kept: the same question is
\* answered from the same passages, in whatever order they were loaded.
TopRanked ==
    step = "ranked" =>
        LET eligible == Eligible(score) IN
        /\ Len(evidence) = Least(cut.top_k, Cardinality(eligible))
        /\ \A r \in DOMAIN evidence :
            /\ evidence[r] \in eligible
            /\ Cardinality({d \in eligible : Ahead(d, evidence[r])}) = r - 1
==============================================================================
