------------------------ MODULE PassageSelectionProofs ------------------------
(***************************************************************************)
(* Proofs about PassageSelection for any texts, windows, scores and cuts:  *)
(* the chunks cover the text, and the passages are the best candidates.    *)
(*                                                                         *)
(* ChunksCoverText only speaks of pages that are done.  It is carried by   *)
(* what holds of the page being cut (PageSoFar): its text is covered up to *)
(* the end of the last chunk, and that lies one overlap behind the start   *)
(* of the next.  TopRanked only speaks of the finished ranking; RankedSo   *)
(* says that what is ranked is the best of all that is eligible.           *)
(***************************************************************************)
EXTENDS PassageSelection, FiniteSetTheorems, FunctionTheorems, TLAPS

Last(s) == s[Len(s)]

\* Documents are cut in order, and so are their pages.
InOrder ==
    step = "chunk" =>
        /\ \A d \in Documents : d > document => chunks[d] = <<>>
        /\ \A i \in DOMAIN chunks[document] :
            chunks[document][i].page < page \/ (chunks[document][i].page = page /\ start > 0)
        /\ start = 0 => page_order = 0

\* The page that is being cut: what lies before the next chunk is covered.
PageSoFar ==
    step = "chunk" /\ start > 0 =>
        /\ page \in Pages(document) /\ HasText(document, page)
        /\ chunks[document] # <<>>
        /\ LET last == Last(chunks[document]) IN
            /\ last.page = page /\ last.page_order + 1 = page_order
            /\ last.end = start + window.overlap
            /\ last.start < start /\ last.end < text[document][page].length
        /\ Covered(document, page, start + window.overlap)

CutInv == TypeOK /\ InOrder /\ PageSoFar /\ ChunksCoverText

Ranked(r) == {evidence[q] : q \in 1..r}

\* The ranked passages are the best eligible candidates, each behind exactly
\* those ranked before it.
RankedSoFar ==
    /\ step \in {"chunk", "load", "failed"} => evidence = <<>>
    /\ step \in {"rank", "ranked"} =>
        /\ \A c \in DOMAIN score : score[c] \in Scores
        /\ IsFiniteSet(DOMAIN score)
        /\ Len(evidence) <= cut.top_k
        /\ rest = Eligible(score) \ Ranked(Len(evidence))
        /\ Ranked(Len(evidence)) \subseteq Eligible(score)
        /\ \A r \in 0..Len(evidence) : IsFiniteSet(Ranked(r)) /\ Cardinality(Ranked(r)) = r
        /\ \A r \in 1..Len(evidence) :
            {d \in Eligible(score) : Ahead(d, evidence[r])} = Ranked(r - 1)
        /\ \A r \in 1..Len(evidence) : \A d \in rest : Ahead(evidence[r], d)
    /\ step = "ranked" => rest = {} \/ Len(evidence) = cut.top_k
------------------------------------------------------------------------------
(* Types.                                                                  *)

\* What a page, a window and a cut consist of.
LEMMA Inputs ==
    ASSUME TypeOK, NEW d \in Documents
    PROVE  /\ Documents \subseteq Nat \ {0} /\ LastDocument \in Documents
           /\ text[d] \in Seq(Page) /\ Pages(d) = 1..Len(text[d]) /\ Len(text[d]) \in Nat
           /\ \A p \in Pages(d) : text[d][p] \in Page /\ text[d][p].length \in Nat
           /\ window.size \in Nat /\ window.overlap \in Nat /\ window.overlap < window.size
           /\ cut.top_k \in Nat \ {0} /\ cut.min_similarity \in Scores
           /\ Scores \subseteq Nat
  <1>1. text[d] \in Seq(Page)
    BY TextsAssumption DEF TypeOK
  <1>2. Pages(d) = 1..Len(text[d]) /\ Len(text[d]) \in Nat
    BY <1>1 DEF Pages
  <1>3. \A p \in Pages(d) : text[d][p] \in Page /\ text[d][p].length \in Nat
    <2>1. \A p \in Pages(d) : text[d][p] \in Page
      BY <1>1, <1>2
    <2> QED  BY <2>1 DEF Page
  <1>4. /\ window.size \in Nat /\ window.overlap \in Nat /\ window.overlap < window.size
        /\ cut.top_k \in Nat \ {0} /\ cut.min_similarity \in Scores /\ Scores \subseteq Nat
    BY WindowsAssumption, CutsAssumption DEF TypeOK
  <1>5. Documents \subseteq Nat \ {0} /\ LastDocument \in Documents
    BY DocumentsAssumption DEF Documents
  <1> QED  BY <1>1, <1>2, <1>3, <1>4, <1>5

\* The chunks of a document are a sequence of chunks.
LEMMA ChunkFields ==
    ASSUME TypeOK, NEW d \in Documents
    PROVE  /\ chunks[d] \in Seq(Chunk) /\ Len(chunks[d]) \in Nat
           /\ DOMAIN chunks[d] = 1..Len(chunks[d])
           /\ \A i \in DOMAIN chunks[d] :
                /\ chunks[d][i] \in Chunk
                /\ chunks[d][i].page \in Nat /\ chunks[d][i].page_order \in Nat
                /\ chunks[d][i].start \in Nat /\ chunks[d][i].end \in Nat
  <1>1. chunks[d] \in Seq(Chunk)
    BY DEF TypeOK
  <1>2. DOMAIN chunks[d] = 1..Len(chunks[d]) /\ Len(chunks[d]) \in Nat
    BY <1>1
  <1>3. \A i \in DOMAIN chunks[d] : chunks[d][i] \in Chunk
    BY <1>1, <1>2
  <1> QED  BY <1>1, <1>2, <1>3 DEF Chunk

\* The chunk that is cut next, and where the one after it starts.
NewChunk == [page |-> page, page_order |-> page_order, start |-> start, end |-> End]

\* A chunk that is cut lies on its page and in its window.
LEMMA NewChunkFields ==
    ASSUME TypeOK, PageSoFar, step = "chunk", page \in Pages(document), HasText(document, page)
    PROVE  /\ NewChunk \in Chunk /\ End \in Nat
           /\ NewChunk.page = page /\ NewChunk.page_order = page_order
           /\ NewChunk.start = start /\ NewChunk.end = End
           /\ start < End /\ End <= text[document][page].length /\ End <= start + window.size
           /\ End # text[document][page].length =>
                /\ End = start + window.size /\ End < text[document][page].length
                /\ NextStart(End) \in Nat /\ NextStart(End) > start
                /\ NextStart(End) + window.overlap = End
  <1> DEFINE length == text[document][page].length
  <1>1. /\ document \in Documents /\ page \in Nat \ {0} /\ page_order \in Nat /\ start \in Nat
    BY DEF TypeOK
  <1>2. /\ length \in Nat /\ window.size \in Nat /\ window.overlap \in Nat
        /\ window.overlap < window.size
    BY <1>1, Inputs
  <1>3. start < length
    <2>1. CASE start = 0
      BY <2>1, <1>2 DEF HasText
    <2>2. CASE start > 0
      <3>1. start + window.overlap = Last(chunks[document]).end
        BY <2>2 DEF PageSoFar
      <3>2. Last(chunks[document]).end < length
        BY <2>2 DEF PageSoFar
      <3> QED  BY <3>1, <3>2, <1>1, <1>2
    <2> QED  BY <2>1, <2>2, <1>1
  <1>4. End = IF start + window.size < length THEN start + window.size ELSE length
    BY DEF End, Least
  <1>5. /\ End \in Nat /\ start < End /\ End <= length /\ End <= start + window.size
        /\ End # length => End = start + window.size /\ End < length
    BY <1>1, <1>2, <1>3, <1>4
  <1>6. ASSUME End # length
        PROVE  /\ NextStart(End) \in Nat /\ NextStart(End) > start
               /\ NextStart(End) + window.overlap = End
    BY <1>1, <1>2, <1>5, <1>6 DEF NextStart
  <1>7. NewChunk \in Chunk
    BY <1>1, <1>5 DEF NewChunk, Chunk
  <1>8. /\ NewChunk.page = page /\ NewChunk.page_order = page_order
        /\ NewChunk.start = start /\ NewChunk.end = End
    BY DEF NewChunk
  <1> QED  BY <1>5, <1>6, <1>7, <1>8

\* What appending a chunk leaves and adds.
LEMMA Appended ==
    ASSUME NEW S, NEW s \in Seq(S), NEW e \in S
    PROVE  /\ Append(s, e) \in Seq(S)
           /\ Len(s) \in Nat /\ Len(Append(s, e)) = Len(s) + 1
           /\ DOMAIN s = 1..Len(s) /\ DOMAIN Append(s, e) = 1..(Len(s) + 1)
           /\ \A i \in 1..Len(s) : Append(s, e)[i] = s[i]
           /\ Append(s, e)[Len(s) + 1] = e
           /\ Append(s, e) # <<>>
  OBVIOUS
------------------------------------------------------------------------------
(* The chunks.                                                             *)

\* The cutting starts in its invariant.
LEMMA InitCut == Init => CutInv
  <1> SUFFICES ASSUME Init PROVE CutInv
    OBVIOUS
  <1>1. 1 \in Documents
    BY DocumentsAssumption DEF Documents
  <1>2. chunks \in [Documents -> Seq(Chunk)]
    BY DEF Init
  <1>3. TypeOK
    BY <1>1, <1>2 DEF Init, TypeOK
  <1>4. InOrder /\ PageSoFar
    BY <1>1 DEF Init, InOrder, PageSoFar
  <1>5. ChunksCoverText
    <2> SUFFICES ASSUME NEW d \in Documents
                 PROVE  /\ PagesAreCovered(d)
                        /\ \A i \in DOMAIN chunks[d] : FitsItsPage(d, chunks[d][i])
                        /\ \A i \in 1..(Len(chunks[d]) - 1) :
                                Follows(chunks[d][i], chunks[d][i + 1])
      BY DEF ChunksCoverText
    <2>1. chunks[d] = <<>> /\ step = "chunk" /\ document = 1 /\ page = 1
      BY DEF Init
    <2>2. d \in Nat \ {0} /\ Pages(d) \subseteq Nat \ {0}
      BY <1>3, Inputs
    <2>3. PagesAreCovered(d)
      BY <2>1, <2>2 DEF PagesAreCovered, Done
    <2> QED  BY <2>1, <2>3
  <1> QED  BY <1>3, <1>4, <1>5 DEF CutInv

\* What is not cut any more stays as it is: an action that keeps the chunks and
\* only calls pages done that are covered keeps ChunksCoverText.
LEMMA SameChunks ==
    ASSUME TypeOK, ChunksCoverText, UNCHANGED <<text, window, chunks>>,
           NEW d \in Documents,
           \A p \in Pages(d) :
                HasText(d, p) /\ Done(d, p)' => Done(d, p) \/ Covered(d, p, text[d][p].length)
    PROVE  /\ PagesAreCovered(d)'
           /\ \A i \in DOMAIN chunks'[d] : FitsItsPage(d, chunks[d][i])'
           /\ \A i \in 1..(Len(chunks'[d]) - 1) : Follows(chunks[d][i], chunks[d][i + 1])'
  <1>1. PagesAreCovered(d)'
    BY DEF ChunksCoverText, PagesAreCovered, Covered, Pages, HasText
  <1>2. \A i \in DOMAIN chunks'[d] : FitsItsPage(d, chunks[d][i])'
    BY DEF ChunksCoverText, FitsItsPage, Pages, HasText
  <1>3. \A i \in 1..(Len(chunks'[d]) - 1) : Follows(chunks[d][i], chunks[d][i + 1])'
    BY DEF ChunksCoverText, Follows
  <1> QED  BY <1>1, <1>2, <1>3

\* A page without text is left behind.
LEMMA SkipPageKeeps == CutInv /\ SkipPage => CutInv'
  <1> SUFFICES ASSUME CutInv, SkipPage PROVE CutInv'
    OBVIOUS
  <1>1. /\ step = "chunk" /\ step' = "chunk" /\ document' = document
        /\ page' = page + 1 /\ page_order' = 0 /\ start' = 0
        /\ UNCHANGED <<text, window, cut, chunks, score, rest, evidence>>
        /\ page \in Pages(document) /\ ~ HasText(document, page)
    BY DEF SkipPage, Turn
  <1>2. document \in Documents /\ page \in Nat \ {0} /\ start \in Nat
    BY DEF CutInv, TypeOK
  <1>3. TypeOK'
    BY <1>1, <1>2 DEF CutInv, TypeOK
  <1>4. start = 0
    BY <1>1, <1>2 DEF CutInv, PageSoFar
  <1>5. InOrder' /\ PageSoFar'
    <2>1. \A i \in DOMAIN chunks[document] : chunks[document][i].page < page
      BY <1>1, <1>4 DEF CutInv, InOrder
    <2>2. \A i \in DOMAIN chunks[document] : chunks[document][i].page < page + 1
      BY <2>1, <1>2, ChunkFields DEF CutInv
    <2>3. InOrder'
      BY <1>1, <2>2 DEF CutInv, InOrder
    <2> QED  BY <1>1, <2>3 DEF PageSoFar
  <1>6. ChunksCoverText'
    <2> SUFFICES ASSUME NEW d \in Documents
                 PROVE  \A p \in Pages(d) : HasText(d, p) /\ Done(d, p)' => Done(d, p)
      BY <1>1, SameChunks DEF CutInv, ChunksCoverText
    <2>1. Pages(d) \subseteq Nat
      BY Inputs DEF CutInv
    <2> QED  BY <1>1, <1>2, <2>1 DEF Done
  <1> QED  BY <1>3, <1>5, <1>6 DEF CutInv

\* The next document starts at its first page.
LEMMA FinishDocumentKeeps == CutInv /\ FinishDocument => CutInv'
  <1> SUFFICES ASSUME CutInv, FinishDocument PROVE CutInv'
    OBVIOUS
  <1>1. /\ step = "chunk" /\ page \notin Pages(document)
        /\ UNCHANGED <<text, window, cut, chunks, score, rest, evidence>>
    BY DEF FinishDocument
  <1>2. document \in Documents /\ document \in Nat /\ page \in Nat \ {0} /\ start \in Nat
    BY Inputs DEF CutInv, TypeOK
  <1>3. \A p \in Pages(document) : p \in Nat /\ p < page
    <2>1. Pages(document) = 1..Len(text[document]) /\ Len(text[document]) \in Nat
      BY <1>2, Inputs DEF CutInv
    <2> QED  BY <1>1, <1>2, <2>1
  <1>4. CASE step' = "chunk"
    <2>1. /\ document' = document + 1 /\ document + 1 \in Documents
          /\ page' = 1 /\ page_order' = 0 /\ start' = 0
      BY <1>1, <1>4 DEF FinishDocument, Turn
    <2>2. TypeOK'
      BY <1>1, <1>2, <1>4, <2>1 DEF CutInv, TypeOK
    <2>3. chunks[document + 1] = <<>>
      BY <1>1, <1>2, <2>1 DEF CutInv, InOrder
    <2>4. \A d \in Documents : d > document + 1 => chunks[d] = <<>>
      <3> SUFFICES ASSUME NEW d \in Documents, d > document + 1 PROVE chunks[d] = <<>>
        OBVIOUS
      <3>1. d \in Nat /\ d > document
        BY <1>2, Inputs DEF CutInv
      <3> QED  BY <1>1, <3>1 DEF CutInv, InOrder
    <2>5. InOrder' /\ PageSoFar'
      BY <1>1, <1>4, <2>1, <2>3, <2>4 DEF InOrder, PageSoFar
    <2>6. ChunksCoverText'
      <3> SUFFICES ASSUME NEW d \in Documents, NEW p \in Pages(d), Done(d, p)'
                   PROVE  Done(d, p)
        BY <1>1, SameChunks DEF CutInv, ChunksCoverText
      <3>1. d \in Nat /\ Pages(d) \subseteq Nat \ {0}
        BY Inputs DEF CutInv
      <3>2. d < document + 1
        BY <1>4, <2>1, <3>1 DEF Done
      <3> QED  BY <1>2, <1>3, <3>1, <3>2 DEF Done
    <2> QED  BY <2>2, <2>5, <2>6 DEF CutInv
  <1>5. CASE step' # "chunk"
    <2>1. /\ step' \in {"failed", "load"} /\ UNCHANGED <<document, page, page_order, start>>
          /\ step' = "load" => document + 1 \notin Documents
      BY <1>1, <1>5 DEF FinishDocument
    <2>2. TypeOK'
      BY <1>1, <2>1 DEF CutInv, TypeOK
    <2>3. InOrder' /\ PageSoFar'
      BY <2>1 DEF InOrder, PageSoFar
    <2>4. ChunksCoverText'
      <3> SUFFICES ASSUME NEW d \in Documents, NEW p \in Pages(d), Done(d, p)'
                   PROVE  Done(d, p)
        BY <1>1, SameChunks DEF CutInv, ChunksCoverText
      <3>1. CASE step' = "failed"
        BY <2>1, <3>1 DEF Done
      <3>2. CASE step' = "load"
        <4>1. d \in Nat /\ d <= document
          BY <1>2, <2>1, <3>2, DocumentsAssumption DEF Documents
        <4> QED  BY <1>2, <1>3, <4>1 DEF Done
      <3> QED  BY <2>1, <3>1, <3>2
    <2> QED  BY <2>2, <2>3, <2>4 DEF CutInv
  <1> QED  BY <1>4, <1>5

\* A window that is cut follows the one before it on its page.
LEMMA CutWindowKeeps == CutInv /\ CutWindow => CutInv'
  <1> SUFFICES ASSUME CutInv, CutWindow PROVE CutInv'
    OBVIOUS
  <1> DEFINE n == Len(chunks[document])
             length == text[document][page].length
             last == Last(chunks[document])
  <1>1. /\ step = "chunk" /\ page \in Pages(document) /\ HasText(document, page)
        /\ chunks' = [chunks EXCEPT ![document] = Append(@, NewChunk)]
        /\ UNCHANGED <<text, window, cut, step, document, score, rest, evidence>>
    BY DEF CutWindow, NewChunk
  <1>2. /\ document \in Documents /\ document \in Nat /\ page \in Nat \ {0}
        /\ page_order \in Nat /\ start \in Nat
        /\ length \in Nat /\ window.overlap \in Nat /\ window.size \in Nat
        /\ window.overlap < window.size
    BY <1>1, Inputs DEF CutInv, TypeOK
  <1>3. /\ NewChunk \in Chunk /\ End \in Nat
        /\ NewChunk.page = page /\ NewChunk.page_order = page_order
        /\ NewChunk.start = start /\ NewChunk.end = End
        /\ start < End /\ End <= length /\ End <= start + window.size
        /\ End # length =>
             /\ End = start + window.size /\ End < length
             /\ NextStart(End) \in Nat /\ NextStart(End) > start
             /\ NextStart(End) + window.overlap = End
    BY <1>1, NewChunkFields DEF CutInv
  <1>4. /\ chunks'[document] = Append(chunks[document], NewChunk)
        /\ \A d \in Documents : d # document => chunks'[d] = chunks[d]
        /\ DOMAIN chunks' = Documents
    BY <1>1, <1>2 DEF CutInv, TypeOK
  <1>5. /\ chunks'[document] \in Seq(Chunk) /\ chunks'[document] # <<>>
        /\ n \in Nat /\ Len(chunks'[document]) = n + 1
        /\ DOMAIN chunks[document] = 1..n /\ DOMAIN chunks'[document] = 1..(n + 1)
        /\ \A i \in 1..n : chunks'[document][i] = chunks[document][i]
        /\ chunks'[document][n + 1] = NewChunk
    BY <1>2, <1>3, <1>4, ChunkFields, Appended DEF CutInv
  <1>6. \/ /\ End = length /\ page' = page + 1 /\ page_order' = 0 /\ start' = 0
        \/ /\ End # length /\ page' = page /\ page_order' = page_order + 1
           /\ start' = NextStart(End)
    BY DEF CutWindow, Turn
  <1>7. TypeOK'
    <2>1. chunks' \in [Documents -> Seq(Chunk)]
      BY <1>1, <1>2, <1>3, ChunkFields, Appended DEF CutInv, TypeOK
    <2>2. page' \in Nat \ {0} /\ page_order' \in Nat /\ start' \in Nat
      BY <1>2, <1>3, <1>6
    <2> QED  BY <1>1, <2>1, <2>2 DEF CutInv, TypeOK
  <1>8. \A i \in 1..n : chunks[document][i].page < page
                            \/ (chunks[document][i].page = page /\ start > 0)
    BY <1>1, <1>5 DEF CutInv, InOrder
  <1>9. \A i \in 1..n : chunks[document][i].page \in Nat
    BY <1>2, <1>5, ChunkFields DEF CutInv
  <1>10. InOrder'
    <2>1. \A d \in Documents : d > document => chunks'[d] = <<>>
      BY <1>1, <1>2, <1>4 DEF CutInv, InOrder
    <2>2. ASSUME NEW i \in 1..(n + 1)
          PROVE  \/ chunks'[document][i].page < page'
                 \/ chunks'[document][i].page = page' /\ start' > 0
      <3>1. CASE i \in 1..n
        <4>1. chunks'[document][i].page \in Nat /\ chunks'[document][i].page <= page
          BY <1>2, <1>5, <1>8, <1>9, <3>1
        <4>2. page' = page + 1 \/ (page' = page /\ start' > 0)
          BY <1>2, <1>3, <1>6
        <4> HIDE DEF n, length
        <4> QED  BY <1>2, <4>1, <4>2
      <3>2. CASE i = n + 1
        BY <1>2, <1>3, <1>5, <1>6, <3>2
      <3> QED  BY <1>5, <3>1, <3>2
    <2>3. start' = 0 => page_order' = 0
      BY <1>2, <1>3, <1>6
    <2> QED  BY <1>1, <1>5, <2>1, <2>2, <2>3 DEF InOrder
  \* Where the page has a chunk already, the last of them leads to the new one.
  <1>11. ASSUME start > 0
         PROVE  /\ n > 0 /\ last = chunks[document][n] /\ last.page = page
                /\ last.page_order + 1 = page_order /\ last.end = start + window.overlap
                /\ last.start < start /\ last.end < length
                /\ Covered(document, page, start + window.overlap)
    <2>1. chunks[document] # <<>>
      BY <1>1, <1>11 DEF CutInv, PageSoFar
    <2>2. n > 0
      BY <1>2, <1>5, <2>1, ChunkFields DEF CutInv
    <2> QED  BY <1>1, <1>11, <2>2 DEF CutInv, PageSoFar, Last
  <1>12. \A x \in 0..(End - 1) : \E i \in 1..(n + 1) :
            /\ chunks'[document][i].page = page
            /\ chunks'[document][i].start <= x /\ x < chunks'[document][i].end
    <2> SUFFICES ASSUME NEW x \in 0..(End - 1)
                 PROVE  \E i \in 1..(n + 1) :
                            /\ chunks'[document][i].page = page
                            /\ chunks'[document][i].start <= x
                            /\ x < chunks'[document][i].end
      OBVIOUS
    <2>1. CASE x >= start
      <3>1. /\ chunks'[document][n + 1].page = page
            /\ chunks'[document][n + 1].start = start
            /\ chunks'[document][n + 1].end = End
        BY <1>3, <1>5
      <3>2. start <= x /\ x < End
        BY <1>2, <1>3, <2>1
      <3>3. n + 1 \in 1..(n + 1)
        BY <1>5
      <3> HIDE DEF n, length, last
      <3> QED  BY <3>1, <3>2, <3>3
    <2>2. CASE x < start
      <3>1. start > 0 /\ x \in 0..(start + window.overlap - 1)
        BY <1>2, <1>3, <2>2
      <3>2. PICK i \in 1..n : /\ chunks[document][i].page = page
                              /\ chunks[document][i].start <= x /\ x < chunks[document][i].end
        <4>1. Covered(document, page, start + window.overlap)
          BY <1>11, <3>1
        <4>2. \E i \in DOMAIN chunks[document] :
                /\ chunks[document][i].page = page
                /\ chunks[document][i].start <= x /\ x < chunks[document][i].end
          BY <1>2, <3>1, <4>1 DEF Covered
        <4>3. DOMAIN chunks[document] = 1..n
          BY <1>5
        <4> QED  BY <4>2, <4>3
      <3> QED  BY <1>5, <3>2
    <2> QED  BY <1>2, <1>3, <2>1, <2>2
  <1>13. PageSoFar'
    <2> SUFFICES ASSUME start' > 0
                 PROVE  /\ page' \in Pages(document) /\ HasText(document, page')
                        /\ NewChunk.page = page' /\ NewChunk.page_order + 1 = page_order'
                        /\ NewChunk.end = start' + window.overlap
                        /\ NewChunk.start < start' /\ NewChunk.end < length
                        /\ page' = page /\ start' + window.overlap = End
      BY <1>1, <1>5, <1>12 DEF PageSoFar, Last, Pages, HasText, Covered
    <2> QED  BY <1>1, <1>2, <1>3, <1>6
  <1>14. ASSUME NEW d \in Documents, d # document
         PROVE  /\ PagesAreCovered(d)'
                /\ \A i \in DOMAIN chunks'[d] : FitsItsPage(d, chunks[d][i])'
                /\ \A i \in 1..(Len(chunks'[d]) - 1) : Follows(chunks[d][i], chunks[d][i + 1])'
    <2>1. PagesAreCovered(d) /\ \A p \in Pages(d) : Done(d, p)' => Done(d, p)
      BY <1>1, <1>14 DEF CutInv, ChunksCoverText, Done
    <2>2. PagesAreCovered(d)'
      BY <1>1, <1>4, <1>14, <2>1 DEF PagesAreCovered, Covered, Pages, HasText
    <2>3. \A i \in DOMAIN chunks'[d] : FitsItsPage(d, chunks[d][i])'
      BY <1>1, <1>4, <1>14 DEF CutInv, ChunksCoverText, FitsItsPage, Pages, HasText
    <2>4. \A i \in 1..(Len(chunks'[d]) - 1) : Follows(chunks[d][i], chunks[d][i + 1])'
      BY <1>1, <1>4, <1>14 DEF CutInv, ChunksCoverText, Follows
    <2> QED  BY <2>2, <2>3, <2>4
  <1>15. ASSUME NEW p \in Pages(document), HasText(document, p), p < page'
         PROVE  \A x \in 0..(text[document][p].length - 1) : \E i \in 1..(n + 1) :
                    /\ chunks'[document][i].page = p
                    /\ chunks'[document][i].start <= x /\ x < chunks'[document][i].end
    <2>1. p \in Nat
      BY <1>2, Inputs DEF CutInv
    <2>2. CASE p < page
      <3>1. Covered(document, p, text[document][p].length)
        BY <1>2, <1>15, <2>2 DEF CutInv, ChunksCoverText, PagesAreCovered, Done
      <3>2. \A x \in 0..(text[document][p].length - 1) : \E i \in 1..n :
                /\ chunks[document][i].page = p
                /\ chunks[document][i].start <= x /\ x < chunks[document][i].end
        BY <1>5, <3>1 DEF Covered
      <3> QED  BY <1>5, <3>2
    <2>3. CASE p >= page
      <3>1. p = page /\ End = length
        BY <1>2, <1>6, <1>15, <2>1, <2>3
      <3> QED  BY <1>12, <3>1
    <2> QED  BY <1>2, <2>1, <2>2, <2>3
  <1>16. ASSUME NEW i \in DOMAIN chunks'[document] 
         PROVE  FitsItsPage(document, chunks[document][i])'
    <2>1. CASE i \in 1..n
      <3>1. FitsItsPage(document, chunks[document][i])
        BY <1>2, <1>5, <2>1 DEF CutInv, ChunksCoverText
      <3> QED  BY <1>1, <1>5, <2>1, <3>1 DEF FitsItsPage, Pages, HasText
    <2>2. CASE i = n + 1
      BY <1>1, <1>3, <1>5, <2>2 DEF FitsItsPage, Pages, HasText
    <2> QED  BY <1>5, <2>1, <2>2
  <1>17. ASSUME NEW i \in 1..(Len(chunks'[document]) - 1)
         PROVE  Follows(chunks[document][i], chunks[document][i + 1])'
    <2>1. CASE i < n
      <3>1. i \in 1..n /\ i + 1 \in 1..n /\ i \in 1..(n - 1)
        BY <1>5, <2>1
      <3>2. Follows(chunks[document][i], chunks[document][i + 1])
        BY <1>2, <3>1 DEF CutInv, ChunksCoverText
      <3>3. chunks'[document][i] = chunks[document][i]
            /\ chunks'[document][i + 1] = chunks[document][i + 1]
        BY <1>5, <3>1
      <3> QED  BY <1>1, <3>2, <3>3 DEF Follows
    <2>2. CASE i = n
      <3>1. i \in 1..n /\ chunks'[document][i] = chunks[document][n]
            /\ chunks'[document][i + 1] = NewChunk
        BY <1>5, <2>2
      <3>2. CASE start > 0
        <4>1. NewChunk.end > last.end
          <5>1. CASE End = length
            BY <1>3, <1>11, <3>2, <5>1
          <5>2. CASE End # length
            BY <1>2, <1>3, <1>11, <3>2, <5>2
          <5> QED  BY <5>1, <5>2
        <4> QED  BY <1>1, <1>3, <1>11, <3>1, <3>2, <4>1 DEF Follows
      <3>3. CASE start = 0
        <4>1. chunks[document][n].page < page /\ page_order = 0
          BY <1>1, <1>8, <2>2, <3>1, <3>3 DEF CutInv, InOrder
        <4>2. chunks[document][n].page \in Nat
          BY <1>9, <2>2, <3>1
        <4> QED  BY <1>1, <1>2, <1>3, <3>1, <3>3, <4>1, <4>2 DEF Follows
      <3> QED  BY <1>2, <3>2, <3>3
    <2> QED  BY <1>5, <2>1, <2>2
  <1>18. ASSUME NEW d \in Documents, d = document
         PROVE  /\ PagesAreCovered(d)'
                /\ \A i \in DOMAIN chunks'[d] : FitsItsPage(d, chunks[d][i])'
                /\ \A i \in 1..(Len(chunks'[d]) - 1) : Follows(chunks[d][i], chunks[d][i + 1])'
    <2>1. PagesAreCovered(d)'
      <3> SUFFICES ASSUME NEW p \in Pages(d), HasText(d, p), Done(d, p)'
                   PROVE  Covered(d, p, text[d][p].length)'
        BY <1>1 DEF PagesAreCovered, Pages, HasText
      <3>1. p < page'
        BY <1>1, <1>2, <1>18 DEF Done
      <3> QED  BY <1>1, <1>5, <1>15, <1>18, <3>1 DEF Covered
    <2> QED  BY <1>1, <1>16, <1>17, <1>18, <2>1
  <1>19. ChunksCoverText'
    BY <1>14, <1>18 DEF ChunksCoverText
  <1> QED  BY <1>7, <1>10, <1>13, <1>19 DEF CutInv

\* The ranking leaves the chunks alone.
LEMMA RankingKeeps ==
    ASSUME CutInv, LoadCandidates \/ RankNext PROVE CutInv'
  <1>1. /\ step \in {"load", "rank"} /\ step' \in {"rank", "ranked"}
        /\ UNCHANGED <<text, window, cut, document, page, page_order, start, chunks>>
    BY DEF LoadCandidates, RankNext
  <1>2. TypeOK'
    <2>1. evidence' \in Seq(Candidate) /\ rest' \subseteq Candidate /\ DOMAIN score' \subseteq Candidate
      <3>1. CASE LoadCandidates
        <4>1. Candidates \subseteq Candidate
          <5> SUFFICES ASSUME NEW d \in Documents, NEW i \in DOMAIN chunks[d]
                       PROVE  [document |-> d, order |-> i - 1] \in Candidate
            BY DEF Candidates
          <5>1. i - 1 \in Nat
            BY ChunkFields DEF CutInv
          <5> QED  BY <5>1 DEF Candidate
        <4>2. DOMAIN score' = Candidates /\ rest' \subseteq Candidates /\ UNCHANGED evidence
          BY <3>1 DEF LoadCandidates, Eligible
        <4> QED  BY <4>1, <4>2 DEF CutInv, TypeOK
      <3>2. CASE RankNext
        <4>1. score' = score /\ rest' \subseteq rest
          BY <3>2 DEF RankNext
        <4>2. evidence' = evidence \/ \E c \in rest : evidence' = Append(evidence, c)
          BY <3>2 DEF RankNext
        <4>3. rest \subseteq Candidate /\ evidence \in Seq(Candidate)
              /\ DOMAIN score \subseteq Candidate
          BY DEF CutInv, TypeOK
        <4>4. evidence' \in Seq(Candidate)
          <5>1. CASE evidence' = evidence
            BY <4>3, <5>1
          <5>2. ASSUME NEW c \in rest, evidence' = Append(evidence, c)
                PROVE  evidence' \in Seq(Candidate)
            <6>1. c \in Candidate
              BY <4>3
            <6> QED  BY <4>3, <5>2, <6>1
          <5> QED  BY <4>2, <5>1, <5>2
        <4> QED  BY <4>1, <4>3, <4>4
      <3> QED  BY <3>1, <3>2
    <2> QED  BY <1>1, <2>1 DEF CutInv, TypeOK
  <1>3. InOrder' /\ PageSoFar'
    BY <1>1 DEF InOrder, PageSoFar
  <1>4. ChunksCoverText'
    <2>1. \A d \in Documents : \A p \in Pages(d) : Done(d, p)
      BY <1>1 DEF Done
    <2> QED  BY <1>1, <2>1, SameChunks DEF CutInv, ChunksCoverText
  <1> QED  BY <1>2, <1>3, <1>4 DEF CutInv

\* Every step keeps the invariant of the cutting.
LEMMA CutInductive == CutInv /\ [Next]_vars => CutInv'
  <1> SUFFICES ASSUME CutInv, [Next]_vars PROVE CutInv'
    OBVIOUS
  <1>1. CASE SkipPage
    BY <1>1, SkipPageKeeps
  <1>2. CASE CutWindow
    BY <1>2, CutWindowKeeps
  <1>3. CASE FinishDocument
    BY <1>3, FinishDocumentKeeps
  <1>4. CASE LoadCandidates \/ RankNext
    BY <1>4, RankingKeeps
  <1>5. CASE UNCHANGED vars
    <2>1. TypeOK' /\ InOrder' /\ PageSoFar'
      BY <1>5 DEF CutInv, TypeOK, InOrder, PageSoFar, Covered, Pages, HasText, vars
    <2>2. ChunksCoverText'
      <3>1. \A d \in Documents : \A p \in Pages(d) : Done(d, p)' => Done(d, p)
        BY <1>5 DEF Done, vars
      <3> QED  BY <1>5, <3>1, SameChunks DEF CutInv, ChunksCoverText, vars
    <2> QED  BY <2>1, <2>2 DEF CutInv
  <1> QED  BY <1>1, <1>2, <1>3, <1>4, <1>5 DEF Next

\* The chunks of the pages that are done cover them, and fit together, whatever
\* the texts and the configuration.
THEOREM TextIsCovered == Spec => [](TypeOK /\ ChunksCoverText)
  <1>1. CutInv => TypeOK /\ ChunksCoverText
    BY DEF CutInv
  <1> QED  BY InitCut, CutInductive, <1>1, PTL DEF Spec
------------------------------------------------------------------------------
(* The ranking.                                                            *)

\* The image of a finite set is finite.
LEMMA FiniteImage ==
    ASSUME NEW S, IsFiniteSet(S), NEW f
    PROVE  IsFiniteSet({f[x] : x \in S})
  <1> DEFINE T == {f[x] : x \in S}
             g == [x \in S |-> f[x]]
  <1>1. g \in Surjection(S, T)
    <2>1. g \in [S -> T] /\ \A t \in T : \E x \in S : g[x] = t
      OBVIOUS
    <2> QED  BY <2>1, Fun_IsSurj
  <1> QED  BY <1>1, FS_Surjection

\* There are finitely many candidates.
LEMMA CandidatesAreFinite ==
    ASSUME TypeOK
    PROVE  IsFiniteSet(Candidates)
  <1> DEFINE of == [d \in Documents |-> {[document |-> d, order |-> i - 1] : i \in DOMAIN chunks[d]}]
  <1>1. ASSUME NEW d \in Documents PROVE IsFiniteSet(of[d])
    <2> DEFINE f == [i \in DOMAIN chunks[d] |-> [document |-> d, order |-> i - 1]]
    <2>1. IsFiniteSet(DOMAIN chunks[d])
      BY ChunkFields, FS_Interval
    <2>2. IsFiniteSet({f[i] : i \in DOMAIN chunks[d]})
      BY <2>1, FiniteImage
    <2>3. {f[i] : i \in DOMAIN chunks[d]} = of[d]
      OBVIOUS
    <2> QED  BY <2>2, <2>3
  <1>2. IsFiniteSet(Documents)
    BY DocumentsAssumption, FS_Interval DEF Documents
  <1>3. IsFiniteSet({of[d] : d \in Documents})
    BY <1>2, FiniteImage
  <1>4. IsFiniteSet(UNION {of[d] : d \in Documents})
    BY <1>1, <1>3, FS_UNION
  <1>5. UNION {of[d] : d \in Documents} = Candidates
    BY DEF Candidates
  <1> QED  BY <1>4, <1>5

\* The ranking key orders any two candidates.
LEMMA AheadIsStrict ==
    ASSUME NEW c \in Candidate, NEW d \in Candidate, score[c] \in Nat, score[d] \in Nat
    PROVE  /\ ~ Ahead(c, c)
           /\ ~ (Ahead(c, d) /\ Ahead(d, c))
           /\ c # d /\ ~ Precedes(d, c) => Ahead(c, d)
  <1>1. /\ c.document \in Nat /\ c.order \in Nat /\ d.document \in Nat /\ d.order \in Nat
        /\ c.document = d.document /\ c.order = d.order => c = d
    BY DEF Candidate, Documents
  <1> QED  BY <1>1 DEF Ahead, Precedes

\* The first m + 1 values of a function.
LEMMA OneMore ==
    ASSUME NEW f, NEW m \in Nat
    PROVE  {f[q] : q \in 1..(m + 1)} = {f[q] : q \in 1..m} \cup {f[m + 1]}
  <1>1. \A q : q \in 1..(m + 1) <=> q \in 1..m \/ q = m + 1
    OBVIOUS
  <1> QED  BY <1>1

\* Nothing is ranked initially.
LEMMA InitRanking == Init => RankedSoFar
  BY DEF Init, RankedSoFar

\* The ranking starts with nothing ranked and every eligible candidate left.
LEMMA LoadingStartsRanking ==
    ASSUME TypeOK, RankedSoFar, LoadCandidates
    PROVE  RankedSoFar'
  <1>1. /\ step = "load" /\ step' = "rank" /\ score' \in [Candidates -> Scores]
        /\ rest' = Eligible(score') /\ evidence' = <<>> /\ cut' = cut
    BY DEF LoadCandidates, RankedSoFar
  <1>2. cut.top_k \in Nat /\ Len(evidence') = 0
    BY <1>1, Inputs, DocumentsAssumption DEF Documents
  <1>3. IsFiniteSet(DOMAIN score') /\ \A c \in DOMAIN score' : score'[c] \in Scores
    BY <1>1, CandidatesAreFinite
  <1>4. \A r \in 0..0 : Ranked(r)' = {} /\ IsFiniteSet(Ranked(r)') /\ Cardinality(Ranked(r)') = r
    BY FS_EmptySet DEF Ranked
  <1>5. Eligible(score)' = Eligible(score')
    BY <1>1 DEF Eligible
  <1> QED  BY <1>1, <1>2, <1>3, <1>4, <1>5 DEF RankedSoFar

\* The candidate that is ranked next is behind those ranked before it, ahead of the rest.
LEMMA RankNextKeepsBest ==
    ASSUME TypeOK, RankedSoFar, RankNext
    PROVE  RankedSoFar'
  <1> DEFINE eligible == Eligible(score)
  <1> PICK n \in Nat : n = Len(evidence)
    BY DEF TypeOK
  <1>1. /\ step = "rank" /\ UNCHANGED <<score, cut>>
        /\ evidence \in Seq(Candidate) /\ Len(evidence) = n /\ cut.top_k \in Nat
        /\ Scores \subseteq Nat
    BY Inputs, DocumentsAssumption DEF RankNext, TypeOK, Documents
  <1>2. /\ \A c \in DOMAIN score : score[c] \in Scores
        /\ IsFiniteSet(DOMAIN score)
        /\ n <= cut.top_k
        /\ rest = eligible \ Ranked(n) /\ Ranked(n) \subseteq eligible
        /\ \A r \in 0..n : IsFiniteSet(Ranked(r)) /\ Cardinality(Ranked(r)) = r
        /\ \A r \in 1..n : {d \in eligible : Ahead(d, evidence[r])} = Ranked(r - 1)
        /\ \A r \in 1..n : \A d \in rest : Ahead(evidence[r], d)
    BY <1>1 DEF RankedSoFar
  <1>3. /\ Eligible(score)' = eligible
        /\ \A c, d : Ahead(c, d)' <=> Ahead(c, d)
    BY <1>1 DEF Eligible, Ahead
  <1>4. CASE rest # {} /\ n < cut.top_k
    <2>1. PICK c \in rest : /\ \A d \in rest : ~ Precedes(d, c)
                            /\ evidence' = Append(evidence, c)
                            /\ rest' = rest \ {c} /\ step' = "rank"
      BY <1>1, <1>4 DEF RankNext
    <2>2. c \in eligible /\ c \notin Ranked(n) /\ c \in Candidate /\ eligible \subseteq Candidate
          /\ \A d \in eligible : score[d] \in Nat
      BY <1>1, <1>2, <2>1 DEF TypeOK, Eligible
    <2>3. /\ Len(evidence') = n + 1 /\ evidence'[n + 1] = c
          /\ \A r \in 1..n : evidence'[r] = evidence[r]
      BY <1>1, <2>1, <2>2, Appended
    <2>4. \A r \in 0..n : Ranked(r)' = Ranked(r)
      BY <1>1, <2>3 DEF Ranked
    <2>5. Ranked(n + 1)' = Ranked(n) \cup {c}
      <3>1. {evidence'[q] : q \in 1..(n + 1)} = {evidence'[q] : q \in 1..n} \cup {evidence'[n + 1]}
        BY <1>1, OneMore
      <3>2. {evidence'[q] : q \in 1..n} = Ranked(n)
        BY <2>3 DEF Ranked
      <3> QED  BY <2>3, <3>1, <3>2 DEF Ranked
    <2>6. \A r \in 0..(n + 1) : IsFiniteSet(Ranked(r)') /\ Cardinality(Ranked(r)') = r
      <3>1. IsFiniteSet(Ranked(n)) /\ Cardinality(Ranked(n)) = n
        BY <1>1, <1>2
      <3>2. IsFiniteSet(Ranked(n) \cup {c}) /\ Cardinality(Ranked(n) \cup {c}) = n + 1
        BY <2>2, <3>1, FS_AddElement
      <3> SUFFICES ASSUME NEW r \in 0..(n + 1)
                   PROVE  IsFiniteSet(Ranked(r)') /\ Cardinality(Ranked(r)') = r
        OBVIOUS
      <3>3. CASE r \in 0..n
        BY <1>2, <2>4, <3>3
      <3>4. CASE r = n + 1
        <4>1. Ranked(r)' = Ranked(n + 1)'
          BY <3>4 DEF Ranked
        <4> QED  BY <2>5, <3>2, <3>4, <4>1
      <3> QED  BY <1>1, <3>3, <3>4
    <2>7. {d \in eligible : Ahead(d, c)} = Ranked(n)
      <3>1. ASSUME NEW d \in eligible, Ahead(d, c) PROVE d \in Ranked(n)
        <4>1. c # d
          BY <2>2, <3>1, AheadIsStrict
        <4>2. ASSUME d \in rest PROVE FALSE
          <5>1. Ahead(c, d)
            BY <2>1, <2>2, <4>1, <4>2, AheadIsStrict
          <5> QED  BY <2>2, <3>1, <5>1, AheadIsStrict
        <4> QED  BY <1>2, <4>2
      <3>2. ASSUME NEW d \in Ranked(n) PROVE d \in eligible /\ Ahead(d, c)
        <4>1. PICK r \in 1..n : d = evidence[r]
          BY DEF Ranked
        <4> QED  BY <1>2, <2>1, <4>1
      <3> QED  BY <3>1, <3>2
    <2>8. \A r \in 1..(n + 1) : {d \in eligible : Ahead(d, evidence'[r])} = Ranked(r - 1)'
      <3>1. ASSUME NEW r \in 1..n
            PROVE  {d \in eligible : Ahead(d, evidence'[r])} = Ranked(r - 1)'
        <4>1. r - 1 \in 0..n
          BY <1>1
        <4> QED  BY <1>2, <2>3, <2>4, <4>1
      <3>2. ASSUME NEW r, r = n + 1
            PROVE  {d \in eligible : Ahead(d, evidence'[r])} = Ranked(r - 1)'
        <4>1. r - 1 = n /\ n \in 0..n
          BY <1>1, <3>2
        <4>2. Ranked(r - 1)' = Ranked(n)'
          BY <4>1 DEF Ranked
        <4>3. evidence'[r] = c
          BY <2>3, <3>2
        <4> QED  BY <2>4, <2>7, <4>1, <4>2, <4>3
      <3>3. \A r \in 1..(n + 1) : r \in 1..n \/ r = n + 1
        BY <1>1
      <3> QED  BY <3>1, <3>2, <3>3
    <2>9. \A r \in 1..(n + 1) : \A d \in rest' : Ahead(evidence'[r], d)
      <3>1. \A d \in rest' : Ahead(c, d)
        <4> SUFFICES ASSUME NEW d \in rest' PROVE Ahead(c, d)
          OBVIOUS
        <4>1. d \in rest /\ d # c /\ d \in eligible
          BY <1>2, <2>1
        <4> QED  BY <2>1, <2>2, <4>1, AheadIsStrict
      <3>2. \A r \in 1..n : \A d \in rest' : Ahead(evidence'[r], d)
        BY <1>2, <2>1, <2>3
      <3>3. \A r \in 1..(n + 1) : r \in 1..n \/ r = n + 1
        BY <1>1
      <3> QED  BY <2>3, <3>1, <3>2, <3>3
    <2>10. /\ rest' = eligible \ Ranked(n + 1)' /\ Ranked(n + 1)' \subseteq eligible
           /\ n + 1 <= cut.top_k
      BY <1>1, <1>2, <1>4, <2>1, <2>2, <2>5
    <2>11. Ranked(Len(evidence))' = Ranked(n + 1)'
      BY <2>3 DEF Ranked
    <2> QED  BY <1>1, <1>2, <1>3, <2>1, <2>3, <2>6, <2>8, <2>9, <2>10, <2>11 DEF RankedSoFar
  <1>5. CASE ~ (rest # {} /\ n < cut.top_k)
    <2>1. step' = "ranked" /\ UNCHANGED <<rest, evidence>>
      BY <1>5 DEF RankNext
    <2>2. rest = {} \/ n = cut.top_k
      BY <1>1, <1>2, <1>5
    <2>3. \A r : Ranked(r)' = Ranked(r)
      BY <2>1 DEF Ranked
    <2> QED  BY <1>1, <1>2, <1>3, <2>1, <2>2, <2>3 DEF RankedSoFar
  <1> QED  BY <1>4, <1>5

\* Every step keeps the invariant of the ranking.
LEMMA RankingInductive == TypeOK /\ RankedSoFar /\ [Next]_vars => RankedSoFar'
  <1> SUFFICES ASSUME TypeOK, RankedSoFar, [Next]_vars PROVE RankedSoFar'
    OBVIOUS
  <1>1. CASE SkipPage \/ CutWindow \/ FinishDocument
    BY <1>1 DEF RankedSoFar, SkipPage, CutWindow, FinishDocument
  <1>2. CASE LoadCandidates
    BY <1>2, LoadingStartsRanking
  <1>3. CASE RankNext
    BY <1>3, RankNextKeepsBest
  <1>4. CASE UNCHANGED vars
    BY <1>4 DEF RankedSoFar, Ranked, Eligible, Ahead, vars
  <1> QED  BY <1>1, <1>2, <1>3, <1>4 DEF Next

\* When the ranking ends, the evidence is the best of the candidates.
LEMMA BestAreOnTop == TypeOK /\ RankedSoFar => TopRanked
  <1> SUFFICES ASSUME TypeOK, RankedSoFar, step = "ranked"
               PROVE  LET eligible == Eligible(score) IN
                      /\ Len(evidence) = Least(cut.top_k, Cardinality(eligible))
                      /\ \A r \in DOMAIN evidence :
                            /\ evidence[r] \in eligible
                            /\ Cardinality({d \in eligible : Ahead(d, evidence[r])}) = r - 1
    BY DEF TopRanked
  <1> DEFINE n == Len(evidence)
             eligible == Eligible(score)
  <1>1. /\ n \in Nat /\ DOMAIN evidence = 1..n /\ cut.top_k \in Nat
    BY Inputs, DocumentsAssumption DEF TypeOK, Documents
  <1>2. /\ n <= cut.top_k /\ IsFiniteSet(DOMAIN score)
        /\ rest = eligible \ Ranked(n) /\ Ranked(n) \subseteq eligible
        /\ \A r \in 0..n : IsFiniteSet(Ranked(r)) /\ Cardinality(Ranked(r)) = r
        /\ \A r \in 1..n : {d \in eligible : Ahead(d, evidence[r])} = Ranked(r - 1)
        /\ rest = {} \/ n = cut.top_k
    BY DEF RankedSoFar
  <1>3. n = Least(cut.top_k, Cardinality(eligible))
    <2>1. IsFiniteSet(eligible) /\ Cardinality(eligible) \in Nat
      BY <1>2, FS_Subset, FS_CardinalityType DEF Eligible
    <2>2. Cardinality(Ranked(n)) = n
      BY <1>1, <1>2
    <2>3. n <= Cardinality(eligible)
      BY <1>2, <2>1, <2>2, FS_Subset
    <2>4. rest = {} => n = Cardinality(eligible)
      <3>1. rest = {} => eligible = Ranked(n)
        BY <1>2
      <3> QED  BY <2>2, <3>1
    <2> QED  BY <1>1, <1>2, <2>1, <2>3, <2>4 DEF Least
  <1>4. ASSUME NEW r \in DOMAIN evidence
        PROVE  /\ evidence[r] \in eligible
               /\ Cardinality({d \in eligible : Ahead(d, evidence[r])}) = r - 1
    <2>1. r \in 1..n /\ r - 1 \in 0..n
      BY <1>1
    <2>2. evidence[r] \in Ranked(n)
      BY <2>1 DEF Ranked
    <2> QED  BY <1>2, <2>1, <2>2
  <1> QED  BY <1>3, <1>4

\* The finished ranking holds the best eligible candidates, each at the place its
\* score and its position give it, and ties never make it ambiguous.
THEOREM RankingIsExact == Spec => []TopRanked
  <1>1. CutInv /\ RankedSoFar /\ [Next]_vars => (CutInv /\ RankedSoFar)'
    BY CutInductive, RankingInductive DEF CutInv
  <1>2. CutInv /\ RankedSoFar => TopRanked
    BY BestAreOnTop DEF CutInv
  <1> QED  BY InitCut, InitRanking, <1>1, <1>2, PTL DEF Spec
===============================================================================
