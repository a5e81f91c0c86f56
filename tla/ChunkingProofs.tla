--------------------------- MODULE ChunkingProofs ---------------------------
(***************************************************************************)
(* For every text and every setting: what chunk_text stores covers every   *)
(* passage, and with an overlap that fits its loop ends.                   *)
(***************************************************************************)
EXTENDS Chunking, TLAPS

\* The overlap fits in the shortest chunk that a separator can make.
OverlapFits == Overlap <= Window

LEMMA Settings ==
    /\ ChunkSize \in Nat /\ ChunkSize >= 1
    /\ Overlap \in Nat
    /\ Window \in Nat /\ Window < ChunkSize
    /\ Overlap <= Window + 1
BY ChunkingAssumption, StartsAreNatural DEF Window

LEMMA SeparatorLength ==
    ASSUME NEW k \in Kinds
    PROVE  Len(Separators[k]) \in Nat /\ Len(Separators[k]) >= 1
<1>1. CASE k = 1
  BY <1>1 DEF Separators
<1>2. CASE k = 2
  BY <1>2 DEF Separators
<1>3. CASE k = 3
  BY <1>3 DEF Separators
<1>4. CASE k = 4
  BY <1>4 DEF Separators
<1> QED BY <1>1, <1>2, <1>3, <1>4 DEF Kinds

\* A chunk gets beyond its start, stays on the page and within its size, and
\* if it is not the last one it is longer than the window's beginning.
LEMMA CutBounds ==
    ASSUME NEW text, Len(text) \in Nat,
           NEW from \in Nat, from < Len(text), NEW to \in Nat,
           EndsAt(text, from, to)
    PROVE  /\ from < to
           /\ to <= Len(text)
           /\ to - from <= ChunkSize
           /\ to < Len(text) => from + Window < to
<1> DEFINE high == Smaller(from + ChunkSize, Len(text))
<1>1. /\ high \in Nat /\ high <= Len(text) /\ high <= from + ChunkSize
      /\ from < high
      /\ high = Len(text) \/ high = from + ChunkSize
  BY Settings DEF Smaller
<1>2. CASE to = high
  BY <1>1, <1>2, Settings
<1>3. CASE to # high
  <2>0. PICK k \in Kinds : \E p \in Found(text, k, from + Window, high) :
             to = p + Len(Separators[k])
    BY <1>3 DEF EndsAt
  <2>1. PICK p \in Found(text, k, from + Window, high) : to = p + Len(Separators[k])
    BY <2>0
  <2>2. Len(Separators[k]) \in Nat /\ Len(Separators[k]) >= 1
    BY SeparatorLength
  <2>3. p \in Int /\ p >= from + Window /\ p <= high - Len(Separators[k])
    BY <1>1, <2>2, Settings DEF Found
  <2>4. to > from + Window /\ to <= high
    BY <1>1, <2>1, <2>2, <2>3, Settings
  <2> QED BY <1>1, <2>4, Settings
<1> QED BY <1>2, <1>3

-----------------------------------------------------------------------------
(***************************************************************************)
(* Type correctness and coverage together are inductive: the chunks on     *)
(* record are never replaced because the next number is never taken.       *)
(***************************************************************************)
IInv == TypeOK /\ PassagesAreWhole

\* The page that is being cut, and a chunk of it.
LEMMA TextOK ==
    ASSUME TypeOK, ~Done
    PROVE  /\ sheet \in Nat /\ sheet \in 1 .. Len(pages)
           /\ Len(pages) \in Nat
           /\ Len(Text) \in Nat /\ start \in Nat /\ start <= Len(Text)
BY DEF TypeOK, Done, Text

LEMMA StoreKeepsType ==
    ASSUME TypeOK, ~Done, UNCHANGED pages,
           NEW end \in Nat, start < end, end <= Len(Text), end - start <= ChunkSize,
           chunks' = With(index, [page |-> sheet, from |-> start, to |-> end]),
           index' = index + 1
    PROVE  /\ index' \in Nat
           /\ DOMAIN chunks' = 0 .. index' - 1
           /\ \A c \in DOMAIN chunks' :
                /\ chunks'[c] \in Piece
                /\ chunks'[c].page \in 1 .. Len(pages')
                /\ chunks'[c].from < chunks'[c].to
                /\ chunks'[c].to <= Len(pages'[chunks'[c].page])
                /\ chunks'[c].to - chunks'[c].from <= ChunkSize
<1> DEFINE piece == [page |-> sheet, from |-> start, to |-> end]
<1>1. index \in Nat /\ DOMAIN chunks = 0 .. index - 1
  BY DEF TypeOK
<1>2. DOMAIN chunks' = 0 .. index' - 1 /\ index' \in Nat
  BY <1>1 DEF With
<1>3. ASSUME NEW c \in DOMAIN chunks' PROVE chunks'[c] = IF c = index THEN piece ELSE chunks[c]
  BY <1>3 DEF With
<1>4. ASSUME NEW c \in DOMAIN chunks', c # index PROVE c \in DOMAIN chunks
  BY <1>1, <1>2, <1>4
<1>5. /\ piece \in Piece /\ piece.page \in 1 .. Len(pages) /\ piece.from < piece.to
      /\ piece.to <= Len(pages[piece.page]) /\ piece.to - piece.from <= ChunkSize
  BY TextOK DEF Piece, Text
<1>6. ASSUME NEW c \in DOMAIN chunks
      PROVE  /\ chunks[c] \in Piece /\ chunks[c].page \in 1 .. Len(pages)
             /\ chunks[c].from < chunks[c].to
             /\ chunks[c].to <= Len(pages[chunks[c].page])
             /\ chunks[c].to - chunks[c].from <= ChunkSize
  BY <1>6 DEF TypeOK
<1> HIDE DEF piece
<1>7. ASSUME NEW c \in DOMAIN chunks'
      PROVE  /\ chunks'[c] \in Piece /\ chunks'[c].page \in 1 .. Len(pages')
             /\ chunks'[c].from < chunks'[c].to
             /\ chunks'[c].to <= Len(pages'[chunks'[c].page])
             /\ chunks'[c].to - chunks'[c].from <= ChunkSize
  <2>1. CASE c = index
    BY <1>3, <1>5, <2>1
  <2>2. CASE c # index
    BY <1>3, <1>4, <1>6, <2>2
  <2> QED BY <2>1, <2>2
<1> QED BY <1>2, <1>7

LEMMA CutKeepsType == TypeOK /\ Cut => TypeOK'
<1> SUFFICES ASSUME TypeOK, Cut PROVE TypeOK'
  OBVIOUS
<1>1. PICK end \in 1 .. Len(Text) :
        /\ EndsAt(Text, start, end)
        /\ IF HasText(Text, start, end)
           THEN /\ chunks' = With(index, [page |-> sheet, from |-> start, to |-> end])
                /\ index' = NextIndex(end)
           ELSE UNCHANGED <<chunks, index>>
        /\ IF end >= Len(Text)
           THEN TurnPage
           ELSE start' = NextStart(end) /\ UNCHANGED sheet
  BY DEF Cut
<1>2. ~Done /\ start < Len(Text) /\ UNCHANGED pages
  BY DEF Cut
<1>3. /\ sheet \in Nat /\ sheet \in 1 .. Len(pages)
      /\ Len(Text) \in Nat /\ start \in Nat /\ Len(pages) \in Nat
  BY <1>2, TextOK
<1>4. end \in Nat /\ start < end /\ end <= Len(Text) /\ end - start <= ChunkSize
      /\ (end < Len(Text) => start + Window < end)
  BY <1>1, <1>2, <1>3, CutBounds
<1>5. /\ index' \in Nat
      /\ DOMAIN chunks' = 0 .. index' - 1
      /\ \A c \in DOMAIN chunks' :
           /\ chunks'[c] \in Piece
           /\ chunks'[c].page \in 1 .. Len(pages')
           /\ chunks'[c].from < chunks'[c].to
           /\ chunks'[c].to <= Len(pages'[chunks'[c].page])
           /\ chunks'[c].to - chunks'[c].from <= ChunkSize
  <2>1. CASE HasText(Text, start, end)
    BY <1>1, <1>2, <1>4, <2>1, StoreKeepsType DEF NextIndex
  <2>2. CASE ~HasText(Text, start, end)
    BY <1>1, <1>2, <2>2 DEF TypeOK
  <2> QED BY <2>1, <2>2
<1>6. pages' \in Seq(Seq(Char)) /\ sheet' \in 1 .. Len(pages') + 1
  BY <1>1, <1>2, <1>3 DEF TypeOK, TurnPage
<1>7. start' \in Nat /\ (~Done' => start' <= Len(Text'))
  <2>1. CASE end >= Len(Text)
    <3>1. start' = 0
      BY <1>1, <2>1 DEF TurnPage
    <3>2. ~Done' => pages'[sheet'] \in Seq(Char)
      BY <1>6, <3>1 DEF Done
    <3> QED BY <3>1, <3>2 DEF Text
  <2>2. CASE ~(end >= Len(Text))
    <3>1. start' = end - Overlap /\ UNCHANGED sheet
      BY <1>1, <2>2 DEF NextStart
    <3>2. Text' = Text
      BY <1>2, <3>1 DEF Text
    <3>3. start + Window < end
      BY <1>3, <1>4, <2>2
    <3> QED BY <1>3, <1>4, <3>1, <3>2, <3>3, Settings
  <2> QED BY <2>1, <2>2
<1> QED BY <1>5, <1>6, <1>7 DEF TypeOK

LEMMA SkipKeepsType == TypeOK /\ Skip => TypeOK'
<1> SUFFICES ASSUME TypeOK, Skip PROVE TypeOK'
  OBVIOUS
<1>1. sheet' = sheet + 1 /\ start' = 0 /\ UNCHANGED <<pages, index, chunks>>
  BY DEF Skip, TurnPage
<1>2. sheet \in 1 .. Len(pages) /\ Len(pages) \in Nat
  BY TextOK DEF Skip
<1>3. ~Done' => Len(Text') \in Nat
  BY <1>1, <1>2 DEF TypeOK, Done, Text
<1> QED BY <1>1, <1>2, <1>3 DEF TypeOK

-----------------------------------------------------------------------------
\* What has been stored stays whole.
LEMMA WholeStays ==
    ASSUME NEW n, NEW p, IsWhole(n, p), UNCHANGED pages,
           \A c \in DOMAIN chunks : c \in DOMAIN chunks' /\ chunks'[c] = chunks[c]
    PROVE  IsWhole(n, p)'
BY DEF IsWhole, PassageEnd

LEMMA CutCovers == TypeOK /\ PassagesAreWhole /\ Cut => PassagesAreWhole'
<1> SUFFICES ASSUME TypeOK, PassagesAreWhole, Cut PROVE PassagesAreWhole'
  OBVIOUS
<1>0. UNCHANGED pages
  BY DEF Cut
<1> SUFFICES ASSUME NEW n \in 1 .. Len(pages), NEW p \in 0 .. Len(pages[n]) - 1,
                    Reached(n, p)', HasText(pages[n], p, PassageEnd(n, p) + 1)
             PROVE  IsWhole(n, p)'
  BY <1>0 DEF PassagesAreWhole, PassageEnd
<1>1. PICK end \in 1 .. Len(Text) :
        /\ EndsAt(Text, start, end)
        /\ IF HasText(Text, start, end)
           THEN /\ chunks' = With(index, [page |-> sheet, from |-> start, to |-> end])
                /\ index' = NextIndex(end)
           ELSE UNCHANGED <<chunks, index>>
        /\ IF end >= Len(Text)
           THEN TurnPage
           ELSE start' = NextStart(end) /\ UNCHANGED sheet
  BY DEF Cut
<1>2. ~Done /\ start < Len(Text) /\ UNCHANGED pages
  BY DEF Cut
<1>3. /\ sheet \in Nat /\ sheet \in 1 .. Len(pages)
      /\ Len(Text) \in Nat /\ start \in Nat /\ Len(pages) \in Nat
  BY <1>2, TextOK
<1>4. end \in Nat /\ start < end /\ end <= Len(Text)
  BY <1>1, <1>2, <1>3, CutBounds
<1>5. index \notin DOMAIN chunks
  BY DEF TypeOK
<1>6. \A c \in DOMAIN chunks : c \in DOMAIN chunks' /\ chunks'[c] = chunks[c]
  BY <1>1, <1>5 DEF With
<1>7. CASE Reached(n, p)
  <2>1. IsWhole(n, p)
    BY <1>7 DEF PassagesAreWhole
  <2> QED BY <1>2, <1>6, <2>1, WholeStays
<1>8. CASE ~Reached(n, p)
  <2>1. p \in Nat /\ Len(pages[n]) \in Nat
    BY DEF TypeOK
  <2>2. PassageEnd(n, p) \in Nat /\ PassageEnd(n, p) <= p + Overlap
        /\ PassageEnd(n, p) < Len(pages[n])
    BY <2>1, Settings DEF PassageEnd, Smaller
  <2>3. n = sheet /\ start <= p /\ PassageEnd(n, p) < end
    <3>1. CASE end >= Len(Text)
      <4>1. sheet' = sheet + 1 /\ start' = 0
        BY <1>1, <3>1 DEF TurnPage
      <4>2. n < sheet + 1 /\ ~(n < sheet)
        BY <1>3, <1>8, <2>1, <4>1 DEF Reached
      <4>3. n = sheet
        BY <1>3, <4>2
      <4>4. start <= p
        BY <1>3, <1>8, <2>1, <4>3 DEF Reached
      <4> QED BY <1>4, <2>2, <3>1, <4>3, <4>4 DEF Text
    <3>2. CASE ~(end >= Len(Text))
      <4>1. sheet' = sheet /\ start' = end - Overlap
        BY <1>1, <3>2 DEF NextStart
      <4>2. n = sheet /\ p < end - Overlap /\ start <= p
        BY <1>3, <1>4, <1>8, <2>1, <4>1 DEF Reached
      <4> QED BY <1>4, <2>1, <2>2, <4>2, Settings
    <3> QED BY <3>1, <3>2
  <2>4. HasText(Text, start, end)
    <3>1. PICK q \in p .. PassageEnd(n, p) + 1 - 1 : pages[n][q + 1] \notin Blanks
      BY <2>1, <2>2 DEF HasText
    <3>2. q \in start .. end - 1
      BY <1>3, <1>4, <2>1, <2>2, <2>3, <3>1
    <3> QED BY <2>3, <3>1, <3>2 DEF HasText, Text
  <2>5. chunks' = With(index, [page |-> sheet, from |-> start, to |-> end])
    BY <1>1, <2>4
  <2>6. index \in DOMAIN chunks' /\ chunks'[index] = [page |-> sheet, from |-> start, to |-> end]
    BY <2>5 DEF With
  <2>7. PassageEnd(n, p)' = PassageEnd(n, p)
    BY <1>2 DEF PassageEnd
  <2> QED BY <2>3, <2>6, <2>7 DEF IsWhole
<1> QED BY <1>7, <1>8

LEMMA SkipCovers == TypeOK /\ PassagesAreWhole /\ Skip => PassagesAreWhole'
<1> SUFFICES ASSUME TypeOK, PassagesAreWhole, Skip PROVE PassagesAreWhole'
  OBVIOUS
<1>0. UNCHANGED pages
  BY DEF Skip
<1> SUFFICES ASSUME NEW n \in 1 .. Len(pages), NEW p \in 0 .. Len(pages[n]) - 1,
                    Reached(n, p)', HasText(pages[n], p, PassageEnd(n, p) + 1)
             PROVE  IsWhole(n, p)'
  BY <1>0 DEF PassagesAreWhole, PassageEnd
<1>1. sheet' = sheet + 1 /\ start' = 0 /\ UNCHANGED <<pages, chunks>>
  BY DEF Skip, TurnPage
<1>2. /\ sheet \in Nat /\ Len(Text) \in Nat /\ start \in Nat /\ start >= Len(Text)
      /\ Len(pages[n]) \in Nat /\ p \in Nat /\ p < Len(pages[n])
  BY TextOK DEF Skip, TypeOK
<1>3. n < sheet \/ n = sheet
  BY <1>1, <1>2 DEF Reached
<1>4. Reached(n, p)
  BY <1>2, <1>3 DEF Reached, Text
<1>5. IsWhole(n, p)
  BY <1>4 DEF PassagesAreWhole
<1> QED BY <1>1, <1>5, WholeStays

-----------------------------------------------------------------------------
LEMMA InitEstablishes == Init => IInv
<1> SUFFICES ASSUME Init PROVE IInv
  OBVIOUS
<1>1. pages \in Seq(Seq(Char)) /\ Len(pages) \in Nat
  BY ChunkingAssumption DEF Init
<1>2. DOMAIN chunks = {} /\ 0 .. index - 1 = {}
  BY DEF Init
<1>3. ~Done => Len(Text) \in Nat
  BY <1>1 DEF Init, Done, Text
<1>4. TypeOK
  BY <1>1, <1>2, <1>3 DEF Init, TypeOK
<1>5. PassagesAreWhole
  BY DEF Init, PassagesAreWhole, Reached
<1> QED BY <1>4, <1>5 DEF IInv

LEMMA StepPreserves == IInv /\ [Next]_vars => IInv'
<1> SUFFICES ASSUME IInv, [Next]_vars PROVE IInv'
  OBVIOUS
<1> USE DEF IInv
<1>1. CASE Cut
  BY <1>1, CutKeepsType, CutCovers
<1>2. CASE Skip
  BY <1>2, SkipKeepsType, SkipCovers
<1>3. CASE UNCHANGED vars
  <2>1. TypeOK'
    BY <1>3 DEF vars, TypeOK, Done, Text
  <2>2. PassagesAreWhole'
    <3>1. \A n, p : Reached(n, p)' = Reached(n, p)
      BY <1>3 DEF vars, Reached
    <3>2. \A n, p : IsWhole(n, p)' = IsWhole(n, p) /\ PassageEnd(n, p)' = PassageEnd(n, p)
      BY <1>3 DEF vars, IsWhole, PassageEnd
    <3> QED BY <1>3, <3>1, <3>2 DEF vars, PassagesAreWhole
  <2> QED BY <2>1, <2>2
<1> QED BY <1>1, <1>2, <1>3 DEF Next

(***************************************************************************)
(* The inductive invariant holds: chunks, numbers and the passages behind  *)
(* the next start are what the theorems below say of them.                 *)
(***************************************************************************)
THEOREM Invariance == Spec => []IInv
BY InitEstablishes, StepPreserves, PTL DEF Spec

(***************************************************************************)
(* Chunks lie on their page, within the size, under numbers of their own.  *)
(***************************************************************************)
THEOREM TypeCorrect == Spec => []TypeOK
<1>1. IInv => TypeOK
  BY DEF IInv
<1> QED BY <1>1, Invariance, PTL

(***************************************************************************)
(* Wherever the separators are, chunk_text stores every passage as long as *)
(* the overlap whole: the promise of the overlap, for every text.          *)
(***************************************************************************)
THEOREM EveryPassageIsWhole == Spec => []PassagesAreWhole
<1>1. IInv => PassagesAreWhole
  BY DEF IInv
<1> QED BY <1>1, Invariance, PTL

(***************************************************************************)
(* With an overlap within the first four fifths of a chunk every turn gets *)
(* further: as start and page are bounded by the document, the loop ends.  *)
(***************************************************************************)
THEOREM LoopAdvances ==
    ASSUME OverlapFits
    PROVE  Spec => StepsForward
<1>1. IInv /\ [Next]_vars => [sheet' > sheet \/ (sheet' = sheet /\ start' > start)]_vars
  <2> SUFFICES ASSUME IInv, Next
               PROVE  sheet' > sheet \/ (sheet' = sheet /\ start' > start)
    BY DEF vars
  <2>0. TypeOK
    BY DEF IInv
  <2>1. CASE Cut
    <3>1. PICK end \in 1 .. Len(Text) :
            /\ EndsAt(Text, start, end)
            /\ IF end >= Len(Text)
               THEN TurnPage
               ELSE start' = NextStart(end) /\ UNCHANGED sheet
      BY <2>1 DEF Cut
    <3>2. /\ sheet \in Nat /\ Len(Text) \in Nat /\ start \in Nat /\ start < Len(Text)
      BY <2>0, <2>1, TextOK DEF Cut
    <3>3. end \in Nat /\ (end < Len(Text) => start + Window < end)
      BY <3>1, <3>2, CutBounds
    <3>4. CASE end >= Len(Text)
      BY <3>1, <3>2, <3>4 DEF TurnPage
    <3>5. CASE ~(end >= Len(Text))
      <4>1. sheet' = sheet /\ start' = end - Overlap
        BY <3>1, <3>5 DEF NextStart
      <4>2. start + Window < end
        BY <3>2, <3>3, <3>5
      <4> QED BY <3>2, <3>3, <4>1, <4>2, OverlapFits, Settings DEF OverlapFits
    <3> QED BY <3>4, <3>5
  <2>2. CASE Skip
    <3>1. sheet \in Nat
      BY <2>0, <2>2, TextOK DEF Skip
    <3> QED BY <2>2, <3>1 DEF Skip, TurnPage
  <2> QED BY <2>1, <2>2 DEF Next
<1> QED BY <1>1, Invariance, PTL DEF Spec, StepsForward
=============================================================================
