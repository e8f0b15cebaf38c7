------------------------- MODULE ReadingPaneProofs -------------------------
(***************************************************************************)
(* The list of spans the reading pane keeps is, for passages of any length *)
(* and any number of highlights, the set of painted characters of          *)
(* Highlighter: merging keeps the spans apart, and because they are apart  *)
(* a span is a whole unbroken run.                                         *)
(***************************************************************************)
EXTENDS ReadingPane, TLAPS, WellFoundedInduction

SpansAreSpans == spans \subseteq Span
MenuIsInText  == menu \in {NoMenu} \cup [offset : Offsets, hasSelection : BOOLEAN]

PaneInv == passage \in Passages /\ SpansAreSpans /\ MenuIsInText /\ Separated

Marked(hs) == {i \in Offsets : \E s \in hs : s.start <= i /\ i < s.end}

-----------------------------------------------------------------------------
(* Least and Greatest of a set of offsets exist. *)

LEMMA OffsetsAreNat == Offsets \subseteq Nat /\ MaxLength \in Nat
  BY ReadingAssumption, SMT DEF Offsets

LEMMA PlacesAreOffsets ==
  ASSUME passage \in Passages
  PROVE  /\ TextEnd \in Offsets /\ Lead[passage] \in Nat
         /\ \A x \in {Outside} \cup Offsets : offsetOf(x) \in Offsets
<1>1. Lead[passage] \in Nat /\ Length[passage] \in Nat /\ MaxLength \in Nat
  BY ReadingAssumption
<1>2. Lead[passage] + Length[passage] <= MaxLength
  BY ReadingAssumption
<1>3. TextEnd \in Offsets
  BY <1>1, <1>2 DEF TextEnd, Offsets
<1>4. QED
  BY <1>1, <1>3 DEF offsetOf

LEMMA LeastExists ==
  ASSUME NEW S \in SUBSET Offsets, S # {}
  PROVE  Least(S) \in S /\ \A y \in S : Least(S) <= y
<1>1. S \subseteq Nat
  BY OffsetsAreNat
<1>2. PICK x \in S : \A y \in S : ~ (<<y, x>> \in OpToRel(<, Nat))
  BY <1>1, NatLessThanWellFounded, WFMin
<1>3. \A y \in S : x <= y
  <2>1. SUFFICES ASSUME NEW y \in S PROVE x <= y
    OBVIOUS
  <2>2. ~ (y < x)
    BY <1>1, <1>2 DEF OpToRel
  <2>3. QED
    BY <1>1, <2>2
<1>4. QED
  BY <1>3 DEF Least

LEMMA GreatestExists ==
  ASSUME NEW S \in SUBSET Offsets, S # {}
  PROVE  Greatest(S) \in S /\ \A y \in S : y <= Greatest(S)
<1> DEFINE R == {MaxLength - x : x \in S}
<1>1. S \subseteq 0 .. MaxLength
  BY DEF Offsets
<1>2. R \in SUBSET Offsets /\ R # {}
  <2>1. \A x \in S : MaxLength - x \in Offsets
    BY <1>1, OffsetsAreNat DEF Offsets
  <2>2. QED
    BY <2>1
<1>3. Least(R) \in R /\ \A y \in R : Least(R) <= y
  BY <1>2, LeastExists
<1>4. PICK x \in S : Least(R) = MaxLength - x
  BY <1>3
<1>5. \A y \in S : y <= x
  <2>1. SUFFICES ASSUME NEW y \in S PROVE y <= x
    OBVIOUS
  <2>2. MaxLength - x <= MaxLength - y
    BY <1>3, <1>4
  <2>3. QED
    BY <1>1, <2>2, OffsetsAreNat
<1>6. QED
  BY <1>5 DEF Greatest

-----------------------------------------------------------------------------
(* What merging does to spans that are apart. *)

\* The merged span begins and ends where the selection does or where a span it
\* touches does, and covers them all.
LEMMA MergedCovers ==
  ASSUME NEW hs \in SUBSET Span, NEW a \in Offsets, NEW b \in Offsets, a < b
  PROVE  /\ Merged(hs, a, b) \in Span
         /\ Merged(hs, a, b).start <= a /\ b <= Merged(hs, a, b).end
         /\ \A s \in Touching(hs, a, b) :
               Merged(hs, a, b).start <= s.start /\ s.end <= Merged(hs, a, b).end
         /\ \/ Merged(hs, a, b).start = a
            \/ \E s \in Touching(hs, a, b) : Merged(hs, a, b).start = s.start
         /\ \/ Merged(hs, a, b).end = b
            \/ \E s \in Touching(hs, a, b) : Merged(hs, a, b).end = s.end
<1> DEFINE T == Touching(hs, a, b)
           L == {a} \cup {s.start : s \in T}
           G == {b} \cup {s.end : s \in T}
           m == Least(L)
           M == Greatest(G)
<1>1. T \subseteq Span
  BY DEF Touching
<1>2. \A s \in T : s.start \in Offsets /\ s.end \in Offsets
  BY <1>1 DEF Span
<1>3. L \in SUBSET Offsets /\ L # {} /\ G \in SUBSET Offsets /\ G # {}
  BY <1>2
<1>4. m \in L /\ \A y \in L : m <= y
  BY <1>3, LeastExists
<1>5. M \in G /\ \A y \in G : y <= M
  BY <1>3, GreatestExists
<1>6. Merged(hs, a, b) = [start |-> m, end |-> M]
  BY DEF Merged
<1>7. m \in Offsets /\ M \in Offsets /\ m <= a /\ b <= M
  BY <1>3, <1>4, <1>5
<1> HIDE DEF m, M
<1>8. m < M
  BY <1>7, OffsetsAreNat
<1>9. [start |-> m, end |-> M] \in Span
  BY <1>7, <1>8 DEF Span
<1>10. QED
  BY <1>4, <1>5, <1>6, <1>7, <1>9

\* A span that is not merged stays apart from the merged one: the offset at which
\* the merged span begins or ends belongs to a span it was apart from already.
LEMMA MergedIsApart ==
  ASSUME NEW hs \in SUBSET Span, NEW a \in Offsets, NEW b \in Offsets, a < b,
         \A s, t \in hs : s # t => s.end < t.start \/ t.end < s.start,
         NEW t \in hs \ Touching(hs, a, b)
  PROVE  t.end < Merged(hs, a, b).start \/ Merged(hs, a, b).end < t.start
<1> DEFINE N == Merged(hs, a, b)
           T == Touching(hs, a, b)
<1>1. /\ N \in Span /\ N.start <= a /\ b <= N.end
      /\ N.start = a \/ \E s \in T : N.start = s.start
      /\ N.end = b \/ \E s \in T : N.end = s.end
  BY MergedCovers
<1>2. t.end < a \/ b < t.start
  BY OffsetsAreNat DEF Touching, Span
<1>3. \A s \in hs : s.start \in Nat /\ s.end \in Nat /\ s.start < s.end
  BY OffsetsAreNat DEF Span
<1>4. a \in Nat /\ b \in Nat
  BY OffsetsAreNat
<1>5. \A s \in T : s \in hs /\ s # t /\ ~ (s.end < a) /\ ~ (s.start > b)
  BY DEF Touching
<1>6. \A s \in T : s.end < t.start \/ t.end < s.start
  BY <1>5
<1> HIDE DEF N, T
<1>7. CASE t.end < a
  <2>1. CASE N.start = a
    BY <1>7, <2>1 DEF N
  <2>2. ASSUME NEW s \in T, N.start = s.start PROVE t.end < N.start
    BY <1>3, <1>4, <1>7, <1>5, <1>6, <2>2
  <2>3. QED
    BY <1>1, <2>1, <2>2 DEF N
<1>8. CASE b < t.start
  <2>1. CASE N.end = b
    BY <1>8, <2>1 DEF N
  <2>2. ASSUME NEW s \in T, N.end = s.end PROVE N.end < t.start
    BY <1>3, <1>4, <1>8, <1>5, <1>6, <2>2
  <2>3. QED
    BY <1>1, <2>1, <2>2 DEF N
<1>9. QED
  BY <1>2, <1>7, <1>8 DEF N

\* Merging marks the selection and nothing else: the merged span reaches beyond
\* the selection only over spans that were there.
LEMMA AddPaints ==
  ASSUME NEW hs \in SUBSET Span, NEW a \in Offsets, NEW b \in Offsets, a < b
  PROVE  Marked(add(hs, a, b)) = Marked(hs) \cup (a .. b - 1)
<1> DEFINE N == Merged(hs, a, b)
           T == Touching(hs, a, b)
<1>1. /\ N \in Span /\ N.start <= a /\ b <= N.end
      /\ \A s \in T : N.start <= s.start /\ s.end <= N.end
      /\ N.start = a \/ \E s \in T : N.start = s.start
      /\ N.end = b \/ \E s \in T : N.end = s.end
  BY MergedCovers
<1>2. \A s \in hs : s.start \in Nat /\ s.end \in Nat /\ s.start < s.end
  BY OffsetsAreNat DEF Span
<1>3. \A s \in T : s \in hs /\ ~ (s.end < a) /\ ~ (s.start > b)
  BY DEF Touching
<1>4. T \subseteq hs /\ \A s \in T : a <= s.end /\ s.start <= b
  BY <1>2, <1>3, OffsetsAreNat
<1>5. /\ a \in Nat /\ b \in Nat /\ N.start \in Nat /\ N.end \in Nat
      /\ a .. b - 1 \subseteq Offsets
  BY <1>1, OffsetsAreNat DEF Span, Offsets
<1>6. add(hs, a, b) = (hs \ T) \cup {N}
  BY DEF add
<1> HIDE DEF N, T
<1>7. ASSUME NEW i \in Offsets, N.start <= i, i < N.end
      PROVE  i \in a .. b - 1 \/ \E s \in hs : s.start <= i /\ i < s.end
  <2>1. i \in Nat
    BY OffsetsAreNat
  <2>2. CASE i < a
    <3>1. PICK s \in T : N.start = s.start
      BY <1>1, <1>5, <1>7, <2>1, <2>2
    <3>2. QED
      BY <1>4, <1>2, <1>5, <1>7, <2>1, <2>2, <3>1
  <2>3. CASE b <= i
    <3>1. PICK s \in T : N.end = s.end
      BY <1>1, <1>5, <1>7, <2>1, <2>3
    <3>2. QED
      BY <1>4, <1>2, <1>5, <1>7, <2>1, <2>3, <3>1
  <2>4. QED
    BY <1>5, <2>1, <2>2, <2>3
<1>8. ASSUME NEW i \in Offsets,
             i \in a .. b - 1 \/ \E s \in hs : s.start <= i /\ i < s.end
      PROVE  \E s \in (hs \ T) \cup {N} : s.start <= i /\ i < s.end
  <2>1. i \in Nat
    BY OffsetsAreNat
  <2>2. CASE i \in a .. b - 1
    BY <1>1, <1>5, <2>1, <2>2
  <2>3. ASSUME NEW s \in T, s.start <= i, i < s.end
        PROVE  N.start <= i /\ i < N.end
    BY <1>1, <1>4, <1>2, <1>5, <2>1, <2>3
  <2>4. QED
    BY <1>8, <2>2, <2>3
<1>9. QED
  BY <1>5, <1>6, <1>7, <1>8 DEF Marked

LEMMA AddKeepsApart ==
  ASSUME NEW hs \in SUBSET Span, NEW a \in Offsets, NEW b \in Offsets, a < b,
         \A s, t \in hs : s # t => s.end < t.start \/ t.end < s.start
  PROVE  /\ add(hs, a, b) \in SUBSET Span
         /\ \A s, t \in add(hs, a, b) : s # t => s.end < t.start \/ t.end < s.start
<1> DEFINE N == Merged(hs, a, b)
           T == Touching(hs, a, b)
<1>1. N \in Span
  BY MergedCovers
<1>2. \A t \in hs \ T : t.end < N.start \/ N.end < t.start
  BY MergedIsApart
<1>3. add(hs, a, b) = (hs \ T) \cup {N}
  BY DEF add
<1> HIDE DEF N, T
<1>4. QED
  BY <1>1, <1>2, <1>3

-----------------------------------------------------------------------------
(* What is cleared is what is seen. *)

\* The offset just before a span that is apart from the others is not marked, nor
\* is the one where it ends: so the run through a marked offset is its span.
LEMMA SpanIsRun ==
  ASSUME NEW hs \in SUBSET Span, NEW s \in hs, NEW o \in Offsets,
         \A u, t \in hs : u # t => u.end < t.start \/ t.end < u.start,
         s.start <= o, o < s.end
  PROVE  /\ spanAt(hs, o) = {s}
         /\ \A i \in Marked(hs) :
              (\A j \in Offsets : (i <= j /\ j <= o) \/ (o <= j /\ j <= i) => j \in Marked(hs))
                <=> s.start <= i /\ i < s.end
<1>1. /\ o \in Nat
      /\ \A t \in hs : /\ t.start \in Offsets /\ t.end \in Offsets
                       /\ t.start \in Nat /\ t.end \in Nat /\ t.start < t.end
  BY OffsetsAreNat DEF Span
<1>2. \A t \in hs : t # s => t.end < s.start \/ s.end < t.start
  OBVIOUS
<1>3. spanAt(hs, o) = {s}
  <2>1. ASSUME NEW t \in hs, t.start <= o, o < t.end PROVE t = s
    BY <1>1, <1>2, <2>1
  <2>2. QED
    BY <2>1 DEF spanAt
<1>4. ASSUME NEW i \in Marked(hs), s.start <= i, i < s.end,
             NEW j \in Offsets, (i <= j /\ j <= o) \/ (o <= j /\ j <= i)
      PROVE  j \in Marked(hs)
  <2>1. i \in Nat /\ j \in Nat
    BY OffsetsAreNat DEF Marked
  <2>2. s.start <= j /\ j < s.end
    BY <1>1, <1>4, <2>1
  <2>3. QED
    BY <2>2 DEF Marked
<1>5. ASSUME NEW i \in Marked(hs), i < s.start
      PROVE  \E j \in Offsets : i <= j /\ j <= o /\ j \notin Marked(hs)
  <2>1. i \in Nat
    BY OffsetsAreNat DEF Marked
  <2>2. s.start - 1 \in Offsets /\ i <= s.start - 1 /\ s.start - 1 <= o
    BY <1>1, <1>5, <2>1, OffsetsAreNat DEF Offsets
  <2>3. ASSUME NEW t \in hs, t.start <= s.start - 1, s.start - 1 < t.end PROVE FALSE
    <3>1. t # s
      BY <1>1, <2>3
    <3>2. QED
      BY <1>1, <1>2, <2>3, <3>1
  <2>4. s.start - 1 \notin Marked(hs)
    BY <2>3 DEF Marked
  <2>5. QED
    BY <2>2, <2>4
<1>6. ASSUME NEW i \in Marked(hs), s.end <= i
      PROVE  \E j \in Offsets : o <= j /\ j <= i /\ j \notin Marked(hs)
  <2>1. ASSUME NEW t \in hs, t.start <= s.end, s.end < t.end PROVE FALSE
    BY <1>1, <1>2, <2>1
  <2>2. s.end \notin Marked(hs)
    BY <2>1 DEF Marked
  <2>3. s.end \in Offsets /\ o <= s.end
    BY <1>1
  <2>4. QED
    BY <1>6, <2>2, <2>3
<1>7. \A i \in Marked(hs) : i \in Nat
  BY OffsetsAreNat DEF Marked
<1>8. ASSUME NEW i \in Marked(hs), ~ (s.start <= i /\ i < s.end)
      PROVE  i < s.start \/ s.end <= i
  BY <1>1, <1>7, <1>8
<1>9. QED
  BY <1>3, <1>4, <1>5, <1>6, <1>8

-----------------------------------------------------------------------------
(* The invariant. *)

LEMMA PaneInvInit == PaneInit => PaneInv
  BY DEF PaneInit, PaneInv, SpansAreSpans, MenuIsInText, Separated

\* A highlight adds one span of the pane's offsets, or nothing.
LEMMA HighlightAdds ==
  ASSUME passage \in Passages,
         NEW from \in {Outside} \cup Offsets, NEW to \in {Outside} \cup Offsets,
         highlight(from, to)
  PROVE  \E a, b \in Offsets : \/ a < b /\ spans' = add(spans, a, b)
                               \/ spans' = spans
<1> DEFINE a == offsetOf(from)
           b == offsetOf(to)
<1>1. a \in Offsets /\ b \in Offsets
  BY PlacesAreOffsets
<1>2. spans' = CASE a < b -> add(spans, a, b)
                 [] b < a -> add(spans, b, a)
                 [] OTHER -> spans
  BY DEF highlight
<1> HIDE DEF a, b
<1>3. QED
  BY <1>1, <1>2

LEMMA PaneInvNext == PaneInv /\ [PaneNext]_paneVars => PaneInv'
<1> SUFFICES ASSUME PaneInv, [PaneNext]_paneVars PROVE PaneInv'
  OBVIOUS
<1> USE DEF PaneInv, SpansAreSpans, MenuIsInText
<1>1. ASSUME NEW o \in Offsets, NEW sel \in BOOLEAN, OpenMenu(o, sel) PROVE PaneInv'
  BY <1>1 DEF OpenMenu, Separated
<1>2. CASE CloseMenu
  BY <1>2 DEF CloseMenu, Separated
<1>3. ASSUME NEW from \in {Outside} \cup Offsets, NEW to \in {Outside} \cup Offsets,
             highlight(from, to)
      PROVE  PaneInv'
  <2>1. PICK a \in Offsets, b \in Offsets :
          \/ a < b /\ spans' = add(spans, a, b)
          \/ spans' = spans
    BY <1>3, HighlightAdds
  <2>2. CASE a < b /\ spans' = add(spans, a, b)
    <3>1. /\ add(spans, a, b) \in SUBSET Span
          /\ \A s, t \in add(spans, a, b) : s # t => s.end < t.start \/ t.end < s.start
      BY <2>2, AddKeepsApart DEF Separated
    <3>2. QED
      BY <1>3, <2>2, <3>1 DEF highlight, Separated
  <2>3. QED
    BY <1>3, <2>1, <2>2 DEF highlight, Separated
<1>4. CASE clearAll
  <2>1. spans' \subseteq spans
    BY <1>4 DEF clearAll, removeAt
  <2>2. QED
    BY <1>4, <2>1 DEF clearAll, Separated
<1>5. ASSUME NEW p \in Passages, ShowPassage(p) PROVE PaneInv'
  BY <1>5 DEF ShowPassage, Separated
<1>6. CASE Remount
  BY <1>6 DEF Remount, Separated
<1>7. CASE OpenSettings \/ CloseSettings
  BY <1>7 DEF OpenSettings, CloseSettings, Separated
<1>8. ASSUME NEW s \in TextSizes, setSize(s) PROVE PaneInv'
  BY <1>8 DEF setSize, Separated
<1>9. CASE UNCHANGED paneVars
  BY <1>9 DEF paneVars, Separated
<1>10. QED
  BY <1>1, <1>2, <1>3, <1>4, <1>5, <1>6, <1>7, <1>8, <1>9 DEF PaneNext

LEMMA PaneInvariant == PaneSpec => []PaneInv
  BY PaneInvInit, PaneInvNext, PTL DEF PaneSpec

\* No two highlights of the reading pane ever touch, however they were made, merged
\* and cleared (highlights.ts, add), so what looks like one highlight is one.
THEOREM HighlightsStaySeparate == PaneSpec => []Separated
<1>1. PaneInv => Separated
  BY DEF PaneInv
<1>2. QED
  BY PaneInvariant, <1>1, PTL

-----------------------------------------------------------------------------
(* The refinement: highlight paints, clearAll wipes, Remount forgets. *)

LEMMA PaneStepIsMark ==
  ASSUME PaneInv, [PaneNext]_paneVars
  PROVE  Paper!HLNext \/ UNCHANGED Marked(spans)
<1> USE DEF PaneInv, SpansAreSpans, MenuIsInText
<1>0. PICK lead \in Nat : lead = Lead[passage]
  BY PlacesAreOffsets
<1>1. ASSUME NEW a \in Offsets, NEW b \in Offsets, a < b, spans' = add(spans, a, b)
      PROVE  Paper!HLNext
  <2>1. Marked(spans') = Marked(spans) \cup (a .. b - 1)
    BY <1>1, AddPaints
  <2>2. PICK x \in Paper!Places : x = a - lead
    BY <1>0 DEF Paper!Places
  <2>3. PICK y \in Paper!Places : y = b - lead
    BY <1>0 DEF Paper!Places
  <2>4. /\ x \in Int /\ y \in Int /\ Lead[passage] \in Nat /\ a \in Nat /\ b \in Nat
        /\ x < y /\ x + Lead[passage] = a /\ y + Lead[passage] = b
    BY <1>0, <1>1, <2>2, <2>3, OffsetsAreNat
  <2>5. Paper!Paint(x, y)
    <3>1. Paper!Paint(x, y)
            <=> Marked(spans')
                  = Marked(spans) \cup (x + Lead[passage] .. y + Lead[passage] - 1)
      BY Zenon DEF Paper!Paint, Marked
    <3>2. (x + Lead[passage] .. y + Lead[passage] - 1) = a .. b - 1
      BY <2>4
    <3>3. QED
      BY <2>1, <3>1, <3>2, Zenon
  <2>6. QED
    BY <2>4, <2>5 DEF Paper!HLNext
<1>2. ASSUME clearAll PROVE Paper!HLNext
  <2>1. PICK o \in Offsets : spanAt(spans, o) # {} /\ spans' = removeAt(spans, o)
    BY <1>2 DEF clearAll, overHighlight
  <2>2. PICK s \in spans : s.start <= o /\ o < s.end
    BY <2>1 DEF spanAt
  <2>3. o \in Marked(spans)
    BY <2>1, <2>2 DEF Marked
  <2>4. /\ spanAt(spans, o) = {s}
        /\ \A i \in Marked(spans) :
             (\A j \in Offsets : (i <= j /\ j <= o) \/ (o <= j /\ j <= i) => j \in Marked(spans))
               <=> s.start <= i /\ i < s.end
    BY <2>1, <2>2, SpanIsRun DEF Separated
  <2>5. Paper!Run(o) = {i \in Marked(spans) : s.start <= i /\ i < s.end}
    BY <2>4 DEF Paper!Run, Marked
  <2>6. ASSUME NEW i \in Offsets, s.start <= i, i < s.end,
               NEW t \in spans \ {s}, t.start <= i, i < t.end
        PROVE  FALSE
    <3>1. /\ i \in Nat /\ t.start \in Nat /\ t.end \in Nat
          /\ s.start \in Nat /\ s.end \in Nat
      BY OffsetsAreNat DEF Span
    <3>2. s.end < t.start \/ t.end < s.start
      BY DEF Separated
    <3>3. QED
      BY <2>6, <3>1, <3>2
  <2>7. Marked(spans') = Marked(spans) \ Paper!Run(o)
    <3>1. spans' = spans \ {s}
      BY <2>1, <2>4 DEF removeAt
    <3>2. QED
      BY <2>5, <2>6, <3>1 DEF Marked
  <2>8. (o - lead) + lead = o
    BY <1>0, OffsetsAreNat
  <2>9. Paper!Wipe(o - lead)
    BY <1>0, <2>3, <2>7, <2>8 DEF Paper!Wipe, Marked
  <2>10. o - lead \in Paper!Places
    BY <1>0 DEF Paper!Places
  <2>11. QED
    BY <2>9, <2>10 DEF Paper!HLNext
<1>3. ASSUME Remount PROVE Paper!HLNext
  BY <1>3 DEF Remount, Paper!HLNext, Paper!Forget
<1>4. ASSUME spans' = spans PROVE UNCHANGED Marked(spans)
  BY <1>4 DEF Marked
<1>5. \/ \E from, to \in {Outside} \cup Offsets : highlight(from, to)
      \/ clearAll \/ Remount
      \/ spans' = spans
  BY DEF PaneNext, paneVars, OpenMenu, CloseMenu, ShowPassage, OpenSettings,
         CloseSettings, setSize
<1>6. ASSUME NEW from \in {Outside} \cup Offsets, NEW to \in {Outside} \cup Offsets,
             highlight(from, to)
      PROVE  Paper!HLNext \/ spans' = spans
  BY <1>1, <1>6, HighlightAdds
<1>7. QED
  BY <1>2, <1>3, <1>4, <1>5, <1>6

\* The list of spans implements the highlighter: Highlight paints the selection's
\* characters, moved down by the title and the hint offsetOf counts, and nothing
\* else; "Clear all" wipes one whole unbroken run, found with the same shift, and
\* nothing else (Reading.tsx, highlight, clearAll; highlights.ts, offsetOf).
THEOREM PaneImplementsHighlighter == PaneSpec => HighlightsAreMarks
<1>1. PaneInit => Paper!HLInit
  BY DEF PaneInit, Paper!HLInit
<1>2. PaneInv /\ [PaneNext]_paneVars
        => [Paper!HLNext]_({i \in Offsets : \E s \in spans : s.start <= i /\ i < s.end})
  BY PaneStepIsMark DEF Marked
<1>3. QED
  BY PaneInvariant, <1>1, <1>2, PTL DEF PaneSpec, HighlightsAreMarks, Paper!HLSpec

=============================================================================
