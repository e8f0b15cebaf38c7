---------------------------- MODULE ReadingPane -----------------------------
(***************************************************************************)
(* The reading pane of the runner: the passage with its highlights, the    *)
(* right-click menu that makes and clears them, and the display settings.  *)
(* A highlight is a span [start, end) of character offsets.  An offset is  *)
(* counted over all the text of the pane, which begins with the title and  *)
(* a hint, and read as an index into the passage: so what is painted lies  *)
(* that lead-in further on than what was selected.  The pane has no key:   *)
(* moving to another section with a passage shows another text to the same *)
(* component, which keeps its spans.                                       *)
(***************************************************************************)
EXTENDS Integers, FiniteSets

CONSTANTS
  Passages,        \* the passages of the paper
  Length,          \* [Passages -> Nat], their lengths in characters
  Lead,            \* [Passages -> Nat], the lengths of the title and the hint above
  MaxLength,       \* the length of the longest pane
  TextSizes,       \* the text sizes offered, and the one a browser starts with
  Standard,
  NoMenu

ASSUME ReadingAssumption ==
  /\ MaxLength \in Nat
  /\ Length \in [Passages -> Nat] /\ Lead \in [Passages -> Nat]
  /\ \A p \in Passages : Lead[p] + Length[p] <= MaxLength
  /\ Standard \in TextSizes

VARIABLES
  passage,         \* the passage on the screen
  spans,           \* the component's highlights, sorted by start: a set
  menu,            \* where the context menu was opened, or NoMenu
  size, sizeStored, settingsOpen

paneVars == <<passage, spans, menu, size, sizeStored, settingsOpen>>

TextEnd == Lead[passage] + Length[passage]      \* the length of the pane's text
Offsets == 0 .. MaxLength
Span    == {s \in [start : Offsets, end : Offsets] : s.start < s.end}

PaneInit ==
  /\ passage \in Passages /\ spans = {} /\ menu = NoMenu
  /\ size = Standard /\ sizeStored = Standard /\ settingsOpen = FALSE

----------------------------------------------------------------------------
(* highlights.ts *)

\* add: what overlaps the new span or touches it is merged into it
Touching_Overlapping(hs, a, b) == {s \in hs : ~ (s.end <= a \/ s.start >= b)}
Touching(hs, a, b) == {s \in hs : ~ (s.end < a \/ s.start > b)}

Least(S)    == CHOOSE x \in S : \A y \in S : x <= y
Greatest(S) == CHOOSE x \in S : \A y \in S : y <= x

Merged(hs, a, b) ==
  [start |-> Least({a} \cup {s.start : s \in Touching(hs, a, b)}),
   end   |-> Greatest({b} \cup {s.end : s \in Touching(hs, a, b)})]

add(hs, a, b) == (hs \ Touching(hs, a, b)) \cup {Merged(hs, a, b)}

spanAt(hs, o)   == {s \in hs : s.start <= o /\ o < s.end}
removeAt(hs, o) == hs \ spanAt(hs, o)

----------------------------------------------------------------------------
(* Reading.tsx *)

\* A place outside the pane is taken for the end of its text
Outside == -1
offsetOf(x) == IF x = Outside THEN TextEnd ELSE x

\* The menu opens where the pointer is, over the title and the hint too.  The
\* selection it may offer to highlight began in the pane.
OpenMenu(o, selected) ==
  /\ ~ settingsOpen /\ o \in 0 .. TextEnd
  /\ menu' = [offset |-> o, hasSelection |-> selected]
  /\ UNCHANGED <<passage, spans, size, sizeStored, settingsOpen>>

CloseMenu == /\ menu # NoMenu /\ menu' = NoMenu
             /\ UNCHANGED <<passage, spans, size, sizeStored, settingsOpen>>

\* The selected range in the order of the page: it may begin above the pane, and
\* is then taken from where it ends to the end of the text, or end below it.
highlight(from, to) ==
  LET a == offsetOf(from) IN LET b == offsetOf(to) IN
  /\ menu # NoMenu /\ menu.hasSelection /\ a <= TextEnd /\ b <= TextEnd
  /\ spans' = CASE a < b -> add(spans, a, b)
                [] b < a -> add(spans, b, a)
                [] OTHER -> spans
  /\ menu' = NoMenu
  /\ UNCHANGED <<passage, size, sizeStored, settingsOpen>>

overHighlight == menu # NoMenu /\ spanAt(spans, menu.offset) # {}

clearAll ==
  /\ overHighlight
  /\ spans' = removeAt(spans, menu.offset)
  /\ menu' = NoMenu
  /\ UNCHANGED <<passage, size, sizeStored, settingsOpen>>

\* Another section.  A click outside the menu closes it.
ShowPassage(p) ==
  /\ p # passage /\ passage' = p /\ menu' = NoMenu
  /\ UNCHANGED <<spans, size, sizeStored, settingsOpen>>

\* a reload, or leaving the runner: highlights never leave the browser's memory
Remount ==
  /\ passage' \in Passages /\ spans' = {} /\ menu' = NoMenu
  /\ size' = sizeStored /\ settingsOpen' = FALSE /\ UNCHANGED sizeStored

----------------------------------------------------------------------------
(* Settings.tsx *)

OpenSettings == /\ ~ settingsOpen /\ settingsOpen' = TRUE
                /\ UNCHANGED <<passage, spans, menu, size, sizeStored>>

\* the choice is applied and written to local storage in one effect
setSize(s) ==
  /\ settingsOpen /\ s # size /\ size' = s /\ sizeStored' = s
  /\ UNCHANGED <<passage, spans, menu, settingsOpen>>

\* the button, a click outside, or Escape, which closes the menu as well
CloseSettings ==
  /\ settingsOpen /\ settingsOpen' = FALSE
  /\ menu' \in {menu, NoMenu}
  /\ UNCHANGED <<passage, spans, size, sizeStored>>

PaneNext ==
  \/ \E o \in Offsets, sel \in BOOLEAN : OpenMenu(o, sel)
  \/ CloseMenu
  \/ \E from, to \in {Outside} \cup Offsets : highlight(from, to)
  \/ clearAll
  \/ \E p \in Passages : ShowPassage(p)
  \/ Remount \/ OpenSettings \/ CloseSettings
  \/ \E s \in TextSizes : setSize(s)

PaneSpec == PaneInit /\ [][PaneNext]_paneVars

----------------------------------------------------------------------------
(* Properties *)

\* Two highlights are never adjacent: a run of marked characters is one span,
\* so that one "Clear all" removes what looks like one highlight.
Separated == \A s, t \in spans : s # t => s.end < t.start \/ t.end < s.start

\* The highlights are a set of characters of the passage that grows by the
\* selection, moved down by the lead-in, and shrinks by a whole run at a time.
Paper == INSTANCE Highlighter WITH Positions <- Offsets, shift <- Lead[passage],
           painted <- {i \in Offsets : \E s \in spans : s.start <= i /\ i < s.end}
HighlightsAreMarks == Paper!HLSpec
=============================================================================
