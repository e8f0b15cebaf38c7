---------------------------- MODULE PaperReview -----------------------------
(***************************************************************************)
(* One paper from the answer controls to the review: what each control of  *)
(* a question hands to the outbox, what the scorer reports of it, and how  *)
(* the review puts the marking back on the paper.  A choice and a text     *)
(* answer are reported slot by slot; a set of options is reported once,    *)
(* under the scorer's own slot "selection".                                *)
(***************************************************************************)
EXTENDS ConsoleBase

CONSTANTS
  Items,        \* the questions of the paper, each in a section
  SectionOf,    \* [Items -> Nat], the section's position on the paper
  KindOf,       \* [Items -> {"choice", "set", "text"}]
  SlotsOf,      \* [Items -> SUBSET slot keys]
  Options,      \* the options of a choice or a set, and the words one can type
  Correct,      \* [Items -> SUBSET Options], the key: for a set all of it, else any of it
  Selection     \* the slot key the scorer reports a set under

VARIABLES
  given,        \* [Items -> [slot keys -> SUBSET Options]], the answer; {} is none
  stage,        \* "sitting", "submitted", "scored"
  policy,       \* the assignment's allow_review_after, and whether it has closed
  windowClosed,
  marking,      \* the review query: "pending", "withheld", "loaded"
  paperQuery    \* the payload query of the review: "pending", "loaded", "failed"

reviewVars == <<given, stage, policy, windowClosed, marking, paperQuery>>

firstSlot(q) == CHOOSE s \in SlotsOf[q] : TRUE

ReviewInit ==
  /\ given = [q \in Items |-> [s \in SlotsOf[q] |-> {}]]
  /\ stage = "sitting" /\ policy \in {"immediately", "after_close", "never"}
  /\ windowClosed = FALSE /\ marking = "pending" /\ paperQuery = "pending"

----------------------------------------------------------------------------
(* Question.tsx: the controls *)

Choose(q, o) ==
  /\ stage = "sitting" /\ KindOf[q] = "choice" /\ given[q][firstSlot(q)] # {o}
  /\ given' = [given EXCEPT ![q][firstSlot(q)] = {o}]
  /\ UNCHANGED <<stage, policy, windowClosed, marking, paperQuery>>

\* one more or one less; more than the key asks for is allowed, and scores zero
toggleSelection(picked, o) == IF o \in picked THEN picked \ {o} ELSE picked \cup {o}

ToggleOption(q, o) ==
  /\ stage = "sitting" /\ KindOf[q] = "set"
  /\ given' = [given EXCEPT ![q][firstSlot(q)] = toggleSelection(@, o)]
  /\ UNCHANGED <<stage, policy, windowClosed, marking, paperQuery>>

\* a gap, a short answer, or one paragraph of a matching question
Write(q, s, o) ==
  /\ stage = "sitting" /\ KindOf[q] = "text" /\ s \in SlotsOf[q] /\ given[q][s] # o
  /\ o \in {{}} \cup {{w} : w \in Options}
  /\ given' = [given EXCEPT ![q][s] = o]
  /\ UNCHANGED <<stage, policy, windowClosed, marking, paperQuery>>

HandIn == /\ stage = "sitting" /\ stage' = "submitted"
          /\ UNCHANGED <<given, policy, windowClosed, marking, paperQuery>>

WindowCloses == /\ ~ windowClosed /\ windowClosed' = TRUE
                /\ UNCHANGED <<given, stage, policy, marking, paperQuery>>

----------------------------------------------------------------------------
(* The scorer *)

set_selection(q) ==
  LET picked == given[q][firstSlot(q)] IN
  [q |-> q, slot |-> Selection, raw |-> picked, max |-> Cardinality(Correct[q]),
   awarded |-> IF Cardinality(picked) > Cardinality(Correct[q]) THEN 0
               ELSE Cardinality(picked \cap Correct[q])]

per_slot(q, s) ==
  [q |-> q, slot |-> s, raw |-> given[q][s], max |-> 1,
   awarded |-> IF given[q][s] # {} /\ given[q][s] \subseteq Correct[q] THEN 1 ELSE 0]

scores == UNION {IF KindOf[q] = "set" THEN {set_selection(q)}
                 ELSE {per_slot(q, s) : s \in SlotsOf[q]} : q \in Items}

Score == /\ stage = "submitted" /\ stage' = "scored"
         /\ UNCHANGED <<given, policy, windowClosed, marking, paperQuery>>

----------------------------------------------------------------------------
(* Review.tsx *)

Withheld == stage # "scored" \/ policy = "never" \/ (policy = "after_close" /\ ~ windowClosed)

\* every refusal is a decision, so the query does not retry; a reload asks again
ReviewLoaded ==
  /\ stage # "sitting" /\ marking # "loaded"
  /\ marking' = IF Withheld THEN "withheld" ELSE "loaded"
  /\ marking' # marking
  /\ UNCHANGED <<given, stage, policy, windowClosed, paperQuery>>

InReview == marking = "loaded"

\* the paper is fetched once the marking is in; the query may try again
PaperAnswered ==
  /\ InReview /\ paperQuery # "loaded" /\ paperQuery' \in {"loaded", "failed"} \ {paperQuery}
  /\ UNCHANGED <<given, stage, policy, windowClosed, marking>>

CloseReview == /\ InReview /\ marking' = "pending" /\ paperQuery' = "pending"
               /\ UNCHANGED <<given, stage, policy, windowClosed>>

\* tally and organise: the questions on the paper section by section, and what
\* was marked but is not on the paper in a section of its own
Plus(S, field(_)) == MapThenFoldSet(+, 0, field, LAMBDA T : CHOOSE x \in T : TRUE, S)
Points(x) == x.awarded
tally(S)  == Plus(S, Points)

onPaper == IF paperQuery = "loaded" THEN Items ELSE {}
shownSections == {SectionOf[q] : q \in onPaper}
scoresIn(n) == {x \in scores : x.q \in onPaper /\ SectionOf[x.q] = n}
orphans == {x \in scores : x.q \notin onPaper}

\* answersFor: a set is put back under the question's own slot
slotShown_AsReported(x) == x.slot
slotShown(x) == IF x.slot = Selection THEN firstSlot(x.q) ELSE x.slot
answersFor(q) == [s \in SlotsOf[q] |->
                    UNION {x.raw : x \in {y \in scores : y.q = q /\ slotShown(y) = s}}]

ReviewNext ==
  \/ \E q \in Items, o \in Options : Choose(q, o) \/ ToggleOption(q, o)
  \/ \E q \in Items : \E s \in SlotsOf[q], o \in SUBSET Options : Write(q, s, o)
  \/ HandIn \/ WindowCloses \/ Score \/ ReviewLoaded \/ PaperAnswered \/ CloseReview

----------------------------------------------------------------------------
\* Whether the paper came with the marking or not, every point awarded is counted
\* in one section of the review, and a question on the paper shows the answer that
\* was given to it, a set under its own slot again (marking.ts, tally, organise, answersFor).
ReviewIsWhole ==
  InReview =>
    /\ tally(scores) = Plus(shownSections, LAMBDA n : tally(scoresIn(n))) + tally(orphans)
    /\ \A q \in onPaper : answersFor(q) = given[q]
=============================================================================
