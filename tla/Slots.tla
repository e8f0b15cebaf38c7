------------------------------- MODULE Slots -------------------------------
(***************************************************************************)
(* Opening a speaking slot from the console: the form, what it refuses,    *)
(* what create_slot then stores, and the list of slots the same account    *)
(* may book, which is not a list of what it opened.  What happens in a     *)
(* slot afterwards is module Speaking.                                     *)
(***************************************************************************)
EXTENDS ConsoleBase

CONSTANTS
    Accounts,         \* who may use the form: [admin, teaches, member, minor, rosters, level]
    ClassCentre,      \* class -> its centre
    Ranges,           \* ability ranges that may be typed: [low, high], None for an open end
    Filters,          \* the audiences the list may be narrowed to, None for all
    MaxSlots, LastMoment    \* bounds: slots on the server, the clock

VARIABLES
    viewer,           \* the account using the form
    moment, rendered, \* the time, and the time when the form last checked its draft
    newSlot,          \* [startsAt, ageBand, audience, cohort, range]
    slots,            \* sequence of the slots created (the server)
    opening,          \* the pending POST: the draft it was made from, or None
    slotMade,         \* [slot, shown] as confirmed on the screen, or None
    filter, listed    \* the audience asked for, None for all, and the slots last listed

slotsVars == <<viewer, moment, rendered, newSlot, slots, opening, slotMade, filter, listed>>

AGE_BANDS == {"minor", "adult", "mixed_supervised"}
Audiences == {"public", "org", "cohort"}
BlankDraft == [startsAt |-> None, ageBand |-> None, audience |-> "public", cohort |-> None,
               range |-> [low |-> None, high |-> None]]

SlotsInit ==
    /\ viewer \in Accounts
    /\ moment = 0 /\ rendered = 0 /\ newSlot = BlankDraft
    /\ slots = <<>> /\ opening = None /\ slotMade = None /\ filter = None /\ listed = {}

\* Without an age group, a class, a centre or a start to come the form is refused.
Inverted(r) == r.low # None /\ r.high # None /\ r.low > r.high
hasOrg == viewer.member # {}
Unplaced(d) ==
    \/ d.audience = "cohort" /\ d.cohort = None
    \/ d.audience = "org" /\ ~hasOrg
Past(d) == d.startsAt # None /\ d.startsAt <= rendered
Unsupervised(d) == d.ageBand = "mixed_supervised" /\ d.audience # "cohort"
slotProblems(d) ==
    d.ageBand = None \/ Unsupervised(d) \/ Unplaced(d) \/ Inverted(d.range) \/ d.startsAt = None \/ Past(d)

\* Editing renders the form again, and so checks the draft against the time.
EditedSlot(d) ==
    /\ newSlot' = d /\ rendered' = moment
    /\ UNCHANGED <<viewer, moment, slots, opening, slotMade, filter, listed>>

ChooseAudience == \E a \in Audiences \ {newSlot.audience} : EditedSlot([newSlot EXCEPT !.audience = a])
\* Choosing another centre clears the class, which belongs to the one being left.
ChooseClass ==
    /\ newSlot.audience = "cohort"
    /\ \E c \in (DOMAIN ClassCentre \cup {None}) \ {newSlot.cohort} :
          /\ c # None => viewer.admin \/ ClassCentre[c] \in viewer.member
          /\ EditedSlot([newSlot EXCEPT !.cohort = c])
ChooseAgeBand == \E b \in AGE_BANDS \ {newSlot.ageBand} : EditedSlot([newSlot EXCEPT !.ageBand = b])
EditRange == \E r \in Ranges \ {newSlot.range} : EditedSlot([newSlot EXCEPT !.range = r])
EditStart == \E t \in (1..LastMoment) \ {newSlot.startsAt} : EditedSlot([newSlot EXCEPT !.startsAt = t])

SlotsTick ==
    /\ moment < LastMoment /\ moment' = moment + 1
    /\ UNCHANGED <<viewer, rendered, newSlot, slots, opening, slotMade, filter, listed>>

\* Judged by the last render: time alone renders nothing.
OpenSlot ==
    /\ opening = None /\ ~slotProblems(newSlot) /\ Len(slots) < MaxSlots
    /\ opening' = [newSlot EXCEPT !.cohort = IF newSlot.audience = "cohort" THEN @ ELSE None]
    /\ slotMade' = None
    /\ UNCHANGED <<viewer, moment, rendered, newSlot, slots, filter, listed>>

\* create_slot.  A slot of a class belongs to the class's centre, any other to
\* the first centre the account teaches at; the start is not looked at.
Refused(d) ==
    \/ viewer.teaches = None /\ ~viewer.admin
    \/ Unsupervised(d) \/ Inverted(d.range)
    \/ d.cohort # None /\ ~viewer.admin /\ viewer.teaches # ClassCentre[d.cohort]
Created(d) ==
    [audience |-> d.audience, ageBand |-> d.ageBand, cohort |-> d.cohort,
     range |-> d.range, startsAt |-> d.startsAt,
     org |-> IF d.cohort = None THEN viewer.teaches ELSE ClassCentre[d.cohort]]

\* list_slots: the bookable slots of the account, by its own age, level and place.
Permitted == {IF viewer.minor THEN "minor" ELSE "adult", "mixed_supervised"}
Within(r, level) == (r.low # None => r.low <= level) /\ (r.high # None => r.high >= level)
InReach(s) ==
    /\ s.ageBand \in Permitted
    /\ viewer.level # None => Within(s.range, viewer.level)
    /\ \/ s.audience = "public"
       \/ s.audience = "org" /\ s.org \in viewer.member
       \/ s.audience = "cohort" /\ s.cohort \in viewer.rosters
Bookable == {i \in DOMAIN slots : InReach(slots[i]) /\ slots[i].startsAt >= moment}

appearsInMyList(s) == s.ageBand \in Permitted /\ s.audience # "cohort"

\* The start, the age group and the prompts are cleared, whatever is typed by now.
SlotOpened ==
    /\ opening # None /\ ~Refused(opening)
    /\ slots' = Append(slots, Created(opening))
    /\ slotMade' = [slot |-> Len(slots) + 1, shown |-> appearsInMyList(Created(opening))]
    /\ newSlot' = [newSlot EXCEPT !.startsAt = None, !.ageBand = None]
    /\ opening' = None /\ rendered' = moment
    /\ UNCHANGED <<viewer, moment, filter, listed>>

\* Refused, or lost, with or without the slot: nothing tells a second try from a first.
OpenFails ==
    /\ opening # None
    /\ \/ UNCHANGED slots
       \/ ~Refused(opening) /\ slots' = Append(slots, Created(opening))
    /\ opening' = None /\ rendered' = moment
    /\ UNCHANGED <<viewer, moment, newSlot, slotMade, filter, listed>>

ChooseFilter ==
    /\ filter' \in Filters \ {filter} /\ listed' = {}
    /\ UNCHANGED <<viewer, moment, rendered, newSlot, slots, opening, slotMade>>
Rows == {i \in Bookable : filter = None \/ slots[i].audience = filter}
SlotsListed ==
    /\ listed # Rows /\ listed' = Rows /\ rendered' = moment
    /\ UNCHANGED <<viewer, moment, newSlot, slots, opening, slotMade, filter>>

SlotsNext ==
    \/ ChooseAudience \/ ChooseClass \/ ChooseAgeBand \/ EditRange \/ EditStart
    \/ SlotsTick \/ OpenSlot \/ SlotOpened \/ OpenFails \/ ChooseFilter \/ SlotsListed
=============================================================================
