---------------------------- MODULE Composition ----------------------------
(***************************************************************************)
(* The console's composition screen: the sections of a test version, their *)
(* order, its review and its publication, with the handlers of the server. *)
(* One person has the version open, on the data the screen last fetched,   *)
(* while a colleague edits and decides through the same handlers.          *)
(*                                                                         *)
(* The rest of a version's content is abstracted to whether it has changed *)
(* since the fingerprint of the latest approval.                           *)
(***************************************************************************)
EXTENDS ConsoleBase

CONSTANTS
    People,       \* staff of the centre who may edit and publish
    Author,       \* the one who created the version
    Sections,     \* the sections the test may have
    Initially,    \* how many of them it may have at first
    MaxEdits      \* bound on the edits and drags begun

ASSUME CompositionAssumption == Author \in People /\ Initially \subseteq 0 .. Cardinality(Sections)

VARIABLES
    position,     \* section -> its position, 0 when it is not in the version
    edits,        \* edits and drags begun so far
    status,       \* draft, in_review, published
    review,       \* the row the screen shows: [state, requestedBy]
    approval,     \* the latest approved row's fingerprint: "current", "moved", or None
    required,     \* the centre's require_review
    me,           \* who is at the screen
    view,         \* the version as the screen last fetched it, or None
    validated,    \* whether the last run of the gate passed
    drags,        \* the section orders being saved: [desired, moves], the desired
                  \* None once somebody else has changed the version
    publishing    \* whether a publish under way has passed its checks

compositionServer == <<position, edits, status, review, approval>>
compositionVars == <<compositionServer, required, me, view, validated, drags, publishing>>

NoReview == [state |-> None, requestedBy |-> None]

CompositionInit ==
    /\ LET order == SetToSeq(Sections)
       IN \E n \in Initially : position = [s \in Sections |->
              LET i == CHOOSE j \in DOMAIN order : order[j] = s
              IN IF i <= n THEN i ELSE 0]
    /\ edits = 0 /\ status = "draft" /\ review = NoReview /\ approval = None
    /\ required \in BOOLEAN
    /\ me \in People
    /\ view = None /\ validated = FALSE /\ drags = <<>> /\ publishing = FALSE

-----------------------------------------------------------------------------
(* ordering.ts and the positions of the server. *)

Placed(pos) == {s \in Sections : pos[s] # 0}
InOrder(pos) == SetToSortSeq(Placed(pos), LAMBDA s, t : pos[s] < pos[t])

\* reorder: take the element out, put it back at the target.
reorder(items, from, to) == InsertAt(RemoveAt(items, from), to, items[from])

\* sectionMoves: a PATCH for every section that is not where it is wanted.
sectionMoves(desired, pos) ==
    SelectSeq([i \in DOMAIN desired |-> [xid |-> desired[i], position |-> i]],
              LAMBDA m : pos[m.xid] # m.position)

isContiguous(pos) ==
    {pos[s] : s \in Placed(pos)} = 1 .. Cardinality(Placed(pos))

\* _move_section: only the span the section travels over shifts.
Between_Below(frm, to) == 1 .. to
Between(frm, to) == IF to > frm THEN (frm + 1) .. to ELSE to .. (frm - 1)
Moved(pos, s, wanted) ==
    LET n == Cardinality(Placed(pos))
        to == Max({1, Min({wanted, n})})
        frm == pos[s]
        delta == IF to > frm THEN -1 ELSE 1
    IN [t \in Sections |->
        IF t = s THEN to
        ELSE IF pos[t] # 0 /\ pos[t] \in Between(frm, to) THEN pos[t] + delta
        ELSE pos[t]]

\* create_section: clamped, then everything at or after it moves down.
Inserted(pos, s, wanted) ==
    LET at == Min({wanted, Cardinality(Placed(pos)) + 1})
    IN [t \in Sections |-> IF t = s THEN at
                           ELSE IF pos[t] >= at THEN pos[t] + 1 ELSE pos[t]]

\* delete_section and _close_position_gap.
Deleted(pos, s) ==
    [t \in Sections |-> IF t = s THEN 0
                        ELSE IF pos[t] > pos[s] THEN pos[t] - 1 ELSE pos[t]]

-----------------------------------------------------------------------------
Mutable == status # "published"                                 \* _mutable

\* A drag under way is no longer about what its author saw.
Disturbed == [i \in DOMAIN drags |-> [drags[i] EXCEPT !.desired = None]]

\* The digest of everything the gate reads moves with every change.
Outdated(a) == IF a = None THEN None ELSE "moved"

Edited ==
    /\ Mutable /\ edits < MaxEdits
    /\ edits' = edits + 1 /\ approval' = Outdated(approval)
    /\ drags' = Disturbed

\* is_stale: the approved fingerprint is not the current one.
Stale == review.state = "approved" /\ approval = "moved"

\* can_decide: an open request, and neither its author nor its submitter.
CanDecide(p) ==
    review.state = "requested" /\ p \notin {review.requestedBy, Author}

\* GET /test-versions/{xid}, after any change or when the window regains focus.
Fetched == [position |-> position, status |-> status, state |-> review.state, stale |-> Stale]
Refresh ==
    /\ view # Fetched
    /\ view' = Fetched
    /\ UNCHANGED <<compositionServer, required, me, validated, drags, publishing>>

Loaded == view # None
Draft == Loaded /\ view.status = "draft"
sectionsShown == InOrder(view.position)
Reviewing == Loaded /\ view.state = "requested"
CanSubmit == Loaded /\ (Draft \/ view.stale)

-----------------------------------------------------------------------------
(* Editing. *)

AddSection ==
    /\ Draft /\ Edited
    /\ \E s \in Sections :
        /\ position[s] = 0
        /\ position' = Inserted(position, s, Cardinality(Placed(view.position)) + 1)
    /\ UNCHANGED <<status, review, required, me, view, validated,
                   publishing>>

RemoveSection ==
    /\ Draft /\ Edited
    /\ \E s \in Placed(view.position) :
        /\ position[s] # 0
        /\ position' = Deleted(position, s)
    /\ UNCHANGED <<status, review, required, me, view, validated,
                   publishing>>

\* A group is attached, the groups of a section are put in another order, the
\* band map is set; a list or an ETag that is stale is refused.
EditContent ==
    /\ Loaded /\ Edited
    /\ UNCHANGED <<position, status, review, required, me, view, validated,
                   publishing>>

\* onSectionDragEnd: the handles are there whatever the status, and while an
\* earlier drag is being saved.
DragSection ==
    /\ Loaded /\ edits < MaxEdits /\ edits' = edits + 1
    /\ \E from, to \in DOMAIN sectionsShown :
         /\ from # to
         /\ LET desired == reorder(sectionsShown, from, to)
            IN drags' = Append(drags, [desired |-> IF view.position = position THEN desired ELSE None,
                                       moves |-> sectionMoves(desired, view.position)])
    /\ UNCHANGED <<position, status, review, approval, required, me, view, validated, publishing>>

\* One PATCH of a sequence; only a completed sequence is followed by a refetch.
PatchPosition(i) ==
    /\ LET move == Head(drags[i].moves)
       IN /\ Mutable /\ position[move.xid] # 0
          /\ position' = Moved(position, move.xid, move.position)
    /\ LET rest == [drags[i] EXCEPT !.moves = Tail(@)]
       IN drags' = IF rest.moves = <<>> THEN RemoveAt(Disturbed, i) ELSE [Disturbed EXCEPT ![i] = rest]
    /\ approval' = IF position' = position THEN approval ELSE Outdated(approval)
    /\ UNCHANGED <<edits, status, review, required, me, view, validated, publishing>>

\* The first refusal or loss ends it.
PatchFails(i) ==
    /\ drags' = RemoveAt(drags, i)
    /\ UNCHANGED <<compositionServer, required, me, view, validated, publishing>>

-----------------------------------------------------------------------------
(* Review and publication. *)

\* The publish gate: here, a version without sections does not pass.
GatePasses == Placed(position) # {}

\* The result stays on the screen until the next run, whatever is edited.
Validate ==
    /\ Loaded /\ validated # GatePasses
    /\ validated' = GatePasses
    /\ UNCHANGED <<compositionServer, required, me, view, drags, publishing>>

SubmitReview ==
    /\ CanSubmit
    /\ Mutable /\ GatePasses
    /\ status' = "in_review"
    /\ review' = [state |-> "requested", requestedBy |-> me]
    /\ UNCHANGED <<position, edits, approval, required, me, view, validated, drags, publishing>>

\* The button is there when the last fetch said can_decide; the server asks
\* again, and fingerprints what it reads at that moment.
Approve ==
    /\ Reviewing
    /\ status = "in_review" /\ CanDecide(me)
    /\ review' = [review EXCEPT !.state = "approved"]
    /\ approval' = "current"
    /\ UNCHANGED <<position, edits, status, required, me, view, validated, drags, publishing>>

RequestChanges ==
    /\ Reviewing
    /\ status = "in_review" /\ CanDecide(me)
    /\ status' = "draft"
    /\ review' = [review EXCEPT !.state = "changes_requested"]
    /\ UNCHANGED <<position, edits, approval, required, me, view, validated, drags, publishing>>

\* require_approval: where the centre reviews, the latest approved row must
\* carry the fingerprint of the composition just read.
LatestApproval == required => approval = "current"
Publishable ==
    \/ Draft
    \/ Loaded /\ view.status = "in_review" /\ view.state = "approved"
                 /\ ~view.stale
CheckPublish ==
    /\ Publishable /\ validated /\ ~publishing
    /\ Mutable /\ GatePasses /\ LatestApproval
    /\ publishing' = TRUE
    /\ UNCHANGED <<compositionServer, required, me, view, validated, drags>>

\* publish reads the composition a second time, whatever it has become, writes the
\* snapshot, commits.
Publish ==
    /\ publishing
    /\ publishing' = FALSE /\ status' = "published"
    /\ UNCHANGED <<position, edits, review, approval, required, me, view,
                   validated, drags>>

(* The colleague, at another screen. *)

ColleagueEdits ==
    /\ Edited
    /\ \/ \E s \in Sections : position[s] = 0 /\ \E i \in 1 .. Cardinality(Sections) :
             position' = Inserted(position, s, i)
       \/ \E s \in Placed(position) : position' = Deleted(position, s)
       \/ position' = position
    /\ UNCHANGED <<status, review, required, me, view,
                   validated, publishing>>

Colleague == People \ {me}
ColleagueSubmits ==
    /\ Mutable /\ GatePasses /\ review.state # "requested"
    /\ status' = "in_review"
    /\ \E p \in Colleague : review' = [state |-> "requested", requestedBy |-> p]
    /\ UNCHANGED <<position, edits, approval, required, me,
                   view, validated, drags, publishing>>

ColleagueDecides ==
    /\ status = "in_review"
    /\ \E p \in Colleague :
        /\ CanDecide(p)
        /\ \/ /\ review' = [review EXCEPT !.state = "approved"]
              /\ approval' = "current"
              /\ UNCHANGED status
           \/ /\ review' = [review EXCEPT !.state = "changes_requested"]
              /\ status' = "draft" /\ UNCHANGED approval
    /\ UNCHANGED <<position, edits, required, me, view,
                   validated, drags, publishing>>

-----------------------------------------------------------------------------
CompositionNext ==
    \/ Refresh \/ AddSection \/ RemoveSection \/ EditContent \/ DragSection
    \/ \E i \in DOMAIN drags : PatchPosition(i) \/ PatchFails(i)
    \/ Validate \/ SubmitReview \/ Approve
    \/ RequestChanges \/ CheckPublish \/ Publish
    \/ ColleagueEdits \/ ColleagueSubmits \/ ColleagueDecides

-----------------------------------------------------------------------------
(* Properties. *)

\* A drag nobody disturbed lands where it was dropped: the PATCHes applied one
\* at a time converge (sectionMoves, _move_section), and leave no gap.
DragLands ==
    [][\A i \in DOMAIN drags :
          drags[i].desired # None /\ Len(drags[i].moves) = 1 /\ PatchPosition(i)
              => InOrder(position') = drags[i].desired /\ isContiguous(position')]_compositionVars
=============================================================================
