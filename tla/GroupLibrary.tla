--------------------------- MODULE GroupLibrary ---------------------------
(***************************************************************************)
(* Question groups: the library, the form that makes one, the panel of the *)
(* group that is open with the edit of its rubric and word limit, and the  *)
(* questions added to it by reference.  A group has one version, a draft.  *)
(* Another author works on the same groups through the same screen, each   *)
(* of their operations one step here.                                      *)
(***************************************************************************)
EXTENDS ConsoleBase

CONSTANTS
    BankItems,        \* the question versions the bank offers
    Rubrics, Limits,  \* what may be typed and chosen; limit 0 is "No limit"
    MaxGroups,        \* bound: groups ever made
    MaxItems,         \* bound: questions placed in one group
    MaxGroupEdits     \* bound: saves that reach the server

VARIABLES
    questionGroups,   \* sequence of [rubric, limit, items] (the server)
    groupEdits,       \* PATCHes stored, to bound them
    creatingGroup,    \* the pending POST: None, 0, or the group it made
    openGroup,        \* the group whose panel is open, 0 for none
    detail,           \* what was fetched of the open group, or None
    adding,           \* the question chosen to be added, or None
    addingItem,       \* the pending POST of an item: [group, item, done], or None
    editingGroup,     \* the edit form is shown
    groupEdit,        \* its fields [rubric, limit], and what they were read from
    savingGroup       \* the pending save [group, rubric, limit, from, tag, step], or None

groupServer == <<questionGroups, groupEdits>>
groupPanel == <<openGroup, editingGroup, groupEdit, savingGroup>>
groupAdd == <<adding, addingItem>>
groupVars == <<groupServer, detail, creatingGroup, groupPanel, groupAdd>>

Blank == [rubric |-> None, limit |-> 0]
Unedited == [now |-> Blank, from |-> Blank]
Texts == Rubrics \cup {None}

\* version_etag: the number of a group version is 1 and its checksum stays "".
version_etag(g) == <<1, "">>

GroupInit ==
    /\ questionGroups = <<[rubric |-> None, limit |-> 1, items |-> <<>>]>>
    /\ groupEdits = 0
    /\ creatingGroup = None
    /\ openGroup = 0 /\ detail = None
    /\ adding = None /\ addingItem = None
    /\ editingGroup = FALSE /\ groupEdit = Unedited /\ savingGroup = None

\* Fetched when the panel opens, after a save or an add, and on regaining focus.
DetailLoaded ==
    /\ openGroup # 0 /\ detail # questionGroups[openGroup]
    /\ detail' = questionGroups[openGroup]
    /\ UNCHANGED <<groupServer, creatingGroup, groupPanel, groupAdd>>

\* The body of the POST: a rubric that is typed, a limit that is chosen.
Asked(t, l) == [rubric |-> t, limit |-> l, items |-> <<>>]

CreateGroup ==
    /\ creatingGroup = None /\ Len(questionGroups) < MaxGroups
    /\ creatingGroup' = 0
    /\ UNCHANGED <<groupServer, detail, groupPanel, groupAdd>>

GroupCreated ==
    /\ creatingGroup = 0 /\ Len(questionGroups) < MaxGroups
    /\ \E t \in Texts, l \in Limits :
         questionGroups' = Append(questionGroups, Asked(t, l))
    /\ creatingGroup' = Len(questionGroups) + 1
    /\ UNCHANGED <<groupEdits, detail, groupPanel, groupAdd>>

\* Straight into the new group; an edit that is open stays open.
CreateAnswered ==
    /\ creatingGroup \in DOMAIN questionGroups
    /\ creatingGroup' = None /\ openGroup' = creatingGroup /\ detail' = None
    /\ UNCHANGED <<groupServer, editingGroup, groupEdit, savingGroup, groupAdd>>

CreateFails ==
    /\ creatingGroup # None /\ creatingGroup' = None
    /\ UNCHANGED <<groupServer, detail, groupPanel, groupAdd>>

\* "Questions" and "Close": neither the edit form nor the chosen question is reset.
OpenGroup(g) ==
    /\ openGroup' = IF openGroup = g THEN 0 ELSE g
    /\ detail' = None
    /\ UNCHANGED <<groupServer, creatingGroup, editingGroup, groupEdit, savingGroup, groupAdd>>

Panel == openGroup # 0 /\ detail # None
-----------------------------------------------------------------------------
Written(d) == [rubric |-> d.rubric, limit |-> d.limit]
EditGroup ==
    /\ Panel /\ ~editingGroup
    /\ editingGroup' = TRUE
    /\ groupEdit' = [now |-> Written(detail), from |-> Written(detail)]
    /\ UNCHANGED <<groupServer, detail, creatingGroup, openGroup, savingGroup, groupAdd>>

TypeEdit ==
    /\ Panel /\ editingGroup
    /\ \E e \in [rubric : Texts, limit : Limits] \ {groupEdit.now} :
         groupEdit' = [groupEdit EXCEPT !.now = e]
    /\ UNCHANGED <<groupServer, detail, creatingGroup, openGroup, editingGroup, savingGroup,
                   groupAdd>>

CancelEdit ==
    /\ Panel /\ editingGroup /\ editingGroup' = FALSE /\ groupEdit' = Unedited
    /\ UNCHANGED <<groupServer, detail, creatingGroup, openGroup, savingGroup, groupAdd>>

\* The body is fixed when the button is pressed.
SaveGroup ==
    /\ Panel /\ editingGroup /\ savingGroup = None
    /\ savingGroup' = [group |-> openGroup, edit |-> groupEdit, tag |-> None, step |-> "read"]
    /\ UNCHANGED <<groupServer, detail, creatingGroup, openGroup, editingGroup, groupEdit, groupAdd>>

\* useVersionEdit: the tag is read when the write is about to be made.
TagRead ==
    /\ savingGroup # None /\ savingGroup.step = "read"
    /\ savingGroup' = [savingGroup EXCEPT !.step = "patch",
                                          !.tag = version_etag(questionGroups[savingGroup.group])]
    /\ UNCHANGED <<groupServer, detail, creatingGroup, openGroup, editingGroup, groupEdit, groupAdd>>

\* update_group_version: "No limit" sends no word_limit, and what is not sent stays.
Patched(g, e) ==
    [g EXCEPT !.rubric = e.rubric, !.limit = IF e.limit = 0 THEN g.limit ELSE e.limit]
GroupPatched ==
    /\ savingGroup # None /\ savingGroup.step = "patch" /\ groupEdits < MaxGroupEdits
    /\ savingGroup.tag = version_etag(questionGroups[savingGroup.group])
    /\ questionGroups' = [questionGroups EXCEPT ![savingGroup.group] = Patched(@, savingGroup.edit.now)]
    /\ groupEdits' = groupEdits + 1
    /\ savingGroup' = [savingGroup EXCEPT !.step = "done"]
    /\ UNCHANGED <<detail, creatingGroup, openGroup, editingGroup, groupEdit, groupAdd>>

\* The form closes, whichever group is open by now.
SaveAnswered ==
    /\ savingGroup # None /\ savingGroup.step = "done"
    /\ savingGroup' = None /\ editingGroup' = FALSE /\ groupEdit' = Unedited
    /\ UNCHANGED <<groupServer, detail, creatingGroup, openGroup, groupAdd>>

\* Refused, or a request or an answer was lost: the form stays as it is.
SaveFails ==
    /\ savingGroup # None /\ savingGroup' = None
    /\ UNCHANGED <<groupServer, detail, creatingGroup, openGroup, editingGroup, groupEdit, groupAdd>>

-----------------------------------------------------------------------------
already == Range(detail.items)
ChooseItem ==
    /\ Panel
    /\ \E q \in BankItems \ already : q # adding /\ adding' = q
    /\ UNCHANGED <<groupServer, detail, creatingGroup, groupPanel, addingItem>>

\* The choice is sent as it stands, offered by this panel or not.
AddItem ==
    /\ Panel /\ adding # None /\ addingItem = None
    /\ addingItem' = [group |-> openGroup, item |-> adding, done |-> FALSE]
    /\ UNCHANGED <<groupServer, detail, creatingGroup, groupPanel, adding>>

\* add_group_item: the next position; whether it is there already is not asked.
ItemAdded ==
    /\ addingItem # None /\ ~addingItem.done
    /\ Len(questionGroups[addingItem.group].items) < MaxItems
    /\ questionGroups' = [questionGroups EXCEPT ![addingItem.group].items = Append(@, addingItem.item)]
    /\ addingItem' = [addingItem EXCEPT !.done = TRUE]
    /\ UNCHANGED <<groupEdits, detail, creatingGroup, groupPanel, adding>>

AddAnswered ==
    /\ addingItem # None /\ addingItem.done
    /\ addingItem' = None /\ adding' = None
    /\ UNCHANGED <<groupServer, detail, creatingGroup, groupPanel>>

AddFails ==
    /\ addingItem # None /\ addingItem' = None
    /\ UNCHANGED <<groupServer, detail, creatingGroup, groupPanel, adding>>

\* The other author saves an edit of theirs.
AnotherSaves(g) ==
    /\ groupEdits < MaxGroupEdits
    /\ \E e \in [rubric : Texts, limit : Limits] :
         Patched(questionGroups[g], e) # questionGroups[g] /\ questionGroups' = [questionGroups EXCEPT ![g] = Patched(@, e)]
    /\ groupEdits' = groupEdits + 1
    /\ UNCHANGED <<detail, creatingGroup, groupPanel, groupAdd>>

GroupNext ==
    \/ DetailLoaded \/ CreateGroup \/ GroupCreated
    \/ CreateAnswered \/ CreateFails
    \/ \E g \in DOMAIN questionGroups : OpenGroup(g) \/ AnotherSaves(g)
    \/ EditGroup \/ TypeEdit \/ CancelEdit \/ SaveGroup \/ TagRead \/ GroupPatched
    \/ SaveAnswered \/ SaveFails
    \/ ChooseItem \/ AddItem \/ ItemAdded \/ AddAnswered \/ AddFails

-----------------------------------------------------------------------------
\* "The round trip is what makes the second one lose loudly rather than silently
\* win": a save lands only on the group its form was filled from
\* (useVersionEdit.ts, check_if_match).
SecondLosesLoudly ==
    [][GroupPatched => Written(questionGroups[savingGroup.group]) = savingGroup.edit.from]_groupVars
=============================================================================
