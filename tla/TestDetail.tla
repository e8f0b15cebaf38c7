---------------------------- MODULE TestDetail ----------------------------
(***************************************************************************)
(* One test of the library and its versions: the edit of its title and     *)
(* tags under an ETag, and starting a draft, cloning, archiving, exporting *)
(* and deleting.  The tag is held in a ref that every fetch overwrites; a  *)
(* clone is shown by the same component, which keeps its state.  Other     *)
(* authors edit, publish and archive, each operation one step.             *)
(***************************************************************************)
EXTENDS ConsoleBase

CONSTANTS
    Titles,           \* what the fields of a test may be
    MaxTests,         \* bound: tests ever made, clones included
    MaxChanges        \* bound: edits, publications and archivings by others

Copied == "copied"    \* the fields a clone starts with: the title gets " (copy)"

VARIABLES
    tests,            \* sequence of [fields, archived, versions] (the server)
    changes,          \* what others did, to bound it
    page,             \* the test the address names, 0 for the list
    etag,             \* the ref: the tag of the last read, or None
    testShown, versionsShown,   \* the two queries of this page, or None
    editingTest, typedFields,   \* the edit form
    savingTest,       \* the pending PATCH [test, fields, tag, landed], or None
    cloning,          \* the pending clone: None, 0, or the test made
    deleting,         \* the pending DELETE: None, or the test and whether it is gone
    exporting,        \* the version whose export is open [test, version], or None
    testRefused       \* an error is shown

testServer == <<tests, changes>>
testQueries == <<etag, testShown, versionsShown>>
testForm == <<editingTest, typedFields, savingTest>>
testMoves == <<cloning, deleting, exporting>>
testVars == <<testServer, page, testQueries, testForm, testMoves, testRefused>>

\* _test_etag: a hash of what can be edited.
etagOf(t) == tests[t].fields
Drafted(f) == [fields |-> f, archived |-> FALSE, versions |-> <<"draft">>]

TestInit ==
    /\ \E f \in Titles : tests = <<Drafted(f)>>
    /\ changes = 0 /\ page = 0
    /\ etag = None /\ testShown = None /\ versionsShown = None
    /\ editingTest = FALSE /\ typedFields = None /\ savingTest = None
    /\ cloning = None /\ deleting = None /\ exporting = None
    /\ testRefused = FALSE

\* A click in the list mounts the component anew.
OpenTest(t) ==
    /\ page = 0 /\ ~tests[t].archived
    /\ page' = t
    /\ etag' = None /\ testShown' = None /\ versionsShown' = None
    /\ editingTest' = FALSE /\ typedFields' = None /\ savingTest' = None
    /\ cloning' = None /\ deleting' = None /\ exporting' = None /\ testRefused' = FALSE
    /\ UNCHANGED testServer

\* On opening, after refresh, and when the window regains focus: the tag is the
\* new one whatever is being typed; the fields are reseeded unless they are open.
TestLoaded ==
    /\ page # 0 /\ testShown # tests[page].fields
    /\ testShown' = tests[page].fields /\ etag' = etagOf(page)
    /\ typedFields' = IF editingTest THEN typedFields ELSE tests[page].fields
    /\ UNCHANGED <<testServer, page, versionsShown, editingTest, savingTest, testMoves, testRefused>>

VersionsLoaded ==
    /\ page # 0 /\ versionsShown # tests[page].versions
    /\ versionsShown' = tests[page].versions
    /\ UNCHANGED <<testServer, page, etag, testShown, testForm, testMoves, testRefused>>

EditDetails ==
    /\ page # 0 /\ ~editingTest /\ editingTest' = TRUE
    /\ UNCHANGED <<testServer, page, testQueries, typedFields, savingTest, testMoves, testRefused>>

TypeDetails ==
    /\ page # 0 /\ editingTest
    /\ \E f \in Titles \ {typedFields} : typedFields' = f
    /\ UNCHANGED <<testServer, page, testQueries, editingTest, savingTest, testMoves, testRefused>>

Reseeded == IF testShown = None THEN typedFields ELSE testShown
CancelDetails ==
    /\ page # 0 /\ editingTest
    /\ editingTest' = FALSE /\ typedFields' = Reseeded
    /\ UNCHANGED <<testServer, page, testQueries, savingTest, testMoves, testRefused>>

SaveDetails ==
    /\ page # 0 /\ editingTest /\ typedFields # None /\ savingTest = None
    /\ IF etag = None THEN testRefused' = TRUE /\ UNCHANGED savingTest
       ELSE /\ savingTest' = [test |-> page, fields |-> typedFields, tag |-> etag, landed |-> FALSE]
            /\ testRefused' = FALSE
    /\ UNCHANGED <<testServer, page, testQueries, editingTest, typedFields, testMoves>>

\* update_test: refused unless the tag is that of what is stored.
TestPatched ==
    /\ savingTest # None /\ ~savingTest.landed
    /\ savingTest.tag = etagOf(savingTest.test)
    /\ tests' = [tests EXCEPT ![savingTest.test].fields = savingTest.fields]
    /\ savingTest' = [savingTest EXCEPT !.landed = TRUE]
    /\ UNCHANGED <<changes, page, testQueries, editingTest, typedFields, testMoves, testRefused>>

DetailsSaved ==
    /\ savingTest # None /\ savingTest.landed
    /\ savingTest' = None /\ editingTest' = FALSE /\ testRefused' = FALSE
    /\ typedFields' = Reseeded
    /\ UNCHANGED <<testServer, page, testQueries, testMoves>>

SaveRefused ==
    /\ savingTest # None
    /\ savingTest' = None /\ testRefused' = TRUE
    /\ UNCHANGED <<testServer, page, testQueries, editingTest, typedFields, testMoves>>

-----------------------------------------------------------------------------
\* The POST carries no body, which new_version requires: 422.
StartDraft ==
    /\ page # 0 /\ ~testRefused
    /\ testRefused' = TRUE
    /\ UNCHANGED <<testServer, page, testQueries, testForm, testMoves>>

CloneTest ==
    /\ page # 0 /\ cloning = None /\ Len(tests) < MaxTests
    /\ cloning' = 0
    /\ UNCHANGED <<testServer, page, testQueries, testForm, deleting, exporting, testRefused>>

TestCloned ==
    /\ cloning = 0 /\ Len(tests) < MaxTests
    /\ tests' = Append(tests, Drafted(Copied)) /\ cloning' = Len(tests) + 1
    /\ UNCHANGED <<changes, page, testQueries, testForm, deleting, exporting, testRefused>>

\* On to the clone: what was typed, the tag and the open export come along.
CloneAnswered ==
    /\ cloning \in DOMAIN tests
    /\ page' = cloning /\ cloning' = None /\ testRefused' = FALSE
    /\ testShown' = None /\ versionsShown' = None
    /\ UNCHANGED <<testServer, etag, testForm, deleting, exporting>>

CloneFails ==
    /\ cloning # None /\ cloning' = None /\ testRefused' = TRUE
    /\ UNCHANGED <<testServer, page, testQueries, testForm, deleting, exporting>>

\* Offered for a version shown as published; archive_version asks no status.
ArchiveVersion ==
    /\ page # 0 /\ versionsShown # None
    /\ \E v \in DOMAIN versionsShown :
         /\ versionsShown[v] = "published" /\ tests[page].versions[v] # "archived"
         /\ tests' = [tests EXCEPT ![page].versions[v] = "archived"]
    /\ UNCHANGED <<changes, page, testQueries, testForm, testMoves, testRefused>>

\* downloadExport is of the version the panel was opened for.
ToggleExport ==
    /\ page # 0 /\ versionsShown # None
    /\ \E v \in DOMAIN versionsShown :
         exporting' = IF exporting = [test |-> page, version |-> v] THEN None
                      ELSE [test |-> page, version |-> v]
    /\ testRefused' = FALSE
    /\ UNCHANGED <<testServer, page, testQueries, testForm, cloning, deleting>>

everPublished ==
    versionsShown # None /\ \E v \in DOMAIN versionsShown : versionsShown[v] # "draft"

\* Offered until the versions are read, too.
DeleteTest ==
    /\ page # 0 /\ ~everPublished /\ deleting = None
    /\ deleting' = [test |-> page, gone |-> FALSE]
    /\ UNCHANGED <<testServer, page, testQueries, testForm, cloning, exporting, testRefused>>

\* delete_test refuses what is published, not what was.
Deletable(t) == \A v \in DOMAIN tests[t].versions : tests[t].versions[v] # "published"

TestDeleted ==
    /\ deleting # None /\ ~deleting.gone /\ Deletable(deleting.test)
    /\ tests' = [tests EXCEPT ![deleting.test].archived = TRUE]
    /\ deleting' = [deleting EXCEPT !.gone = TRUE]
    /\ UNCHANGED <<changes, page, testQueries, testForm, cloning, exporting, testRefused>>

\* Back to the list.
DeleteAnswered ==
    /\ deleting # None /\ deleting.gone
    /\ deleting' = None /\ page' = 0
    /\ UNCHANGED <<testServer, testQueries, testForm, cloning, exporting, testRefused>>

DeleteRefused ==
    /\ deleting # None /\ deleting' = None /\ testRefused' = TRUE
    /\ UNCHANGED <<testServer, page, testQueries, testForm, cloning, exporting>>

-----------------------------------------------------------------------------
AnotherChanges(t) ==
    /\ changes < MaxChanges /\ changes' = changes + 1
    /\ \/ \E f \in Titles \ {tests[t].fields} : tests' = [tests EXCEPT ![t].fields = f]
       \/ \E v \in DOMAIN tests[t].versions :
            \/ /\ tests[t].versions[v] = "draft"
               /\ tests' = [tests EXCEPT ![t].versions[v] = "published"]
            \/ /\ tests[t].versions[v] = "published"
               /\ tests' = [tests EXCEPT ![t].versions[v] = "archived"]
    /\ UNCHANGED <<page, testQueries, testForm, testMoves, testRefused>>

TestNext ==
    \/ \E t \in DOMAIN tests : OpenTest(t) \/ AnotherChanges(t)
    \/ TestLoaded \/ VersionsLoaded
    \/ EditDetails \/ TypeDetails \/ CancelDetails
    \/ SaveDetails \/ TestPatched \/ DetailsSaved \/ SaveRefused
    \/ StartDraft \/ CloneTest \/ TestCloned \/ CloneAnswered \/ CloneFails
    \/ ArchiveVersion \/ ToggleExport
    \/ DeleteTest \/ TestDeleted \/ DeleteAnswered \/ DeleteRefused

=============================================================================
