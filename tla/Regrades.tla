------------------------------ MODULE Regrades ------------------------------
(***************************************************************************)
(* The console's screen for answer keys and regrades, with the server it   *)
(* talks to: a corrected key is a new version and stages a dry run, a      *)
(* worker plans it, a person reads the impact and applies it, a worker     *)
(* rescores.                                                               *)
(*                                                                         *)
(* A key is represented by the question its answers were written for: what *)
(* the properties tell apart is whose key was saved where, and which       *)
(* version of a key a score was computed with.                             *)
(***************************************************************************)
EXTENDS ConsoleBase

CONSTANTS
    Questions,          \* question versions that have a key editor
    Keyless,            \* those whose key has not been written yet
    MaxKeyVersions,     \* bound on the versions of one key
    MaxJobs,            \* bound on regrade jobs
    Workers,            \* threads that take messages from the queue "regrade"
    Retries,            \* ["plan" |-> max_retries, "apply" |-> max_retries]: 3 and 1
    MaxRedelivered      \* bound on messages the broker delivers again

Jobs == 1 .. MaxJobs
InFlight == {"planning", "running"}                       \* IN_FLIGHT
Settled == {"ready", "running", "completed", "failed"}    \* SETTLED

VARIABLES
    \* the server
    keys,          \* question -> its key versions, oldest first
    jobs,          \* sequence of regrade jobs
    messages,      \* the queue "regrade": [actor, job, tries]
    working,       \* worker -> the delivery it handles, or None
    redelivered,   \* messages delivered again so far
    overlapped,    \* history: jobs of which two deliveries were handled at once
    scoredWith,    \* question -> key version the current runs were scored with
    \* the screen
    questionVersionXid,  \* the question chosen
    keyHistory,    \* question -> number of versions in the query's data, or -1
    editor,        \* keyValue/keyText, seededFrom: [of, seededFrom]
    fixKey,        \* the pending mutation [question, key], or None
    subjectXid,    \* the subject chosen in the form that stages by hand, or None
    jobList,       \* how many jobs the list shows
    opened,        \* the job whose impact is open, or None
    impact,        \* job -> [status, version] as last fetched, or None
    asking,        \* the job the dialog asks about, or None
    apply          \* the job whose apply is pending, or None

queue == <<working, redelivered, overlapped, scoredWith>>
regradeServer == <<keys, jobs, messages, queue>>
keyForm == <<questionVersionXid, keyHistory, editor, fixKey>>
stageForm == <<subjectXid, jobList>>
panel == <<opened, impact, asking, apply>>
regradeVars == <<regradeServer, keyForm, stageForm, panel>>

RegradesInit ==
    /\ keys = [q \in Questions |-> IF q \in Keyless THEN <<>> ELSE <<q>>]
    /\ jobs = <<>> /\ messages = {}
    /\ working = [w \in Workers |-> None] /\ redelivered = 0 /\ overlapped = {}
    /\ scoredWith = [q \in Questions |-> Len(keys[q])]
    /\ questionVersionXid = None
    /\ keyHistory = [q \in Questions |-> -1]
    /\ editor = [of |-> None, seededFrom |-> None]
    /\ fixKey = None /\ subjectXid = None /\ jobList = 0
    /\ opened = None /\ impact = [j \in Jobs |-> None]
    /\ asking = None /\ apply = None

-----------------------------------------------------------------------------
(* The server. *)

\* fix_answer_key: the new version supersedes the current one; a dry run is
\* staged at the same time, because the item has been sat, and its planning is
\* requested through the outbox.
FixedKeys(q, k) == [keys EXCEPT ![q] = Append(@, k)]
Staged(q) == Append(jobs, [question |-> q, status |-> "planning",
                           dryRun |-> TRUE, planned |-> 0, rescored |-> 0])
Requested(actor, j) == messages \cup {[actor |-> actor, job |-> j, tries |-> 0]}
FixAnswerKey(q, k) ==
    /\ Len(keys[q]) < MaxKeyVersions /\ Len(jobs) < MaxJobs
    /\ keys' = FixedKeys(q, k)
    /\ jobs' = Staged(q)
    /\ messages' = Requested("plan", Len(jobs) + 1)

\* The statuses the two actors read, without a lock, before their long work: a
\* redelivered apply finds the job completed.
Admits_Always(actor) == IF actor = "plan" THEN {"planning", "ready"} ELSE InFlight \cup Settled
Admits(actor) == CASE actor = "plan"  -> {"planning", "ready"}
                   [] actor = "apply" -> {"running", "ready", "failed"}

Handles(w, j) == working[w] # None /\ working[w].job = j

\* A worker takes a message and reads the job; one it does not admit is done.
Delivered(w, m) ==
    /\ working[w] = None /\ m \in messages
    /\ messages' = messages \ {m}
    /\ LET status == jobs[m.job].status IN
       IF status \in Admits(m.actor)
       THEN /\ working' = [working EXCEPT ![w] =
                  [actor |-> m.actor, job |-> m.job, tries |-> m.tries,
                   seen |-> status, key |-> None, from |-> None]]
            /\ overlapped' = overlapped \cup {j \in {m.job} : \E v \in Workers : Handles(v, j)}
       ELSE UNCHANGED <<working, overlapped>>
    /\ UNCHANGED <<keys, jobs, redelivered, scoredWith, keyForm, stageForm, panel>>

\* It recomputes with the keys in force, against the runs that are current.
Recomputed(w) ==
    /\ working[w] # None /\ working[w].key = None
    /\ LET q == jobs[working[w].job].question IN
       working' = [working EXCEPT ![w].key = Len(keys[q]), ![w].from = scoredWith[q]]
    /\ UNCHANGED <<keys, jobs, messages, redelivered, overlapped, scoredWith, keyForm,
                   stageForm, panel>>

\* plan_regrade writes only counts.  The ORM writes the status when it is not the
\* one that was read.
Planned(w) ==
    /\ working[w] # None /\ working[w].actor = "plan" /\ working[w].key # None
    /\ jobs' = [jobs EXCEPT
                  ![working[w].job].planned = working[w].key,
                  ![working[w].job].status = IF working[w].seen = "ready" THEN @ ELSE "ready"]
    /\ working' = [working EXCEPT ![w] = None]
    /\ UNCHANGED <<keys, messages, redelivered, overlapped, scoredWith, keyForm, stageForm,
                   panel>>

\* apply_regrade commits whole.  An attempt whose score moved gets a new run that
\* supersedes the current one: the one it compared with, or, when another delivery
\* has committed since and its write had not begun by then, that delivery's.
Applied(w) ==
    /\ working[w] # None /\ working[w].actor = "apply" /\ working[w].key # None
    /\ LET q == jobs[working[w].job].question IN
       scoredWith' = IF working[w].key = working[w].from THEN scoredWith
                     ELSE [scoredWith EXCEPT ![q] = working[w].key]
    /\ jobs' = [jobs EXCEPT ![working[w].job].status = "completed",
                            ![working[w].job].dryRun = FALSE,
                            ![working[w].job].rescored = @ + 1]
    /\ working' = [working EXCEPT ![w] = None]
    /\ UNCHANGED <<keys, messages, redelivered, overlapped, keyForm, stageForm, panel>>

\* It raises and rolls back: an error, the unique index on current runs when the
\* write waited for another delivery's, or the time limit, an interrupt that the
\* handler does not catch.  Caught in an apply, the failure is recorded in a second
\* transaction.  The message comes again until its retries are used up.
Raised(w) ==
    /\ working[w] # None
    /\ LET d == working[w] IN
       /\ messages' = IF d.tries = Retries[d.actor] THEN messages
                      ELSE messages \cup {[actor |-> d.actor, job |-> d.job,
                                           tries |-> d.tries + 1]}
       /\ \/ UNCHANGED jobs
          \/ /\ d.actor = "apply" /\ jobs[d.job].status \in {"running", "failed"}
             /\ jobs' = [jobs EXCEPT ![d.job].status = "failed"]
    /\ working' = [working EXCEPT ![w] = None]
    /\ UNCHANGED <<keys, redelivered, overlapped, scoredWith, keyForm, stageForm, panel>>

\* The broker takes a worker for dead and delivers its message again: it may be.
Redelivered(w) ==
    /\ working[w] # None /\ redelivered < MaxRedelivered
    /\ redelivered' = redelivered + 1
    /\ messages' = messages \cup {[actor |-> working[w].actor, job |-> working[w].job,
                                   tries |-> working[w].tries]}
    /\ \/ UNCHANGED working
       \/ working' = [working EXCEPT ![w] = None]
    /\ UNCHANGED <<keys, jobs, overlapped, scoredWith, keyForm, stageForm, panel>>

\* POST /regrades/{xid}/apply: only a planned job, once.
ApplyRequested(j) ==
    /\ jobs' = [jobs EXCEPT ![j].status = "running", ![j].dryRun = FALSE]
    /\ messages' = Requested("apply", j)

CanApply(j) == jobs[j].status = "ready"

-----------------------------------------------------------------------------
(* The form that corrects a key. *)

\* What rendering does with the cached history h of the chosen question c: when
\* its newest version is not the one the editor was seeded from, the editor is
\* filled again, typing and JSON included. No data or no version: nothing.
Seeded(c, h) ==
    IF c # None /\ h[c] > 0 /\ editor.seededFrom # <<c, h[c]>>
    THEN [of |-> keys[c][h[c]], seededFrom |-> <<c, h[c]>>]
    ELSE editor

Chosen(q) ==
    /\ questionVersionXid' = q
    /\ editor' = Seeded(q, keyHistory)
    /\ UNCHANGED <<regradeServer, keyHistory, fixKey, stageForm, panel>>
ChooseQuestion == \E q \in Questions \ {questionVersionXid} : Chosen(q)

\* The query of the chosen question answers: the first load, or a refetch.
KeyHistoryLoaded ==
    /\ questionVersionXid # None
    /\ LET q == questionVersionXid
           h == [keyHistory EXCEPT ![q] = Len(keys[q])]
       IN /\ h # keyHistory
          /\ keyHistory' = h
          /\ editor' = Seeded(q, h)
    /\ UNCHANGED <<regradeServer, questionVersionXid, fixKey, stageForm, panel>>

\* Typing in the boxes, or pasting JSON over them: what was empty becomes a key
\* for the question on screen; a filled editor is amended.
EditKey ==
    /\ questionVersionXid # None /\ editor.of = None
    /\ editor' = [editor EXCEPT !.of = questionVersionXid]
    /\ UNCHANGED <<regradeServer, questionVersionXid, keyHistory, fixKey, stageForm,
                   panel>>

\* The button is disabled by a pending save or no question, and by nothing
\* else; an empty editor throws before the request.
SaveKey ==
    /\ questionVersionXid # None /\ fixKey = None
    /\ editor.of # None
    /\ fixKey' = [question |-> questionVersionXid, key |-> editor.of]
    /\ UNCHANGED <<regradeServer, questionVersionXid, keyHistory, editor, stageForm,
                   panel>>

\* onSuccess runs with the options of the latest render: it opens the staged
\* job and refetches the history of the question chosen by then.
KeySaved ==
    /\ fixKey # None
    /\ FixAnswerKey(fixKey.question, fixKey.key)
    /\ \/ /\ fixKey' = None
          /\ opened' = Len(jobs) + 1
          /\ jobList' = Len(jobs) + 1
       \/ fixKey' = None /\ UNCHANGED <<opened, jobList>>    \* the answer is lost
    /\ UNCHANGED <<queue, questionVersionXid, keyHistory, editor, subjectXid, impact, asking, apply>>

KeyRefused ==
    /\ fixKey # None
    /\ fixKey' = None
    /\ UNCHANGED <<regradeServer, questionVersionXid, keyHistory, editor, stageForm,
                   panel>>

-----------------------------------------------------------------------------
(* The form that stages a regrade by hand, and the panel of one job. *)

\* Choosing another kind of subject clears the one chosen.
ChooseSubject ==
    /\ \E q \in Questions \cup {None} : q # subjectXid /\ subjectXid' = q
    /\ UNCHANGED <<regradeServer, keyForm, jobList, panel>>

\* POST /regrades: the answer clears the form and opens the job.
Stage ==
    /\ subjectXid # None /\ Len(jobs) < MaxJobs
    /\ jobs' = Staged(subjectXid)
    /\ messages' = Requested("plan", Len(jobs) + 1)
    /\ opened' = Len(jobs) + 1 /\ jobList' = Len(jobs) + 1
    /\ subjectXid' = None
    /\ UNCHANGED <<keys, queue, keyForm, impact, asking, apply>>

JobsLoaded ==
    /\ jobList < Len(jobs)
    /\ jobList' = Len(jobs)
    /\ UNCHANGED <<regradeServer, keyForm, subjectXid, panel>>

Dialog == asking # None          \* the modal is in front of everything

Toggle ==
    /\ ~Dialog
    /\ \E j \in 1 .. jobList : opened' = IF opened = j THEN None ELSE j
    /\ UNCHANGED <<regradeServer, keyForm, stageForm, impact, asking, apply>>

\* The impact query: fetched when opened, polled while the job it last saw was
\* in flight, refetched when an apply succeeds.
ImpactLoaded ==
    /\ opened # None
    /\ LET seen == [status |-> jobs[opened].status, version |-> jobs[opened].planned]
       IN /\ impact[opened] # seen
          /\ impact' = [impact EXCEPT ![opened] = seen]
    /\ UNCHANGED <<regradeServer, keyForm, stageForm, opened, asking, apply>>

\* The Apply button of the panel: a planned job, as last fetched.
Applicable ==
    /\ opened # None /\ impact[opened] # None
    /\ impact[opened].status = "ready"

AskApply ==
    /\ Applicable /\ apply = None /\ ~Dialog
    /\ asking' = opened
    /\ UNCHANGED <<regradeServer, keyForm, stageForm, opened, impact, apply>>

CancelApply ==
    /\ Dialog /\ apply = None
    /\ asking' = None
    /\ UNCHANGED <<regradeServer, keyForm, stageForm, opened, impact, apply>>

\* The dialog restates the numbers of the impact on screen.
ConfirmApply ==
    /\ Dialog /\ apply = None /\ Applicable /\ asking = opened
    /\ apply' = opened
    /\ UNCHANGED <<regradeServer, keyForm, stageForm, opened, impact, asking>>

\* Success and refusal both close the dialog; a lost answer leaves the screen
\* on the old status, and the button live.
ApplyAnswered ==
    /\ apply # None
    /\ \/ CanApply(apply) /\ ApplyRequested(apply)
       \/ UNCHANGED <<jobs, messages>>                  \* refused, or lost
    /\ apply' = None /\ asking' = None
    /\ UNCHANGED <<keys, queue, keyForm, stageForm, opened, impact>>

-----------------------------------------------------------------------------
RegradesNext ==
    \/ ChooseQuestion \/ KeyHistoryLoaded \/ EditKey \/ SaveKey \/ KeySaved
    \/ KeyRefused \/ ChooseSubject \/ Stage \/ JobsLoaded \/ Toggle \/ ImpactLoaded \/ AskApply
    \/ CancelApply \/ ConfirmApply \/ ApplyAnswered
    \/ \E w \in Workers : \/ \E m \in messages : Delivered(w, m)
                          \/ Recomputed(w) \/ Planned(w) \/ Applied(w)
                          \/ Raised(w) \/ Redelivered(w)

\* The panel of a job in flight is polled.
Polled_UntilLoaded == opened # None /\ impact[opened] = None
Polled == opened # None /\ (impact[opened] = None \/ impact[opened].status \in InFlight)
\* The workers run, and the poll fires, while this screen is on; a delivery ends
\* by a commit or an exception.
RegradesFairness ==
    /\ WF_regradeVars(screen = "regrades" /\ \E w \in Workers, m \in messages : Delivered(w, m))
    /\ \A w \in Workers :
         /\ WF_regradeVars(screen = "regrades" /\ Recomputed(w))
         /\ WF_regradeVars(screen = "regrades" /\ (Planned(w) \/ Applied(w) \/ Raised(w)))
    /\ WF_regradeVars(screen = "regrades" /\ Polled /\ ImpactLoaded)

-----------------------------------------------------------------------------
(* Properties. *)

\* A job's scores are committed once, however often its messages are retried after
\* a failure or delivered again after a commit, and however often its apply is asked
\* for on a stale panel (the guards of the actor apply_regrade and of the API).  Two
\* deliveries handled at once are another matter: both may read the job before
\* either commits.
RescoredOnce == \A j \in DOMAIN jobs : jobs[j].rescored <= 1 \/ j \in overlapped

\* A panel that waits for a worker does not wait while one is coming: an open job
\* that was seen planning or running is later seen ready, completed or failed, or is
\* closed (the refetchInterval of the impact query), unless the queue has given up
\* on its message and nothing recorded that.
Waits(j) == opened = j /\ impact[j] # None /\ impact[j].status \in InFlight
GivenUp(j) == /\ jobs[j].status \in InFlight
              /\ \A m \in messages : m.job # j
              /\ \A w \in Workers : ~ Handles(w, j)
WaitingEnds == \A j \in Jobs : Waits(j) ~> (~ Waits(j) \/ GivenUp(j))
=============================================================================
