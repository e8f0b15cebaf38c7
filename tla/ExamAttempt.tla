---------------------------- MODULE ExamAttempt ----------------------------
(***************************************************************************)
(* One exam attempt on the server (app/modules/exam/session.py behind      *)
(* app/api/routers/exam.py and app/workers/sweeper.py): autosaves, submits *)
(* and the expiry sweeper as concurrent READ COMMITTED transactions.       *)
(*                                                                         *)
(* Every request is one transaction (unit_of_work, app/platform/db.py): it *)
(* loads the attempt once, decides on that copy, flushes rows, and commits *)
(* or is rolled back.  Nothing in the exam module locks a row explicitly;  *)
(* the only locks are the ones Postgres takes for an UPDATE or an INSERT.  *)
(*                                                                         *)
(* A stored answer is identified with its client_seq: the n-th thing the   *)
(* student typed in that slot.  0 is "no row" (or, in a batch, no delta).  *)
(***************************************************************************)
EXTENDS Integers, FiniteSets

CONSTANTS
    Saves,      \* POST /attempts/{xid}/answers requests
    Submits,    \* POST /attempts/{xid}/submit requests
    Sweepers,   \* passes of the expiry sweeper that select this attempt
    Slots,      \* answer slots of the paper
    MaxSeq,     \* largest client_seq
    Batches,    \* the sets of deltas a request may carry
    Keys, Key,  \* Idempotency-Key values, and the one each request carries
    Limit,      \* the attempt expires at this clock value
    Grace,      \* submit_grace_seconds
    MaxClock,   \* bound on the clock
    MaxAborts,  \* bound on transactions lost to a crash
    Nobody      \* the row lock's value when it is free

Clients  == Saves \cup Submits
Requests == Clients \cup Sweepers
Deltas   == [Slots -> 0 .. MaxSeq]
NoDelta  == [s \in Slots |-> 0]

ASSUME RequestsAssumption ==
    /\ Saves \cap Submits = {} /\ Clients \cap Sweepers = {}
    /\ Nobody \notin Requests

ASSUME DataAssumption ==
    /\ MaxSeq \in Nat
    /\ Batches \subseteq Deltas
    /\ Key \in [Clients -> Keys]

ASSUME TimeAssumption ==
    /\ Limit \in Nat /\ Grace \in Nat /\ MaxClock \in Nat /\ MaxAborts \in Nat

VARIABLES
    now,      \* the database clock
    status,   \* attempts.status, as committed
    via,      \* attempts.submitted_via, as committed
    answers,  \* attempt_answers: client_seq per slot, as committed
    runs,     \* score_runs, named by the request whose transaction wrote it
    current,  \* the score_runs with is_current
    kept,     \* requests whose response is stored under their idempotency key
    rowLock,  \* the transaction holding the attempts row lock
    aborts,   \* crashes so far
    body,     \* the deltas each client request carries
    pc,       \* how far each request has come
    loaded,   \* the attempts.status each request loaded (its identity map)
    stored,   \* the answer rows each request loaded
    mine,     \* the answer rows each request has flushed
    how,      \* the submitted_via each submission will write
    inputs,   \* the answers each request's score run was computed from
    seen      \* the current runs each request's flip of is_current found

table   == <<status, via, answers, runs, current, kept>>
session == <<loaded, stored, mine, how, inputs, seen>>
vars    == <<now, table, rowLock, aborts, body, pc, session>>

Frozen == {"submitted", "scored", "voided"}
Vias   == {"none", "user", "auto_expiry"}

\* A transaction is open from the load of the attempt to its commit.
OpenAt  == {"begun", "checked", "written", "frozen", "scored"}
\* Where a request ends: committed, answered with what was already there
\* (a replay, or the run of an attempt already submitted), or a 409.
EndedAt == {"committed", "answered", "refused"}

Open(p) == pc[p] \in OpenAt

Later(rows, new) == [s \in Slots |-> IF new[s] = 0 THEN rows[s] ELSE new[s]]

Init ==
    /\ now = 0
    /\ status = "in_progress" /\ via = "none"
    /\ answers = NoDelta
    /\ runs = {} /\ current = {} /\ kept = {}
    /\ rowLock = Nobody /\ aborts = 0
    /\ body \in [Clients -> Batches]
    /\ pc = [p \in Requests |-> "idle"]
    /\ loaded = [p \in Requests |-> "in_progress"]
    /\ stored = [p \in Requests |-> NoDelta]
    /\ mine = [p \in Requests |-> NoDelta]
    /\ how = [p \in Requests |-> "none"]
    /\ inputs = [p \in Requests |-> NoDelta]
    /\ seen = [p \in Requests |-> {}]

Goto(p, label) == pc' = [pc EXCEPT ![p] = label]

-----------------------------------------------------------------------------
(* Idempotency (app/api/deps.py): the key is scoped to the route, so two   *)
(* requests share a stored response only when they are of the same kind.   *)

SameKey(p, q) == /\ Key[p] = Key[q]
                 /\ p \in Saves <=> q \in Saves

KeyTaken_PerBody(p) == \E q \in kept : SameKey(p, q) /\ body[q] = body[p]
KeyTaken(p) == \E q \in kept : SameKey(p, q)

\* The stored response, or 409 idempotency_key_reused for another body.
Replay(p) ==
    /\ p \in Clients /\ pc[p] = "idle" /\ KeyTaken(p)
    /\ IF \E q \in kept : SameKey(p, q) /\ body[q] = body[p]
       THEN Goto(p, "answered") ELSE Goto(p, "refused")
    /\ UNCHANGED <<now, table, rowLock, aborts, body, session>>

\* The attempt is loaded once; every later check reads this copy.
Begin(p) ==
    /\ p \in Clients /\ pc[p] = "idle" /\ ~ KeyTaken(p)
    /\ loaded' = [loaded EXCEPT ![p] = status]
    /\ how' = [how EXCEPT ![p] = "user"]
    /\ mine' = [mine EXCEPT ![p] = NoDelta]
    /\ Goto(p, "begun")
    /\ UNCHANGED <<now, table, rowLock, aborts, body, stored, inputs, seen>>

-----------------------------------------------------------------------------
(* save_answers, on its own route or as the flush a submit carries.        *)

PastGrace == now > Limit + Grace

CarriesAnswers(p) == p \in Clients /\ body[p] # NoDelta

\* The attempt is live and in time: read the rows already stored.
CheckSave(p) ==
    /\ pc[p] = "begun" /\ (p \in Saves \/ CarriesAnswers(p))
    /\ loaded[p] = "in_progress" /\ ~ PastGrace
    /\ stored' = [stored EXCEPT ![p] = answers]
    /\ Goto(p, "checked")
    /\ UNCHANGED <<now, table, rowLock, aborts, body, loaded, mine, how, inputs, seen>>

\* 409 attempt_voided or attempt_frozen.  On the submit route a frozen
\* attempt is not an error: ReturnRun below.
RefuseSave(p) ==
    /\ pc[p] = "begun"
    /\ \/ p \in Saves /\ loaded[p] \in Frozen
       \/ p \in Submits /\ loaded[p] = "voided"
    /\ Goto(p, "refused")
    /\ UNCHANGED <<now, table, rowLock, aborts, body, session>>

\* Past the grace an autosave submits the attempt itself and then raises
\* attempt_expired; the exception rolls the whole transaction back, so all
\* that is left of it is the 409.
ExpireSave(p) ==
    /\ p \in Saves /\ pc[p] = "begun"
    /\ loaded[p] = "in_progress" /\ PastGrace
    /\ Goto(p, "refused")
    /\ UNCHANGED <<now, table, rowLock, aborts, body, session>>

\* The submit route catches attempt_expired, so there the submission that
\* save_answers made on the way, as auto_expiry, goes on to commit.
ExpireSubmit(p) ==
    /\ p \in Submits /\ pc[p] = "begun" /\ CarriesAnswers(p)
    /\ loaded[p] = "in_progress" /\ PastGrace
    /\ how' = [how EXCEPT ![p] = "auto_expiry"]
    /\ Goto(p, "written")
    /\ UNCHANGED <<now, table, rowLock, aborts, body, loaded, stored, mine, inputs, seen>>

\* A delta at or below the client_seq of the row that was read is stale_seq.
Accepted(p) == [s \in Slots |-> IF body[p][s] > stored[p][s] THEN body[p][s] ELSE 0]

\* The rows of a batch wait for an open transaction that wrote them too.
RowsFree(p) ==
    \A s \in Slots, q \in Requests \ {p} :
        Accepted(p)[s] # 0 => ~ (Open(q) /\ mine[q][s] # 0)

\* attempt_answers_frozen_trg, which reads the committed status, and
\* attempt_answers_uq, for a slot that had no row when it was read.
WriteFails_NoTrigger(p) ==
    \E s \in Slots : Accepted(p)[s] # 0 /\ stored[p][s] = 0 /\ answers[s] # 0
WriteFails(p) ==
    /\ Accepted(p) # NoDelta
    /\ \/ status \in Frozen
       \/ \E s \in Slots : Accepted(p)[s] # 0 /\ stored[p][s] = 0 /\ answers[s] # 0

WriteAnswers(p) ==
    /\ p \in Clients /\ pc[p] = "checked" /\ RowsFree(p) /\ ~ WriteFails(p)
    /\ mine' = [mine EXCEPT ![p] = Accepted(p)]
    /\ Goto(p, "written")
    /\ UNCHANGED <<now, table, rowLock, aborts, body, loaded, stored, how, inputs, seen>>

CommitSave(p) ==
    /\ p \in Saves /\ pc[p] = "written" /\ ~ KeyTaken(p)
    /\ answers' = Later(answers, mine[p])
    /\ kept' = kept \cup {p}
    /\ Goto(p, "committed")
    /\ UNCHANGED <<now, status, via, runs, current, rowLock, aborts, body, session>>

-----------------------------------------------------------------------------
(* submit                                                                  *)

\* What the sweeper selects: attempts in progress past their grace.
Due_NoGrace == status = "in_progress" /\ now > Limit
Due == status = "in_progress" /\ PastGrace

\* The sweep runs under an advisory lock, so one pass at a time.
SweepBegin(w) ==
    /\ w \in Sweepers /\ pc[w] = "idle"
    /\ \A v \in Sweepers : ~ Open(v)
    /\ Due
    /\ loaded' = [loaded EXCEPT ![w] = status]
    /\ how' = [how EXCEPT ![w] = "auto_expiry"]
    /\ Goto(w, "begun")
    /\ UNCHANGED <<now, table, rowLock, aborts, body, stored, mine, inputs, seen>>

\* An attempt already submitted: the caller gets its current run.
ReturnRun(p) ==
    /\ p \in Submits /\ pc[p] = "begun" /\ loaded[p] \in {"submitted", "scored"}
    /\ ~ KeyTaken(p)
    /\ kept' = kept \cup {p}
    /\ Goto(p, "answered")
    /\ UNCHANGED <<now, status, via, answers, runs, current, rowLock, aborts, body, session>>

\* An UPDATE of the attempts row waits for the transaction that has updated it.
RowFree_Always == TRUE
RowFree == rowLock = Nobody

\* status := "submitted".  The UPDATE names the attempt by its id alone, so
\* once it has waited for the row it applies to whatever is there.
Freeze(p) ==
    /\ p \in Submits \cup Sweepers
    /\ \/ pc[p] = "written"
       \/ pc[p] = "begun" /\ ~ CarriesAnswers(p)
    /\ loaded[p] = "in_progress"
    /\ RowFree
    /\ rowLock' = p
    /\ Goto(p, "frozen")
    /\ UNCHANGED <<now, table, aborts, body, session>>

\* _score: mark the answers this transaction can see, and flip the run that
\* is current before inserting the new one.
Score(p) ==
    /\ pc[p] = "frozen"
    /\ inputs' = [inputs EXCEPT ![p] = Later(answers, mine[p])]
    /\ seen' = [seen EXCEPT ![p] = current]
    /\ Goto(p, "scored")
    /\ UNCHANGED <<now, table, rowLock, aborts, body, loaded, stored, mine, how>>

\* score_runs_current_uq would refuse the insert beside a run the flip missed.
RunConflicts(p) == current \ seen[p] # {}

\* What is left current beside the new run.
Flipped_Nothing(p) == current
Flipped(p) == current \ seen[p]

CommitSubmit(p) ==
    /\ pc[p] = "scored"
    /\ ~ RunConflicts(p)
    /\ p \in Submits => ~ KeyTaken(p)
    /\ status' = "scored" /\ via' = how[p]
    /\ answers' = Later(answers, mine[p])
    /\ runs' = runs \cup {p}
    /\ current' = Flipped(p) \cup {p}
    /\ kept' = IF p \in Submits THEN kept \cup {p} ELSE kept
    /\ rowLock' = Nobody
    /\ Goto(p, "committed")
    /\ UNCHANGED <<now, aborts, body, session>>

-----------------------------------------------------------------------------
(* Rollback, the operator, and time.                                       *)

RollBack_KeepsLock(p) ==
    /\ mine' = [mine EXCEPT ![p] = NoDelta]
    /\ Goto(p, "idle")
    /\ UNCHANGED <<now, table, rowLock, body, loaded, stored, how, inputs, seen>>
RollBack(p) ==
    /\ mine' = [mine EXCEPT ![p] = NoDelta]
    /\ rowLock' = IF rowLock = p THEN Nobody ELSE rowLock
    /\ Goto(p, "idle")
    /\ UNCHANGED <<now, table, body, loaded, stored, how, inputs, seen>>

\* An IntegrityError: the trigger, the answers' unique index, or the unique
\* index of the idempotency keys.  The client sees a 500 and tries again.
Integrity(p) ==
    /\ \/ p \in Clients /\ pc[p] = "checked" /\ RowsFree(p) /\ WriteFails(p)
       \/ p \in Saves /\ pc[p] = "written" /\ KeyTaken(p)
       \/ p \in Submits /\ pc[p] = "begun" /\ KeyTaken(p)
            /\ loaded[p] \in {"submitted", "scored"}
       \/ p \in Submits /\ pc[p] = "scored" /\ KeyTaken(p)
       \/ pc[p] = "scored" /\ RunConflicts(p)
    /\ RollBack(p)
    /\ UNCHANGED aborts

\* The process or its connection dies before the commit.
Crash(p) ==
    /\ Open(p) /\ aborts < MaxAborts
    /\ RollBack(p)
    /\ aborts' = aborts + 1

\* Nothing in the application voids an attempt; an operator does, in SQL.
Void ==
    /\ status # "voided" /\ RowFree
    /\ status' = "voided"
    /\ UNCHANGED <<now, via, answers, runs, current, kept, rowLock, aborts, body, pc, session>>

Tick ==
    /\ now < MaxClock
    /\ now' = now + 1
    /\ UNCHANGED <<table, rowLock, aborts, body, pc, session>>

\* Every request has been answered and no time is left.
Finished ==
    /\ now = MaxClock
    /\ \A p \in Clients : pc[p] \in EndedAt
    /\ status # "in_progress"
    /\ UNCHANGED vars

Step(p) ==
    \/ Replay(p) \/ Begin(p)
    \/ CheckSave(p) \/ RefuseSave(p) \/ ExpireSave(p) \/ ExpireSubmit(p)
    \/ WriteAnswers(p) \/ CommitSave(p)
    \/ SweepBegin(p) \/ ReturnRun(p) \/ Freeze(p) \/ Score(p) \/ CommitSubmit(p)
    \/ Integrity(p)

Next ==
    \/ \E p \in Requests : Step(p) \/ Crash(p)
    \/ Void \/ Tick \/ Finished

Spec == Init /\ [][Next]_vars

\* Time passes, a transaction that can go on does, and the scheduler keeps
\* starting sweeps.  Nothing obliges a client to send a request.
Fairness ==
    /\ WF_vars(Tick)
    /\ \A p \in Requests : WF_vars(pc[p] # "idle" /\ Step(p))
    /\ \A w \in Sweepers : WF_vars(SweepBegin(w))

FairSpec == Spec /\ Fairness

-----------------------------------------------------------------------------
(* Properties                                                              *)

\* Every variable stays within its type.
TypeOK ==
    /\ now \in 0 .. MaxClock
    /\ status \in {"in_progress"} \cup Frozen
    /\ via \in Vias
    /\ answers \in Deltas
    /\ runs \subseteq Requests /\ current \subseteq Requests /\ kept \subseteq Clients
    /\ rowLock \in Requests \cup {Nobody}
    /\ aborts \in 0 .. MaxAborts
    /\ body \in [Clients -> Batches]
    /\ pc \in [Requests -> {"idle"} \cup OpenAt \cup EndedAt]
    /\ loaded \in [Requests -> {"in_progress"} \cup Frozen]
    /\ stored \in [Requests -> Deltas]
    /\ mine \in [Requests -> Deltas]
    /\ how \in [Requests -> Vias]
    /\ inputs \in [Requests -> Deltas]
    /\ seen \in [Requests -> SUBSET Requests]

\* A student never has two results at once, and a marked attempt has one:
\* however many submits and sweeps overlap, at most one score run is current,
\* and a scored attempt has a current run (score_runs_current_uq, and _score
\* flipping the old run before it inserts the new one).
OneCurrentRun ==
    /\ \A p, q \in current : p = q
    /\ status = "scored" => current # {}

\* The unique index on current runs is a backstop that never fires: the row
\* lock taken by status := "submitted" orders every flip of is_current after
\* the commit of the run it must replace.
NoRunConflict == \A p \in Requests : pc[p] = "scored" => ~ RunConflicts(p)

\* A retried request is applied once: the stored response of an idempotency
\* key belongs to one request, and two submits under one key never both score.
OncePerKey ==
    /\ \A p, q \in kept : SameKey(p, q) => p = q
    /\ \A p, q \in runs \cap Submits : SameKey(p, q) => p = q

\* Nobody is force-submitted early: an attempt recorded as auto_expiry, by
\* the sweeper or by a late flush, is past its deadline and its grace.
AutoExpiryIsLate == via = "auto_expiry" => PastGrace

\* What the student was told is saved stays saved: the row of a slot never
\* falls below a delta whose request was answered 200.
AckedIsKept ==
    \A p \in Requests : pc[p] = "committed" => \A s \in Slots : answers[s] >= mine[p][s]

\* At most one submission of an attempt is ever marked.
ScoredOnce == \A p, q \in runs : p = q

Flushed(p) == Open(p) /\ mine[p] # NoDelta
Settled == status \in Frozen /\ \A p \in Requests : ~ Flushed(p)

\* The freeze is final once the transactions that had flushed rows before it
\* are over: from then on no request, retried, delayed or restarted after a
\* crash, moves an answer or so much as flushes one (attempt_answers_frozen).
FrozenForGood == [][Settled => Settled' /\ answers' = answers]_vars

\* An attempt whose deadline and grace have passed is eventually marked, or
\* voided, with or without its student.
ExpiredIsScored == [](PastGrace => <>(status # "in_progress"))
=============================================================================
