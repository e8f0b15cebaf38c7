---------------------------- MODULE AnswerOutbox ----------------------------
(***************************************************************************)
(* The student's answers between the keyboard and the mark: the runner's   *)
(* memory (student/src/exam/Runner.tsx), its IndexedDB outbox (outbox.ts), *)
(* the flush and submit flows (flow.ts), a network that loses requests and *)
(* answers, and the server's side of one attempt.                          *)
(*                                                                         *)
(* The n-th keystroke of the sitting has the number n; it is the value of  *)
(* its row, of a slot on the screen and of a slot on the server, 0 being   *)
(* "blank".  A row's id is its keystroke too, ids being given in order.    *)
(*                                                                         *)
(* A request that reaches the server is a transaction of two steps: it     *)
(* reads the attempt, its sections and its answer rows, and later writes   *)
(* what it decided on those copies and commits.  Requests overlap there as *)
(* they do in ExamAttempt, which has the steps between.                    *)
(***************************************************************************)
EXTENDS Integers, FiniteSets, FiniteSetsExt

CONSTANTS
    Slots,       \* answer slots of the paper
    Ticks,       \* flushes started by the interval, or by the page hiding
    Final,       \* the flush a submit starts
    MaxBatch,    \* MAX_BATCH, deltas per request
    Flaws,       \* what can be wrong with an answer itself: unknown_slot,
                 \* schema_invalid
    MaxTyped,    \* bound on keystrokes
    MaxTroubles, \* bound on requests and answers lost, reloads, and sections
                 \* and sittings that run out, together
    MaxOrphans   \* bound on requests given up on and not yet handled

Flights == Ticks \cup {Final}

ASSUME OutboxAssumption ==
    /\ Final \notin Ticks
    /\ IsFiniteSet(Slots) /\ MaxBatch \in Nat \ {0} /\ Cardinality(Slots) <= MaxBatch
    /\ Flaws \cap {"none", "stale_seq", "section_expired"} = {}
    /\ MaxTyped \in Nat /\ MaxTroubles \in Nat /\ MaxOrphans \in Nat

VARIABLES
    \* the student and the device
    typed,     \* keystrokes so far
    unput,     \* rows on their way to the disk
    newest,    \* the last keystroke in each slot that reached the disk
    rows,      \* the outbox: rows of this attempt in IndexedDB
    \* the page, lost at a reload
    page,      \* "start", "queue", "snapshot" (resuming), "up", "done"
    seqs,      \* the sequence counter of each slot
    screen,    \* what each slot shows
    queued,    \* the outbox rows the resume read
    inFlight,  \* the key and rows of an undelivered batch
    flight,    \* the flushes under way
    sub,       \* the submit under way
    subKey,    \* the key and rows of an unanswered submit
    \* the network
    minted,    \* idempotency keys minted
    orphans,   \* requests the page has given up on, which may yet be handled
    troubles,  \* what has gone wrong so far
    \* the server
    held,      \* the answer rows: client_seq and value per slot
    closed,    \* slots whose section is past its deadline
    kept,      \* the stored response of each idempotency key
    marked,    \* "no", "user" or "auto_expiry": whose submit was marked
    settled,   \* slots written by a submit, or since one
    \* history
    asOf,      \* the last keystroke in each slot when the marked submit began
    raced,     \* slots written by a request that had read an older row
    spoilt     \* slots in which something with a flaw was typed

device  == <<typed, unput, newest, rows>>
ui      == <<page, seqs, screen, queued>>
flows   == <<inFlight, flight, sub, subKey>>
net     == <<minted, orphans, troubles>>
server  == <<held, closed, kept, marked, settled>>
history == <<asOf, raced, spoilt>>
vars    == <<device, ui, flows, net, server, history>>

NoRow  == [seq |-> 0, value |-> 0]
Unread == [s \in Slots |-> NoRow]
Blank  == [s \in Slots |-> 0]
Ids(b) == {r.id : r \in b}

\* A request is on the wire until the server has read what it decides on.
Request(kind, key, b, snap) ==
    [kind |-> kind, key |-> key, batch |-> b, asOf |-> snap,
     at |-> "wire", read |-> Unread, shut |-> {}]

NoKey     == [key |-> 0, ids |-> {}]
NoRequest == Request("save", 0, {}, Blank)
Idle      == [pc |-> "off", req |-> NoRequest, rejected |-> {}]
Off       == [pc |-> "off", req |-> NoRequest, asOf |-> Blank]

Init ==
    /\ typed = 0 /\ unput = {} /\ newest = Blank /\ rows = {}
    /\ page = "start" /\ seqs = Blank /\ screen = Blank /\ queued = {}
    /\ inFlight = NoKey /\ flight = [f \in Flights |-> Idle]
    /\ sub = Off /\ subKey = NoKey
    /\ minted = 0 /\ orphans = {} /\ troubles = 0
    /\ held = Unread /\ closed = {} /\ kept = {} /\ marked = "no" /\ settled = {}
    /\ asOf = Blank /\ raced = {} /\ spoilt = {}

-----------------------------------------------------------------------------
(* The outbox (outbox.ts)                                                  *)

\* Rows the server has refused are kept, and never sent again.
pending == {r \in rows : r.refused = "no"}

\* IndexedDB runs its transactions in the order they were asked for: what
\* was typed before the store is read, or emptied, is there by then.
InTurn == unput = {}

\* The newest row per slot, used only for a backlog of more than a batch.
collapse(b) ==
    {r \in b : \A q \in b : q.slot = r.slot => (q.seq < r.seq \/ (q.seq = r.seq /\ q.id >= r.id))}

\* The oldest rows, up to the cap.
batch(b) == {r \in b : Cardinality({q \in b : q.id < r.id}) < MaxBatch}

ToSend == batch(IF Cardinality(pending) > MaxBatch THEN collapse(pending) ELSE pending)

nextSeq(s) == seqs[s] + 1

\* The same rows carry the same key; any other batch a new one.
flushKey_Held(previous, ids) ==
    [key |-> IF previous = NoKey THEN minted + 1 ELSE previous.key, ids |-> ids]
flushKey(previous, ids) ==
    IF previous # NoKey /\ previous.ids = ids THEN previous ELSE [key |-> minted + 1, ids |-> ids]

\* A rejection names a slot, so every row of that slot in the batch is marked.
partition(b, rejected) == {r \in b : \E x \in rejected : x.slot = r.slot}

\* Of several rejections of a slot, the reason of the last is recorded.
ReasonFor(s, rejected) ==
    (CHOOSE x \in rejected : x.slot = s /\ \A y \in rejected : y.slot = s => y.id <= x.id).reason

-----------------------------------------------------------------------------
(* The server (ExamSession.save_answers and submit, Idempotency)           *)

Begun(q) == [q EXCEPT !.at = "server", !.read = held, !.shut = closed]

\* A client_seq that is not above the row's: the one read, or the one an
\* earlier delta of the batch has just written to it.
Stale(r, q) ==
    \/ r.seq <= q.read[r.slot].seq
    \/ \E p \in q.batch : p.slot = r.slot /\ p.id < r.id /\ p.seq >= r.seq /\ p.flaw = "none"

\* A delta is refused for what it is, for a closed section, or as stale.
Rejected(q) ==
    {[slot |-> r.slot, id |-> r.id, reason |-> r.flaw] : r \in {r \in q.batch : r.flaw # "none"}}
    \cup {[slot |-> r.slot, id |-> r.id, reason |-> "section_expired"] :
            r \in {r \in q.batch : r.flaw = "none" /\ r.slot \in q.shut}}
    \cup {[slot |-> r.slot, id |-> r.id, reason |-> "stale_seq"] :
            r \in {r \in q.batch : r.flaw = "none" /\ r.slot \notin q.shut /\ Stale(r, q)}}

Fresh_Unordered(q) == {r \in q.batch : r.flaw = "none" /\ r.slot \notin q.shut}
Fresh(q) == {r \in q.batch : r.flaw = "none" /\ r.slot \notin q.shut /\ ~ Stale(r, q)}

Wrote(q) == {r.slot : r \in Fresh(q)}

\* The last delta of a slot is what its row is left with.
Stored(q) ==
    [s \in Slots |->
       IF s \notin Wrote(q) THEN held[s]
       ELSE LET mine == {r \in Fresh(q) : r.slot = s}
                last == CHOOSE r \in mine : \A p \in mine : p.id <= r.id
            IN  [seq |-> last.seq, value |-> last.id]]

KeptFor(q) == {k \in kept : k.kind = q.kind /\ k.key = q.key}

\* A key used before, or an attempt that is submitted, is answered at once:
\* with the stored response, with 409 for a save, or with the current run.
TurnedAway(q) == KeptFor(q) # {} \/ marked # "no"
Replays(q)    == \E k \in KeptFor(q) : k.ids = Ids(q.batch)
ResponseTo(q) == (CHOOSE k \in KeptFor(q) : TRUE).rejected

\* attempt_answers_uq, for a slot that had no row when it was read, the
\* unique index of the keys, and attempt_answers_frozen_trg: a row can only
\* be written until the paper is, and is locked from then to the commit.
Clashes(q) ==
    \/ KeptFor(q) # {}
    \/ \E s \in Wrote(q) : s \in settled \/ (q.read[s] = NoRow /\ held[s] # NoRow)

Commit(q) ==
    /\ ~ Clashes(q)
    /\ held' = Stored(q)
    /\ kept' = kept \cup {[kind |-> q.kind, key |-> q.key, ids |-> Ids(q.batch),
                           rejected |-> Rejected(q)]}
    /\ marked' = IF q.kind = "submit" THEN "user" ELSE marked
    /\ asOf' = IF q.kind = "submit" THEN q.asOf ELSE asOf
    /\ settled' = IF marked' # "no" THEN settled \cup Wrote(q) ELSE settled
    /\ raced' = raced \cup {s \in Wrote(q) : q.read[s] # held[s]}
    /\ UNCHANGED <<closed, spoilt>>

\* The rows of a request that is running when the paper is marked may have
\* been written before, and are then committed, or come too late.
RollBack(q) ==
    /\ Clashes(q) \/ (marked # "no" /\ Wrote(q) # {})
    /\ UNCHANGED <<server, history>>

\* The sweeper submits the attempt past its grace.
AutoExpire ==
    /\ marked = "no" /\ troubles < MaxTroubles
    /\ marked' = "auto_expiry"
    /\ troubles' = troubles + 1
    /\ UNCHANGED <<device, ui, flows, minted, orphans, held, closed, kept, settled, history>>

\* A section passes its own deadline.
CloseSection(s) ==
    /\ s \notin closed /\ troubles < MaxTroubles
    /\ closed' = closed \cup {s}
    /\ troubles' = troubles + 1
    /\ UNCHANGED <<device, ui, flows, minted, orphans, held, kept, marked, settled, history>>

-----------------------------------------------------------------------------
(* The page (Runner.tsx)                                                   *)

\* POST /attempts returns the live attempt; the flush loop runs from here on.
Start ==
    /\ page = "start"
    /\ page' = IF marked = "no" THEN "queue" ELSE "done"
    /\ UNCHANGED <<device, seqs, screen, queued, flows, net, server, history>>

\* The outbox is read first, the server's snapshot after it.
ReadQueue ==
    /\ page = "queue"
    /\ queued' = pending
    /\ page' = "snapshot"
    /\ UNCHANGED <<device, seqs, screen, flows, net, server, history>>

\* resume_state has no answers for an attempt that is not live.
Snapshot == IF marked = "no" THEN held ELSE Unread

\* The queued rows of a slot that strictly outrank the server's.
Outranking_None(s) == {}
Outranking(s) == {r \in queued : r.slot = s /\ r.seq > Snapshot[s].seq}

\* reconcile: the highest of them moves the counter and the screen.
Best(s) == CHOOSE r \in Outranking(s) :
              \A q \in Outranking(s) : q.seq < r.seq \/ (q.seq = r.seq /\ q.id >= r.id)

Reconciled(s) ==
    IF Outranking(s) = {} THEN Snapshot[s] ELSE [seq |-> Best(s).seq, value |-> Best(s).id]

Resume ==
    /\ page = "snapshot"
    /\ seqs' = [s \in Slots |-> Reconciled(s).seq]
    /\ screen' = [s \in Slots |-> Reconciled(s).value]
    /\ page' = "up" /\ queued' = {}
    /\ UNCHANGED <<device, flows, net, server, history>>

\* onAnswer: the row is given to the disk, and nobody waits for the disk.
Type(s, flaw) ==
    /\ page = "up" /\ typed < MaxTyped
    /\ LET n == typed + 1 IN
         /\ typed' = n
         /\ screen' = [screen EXCEPT ![s] = n]
         /\ seqs' = [seqs EXCEPT ![s] = nextSeq(s)]
         /\ unput' = unput \cup {[id |-> n, slot |-> s, seq |-> nextSeq(s), flaw |-> flaw,
                                  refused |-> "no"]}
    /\ spoilt' = IF flaw = "none" THEN spoilt ELSE spoilt \cup {s}
    /\ UNCHANGED <<newest, rows, page, queued, flows, net, server, asOf, raced>>

\* Rows reach the disk in the order they were typed.
Put ==
    \E r \in unput :
        /\ \A q \in unput : r.id <= q.id
        /\ unput' = unput \ {r}
        /\ rows' = rows \cup {r}
        /\ newest' = [newest EXCEPT ![r.slot] = r.id]
        /\ UNCHANGED <<typed, ui, flows, net, server, history>>

\* What the page had sent goes on without it; all it held in memory is gone,
\* rows that have not reached the disk with it.
Reload ==
    /\ page \in {"queue", "snapshot", "up"} /\ troubles < MaxTroubles
    /\ troubles' = troubles + 1
    /\ orphans' = orphans
         \cup {flight[f].req : f \in {f \in Flights : flight[f].pc = "sent"}}
         \cup {sub.req : x \in {x \in {1} : sub.pc = "sent"}}
    /\ Cardinality(orphans') <= MaxOrphans
    /\ unput' = {}
    /\ page' = "start" /\ seqs' = Blank /\ screen' = Blank /\ queued' = {}
    /\ inFlight' = NoKey /\ flight' = [f \in Flights |-> Idle]
    /\ sub' = Off /\ subKey' = NoKey
    /\ UNCHANGED <<typed, newest, rows, minted, server, history>>

-----------------------------------------------------------------------------
(* One flush (flow.ts flushOnce)                                           *)

\* What follows the submit's own flush: once more if the outbox did not
\* drain, then whatever is still left goes with the submit.
AfterFlush_GoesAhead(drained) == sub' = [sub EXCEPT !.pc = "ready"]
AfterFlush(drained) ==
    sub' = [sub EXCEPT !.pc = IF drained THEN "ready"
                              ELSE IF sub.pc = "flush" THEN "again" ELSE "remainder"]

\* A flush is over: the interval's is forgotten, the submit goes on.
Over(f, drained) ==
    /\ flight' = [flight EXCEPT ![f] = Idle]
    /\ IF f = Final THEN AfterFlush(drained) ELSE UNCHANGED sub

\* The interval's flushes are not serialised: another may be under way.
FlushStart(f) ==
    /\ page \in {"queue", "snapshot", "up"} /\ flight[f].pc = "off" /\ InTurn
    /\ f = Final => sub.pc \in {"flush", "again"}
    /\ IF pending = {}
       THEN /\ f = Final
            /\ Over(f, TRUE)
            /\ UNCHANGED minted
       ELSE LET carry == flushKey(inFlight, Ids(ToSend)) IN
            /\ flight' = [flight EXCEPT ![f] = [Idle EXCEPT !.pc = "sent",
                            !.req = Request("save", carry.key, ToSend, Blank)]]
            /\ minted' = IF carry.key > minted THEN carry.key ELSE minted
            /\ UNCHANGED sub
    /\ UNCHANGED <<device, ui, inFlight, subKey, orphans, troubles, server, history>>

\* The deltas stay on disk, and the key with them.
FlushFailed(f) ==
    /\ inFlight' = [key |-> flight[f].req.key, ids |-> Ids(flight[f].req.batch)]
    /\ Over(f, FALSE)

FlushAnswered(f, rejected) ==
    /\ flight' = [flight EXCEPT ![f].pc = "answered", ![f].rejected = rejected]
    /\ UNCHANGED <<inFlight, sub>>

\* The request reaches the server.
Reach(f) ==
    LET q == flight[f].req IN
    /\ flight[f].pc = "sent" /\ q.at = "wire"
    /\ IF ~ TurnedAway(q)
       THEN /\ flight' = [flight EXCEPT ![f].req = Begun(q)]
            /\ UNCHANGED <<inFlight, sub>>
       ELSE IF Replays(q) THEN FlushAnswered(f, ResponseTo(q)) ELSE FlushFailed(f)
    /\ UNCHANGED <<device, ui, subKey, net, server, history>>

\* It is handled, and its answer reaches the page.
Deliver(f) ==
    LET q == flight[f].req IN
    /\ flight[f].pc = "sent" /\ q.at = "server"
    /\ \/ Commit(q) /\ FlushAnswered(f, Rejected(q))
       \/ RollBack(q) /\ FlushFailed(f)
    /\ UNCHANGED <<device, ui, subKey, net>>

\* No answer: the request may have been lost, or may yet be handled.
Lose(f) ==
    /\ flight[f].pc = "sent" /\ troubles < MaxTroubles /\ Cardinality(orphans) < MaxOrphans
    /\ troubles' = troubles + 1
    /\ orphans' = orphans \cup {flight[f].req}
    /\ FlushFailed(f)
    /\ UNCHANGED <<device, ui, subKey, minted, server, history>>

Refusals(f) == partition(flight[f].req.batch, flight[f].rejected)

\* Delete what the server took ...
Forget_All(f) ==
    /\ flight[f].pc = "answered" /\ InTurn
    /\ rows' = rows \ pending
    /\ flight' = [flight EXCEPT ![f].pc = "forgotten"]
    /\ UNCHANGED <<typed, unput, newest, ui, inFlight, sub, subKey, net, server, history>>
Forget(f) ==
    /\ flight[f].pc = "answered" /\ InTurn
    /\ rows' = {r \in rows : r.id \notin Ids(flight[f].req.batch \ Refusals(f))}
    /\ flight' = [flight EXCEPT ![f].pc = "forgotten"]
    /\ UNCHANGED <<typed, unput, newest, ui, inFlight, sub, subKey, net, server, history>>

\* ... and mark what it refused, if the row is still there.
Refuse(f) ==
    /\ flight[f].pc = "forgotten" /\ InTurn
    /\ rows' = {IF r.id \in Ids(Refusals(f))
                THEN [r EXCEPT !.refused = ReasonFor(r.slot, flight[f].rejected)] ELSE r :
                r \in rows}
    /\ inFlight' = NoKey
    /\ Over(f, pending' = {})
    /\ UNCHANGED <<typed, unput, newest, ui, subKey, net, server, history>>

-----------------------------------------------------------------------------
(* The submit (flow.ts submitFlow)                                         *)

\* What the student has typed last in each slot, on disk yet or not.
LastTyped(s) == Max({newest[s]} \cup {r.id : r \in {r \in unput : r.slot = s}})

SubmitStart ==
    /\ page = "up" /\ sub.pc = "off"
    /\ sub' = [Off EXCEPT !.pc = "flush", !.asOf = [s \in Slots |-> LastTyped(s)]]
    /\ UNCHANGED <<device, ui, inFlight, flight, subKey, net, server, history>>

\* Read what is left, if the outbox did not drain, and send the submit.
SubmitSend ==
    /\ sub.pc \in {"ready", "remainder"}
    /\ sub.pc = "remainder" => InTurn
    /\ LET left  == IF sub.pc = "remainder" THEN ToSend ELSE {}
           carry == flushKey(subKey, Ids(left))
       IN  /\ subKey' = carry
           /\ minted' = IF carry.key > minted THEN carry.key ELSE minted
           /\ sub' = [sub EXCEPT !.pc = "sent",
                                 !.req = Request("submit", carry.key, left, sub.asOf)]
    /\ UNCHANGED <<device, ui, inFlight, flight, orphans, troubles, server, history>>

SubmitReach ==
    /\ sub.pc = "sent" /\ sub.req.at = "wire"
    /\ sub' = IF TurnedAway(sub.req) THEN [sub EXCEPT !.pc = "landed"]
              ELSE [sub EXCEPT !.req = Begun(sub.req)]
    /\ UNCHANGED <<device, ui, inFlight, flight, subKey, net, server, history>>

\* The submit threw: the latch opens, and the student is shown the error.
SubmitDeliver ==
    /\ sub.pc = "sent" /\ sub.req.at = "server"
    /\ \/ Commit(sub.req) /\ sub' = [sub EXCEPT !.pc = "landed"]
       \/ RollBack(sub.req) /\ sub' = Off
    /\ UNCHANGED <<device, ui, inFlight, flight, subKey, net>>

SubmitLose ==
    /\ sub.pc = "sent" /\ troubles < MaxTroubles /\ Cardinality(orphans) < MaxOrphans
    /\ troubles' = troubles + 1
    /\ orphans' = orphans \cup {sub.req}
    /\ sub' = Off
    /\ UNCHANGED <<device, ui, inFlight, flight, subKey, minted, server, history>>

\* The paper is marked: the attempt's rows go, refused ones too, and the
\* runner is left with everything it held.
Drop ==
    /\ sub.pc = "landed" /\ InTurn
    /\ rows' = {}
    /\ page' = "done" /\ seqs' = Blank /\ screen' = Blank /\ queued' = {}
    /\ inFlight' = NoKey /\ flight' = [f \in Flights |-> Idle]
    /\ sub' = Off /\ subKey' = NoKey
    /\ UNCHANGED <<typed, unput, newest, net, server, history>>

\* A request the page gave up on is handled after all.
Arrive ==
    \E q \in orphans :
        \/ /\ q.at = "wire"
           /\ orphans' = (orphans \ {q}) \cup (IF TurnedAway(q) THEN {} ELSE {Begun(q)})
           /\ UNCHANGED <<device, ui, flows, minted, troubles, server, history>>
        \/ /\ q.at = "server"
           /\ orphans' = orphans \ {q}
           /\ Commit(q) \/ RollBack(q)
           /\ UNCHANGED <<device, ui, flows, minted, troubles>>

Finished == page = "done" /\ orphans = {} /\ UNCHANGED vars

FlushStep(f) == FlushStart(f) \/ Reach(f) \/ Deliver(f) \/ Lose(f) \/ Forget(f) \/ Refuse(f)

SubmitStep == SubmitSend \/ SubmitReach \/ SubmitDeliver \/ SubmitLose \/ Drop

Next ==
    \/ Start \/ ReadQueue \/ Resume \/ Put \/ Reload
    \/ \E s \in Slots : CloseSection(s) \/ \E flaw \in {"none"} \cup Flaws : Type(s, flaw)
    \/ \E f \in Flights : FlushStep(f)
    \/ SubmitStart \/ SubmitStep
    \/ Arrive \/ AutoExpire \/ Finished

Spec == Init /\ [][Next]_vars

\* The page's own steps happen, the interval keeps firing, and a request that
\* is not lost is answered.  Nobody has to type, to submit or to reload.
Fairness ==
    /\ WF_vars(Start) /\ WF_vars(ReadQueue) /\ WF_vars(Resume) /\ WF_vars(Put)
    /\ \A f \in Ticks : WF_vars(FlushStep(f))

FairSpec == Spec /\ Fairness

-----------------------------------------------------------------------------
(* Properties                                                              *)

\* While the paper is live the last thing written to disk in a slot is on the
\* server or still on disk, whatever was lost, reloaded or refused for another
\* delta: waiting to be sent, or refused for what it is.  A section past its
\* deadline is an exception, and so is a slot two requests have overlapped in
\* (ExamAttempt's AckedIsKept).
NothingLost ==
    marked = "no" =>
        \A s \in Slots \ (closed \cup raced) :
            \/ held[s].value = newest[s]
            \/ \E r \in rows : r.id = newest[s] /\ (r.refused = "no" \/ r.refused \in Flaws)

\* Everything typed before the student pressed Submit is in the paper that
\* is marked: "everything on disk goes first, or the last thing typed is
\* never marked" (flow.ts).
SubmittedIsMarked ==
    marked = "user" =>
        \A s \in Slots \ (closed \cup raced \cup spoilt) : held[s].value >= asOf[s]

\* The outbox implements the register: an older answer is never stored over
\* a newer one, by a retry, a flush delivered out of order, a request the page
\* gave up on, or a sequence number used twice across a reload, unless the two
\* overlapped on the server.
Register == INSTANCE AnswerRegister WITH held <- [s \in Slots |-> held[s].value]
ImplementsRegister == Register!Spec

\* After a reload the student sees what they last typed, unless it was refused
\* for what it is.
ScreenIsNewest ==
    page = "up" /\ marked = "no" =>
        \A s \in Slots \ (closed \cup raced) :
            \/ screen[s] = LastTyped(s)
            \/ unput = {} /\ \E r \in rows : r.id = newest[s] /\ r.refused \in Flaws

\* The outbox drains: as long as the page is open and the attempt live, what
\* waits to be sent is stored or refused, whatever else the retries carry.
Drains == []<>(page = "done" \/ marked # "no" \/ unput \cup pending = {})

\* Nothing typed is deleted from disk unless the server took it or closed
\* its section: a row is dropped because the paper it belongs to is marked.
NothingDropped ==
    page = "done" /\ marked = "user" /\ rows = {} =>
        \A s \in Slots \ (closed \cup raced \cup spoilt) : held[s].value = newest[s]
=============================================================================
