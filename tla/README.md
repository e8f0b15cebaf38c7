# A verification project for the exam platform

TLA+ modules, TLC configurations and TLAPS proofs for this repository: an
IELTS preparation platform with a FastAPI and PostgreSQL backend (`app/`,
`migrations/`), a React runner for students (`student/`) and a console for
staff (`web/`). The modules are translated from the code; when they disagree with
a comment, a docstring or a document, the code is what is modelled and the
disagreement is reported below.

## 1. The system

### How it runs

- **API processes** serve requests. A request is one transaction: `unit_of_work`
  (`app/platform/db.py`) opens it, the handler works in it, and it is committed
  when the handler returns and rolled back when it raises. The isolation level is
  PostgreSQL's READ COMMITTED, so two statements of one request may read
  different states, and an UPDATE that waited for a row applies to the row it then
  finds. Most of what is hard in this code is there.
- **Idempotency keys** (`app/api/deps.py`): a POST carries a key; the response is
  stored under it, in the same transaction as the effect, and replayed.
- **The outbox**: an event is a row written in the same transaction as its
  cause; a relay sends it to the broker (Dramatiq on Redis), actors consume it at
  least once.
- **The scheduler** starts the relay (1 s), the contests' tick (5 s), the speaking
  matcher (15 s), the delivery of notifications (30 s), the expiry sweeper
  (5 min) and analytics (15 min), each under an advisory lock.
- **The student's runner** keeps every answer in an IndexedDB outbox until the
  server has taken it.
- **The screens** of both apps hold what they last fetched, in a query cache or in
  state hooks, and send a mutation made from it; the server may have moved on. A
  screen knows of a change by refetching after its own mutation, by polling or by
  a realtime nudge.

### Components

| Component | State | Operations | What is hard | What makes it correct |
|---|---|---|---|---|
| Exam attempts (`exam/session.py`, `routers/exam.py`, `workers/sweeper.py`, `0011_exam.py`) | attempts, attempt_answers, score_runs | start, enter section, audio grant, save answers, submit, sweep, score | no explicit lock: concurrent autosaves, submits and sweeps decide on a copy of the attempt loaded earlier | one current result; answers frozen once marked; no early expiry; every expired attempt marked |
| Idempotency (`api/deps.py`) | idempotency_keys | replay, store | the retry arrives while the first is running | applied once per key |
| Answer outbox (`student/src/exam/outbox.ts`, `flow.ts`, `Runner.tsx`) | IndexedDB rows, sequence counters, the batch in flight | type, flush, retry, refuse, submit, reload, resume | lost requests and answers, requests that arrive late, reloads, flushes that overlap | nothing typed is lost; older never over newer; everything typed before Submit is marked |
| Outbox relay (`workers/relay.py`, `actors.py`, `broker.py`) | outbox rows, the queue | drain, dispatch with fan-out, reschedule, give up, consume | crash between send and mark, outages, poison, two relays, repeated messages | nothing lost; repeated only for a reason; poison surfaces; told once |
| Payments (`routers/platform_ops.py`, `0015_billing.py`) | orders, payments, payment_events, entitlements | Click Prepare and Complete, Payme Create, Perform and Cancel, grant, revoke | calls repeated, late, reordered, concurrent through two providers | one grant in force; never paid without what its product grants, nor granted without money |
| Competitions (`routers/competitions.py`, `competitions/service.py`, `schedule.py`, `0012_competitions.py`) | competition, entries, results, a pack's `consumed` | register, withdraw, lobby, release key, tick, publish | the last place, packs charged and refunded, everybody at the start at once, the tick against requests | no overbooking; entries charged while held; keys frozen once; publishing waits for who is writing; every contest ends |
| Entitlements and seats (`billing/entitlements.py`) | grants, seat assignments | check, consume, refund, assign, release | count then insert; a counter incremented in Python | a pack is spent by what is held; no seat beyond the licence |
| Keys and regrades (`exam/regrade.py`, `workers/actors.py`, `web/.../Regrades.tsx`) | key versions, regrade jobs, the open panel | fix a key, stage, plan, read the impact, apply | two workers on one job, messages redelivered, retries used up, a panel that stays as last read | a job rescores once; a panel that waits is answered |
| Speaking (`speaking/`, `routers/speaking.py`) | slots, bookings, queue entries, pairs, blocks | open, book, cancel, check in, match, join, leave, block | the matcher against requests in flight; whoever comes of age meanwhile | safe pairs; nobody left over beside a partner; whoever checked in is answered |
| Sessions (`routers/auth.py`, `web/src/api/`, `student/src/app/`) | refresh tokens, the cookie, a page's access token, the cached principal | sign in, refresh, log out | several 401s at once, lost answers, a sign-out elsewhere, two tabs on one cookie | the 401s of one page never look like a stolen token |
| Notifications (`identity/notify.py`) | notifications, their channels | queue, deliver, retry | repeats, quiet hours, partial delivery | one per dedupe key; delivered or given up |
| Content (`content/`, authoring routers) | versions, questions, keys, band maps | draft, review, publish, fork, fix a key | what is published no longer changes | frozen once published |
| Composition and review (`web/.../compose/`, `routers/tests_authoring.py`) | sections and positions, the review, the approval's checksum | add, remove, drag, submit, approve, publish | a drag is a sequence of PATCHes, and the next may begin before it ends; edits between approval and publication | a drag lands where it was dropped |
| Tests and groups (`TestDetail.tsx`, `GroupLibrary.tsx`) | tests with an ETag, groups with their items, open forms | edit, draft, clone, archive, delete, add | forms filled from an earlier read | the second of two authors loses loudly |
| Audio (`audio/upload.ts`, `content/media.py`) | upload sessions, stored parts, assets, transcripts | open, send parts, complete, abort, sweep, normalise | stopping with a part in the air, lost answers | a stopped upload leaves nothing in the store |
| Reading pane (`student/src/exam/Reading.tsx`, `highlights.ts`) | spans, the menu | highlight, clear | merging of spans that touch, offsets counted from the heading on | it is a set of marked characters |
| Exam room (`Runner.tsx`, `clock.ts`, `Home.tsx`, `Result.tsx`) | the section, the clocks, the palette, the submit | start, enter, play, time out, submit, retry | clocks re-anchored by late answers; entries rolled back; time running out while a submit fails | no section is closed early; who runs out of time is marked |
| Review of a paper (`Question.tsx`, `Review.tsx`, `exam/scoring.py`) | answers, scores, the paper | answer, mark, show | two requests of which one fails | every score is shown once |
| Account, billing, moderation (`web/src/features/`) | consents, devices, invitations; orders; reports and actions | grant, withdraw, redeem; order, track; act | repeated presses, forms that outlive their subject | one unseen order; no role lowered; an action falls on its subject |
| Safety stream (`api/realtime.ts`) | socket, timers, generation | connect, heartbeat, retry, close | silence, stale sockets, several timers | dead air is never called live for ever |
| Marking of text (`qtypes/`), ranking | none | pure functions | boundaries, ties | agree with their definitions |
| Analytics, rate limits, authorization, organizations, kernel, the other screens | see `PROJECT.json` | | mostly I/O, queries and display | |

`PROJECT.json` lists all of them with their sources, and the hazards of this code
with the line where each bites. Realtime frames are lossy by design, each with
an HTTP mirror; nothing relies on them.

### How the components meet

The runner's flush is a `save_answers` request, its submit a `submit`; both go
through the idempotency keys. A submission writes an `attempt.scored` event,
which the relay dispatches to `project_attempt` and `notify_scored`. The
competition's key release starts an attempt, and the tick looks at whether it
was scored. Registration charges the pack that payments, manual grants or seats
created. A key fixed in the content module becomes a regrade, which flips
current runs and, for contests, is decided upon and republished.

In the console, a composition is reviewed by somebody else than its author and
published under the checksum that was approved; an upload becomes a track once
a worker has normalised it; a key saved at the regrade desk stages a job that a
worker plans, that a person confirms and a worker applies, while the desk polls. The
scheduler's speaking tick reads bookings and queue and writes pairs in one
transaction. The safety stream only tells the moderation screen to fetch again.
The student's app goes from Home over the gates into the exam room, in which the
reading pane and the question controls live, and ends at the result and its
review.

## 2. The modules

| Module | Models | Actors |
|---|---|---|
| `ExamAttempt` | one attempt on the server | autosaves, submits, the sweeper, an operator, crashes |
| `ExamAttemptProofs` | theorems about it | |
| `AnswerRegister` | what the answer path promises a student | abstract |
| `AnswerOutbox` | runner, IndexedDB, network, server | the student, the disk, interval flushes, a submit, overlapping transactions, losses, reloads |
| `OutboxRelay` | outbox table, relays, broker, workers | relays, workers, outages, crashes, regrades |
| `OutboxRelayProofs` | theorems about it | |
| `Payments` | orders, provider transactions, grants | provider calls over threads, a revoking admin, rollbacks |
| `PaymentsProofs` | theorems about it | |
| `Competition` | one contest with its entries, packs and board | students' requests, the tick, crashes |
| `CompetitionProofs` | theorems about it | |
| `ConsoleBase` | what the screens share: the empty value, which screen is on | |
| `Composition` | the composition of a version with review and publication | an author or reviewer at the screen, a colleague, lost PATCHes |
| `AudioLibrary` | upload, normalising, list, transcript, listening link | the page, parts in the air, the worker, the sweep, losses |
| `GroupLibrary`, `TestDetail` | question groups; a test and its versions | the page, other authors |
| `Regrades` | keys, jobs, the impact panel | the desk, workers that fail, retry or receive twice |
| `Highlighter` | what a highlighter promises: a set of characters | abstract |
| `ReadingPane`, `ReadingPaneProofs` | spans, menu, passages, settings; theorems about them | the student |
| `PaperReview` | from an answer control through the scorer to the review | the student, the scorer, a failing request |
| `ExamRoom` | Home, gates, sections, clocks, recording, submit, result | the student, timers, the server's clock, the sweeper, another tab |
| `ClientSession` | sign-in, tokens, refresh, sign-out, of two people on one browser | tabs, the server, losses, expiry, sign-outs elsewhere |
| `Account`, `Billing`, `Moderation` | the screens of these names with their handlers | the page, others, losses |
| `SafetyStream` | the live connection of the safety queue | timers, sockets, the network |
| `Slots`, `Speaking` | opening and listing slots; bookings, queue and the matcher | staff; students, the matcher's transaction |
| `AppScreens`, `TimedScreens` | the screens gathered: twelve without timers, three with | |
| `AppScreensProofs`, `TimedScreensProofs` | theorems about the screens, as parts of the application | |
| `MC*` | the instances TLC checks | |

### How a transaction is modelled

A request has a program counter. It takes one step per statement that waits for a lock
or reads what others may have committed; statements between two such points are
one step. What it has read stays in its own variables (SQLAlchemy's identity map:
an ORM object is not read again), what it has written is visible to others from
the commit on, and its locks last until then. A rollback discards its writes and
frees its locks. A unique index or a trigger is a condition under which the
statement fails, and failing is a rollback.

**ExamAttempt.** `status`, `via`, `answers`, `runs`, `current` and `kept` are
the committed tables; `loaded`, `stored`, `mine`, `how`, `inputs` and `seen` are
what each request holds. `Begin` is the load of the attempt, `CheckSave`,
`RefuseSave` and `ExpireSave` the early returns of `save_answers`,
`WriteAnswers` its flush (where `attempt_answers_frozen_trg` and the unique index
apply), `Freeze` the UPDATE of the status, `Score` the read of answers and the
flip of the current run, `CommitSubmit` the new run. `ExpireSave` leaves nothing
behind although the code submits the attempt on that path: it raises afterwards,
and the request's transaction is rolled back. On the submit route the
exception is caught, so there the submission stays (`ExpireSubmit`). `Void` is
an operator's SQL: the application reads `voided` but never writes it.

**AnswerOutbox.** The n-th keystroke has number n, which is a row's id and its
value. `Type` gives a row to the disk and `Put` is its arrival there: nobody waits
for it (`Runner.tsx:342`), but what reads or empties the store later finds it done, as
IndexedDB runs its transactions in order (`InTurn`). `ToSend` is `collapse` and the
batch cap, `flushKey` the key kept for the same rows, `Forget` and `Refuse` the two
writes after an answer (a page may be closed between them), `ReadQueue` and `Resume`
the two reads of a restart, whose order matters. A request given up on stays among
`orphans` and may arrive later. A row has a `flaw` when the server is to refuse it for
what it is (`unknown_slot`, `schema_invalid`); `stale_seq` and `section_expired` depend
on what the server reads.
On the server a request is two steps, the read (`Begun`: the answer rows and the closed
sections it will decide on) and the write with its commit (`Commit`) or its rollback, so
requests overlap here as in `ExamAttempt`, which has the steps between. `Clashes` is the
unique index of answer rows, the one of the keys, and the freeze trigger with the row
locks it is read under. What an overlap does is recorded in `raced`: the slots
written by a request that had read an older row.

**OutboxRelay.** `Select` is the SELECT with FOR UPDATE SKIP LOCKED, `Send` one
message of `dispatch_all`, `Reschedule` the savepoint-protected `_reschedule`,
`CommitDrain` the commit of the batch. A message carries the position of its actor
in the route's fan-out. An actor runs in two steps, so that two workers that hold
copies of one message both read before either writes; `told` is what the actors have
written, by key. The backoff's length is abstracted to `BackoffOver`; the order of `available_at` is
the order of `ready`.

**Payments.** Each call is `PaymentStep` (the write of the payment's row),
`OrderStep`, `GrantStep` (the INSERT with NOT EXISTS) and `Commit`, in the
order in which the handlers take their locks. An order whose product lists no feature
(`Granting`) is paid and granted nothing. Amounts and signatures are not in it.

**Competition.** `now` is the last of the instants the code compares with (lobby
opens, start, end, end of the patience for stragglers) that has passed. `Prior`
reads the entry before `Upsert` waits for it, as the single statement does under
READ COMMITTED. The check of a pack and the read of its row are one step
(`Charge`): nothing lies between them but the same SELECT. `TickLock` is the
tick's SKIP LOCKED, `TickCommit` all it writes. Ticks are serialised by their
advisory lock, so there is one. The tick locks the contest and then entries, a key
release an entry and then the contest; they cannot deadlock, because the release
inserts its attempt first, whose foreign key (`0012_competitions.py:160`) takes KEY
SHARE on the contest (`SharesContest`), and a contest locked in any way is one the tick
passes by (`service.py:44`). A contest begins in `registration`, as `create_competition` inserts it;
`scheduled`, `cancelled` and `disqualified` are never written by the application.
`Impatient` are students who send a request while one of theirs is open; see
`contest_twice`.

### How a screen is modelled

A screen's module has its part of the server (the rows its handlers write) and
the page: what a query last returned, what is typed, and the mutation that is
pending. Pressing a button records the request with what it carries; a
later step is the handler, which reads the rows of that instant and applies its
guards; a further one is what `onSuccess` or `onError` does, refetches included.
A request or an answer may be lost, once the handler ran or before. A step of a
colleague is an action of its own on the server's part, so a form may always
have been filled from an older read. What is only displayed is not there: a
screen's text, spinners and layouts are no state.

The twelve screens of `AppScreens` do not share rows, so their product would
only multiply states. `screen` is chosen at the start and a behaviour is one
screen's; the properties are over all of them. `TimedScreens` does the same for
the three that wait: the stream, the room and the regrade desk.

**Composition.** `position` is the server's order, `view` what the page fetched.
`Moved` and `Deleted` are the two shifts the server makes; `sectionMoves` is the
client's plan of a drag, executed by one `PatchPosition` at a time, each
of which may fail or be preceded by a colleague's edit or by the PATCH of another
drag, begun before this one ended. Of a version's content there is only whether it
has changed since the fingerprint of the latest approval was taken (`approval`). Where
the centre requires no review, publishing asks for none (`LatestApproval`). `Publish`
reads a second time what `CheckPublish` checked.

**AudioLibrary.** A part that is being PUT is in the `air` until it is written or lost,
whatever the client has decided meanwhile; the store makes the directory anew for one that
comes late. Every start creates an upload of its own, so the client finds no part held.
The file's hash and the request are one wait (`creating`), during which nothing looks at
the signal.

**ClientSession.** Any revoked token is taken for a reuse, whether it was rotated or closed
by a sign-out; `alarm` keeps which. A refresh given up is a stray and may be handled later.

**ReadingPane.** Offsets count all the text of the container, the title and the hint
included (`Lead`), as `offsetOf` does; the spans paint the passage by them.

**Speaking.** `TickReads` is the matcher's read of the due slot and its pool under
the advisory lock, `TickCommits` the read of the queue, the pairs of both and the
slot's status. What locks nothing of the matcher's commits in between. A pool is a `line`
of people in the order they arrived or joined, and there is one such line; `match` takes
them in turn, as `_pair_within` does, minors and adults in one loop because nobody of the
one suits anybody of the other.

**ExamRoom.** Ticks are the server's. `zero` is the tick at which the page's
clock shows 0: the remaining time an answer carries counts from its arrival
(`clock.ts`, `takenAt`), so an answer that took a tick moves it later, and the
next one back. `closedParts` are the sections the runner calls over. An entry judges the
section by the deadline it has just written and takes it back when that is past
(`Refused`). Of the palette only the change of section is kept, and the outbox is
abstracted to whether anything waits (`unsent`).

**Regrades.** A key is the question its answers were written for. `impact` is
what the panel last read of a job. An actor is three steps: the read of the job's status
without a lock (`Delivered`), the recomputation (`Recomputed`), and the commit (`Planned`,
`Applied`) or the exception (`Raised`), after which the message comes again until its
retries are used up. The broker may deliver a message again while it is being handled
(`Redelivered`), so two workers may be at one job; `overlapped` records it.

**GroupLibrary, TestDetail, Account, Slots.** Of these four only the group editor has a
property, one the code violates. The others carry none: what their screens get wrong is what
section 5 lists, and the models are where it was found.

## 3. The runs

| Run | Shows | Instance |
|---|---|---|
| `attempt` | one current run, index never hit, a retry marked once, no early expiry, frozen answers stay, every expired attempt marked | an autosave, two submits under one key, the sweeper; one slot; any batch; clock to 3 with limit 1 and grace 1; one crash |
| `outbox` | nothing lost while live, Submit's promise, the screen after a reload, the refinement of `AnswerRegister`, and that the outbox drains | one slot, one interval flush beside the submit's, batches of 2, two keystrokes of which any may be malformed, one trouble (a loss, a reload, a section or sitting that ends), one abandoned request at a time |
| `relay` | nothing lost, repeats only for a reason, poison surfaces, every event told | two relays, one worker, one event with a fan-out of two beside a poisoned one, one crash, one outage, one regrade |
| `payments` | one grant in force, no paid order without what its product grants, no grant without money, cancelled is final | two orders, one of them paid through Click and Payme, the other of a product that grants nothing, two threads, one revocation per order |
| `contest` | never overbooked, packs spent by what is held, keys frozen once, publishing waits for who is writing, every contest is published | three students for two places, a pack each, two requests at a time, one key fix, one crash |
| `screens` | twelve screens, see below | see below |
| `waits` | the desk's wait ends and a job rescores once; silence is noticed; no section is closed early and who runs out of time is marked | one question with two key versions and one job, two workers, one retry, one redelivery; five connections; a paper of two sections and three ticks, the first with a limit of its own, answers up to one tick late, one loss or reload |
| `attempt_overlap`, `outbox_dropped`, `relay_twice`, `edit_overwritten`, `speaking_untold` | the code differs from what its comments or its contract promise, see 5 | the smallest instance with the behaviour |

Three more configurations give counterexamples in a second and belong to the
divergences of 5: `ExamAttemptDouble.cfg` (`ScoredOnce`), `CompetitionAbsent.cfg`
(`GoingLiveMarksNoShows`), `CompetitionTwice.cfg` (`TwiceCostsNothing`).

What `screens` checks, screen by screen:

| Property | Screen | Says | Bounds |
|---|---|---|---|
| `DragLands` | composition | a drag that nobody disturbed, another drag of the same person included, ends in the order it was dropped in, without a gap | 2 or 3 sections, two edits or drags, each PATCH of them |
| `StoppedIsDiscarded` | audio | a stopped upload leaves no part in the store, but for four cases it names | two parts |
| `ReviewIsWhole` | review | whichever of the two requests fails, the review puts each answer under its question and counts every score once | three questions |
| `HighlightsAreMarks` | reading | refinement of `Highlighter` | passages of 4 and 2 characters under headings of 1 and 2, any selection of the pane |
| `OnlyALossLooksLikeTheft` | session | the 401s of one page end in one refresh; the server suspects theft only when a refresh was given up, or a token closed by a sign-out was used | one tab, one person, three tokens, two expiries |
| `OneUnseenOrder` | billing | however often Buy is pressed, one order its buyer has not seen | two orders, two visits |
| `ActsOnItsSubject` | moderation | an action never falls on the person of the report open before | two reports |
| `PairsAreSafe`, `LeftOverIsThePool` | speaking | a tick's pairs by age and blocks; nobody is left over beside somebody suitable | three students, one of them young, four requests |

### Why these bounds are enough to be interesting

- Two requests of a kind are enough for every conflict of the exam module, since
  all of them are between two transactions over one row. With the sweeper and
  a crash there are four actors. Clock 3 gives one instant before the limit, at
  it, in the grace and past it.
- In the outbox, two keystrokes of one slot make a retry that carries other rows than
  its first try, under a new key, and a batch with a row the server takes beside one it
  refuses. One trouble is enough for each single loss, reload or end; what a second one
  could add is not exercised. At most one abandoned request at a time: two that arrive
  in either order are not. With two keystrokes two requests can overlap in a slot
  (`raced`), but only both create its row, and one of them then fails; the overlap that
  costs an answer takes three and is `attempt_overlap`'s. A single slot is a real limit:
  slots meet only in the batch, and a batch that mixes slots is not exercised; nor is a
  backlog above `MaxBatch`, since at least one row per slot must fit in a body and the
  second slot exceeds what TLC finishes with these faults.
- Two relays are needed for SKIP LOCKED. A batch of one is the harder case for
  poison at the head. With a budget of two an attempt is charged and retried.
- Three students for two places give a loser of the race; one pack per student
  and `Quantity = 2` leave room for a charge that is not owed. All four instants
  of the schedule are reached.
- A drag over two sections, up and down, has every PATCH shift and be shifted;
  three sections are the least in which an off-by-one shows. All the PATCHes of two
  drags can be made, in any order: the bound is on the drags begun.
- Highlighting counts from the top of the pane, so a selection may begin above the
  passage or in it.
- Highlights in four characters can touch, overlap, contain each other, cover the
  whole text or leave a gap; the theorem covers every length.
- Two reports are what a stale form needs: one it was filled from and one it must
  not touch. One tab is chosen for `session`
  because two on one cookie do look like a theft (section 5).
- Three students are the least in which one is left over, and with one young
  there are both age groups in a slot.
- Two timed sections with the first shorter than the paper give the section's end
  before the paper's and both at once; a third tick and the last one leave a first entry
  before and after the paper's time. Two workers with one redelivery are two deliveries
  of one job at once.
- Nothing stops a cap from hiding a longer scenario. The theorems of section 4
  remove the bound from the invariants of `attempt`, `relay`, `payments`, `contest` and
  `waits`, from those of `screens` but `ReviewIsWhole`, from `FrozenForGood`, `FrozenOnce`,
  `PublishingWaits`, `CancelIsFinal`, `PairsAreSafe` and `LeftOverIsThePool`, and from the
  refinement of `Highlighter`. What `outbox` checks is as good as its bounds.

Counters capped by a constant (`MaxAborts`, `MaxTyped`, `MaxTroubles`, `MaxOrphans`,
`MaxCrashes`, `MaxOutages`, `MaxRegrades`, `MaxRevokes`, `MaxFixes`, `MaxClock`; of the
screens `MaxEdits`, `MaxUploads`, `MaxGroups`, `MaxItems`, `MaxGroupEdits`, `MaxTests`,
`MaxChanges`, `MaxTokens`, `MaxExpired`, `MaxGrants`, `MaxOrders`, `MaxVisits`,
`MaxSlots`, `LastMoment`, `MaxCalls`, `MaxActions`, `MaxKeyVersions`, `MaxJobs`,
`MaxRedelivered`, `MaxLate`, `MaxGenerations`, `LastTick`) count faults, requests or
acts of the environment: the cap limits how often somebody acts, never
what the program does next. `Payments` and `AnswerOutbox` have no
clock: a call, a deadline or an expiry may come at any moment.

Every property has a mutant in `PROJECT.json`: an edit of one mapped definition of
the kind a slip would make (a lock not taken, a guard dropped, a flip forgotten)
under which the run's property fails. The mutated forms stand before the
definitions they replace, named `<definition>_<slip>`.

### Fairness

- `ExamAttempt`: time passes; an open transaction goes on when it can (PostgreSQL
  grants a lock that is free); the scheduler starts sweeps (`scheduler.py`, every
  five minutes). No client is obliged to send or to retry.
- `AnswerOutbox`: the page's own steps happen, the disk takes what it is given, and
  `setInterval` keeps firing; a request that is not lost is handled and answered. Nobody has to type, submit or reload.
  Losses are bounded, not fair.
- `OutboxRelay`: the relay is restarted by the scheduler, a backoff ends, an
  outage ends, workers consume. Crashes are bounded.
- `Competition`: the clock, the tick every five seconds and its end, and a request's own
  steps. Weak fairness is enough for the tick although it passes by a locked contest: the
  requests that lock one, registrations and key releases, end with its start and its end.
  No attempt has to be scored: the patience ends the wait.
- `Regrades`: the workers take what is on the queue, a delivery that was begun ends by a
  commit or an exception (a time limit at the latest), and the panel of a job read as in
  flight polls (`refetchInterval`). A retry may be the last: the property then ends in
  `GivenUp`. Nobody has to press anything.
- `SafetyStream`: the heartbeat's interval fires while it is set. Sockets need not
  close, tickets need not arrive.
- `ExamRoom`: the clock ticks; timers and timeouts that are set fire; a flush, a
  submit and a result's poll are answered or fail; the server scores what was
  submitted. Losses are bounded.
- `Speaking`: the slot's time comes and the scheduler's tick runs every 15 s;
  its commit is strongly fair, since a request may hold what it writes. Nobody
  has to check in.

Each of the four is conditioned on the screen being the one that is on.
Deadlock is not checked for the screens: a user may stop, and the counters end.

## 4. What is proved

The theorems hold for any values of the constants under the modules' `ASSUME`s
(disjoint sets of requests, naturals for bounds, finite sets where the code counts),
whichever the number of requests, threads, orders, slots or keystrokes. Each
invariant below was checked by TLC on the instance of its run before it was
proved.

**`ExamAttemptProofs`.** The inductive invariant `IInv` adds four facts to the
properties. `LockInv`: the holder of the row lock is the submission past its
UPDATE. `FlipInv`: what such a submission found current is still current when it
commits; this is why the flip misses no run, and it needs the lock.
`KeptInv`: a submit with a run has its response stored, in the same commit, which
turns "one stored response per key" into "one run per key". `HowInv`: whoever
is to write `auto_expiry` read a clock past the grace, and the clock does not go
back. From it: `OneCurrent`, `NoConflict`, `OncePerKeyHolds`, `NoEarlyExpiry`,
`TypeCorrect`. `FreezeIsFinal` is an action property, from the same invariant and
`SettledStep`: with the status frozen and no rows flushed, the trigger refuses
every later flush.

**`PaymentsProofs`.** `IInv` has the two locks (`PayLock`, `OrderLock`), that the
payment's row stays as the call found it (`RowKept`), and `GrantKnown`: what NOT
EXISTS found still holds when the call commits, because both captures of an
order hold the order's lock. This is the argument the code leaves implicit:
no constraint of the database stands behind one grant per order.
`GrantsOnce`, `PaidGrants`, `GrantsHaveMoney`, `CancelsForGood`, `TypeCorrect`.

**`ReadingPaneProofs`.** `PaneInv` says that the pane keeps well-formed spans
inside the text (`SpansAreSpans`), a menu at an offset of it (`MenuIsInText`),
and, the part that matters, `Separated`: two spans neither overlap nor touch.
`HighlightsStaySeparate` is that fact. `PaneImplementsHighlighter` is the
refinement of `Highlighter`, whose state is a set of characters: the spans'
union. Highlighting maps to painting the selection, moved down by the text above the
passage, because merging keeps the union. Clearing removes one span, while the abstract
step removes the whole run of painted characters under the pointer: they are the same only because of
`Separated`. The assumption `ReadingAssumption` says that no pane has more text than
`MaxLength`, whatever that is. That a set of offsets has a least and a greatest
element comes from the library's theorems about well-founded relations.

**`OutboxRelayProofs`.** `TableInv` has the facts about rows: those that are ready are
pending and listed once, a drain holds ready rows and is at the first it has still
to send, and `DrainsApart`, which is what FOR UPDATE SKIP LOCKED gives. On it rest
two invariants. For `NothingIsLost`, `DrainsReached`: what an open drain has sent is
on the queue or further, so that its commit marks nothing else. For `SentOnceEach`,
`Accounted`: a message of an unmarked row was sent at most once for each crash and
outage so far, and once more only while its drain is open. The rows a drain chooses from are a `Listing`,
defined by what it must satisfy (these rows, each once, in their order) rather than by a
filter on a sequence, which the provers cannot unfold.

**`CompetitionProofs`.** `IInv` has the locks (`EntryLocks`, `ContestLock`), and `Fits`,
one sentence per operation: what a transaction has read under a lock is still so.
`KeysKept` is why keys are frozen once and holds for everybody; `LiveIsStarted`
is why the tick's look at entries tells it about attempts. `KeysFrozenOnce` and
`NobodyIsLeftWriting` have no further hypothesis. `PlacesAreLimited`
assumes `Impatient = {}`, nobody sends a second request while theirs is open: without it,
what was read before the lock may have changed (`Found`). `PacksAreSpentByWhatIsHeld` needs
no such assumption of the students. It is a statement about one pack in any behaviour: until two requests charged to
it are open at once (`Serial`), it stands at the entries held against it, whatever the
other students and packs do. What follows such an overlap is the lost update of section 5.
The `contest` run has patient students with a pack each as its instance.

**`AppScreensProofs`.** A step of the application is a step of one screen
(`OneScreen`), so each screen has an invariant of its own and `ScreensInv` is their
conjunction. Audio: an upload that is neither under way nor `left` has nothing in the
store, and nothing in the air while its row is open. Billing:
an order of this visit that is not on the screen has the key the page holds for its body,
and a key belongs to one body. Moderation: a form filled from a row names the
row's subject until the row changes. Session, `SessionInv`: unless a refresh was given
up, the cookie is spent only while the answer with its successor waits to be
read, and revoked only by a sign-out. `OnePageIsNoThief` assumes `OneTab`, because two pages on one cookie do
look like a theft (section 5). Speaking: `match` is a function by recursion on the
rounds of the loop, one person of the pool to a round. `RoundsExist` shows that there is
such a function, and `MatchSuits` goes through its rounds (by `Counting`, induction over a
set of numbers, which the provers can instantiate): each adds a pair that suits or none,
none is undone, and one that adds none had nobody left to choose from. `SpeakingInv`
carries that from the tick's reads to its writes (blocks are only ever added), so that
the pairs written are safe (`NoUnsafePair`) and two of those left over do not suit each
other (`NoPairIsLeftUnmade`), for a pool of any length. `PaneOnItsScreen` carries `PaneImplementsHighlighter` over to
the application.

**`TimedScreensProofs`.** `RoomInv`: a section's deadline is written once, the
runner knows nothing of it or exactly that, and its own zero is never before the
paper's, however late the answer came that set it. So a section it closes is over on the
server, or was refused at its first entry (`NoSectionClosesEarly`). `RegradesInv`: unless
two deliveries of a job were handled at once, it has been rescored exactly when it is
completed, and neither a message that comes again, a retry, a failure, nor an apply asked
for on a stale panel takes a completed job back (`AJobRescoresOnce`).

Assumptions that came with these proofs, each true of the code: the slots of a paper
and the sections of one are finitely many, sections are numbered from 1 without a gap
(`RoomAssumption`); students are finitely many (`SpeakingAssumption`); quantities and ranks are naturals (`BillingAssumption`,
`AccountAssumption`); `None` is not one of the values it stands beside (`SessionAssumption`,
`AudioAssumption`). TLC evaluates all of them.

Only model-checked:

- liveness (`ExpiredIsScored`, `Drains`, `EveryEventTold`, `PoisonSurfaces`,
  `EveryContestEnds`, `WaitingEnds`, `SilenceIsNoticed`,
  `ArmedEndsMarked`), which is out of the prover's reach;
- what `outbox` checks (`NothingLost`, `SubmittedIsMarked`, `ScreenIsNewest`,
  `ImplementsRegister`): an inductive invariant of requests that overlap has yet to be
  stated (section 7);
- `DragLands` (the order is a sort, the plan a filter on a sequence) and `ReviewIsWhole`
  (a sum over a folded set): what a fold, a filter or a
  sort of the library computes for every input is an induction over data through
  theorems with operator parameters, which the installed provers cannot instantiate.

## 5. Where the code and its documentation differ

### With a run

- `attempt_overlap`: an autosave with a lower `client_seq` may overwrite a higher
  one already acknowledged, when both read the row before either wrote it; the comparison
  is made on the row as read (`session.py:295` against the docstring, 204-206).
- `outbox_dropped`: a keystroke typed while a submit is under way is deleted
  unsent (`flow.ts:160` against 119-123).
- `relay_twice`: two copies of `project_attempt` handled at once both insert, and the
  exposure is counted twice (`projections.py:222` against 200-201).
- `edit_overwritten`: the second of two authors of a group silently wins. The tag of a
  draft never changes (`assets.py:321`, 1161), and the console fetches a fresh one right
  before the write (`useVersionEdit.ts:37` against its comment, 9-12, and `assets.py:342`).
- `speaking_untold`: a student who checks in after the matcher has set the slot
  live is told to await `slot.matched` (the contract's words) and never hears
  anything: neither a pair nor the notice that there was nobody.

### With a configuration

- `ExamAttemptDouble.cfg`: two overlapping submits under different keys, or a
  submit and the sweeper, both mark (`session.py:581` against
  `flow.ts:110-111`). The student still has one current result: that is
  `OneCurrentRun`.
- `CompetitionAbsent.cfg`: a key release makes the contest live before the tick
  does, so no no-show is recorded (`competitions.py:625` against
  `service.py:89-90`).
- `CompetitionTwice.cfg`: two overlapping registrations of one student for an
  uncapped contest are both charged (`competitions.py:391` against 387-390). It
  takes two different idempotency keys, or none.

### Noted while modelling, without a run

- Exam: a row flushed before a freeze may commit after it (`0011_exam.py:165`
  reads the committed status), which is why `FrozenForGood` waits for such
  transactions. A submission that waited for a void writes `scored` over it
  (`session.py:579`). The submission of a late autosave is rolled back with its
  error (`session.py:224`), so the sweeper is what marks the attempt.
- Outbox: "if everything after this line fails, the answer is still on disk"
  (`Runner.tsx:341-342`) is said of a write nobody awaits: a reload right after a keystroke
  may come before it, and the keystroke is gone.
- Runner: a row the server refused as stale because its own earlier copy landed
  raises the banner although nothing was lost (`flow.ts:84`).
- Relay: a copy of `attempt.scored` consumed after a regrade has another dedupe
  key, so the student is told twice (`actors.py:191` against `notify.py:94-95`). An event
  with no route is "dropped by the relay with a warning" in one comment
  (`actors.py:416-419`) and retried and dead-lettered in two others (`actors.py:432-434`,
  `relay.py:18-21`); the code does the latter, which is `PoisonSurfaces`.
- Payments: an order of a product that lists no feature is paid and granted nothing, with
  a line in the log (`platform_ops.py:1911-1915`). A Perform repeated after its grant was revoked grants again
  (`platform_ops.py:1944`); a late Click Prepare moves a captured payment back to
  authorized; Payme's Cancel after Perform leaves the order paid with its payment
  cancelled; Click refusals are stored and replayed; Payme calls are not logged
  although `0015_billing.py` says every inbound call is.
- Contests: `refresh_leaderboard` (`actors.py:351`), read but not in the model, may run
  beside the last tick and write the final board back as provisional; a
  request that spans the end can move the status back to live; a student with two
  open requests can withdraw and register again for free, or get two attempts from
  two key releases; one pack used for two contests at once loses an update
  (`deps.py:207`); stragglers after the final board are never added
  (`schedule.py:75-77`); a capped registration that commits after the start
  stays `registered`; a third change of rank 1, 2, 1, 2 is not notified.
- Versions: a clone shown in the same component keeps the editing panel of its original. "Start a new draft version" is
  refused with 422 whenever it is offered (`tests_authoring.py:567` against
  `TestDetail.tsx:162-172`). A test that was published and then archived can be
  deleted (against `TestDetail.tsx:22-23`), and a version can still be published
  after its test was deleted.
- Composition: the reviewer approves what the server reads at their click, not
  what they saw (against `Composition.tsx:563-565`); publication reads the
  version a second time after its check (`authoring.py:125`, `repo.py:288`), so an edit in
  between is published unapproved, although "publish refuses when the version has moved"
  (`review.py:28-32`).
- Groups: a question can be placed in a group twice by two authors
  (`GroupLibrary.tsx:445-448`); choosing "No limit" omits the field and keeps the
  old limit; opening another group keeps the form of the first.
- Audio: cancelling while the session is being opened leaves an upload to the
  sweeper (against `AudioLibrary.tsx:218-219`), and so do a page that is closed and an abort that
  is lost; the sweeper closes the row and keeps the parts; a part in the air when the abort
  is handled makes the directory anew. "`POST /audio-tracks` is idempotent on the checksum"
  (`upload.ts:189-192`): the handler makes a track and an upload each time
  (`assets.py:489`), so the branch for held parts (196-202) is never taken.
- Regrades: choosing another question while a key is being saved puts the answer's
  key under the question of the latest render; a refetch overwrites typed edits; a
  plan may be confirmed that was replaced after it was read (`Regrades.tsx:112-114`,
  427-431); the contest decision (795-903) is not reached for a job staged here; a
  failed job is not polled again. Two deliveries of one job that overlap may both commit:
  the job is read without a lock (`actors.py:82`, 406-411), and the unique index on
  current runs fails only one that waited for the other; the second may then put the scores
  of older keys over newer ones, and a plan that ends late writes `ready` over a later
  status. A plan whose retries are used up, and an apply ended by its time limit, leave the
  job `planning` or `running` with nothing recorded.
- Reading: highlights carry over to the next section's passage, at the same offsets
  (`Reading.tsx:40`). Offsets do not "index into exactly this string" (`Reading.tsx:39`):
  `offsetOf` counts the title and the hint as well (`highlights.ts:105-119`), so what is
  painted lies that much further down than what was selected, and a selection near the end
  paints less or nothing. A selection that begins outside the container is not empty, as the
  comment has it (115-118), but runs to the end of the text.
- Exam room: Home counts a live attempt among those used up and offers none; a
  question of another section leaves the section on a palette step; on a
  resumed attempt completed sections are called closed; an `enter` that was lost is
  not retried; the end of the paper's time is noticed only when an answer to a
  flush re-anchors the clock, so that a student with nothing queued is not
  submitted until the sweeper comes (`Runner.tsx:441-453` against 431-433). A section entered
  for the first time after the paper's time is refused and rolled back, yet closed in the
  runner (`session.py:413-433`). The result page, should its first request fail, does not
  ask again (`Result.tsx:34-37`). The review does not show a
  set's answer under the scorer's slot `selection`.
- Sessions: a principal that arrives after the sign-out which forgot it is kept for
  the next person of the page (`principal.ts` against `signOut.ts:63-66`); two tabs that refresh at once
  on one cookie look like a theft and revoke every session; so does a page that still holds
  a token closed by a sign-out elsewhere: it is told that the token "was already used", and
  sessions opened since are revoked (`auth.py:800-818` against 833-836); a refresh whose
  answer is lost is retried with the token already spent, and signs out
  (against `session.ts:134`).
- Account: a withdrawal takes the newest live row of that consent, not the one
  shown (`Account.tsx:20-23`); 160-162 says no endpoint writes a withdrawal but
  `identity.py:136` does.
- Safety stream: silence before the first hello is never noticed, because the
  heartbeat is started by it.
- Moderation: the outcome shown may name another action than the one recorded.
- Slots: an opened slot may not be listed for the account that opened it
  (`slotRules.ts:52-56`); the start is judged at the last render; a lost
  answer and a second press open two slots.
- Speaking: one student may have two waiting queue entries; the slot and the queue
  of one tick can pair the same person twice; a rebooking keeps `checked_in_at`;
  the capacity is counted and then inserted (`speaking.py:380-393`).
- Counted and then written without a lock, not in a model: seats
  (`platform_ops.py:2306`), `max_attempts` (`routers/exam.py:333`);
  `audio_locked_at` is read and then written (`session.py:508`); two requests
  that present one one-time code (`auth.py:719`); a plan whose rows change before
  it is applied (`planner.py:225`).

## 6. What is not modelled

Text and layout: question definitions, rendering, importing, OpenAPI. The
console's other screens: rosters, cohorts, assignments, results, usage,
governance, archive, imports, preview, passages, cue cards and band maps, which
are lists and forms over one request each. Files: transcoding, byte
ranges, signatures, the file of an export. Queries that read and nothing else.
Authorization, a pure predicate each handler applies before the modelled part.
Provider signatures and amounts. Storage errors of IndexedDB. The purge of
dispatched outbox rows. Of speaking: ability bands, language and centre-only
bookings, the expiry of queue entries, ending a pair. Of contests: the board and its
live refresh, the decision on a regrade, republishing, signals. Of sign-in: the counting of attempts at a
code. Of groups: visibility and archiving. Seats and the search for an entitlement.
The delivery of notifications after they are queued. `PROJECT.json` gives the
reason by component.

## 7. The plan

The core came first because it is where answers, marks, money and places can be
lost; then what people do with both apps.

1. `ExamAttempt` with `ExamAttemptProofs`; `AnswerOutbox` with `AnswerRegister`;
   `OutboxRelay`; `Payments` with `PaymentsProofs`; `Competition`. Done.
2. The screens with the handlers behind them: composition, groups, tests, audio,
   regrades, reading pane (proved), review, exam room, sessions, account,
   billing, moderation, the safety stream, slots and speaking. Done.
3. Theorems: the safety invariants of the runs but those of `outbox`, the action
   properties that no fold of the library stands behind, what the matcher makes of a pool
   of any length, and the refinement of `Highlighter` (section 4). Done. Left: the outbox
   with requests that overlap on the server, for slots that are not `raced`; type
   correctness of the screens that have no theorem (`PaperReview`, `SafetyStream`, `Slots`),
   the answers the review shows, and the drag of a section (`DragLands`), with its plan as a
   recursive function of the sections. Two refreshes of one token that both pass the
   unlocked read, and two applies of one ready job at the API, are still one step each.
4. `Seats` with the entitlement check, and `Delivery` of notifications.
   `ContentVersion`: fork. The one-time codes. The decision of a contest on a
   regrade, with `Regrades` and `Competition` composed.
5. `Algorithms`: slot scoring, band lookup, ranking with ties,
   the schedule, the rate limiter's window, each against a reference definition
   over bounded inputs.

Bounds for what is to come follow the present ones: two actors of each kind and
one of each fault, a third where a resource holds two.

## 8. Running it

    tlc -workers 2 -config ExamAttempt.cfg MCExamAttempt
    tlapm ExamAttemptProofs.tla

with the configurations of `PROJECT.json`'s runs. Each finishes within four
minutes on two workers; `waits`, `outbox` and `screens` are the longest.
