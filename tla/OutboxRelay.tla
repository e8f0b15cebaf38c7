---------------------------- MODULE OutboxRelay ----------------------------
(***************************************************************************)
(* The transactional outbox (app/workers/relay.py, actors.py): an event is *)
(* committed with the change that caused it, a relay sends it to the       *)
(* broker and then marks it, and actors consume it at least once.          *)
(*                                                                         *)
(* A drain is one transaction: it locks a batch of rows, sends their       *)
(* messages one after the other, and marks or reschedules all of them at   *)
(* its commit.  What it sent does not come back when it is rolled back.    *)
(***************************************************************************)
EXTENDS Integers, Sequences, FiniteSets, SequencesExt

CONSTANTS
    Events,       \* the outbox rows a run of the system may write
    Poison,       \* the events no route can dispatch
    Targets,      \* the actors each event is sent to, in order
    Relays,       \* relay processes draining the table
    Workers,      \* threads of the worker pool
    Batch,        \* rows per drain
    MaxAttempts,  \* the attempt budget of a row
    MaxCrashes,   \* bound on relays and actors that die mid-transaction
    MaxOutages,   \* bound on outages of the broker
    MaxRegrades   \* bound on regrades that flip an attempt's current run

ASSUME RelayAssumption ==
    /\ Poison \subseteq Events
    /\ \A e \in Events : Targets[e] \in Seq(STRING) \ {<<>>}
    /\ Batch \in Nat \ {0} /\ MaxAttempts \in Nat \ {0}
    /\ MaxCrashes \in Nat /\ MaxOutages \in Nat /\ MaxRegrades \in Nat

VARIABLES
    row,      \* outbox: "none", "pending" or "dispatched"
    attempts, \* outbox.attempts
    ready,    \* pending rows whose available_at has come, in that order
    relay,    \* the open drain of each relay
    up,       \* the broker answers
    sent,     \* how often each message was put on the queue
    queue,    \* how many copies of it are on the queue now
    job,      \* the message each worker has open
    told,     \* the keys of the rows the actors have written for it
    run,      \* the current score run of the attempt an event is about
    crashes, outages

table  == <<row, attempts, ready>>
broker == <<up, sent, queue>>
actors == <<job, told>>
vars   == <<table, relay, broker, actors, run, crashes, outages>>

Messages == UNION {{<<e, i>> : i \in DOMAIN Targets[e]} : e \in Events}
Of(e)    == {<<e, i>> : i \in DOMAIN Targets[e]}
Actor(m) == Targets[m[1]][m[2]]

NoDrain == [open |-> FALSE, todo |-> <<>>, next |-> 1, done |-> {}, later |-> {}, charged |-> {}]

NoJob == [open |-> FALSE, m |-> <<>>, key |-> 0, fresh |-> FALSE]

Init ==
    /\ row = [e \in Events |-> "none"]
    /\ attempts = [e \in Events |-> 0]
    /\ ready = <<>>
    /\ relay = [r \in Relays |-> NoDrain]
    /\ up = TRUE
    /\ sent = [m \in Messages |-> 0] /\ queue = [m \in Messages |-> 0]
    /\ job = [w \in Workers |-> NoJob]
    /\ told = [m \in Messages |-> <<>>]
    /\ run = [e \in Events |-> 1]
    /\ crashes = 0 /\ outages = 0

\* The change and its event commit together, or not at all.
Commit(e) ==
    /\ row[e] = "none"
    /\ row' = [row EXCEPT ![e] = "pending"]
    /\ ready' = Append(ready, e)
    /\ UNCHANGED <<attempts, relay, broker, actors, run, crashes, outages>>

-----------------------------------------------------------------------------
(* drain                                                                   *)

Rows(d) == {d.todo[i] : i \in DOMAIN d.todo} \cup d.done \cup d.later

\* FOR UPDATE SKIP LOCKED: the rows no other drain holds.
Locked_None(e) == FALSE
Locked(e) == \E r \in Relays : e \in Rows(relay[r])

\* A row that has spent its budget is left where it is, for a human.
Eligible == {e \in ToSet(ready) : ~ Locked(e) /\ attempts[e] < MaxAttempts}

Before(e, f) == \E i, j \in DOMAIN ready : i < j /\ ready[i] = e /\ ready[j] = f

\* ORDER BY available_at: the rows of K, in the order they became ready.
Listing(K) ==
    {t \in SeqOf(K, Len(ready)) :
        /\ ToSet(t) = K
        /\ \A i, j \in DOMAIN t : i < j => Before(t[i], t[j])}

Select(r) ==
    /\ ~ relay[r].open
    /\ Eligible # {}
    /\ \E t \in Listing(Eligible) :
          relay' = [relay EXCEPT ![r] =
             [NoDrain EXCEPT !.open = TRUE,
                !.todo = SubSeq(t, 1, IF Len(t) < Batch THEN Len(t) ELSE Batch)]]
    /\ UNCHANGED <<table, broker, actors, run, crashes, outages>>

\* dispatch_all sends to the routed actor and then to the fan-out's, and
\* returns only when all of them are on the queue.
SentAll_First(r) == TRUE
SentAll(r) == relay[r].next = Len(Targets[relay[r].todo[1]])

Send(r) ==
    /\ relay[r].todo # <<>> /\ up
    /\ LET e == relay[r].todo[1]
           m == <<e, relay[r].next>>
       IN /\ e \notin Poison
          /\ sent' = [sent EXCEPT ![m] = @ + 1]
          /\ queue' = [queue EXCEPT ![m] = @ + 1]
          /\ relay' = [relay EXCEPT ![r] =
                IF SentAll(r)
                THEN [relay[r] EXCEPT !.todo = Tail(@), !.next = 1, !.done = @ \cup {e}]
                ELSE [relay[r] EXCEPT !.next = @ + 1]]
    /\ UNCHANGED <<table, up, actors, run, crashes, outages>>

\* _reschedule: the attempt budget is charged only for poison.
Charges_None(e) == FALSE
Charges(e) == e \in Poison

\* The route raises, or the broker does not answer.
Reschedule_RollsBack(r) ==
    /\ relay[r].todo # <<>>
    /\ relay[r].todo[1] \in Poison \/ ~ up
    /\ relay' = [relay EXCEPT ![r] = NoDrain]
    /\ UNCHANGED <<table, broker, actors, run, crashes, outages>>
Reschedule(r) ==
    /\ relay[r].todo # <<>>
    /\ LET e == relay[r].todo[1] IN
         /\ e \in Poison \/ ~ up
         /\ relay' = [relay EXCEPT ![r] =
              [relay[r] EXCEPT
                 !.todo = Tail(@), !.next = 1, !.later = @ \cup {e},
                 !.charged = @ \cup {f \in {e} : Charges(f)}]]
    /\ UNCHANGED <<table, broker, actors, run, crashes, outages>>

CommitDrain(r) ==
    /\ relay[r].open /\ relay[r].todo = <<>>
    /\ row' = [e \in Events |-> IF e \in relay[r].done THEN "dispatched" ELSE row[e]]
    /\ attempts' = [e \in Events |-> IF e \in relay[r].charged THEN attempts[e] + 1 ELSE attempts[e]]
    /\ ready' \in Listing(ToSet(ready) \ (relay[r].done \cup relay[r].later))
    /\ relay' = [relay EXCEPT ![r] = NoDrain]
    /\ UNCHANGED <<broker, actors, run, crashes, outages>>

\* The backoff of a rescheduled row is over.
BackoffOver(e) ==
    /\ row[e] = "pending" /\ e \notin ToSet(ready)
    /\ ready' = Append(ready, e)
    /\ UNCHANGED <<row, attempts, relay, broker, actors, run, crashes, outages>>

\* The relay dies: nothing it did to the table remains.
CrashRelay(r) ==
    /\ relay[r].open /\ crashes < MaxCrashes
    /\ crashes' = crashes + 1
    /\ relay' = [relay EXCEPT ![r] = NoDrain]
    /\ UNCHANGED <<table, broker, actors, run, outages>>

-----------------------------------------------------------------------------
(* The broker and the actors                                               *)

BrokerDown ==
    /\ up /\ outages < MaxOutages
    /\ up' = FALSE /\ outages' = outages + 1
    /\ UNCHANGED <<table, relay, sent, queue, actors, run, crashes>>

BrokerUp ==
    /\ ~ up /\ up' = TRUE
    /\ UNCHANGED <<table, relay, sent, queue, actors, run, crashes, outages>>

\* A regrade makes another run of the attempt its current one.
Regrade(e) ==
    /\ row[e] # "none" /\ run[e] <= MaxRegrades
    /\ \E m \in Of(e) : Actor(m) = "notify_scored"
    /\ run' = [run EXCEPT ![e] = @ + 1]
    /\ UNCHANGED <<table, relay, broker, actors, crashes, outages>>

\* notify_scored deduplicates on the attempt and its current run, the others
\* on what they are about.
Key(m) == IF Actor(m) = "notify_scored" THEN run[m[1]] ELSE 0

\* INSERT ... ON CONFLICT (dedupe_key) DO NOTHING, which waits for an insert
\* of the same key that has not committed.
Inserts(w) ==
    IF Actor(job[w].m) = "project_attempt" THEN job[w].fresh
    ELSE \A i \in DOMAIN told[job[w].m] : told[job[w].m][i] # job[w].key

Told(w) ==
    IF Inserts(w) THEN [told EXCEPT ![job[w].m] = Append(@, job[w].key)] ELSE told

\* An actor runs a message in one transaction.  project_attempt inserts where
\* NOT EXISTS finds no row of the attempt that has committed.
Take(w, m) ==
    /\ up /\ queue[m] > 0 /\ ~ job[w].open
    /\ queue' = [queue EXCEPT ![m] = @ - 1]
    /\ job' = [job EXCEPT ![w] = [open |-> TRUE, m |-> m, key |-> Key(m), fresh |-> told[m] = <<>>]]
    /\ UNCHANGED <<table, relay, up, sent, told, run, crashes, outages>>

\* It commits, and acknowledges the message.
Finish(w) ==
    /\ job[w].open
    /\ told' = Told(w)
    /\ job' = [job EXCEPT ![w] = NoJob]
    /\ UNCHANGED <<table, relay, broker, run, crashes, outages>>

\* It dies before its commit, or after it and before the acknowledgement:
\* the message is delivered again.
CrashActor(w) ==
    /\ job[w].open /\ up /\ crashes < MaxCrashes
    /\ crashes' = crashes + 1
    /\ told' \in {told, Told(w)}
    /\ job' = [job EXCEPT ![w] = NoJob]
    /\ queue' = [queue EXCEPT ![job[w].m] = @ + 1]
    /\ UNCHANGED <<table, relay, up, sent, run, outages>>

RelayStep(r) == Select(r) \/ Send(r) \/ Reschedule(r) \/ CommitDrain(r)

WorkerStep(w) == Finish(w) \/ \E m \in Messages : Take(w, m)

Stuck(e) == row[e] = "pending" /\ attempts[e] >= MaxAttempts

\* Everything that can be dispatched is, and the actors are idle.
Settled ==
    /\ up /\ \A m \in Messages : queue[m] = 0
    /\ \A w \in Workers : ~ job[w].open
    /\ \A e \in Events : row[e] = "dispatched" \/ Stuck(e)
    /\ UNCHANGED vars

Next ==
    \/ \E e \in Events : Commit(e) \/ BackoffOver(e)
    \/ \E r \in Relays : RelayStep(r) \/ CrashRelay(r)
    \/ BrokerDown \/ BrokerUp
    \/ \E e \in Events : Regrade(e)
    \/ \E w \in Workers : WorkerStep(w) \/ CrashActor(w)
    \/ Settled

Spec == Init /\ [][Next]_vars

\* The scheduler keeps the relay running, a backoff ends, an outage ends, and
\* the pool consumes what is on the queue.
Fairness ==
    /\ \A r \in Relays : WF_vars(RelayStep(r))
    /\ \A e \in Events : WF_vars(BackoffOver(e))
    /\ WF_vars(BrokerUp)
    /\ \A w \in Workers : WF_vars(WorkerStep(w))

FairSpec == Spec /\ Fairness

-----------------------------------------------------------------------------
(* Properties                                                              *)

Held(m) == queue[m] > 0 \/ \E w \in Workers : job[w].open /\ job[w].m = m

\* Send, then mark: a row is marked dispatched only when every message of it
\* is on the queue, with a worker, or consumed, so no crash loses one.
NothingLost ==
    \A e \in Events : row[e] = "dispatched" =>
        \A m \in Of(e) : Held(m) \/ told[m] # <<>>

\* Two relays do not dispatch the same row: a message is sent twice only
\* because a relay died, or the broker failed between its row's two sends.
SentOnce == \A m \in Messages : sent[m] <= 1 + crashes + outages

\* "So a redelivered job cannot message anyone twice" (notify.py, queue), and
\* "whichever runs first wins and the second is a no-op" (projections.py,
\* record_exposure): what a message writes, it writes once.  The code does not
\* keep this: a regrade in between changes the dedupe key, and NOT EXISTS does
\* not see a row that another worker has yet to commit.
ToldOnce == \A m \in Messages : Len(told[m]) <= 1

\* Every committed event reaches every actor it is routed to, whatever
\* crashes and outages come in between, and whatever poison lies before it.
EveryEventTold ==
    \A e \in Events \ Poison : row[e] # "none" ~> \A m \in Of(e) : told[m] # <<>>

\* A poisoned row ends up where the dead-letter query finds it: an event
\* without a route raises in dispatch, spends its budget and stays, although the
\* comment over ROUTES has it "dropped by the relay with a warning".
PoisonSurfaces == \A e \in Poison : row[e] # "none" ~> []Stuck(e)
=============================================================================
