---------------------------- MODULE Competition ----------------------------
(***************************************************************************)
(* One competition (app/api/routers/competitions.py, app/modules/          *)
(* competitions): registering and withdrawing against a pack of entries,   *)
(* the lobby, the release of the key that starts an attempt, the tick that *)
(* drives its status until the board is published.  What a published board *)
(* says (materialize) is not here: when it may be published is.            *)
(*                                                                         *)
(* A request is one READ COMMITTED transaction; its steps are the          *)
(* statements that wait for a row lock or read what others commit.  What   *)
(* it wrote is seen by others, and its locks end, at Commit.               *)
(***************************************************************************)
EXTENDS Integers, FiniteSets

CONSTANTS
    Users,            \* students with an account
    Impatient,        \* those who send a request while theirs is still open
    Requests,         \* threads serving requests
    Packs,            \* consumable entitlements for competition.entry
    Pack,             \* the pack each user's entries are charged to
    Quantity,         \* entries in a pack
    MaxParticipants,  \* competitions.max_participants, 0 when there is none
    ClosesAt,         \* when registration_closes_at falls
    MaxFixes,         \* bound on answer keys fixed meanwhile
    MaxCrashes        \* bound on transactions that fail

\* The instants the code compares the clock with.
LobbyOpens == 1
Starts     == 2
Ends       == 3
Patience   == 4

ASSUME CompetitionAssumption ==
    /\ IsFiniteSet(Users) /\ Impatient \subseteq Users
    /\ \A u \in Users : Pack[u] \in Packs
    /\ Quantity \in Nat /\ MaxParticipants \in Nat /\ MaxFixes \in Nat /\ MaxCrashes \in Nat
    /\ ClosesAt \in 0 .. Starts

VARIABLES
    now,      \* the last of those instants that has passed
    status,   \* competitions.status
    frozen,   \* key_freeze: the answer keys recorded, 0 when it is NULL
    keys,     \* the answer keys that are current
    entry,    \* competition_entries.status, "none" without a row
    attempt,  \* the attempt an entry points to
    spent,    \* entitlements.consumed
    req,      \* the open transaction of each request
    tick,     \* the status an open tick moves the contest to
    crashes

contest == <<status, frozen>>
entries == <<entry, attempt>>
vars    == <<now, contest, keys, entries, spent, req, tick, crashes>>

NoRequest == [op |-> "none", user |-> "none", at |-> "idle", prior |-> "none", put |-> "none",
              seen |-> 0, writes |-> FALSE]

Absent == {"none", "withdrawn"}

Init ==
    /\ now = 0
    /\ status = "registration" /\ frozen = 0 /\ keys = 1
    /\ entry = [u \in Users |-> "none"] /\ attempt = [u \in Users |-> "none"]
    /\ spent = [p \in Packs |-> 0]
    /\ req = [r \in Requests |-> NoRequest]
    /\ tick = "none"
    /\ crashes = 0

-----------------------------------------------------------------------------
(* Row locks                                                               *)

User(r)   == req[r].user
PackOf(r) == Pack[User(r)]

HoldsEntry(r) == req[r].at \in {"charge", "spend", "freeze", "commit"}
HoldsPack(r)  == req[r].at = "commit" /\ req[r].op # "key" /\ req[r].writes

\* The contest's row is held FOR UPDATE by a capped registration, which locks
\* it before it counts; written by the release that freezes the answer keys;
HoldsContest(r) ==
    \/ /\ req[r].op = "register" /\ MaxParticipants > 0
       /\ req[r].at \in {"prior", "upsert", "charge", "spend", "commit"}
    \/ req[r].op = "key" /\ req[r].at = "commit" /\ req[r].writes

\* and held FOR KEY SHARE, through their foreign keys, by whoever has inserted
\* an attempt or an entry of it.
SharesContest(r) ==
    \/ req[r].op = "key" /\ req[r].at \in {"start", "freeze", "commit"}
    \/ req[r].op = "register" /\ HoldsEntry(r) /\ entry[User(r)] = "none"

EntryFree(r) == \A q \in Requests \ {r} : HoldsEntry(q) => User(q) # User(r)
PackFree(r)  == \A q \in Requests \ {r} : HoldsPack(q) => PackOf(q) # PackOf(r)

ContestFree_Unlocked(r) == TRUE
ContestFree(r) == tick = "none" /\ \A q \in Requests \ {r} : ~ HoldsContest(q)

\* FOR UPDATE shares the row with nobody, FOR KEY SHARE with who writes it.
Unshared(r) == \A q \in Requests \ {r} : ~ SharesContest(q)
Sharable(r) ==
    /\ tick = "none"
    /\ \A q \in Requests \ {r} : HoldsContest(q) => req[q].op = "key"

Open(r, u, op, at, writes) ==
    /\ req[r] = NoRequest
    /\ u \in Impatient \/ \A q \in Requests : User(q) # u
    /\ req' = [req EXCEPT ![r] =
          [NoRequest EXCEPT !.op = op, !.user = u, !.at = at, !.writes = writes]]

Goes(r, at) == req' = [req EXCEPT ![r].at = at]
Ends_(r)    == req' = [req EXCEPT ![r] = NoRequest]

Rest == UNCHANGED <<now, contest, keys, entries, spent, tick, crashes>>

-----------------------------------------------------------------------------
(* register                                                                *)

RegistrationOpen == status = "registration" /\ now < ClosesAt /\ now < Starts

\* Entitlements.require: a pack that is spent refuses at once.
BeginRegister(r, u) ==
    /\ RegistrationOpen /\ spent[Pack[u]] < Quantity
    /\ Open(r, u, "register", IF MaxParticipants > 0 THEN "count" ELSE "prior", FALSE)
    /\ Rest

Taken == Cardinality({u \in Users : entry[u] \notin Absent})

Count(r) ==
    /\ req[r].at = "count" /\ ContestFree(r) /\ Unshared(r)
    /\ IF Taken >= MaxParticipants THEN Ends_(r) ELSE Goes(r, "prior")
    /\ Rest

\* "prior reads the pre-statement snapshot": what is committed when the
\* upsert begins, before it waits for the row.
Prior(r) ==
    /\ req[r].at = "prior"
    /\ req' = [req EXCEPT ![r].prior = entry[User(r)], ![r].at = "upsert"]
    /\ Rest

Owes_Always(r) == TRUE
Owes(r) == req[r].prior \in Absent

Upsert(r) ==
    /\ req[r].at = "upsert" /\ EntryFree(r)
    /\ entry[User(r)] = "none" => Sharable(r)
    /\ req' = [req EXCEPT
          ![r].put = IF entry[User(r)] \in Absent THEN "registered" ELSE entry[User(r)],
          ![r].at = IF Owes(r) THEN "charge" ELSE "commit"]
    /\ Rest

\* Entitlements.consume and refund read the row, and write back what they
\* read plus or minus one.
Charge(r) ==
    /\ req[r].at = "charge"
    /\ IF req[r].op = "register" /\ spent[PackOf(r)] >= Quantity THEN Ends_(r)
       ELSE req' = [req EXCEPT ![r].seen = spent[PackOf(r)], ![r].at = "spend"]
    /\ Rest

Spend(r) ==
    /\ req[r].at = "spend" /\ PackFree(r)
    /\ req' = [req EXCEPT ![r].at = "commit", ![r].writes = TRUE]
    /\ Rest

-----------------------------------------------------------------------------
(* withdraw                                                                *)

BeginWithdraw(r, u) ==
    /\ status \notin {"live", "grading", "final"}
    /\ Open(r, u, "withdraw", "release", FALSE)
    /\ Rest

\* UPDATE ... WHERE status = 'registered' RETURNING the entitlement.
Release(r) ==
    /\ req[r].at = "release" /\ EntryFree(r)
    /\ IF entry[User(r)] = "registered"
       THEN req' = [req EXCEPT ![r].put = "withdrawn", ![r].at = "charge"]
       ELSE Ends_(r)
    /\ Rest

-----------------------------------------------------------------------------
(* The lobby and the key                                                   *)

\* The payload is fetched: one UPDATE, whatever the status of the contest.
Lobby(u) ==
    /\ now >= LobbyOpens /\ entry[u] = "registered"
    /\ \A r \in Requests : HoldsEntry(r) => User(r) # u
    /\ entry' = [entry EXCEPT ![u] = "prefetched"]
    /\ UNCHANGED <<now, contest, keys, attempt, spent, req, tick, crashes>>

\* release_key: the contest's row and the entry are read once, here.
BeginKey(r, u) ==
    /\ now = Starts
    /\ entry[u] \notin Absent /\ attempt[u] = "none"
    /\ Open(r, u, "key", "attempt", frozen = 0)
    /\ Rest

\* session.flush: the attempt refers to its contest.
Attempt(r) ==
    /\ req[r].at = "attempt" /\ Sharable(r)
    /\ Goes(r, "start")
    /\ Rest

Start(r) ==
    /\ req[r].at = "start" /\ EntryFree(r)
    /\ req' = [req EXCEPT ![r].put = "started",
                          ![r].at = IF req[r].writes THEN "freeze" ELSE "commit"]
    /\ Rest

\* _freeze_keys: UPDATE ... WHERE key_freeze IS NULL.
Unfrozen_AsRead == TRUE
Unfrozen == frozen = 0

Freeze(r) ==
    /\ req[r].at = "freeze" /\ ContestFree(r)
    /\ req' = [req EXCEPT ![r].seen = keys, ![r].writes = Unfrozen, ![r].at = "commit"]
    /\ Rest

-----------------------------------------------------------------------------
(* The end of a request                                                    *)

Consumed(r) ==
    IF req[r].op = "register" THEN req[r].seen + 1
    ELSE IF req[r].seen > 0 THEN req[r].seen - 1 ELSE 0

Commit(r) ==
    /\ req[r].at = "commit"
    /\ entry' = [entry EXCEPT ![User(r)] = req[r].put]
    /\ attempt' = IF req[r].op = "key" THEN [attempt EXCEPT ![User(r)] = "live"] ELSE attempt
    /\ spent' = IF HoldsPack(r) THEN [spent EXCEPT ![PackOf(r)] = Consumed(r)] ELSE spent
    /\ IF req[r].op = "key" /\ req[r].writes
       THEN frozen' = req[r].seen /\ status' = "live"
       ELSE UNCHANGED contest
    /\ Ends_(r)
    /\ UNCHANGED <<now, keys, tick, crashes>>

\* An exception or a dead process undoes the whole request.
Undo(r) ==
    /\ req[r] # NoRequest /\ Ends_(r)
    /\ UNCHANGED <<now, contest, keys, entries, spent, tick>>

Crash == crashes < MaxCrashes /\ crashes' = crashes + 1

Rollback(r) == Undo(r) /\ Crash

-----------------------------------------------------------------------------
(* The tick                                                                *)

\* Started and not yet scored.
Pending == {u \in Users : entry[u] = "started" /\ attempt[u] # "scored"}

NextStatus_Waits ==
    CASE status = "registration" /\ now >= LobbyOpens -> "lobby"
      [] status = "lobby" /\ now >= Starts            -> "live"
      [] status = "live" /\ now >= Ends               -> "grading"
      [] status = "grading" /\ Pending = {}           -> "final"
      [] OTHER -> "none"
NextStatus ==
    CASE status = "registration" /\ now >= LobbyOpens -> "lobby"
      [] status = "lobby" /\ now >= Starts            -> "live"
      [] status = "live" /\ now >= Ends               -> "grading"
      [] status = "grading" /\ (Pending = {} \/ now >= Patience) -> "final"
      [] OTHER -> "none"

\* FOR UPDATE SKIP LOCKED: a tick passes by a contest a request has locked,
\* FOR KEY SHARE included.
TickLock ==
    /\ \A r \in Requests : ~ HoldsContest(r) /\ ~ SharesContest(r)
    /\ tick = "none" /\ tick' = NextStatus /\ tick' # "none"
    /\ UNCHANGED <<now, contest, keys, entries, spent, req, crashes>>

\* Registered and never prefetched; scored by the end.
Absentees == {u \in Users : tick = "live" /\ entry[u] = "registered"}
Submitted_All == {u \in Users : tick = "grading" /\ entry[u] = "started"}
Submitted == {u \in Users : tick = "grading" /\ entry[u] = "started" /\ attempt[u] = "scored"}

TickWaits == \E r \in Requests : HoldsEntry(r) /\ User(r) \in Absentees \cup Submitted

TickCommit ==
    /\ tick # "none" /\ ~ TickWaits
    /\ entry' = [u \in Users |-> IF u \in Absentees THEN "no_show"
                                 ELSE IF u \in Submitted THEN "submitted" ELSE entry[u]]
    /\ status' = tick /\ tick' = "none"
    /\ UNCHANGED <<now, frozen, keys, attempt, spent, req, crashes>>

TickRollback ==
    /\ tick # "none" /\ tick' = "none" /\ Crash
    /\ UNCHANGED <<now, contest, keys, entries, spent, req>>

-----------------------------------------------------------------------------
(* What goes on around the contest                                         *)

Clock ==
    /\ now < Patience /\ now' = now + 1
    /\ UNCHANGED <<contest, keys, entries, spent, req, tick, crashes>>

\* The attempt is submitted, or the sweeper submits it, and it is scored.
Score(u) ==
    /\ attempt[u] = "live"
    /\ attempt' = [attempt EXCEPT ![u] = "scored"]
    /\ UNCHANGED <<now, contest, keys, entry, spent, req, tick, crashes>>

\* An answer key is fixed.
FixKey ==
    /\ keys <= MaxFixes /\ keys' = keys + 1
    /\ UNCHANGED <<now, contest, entries, spent, req, tick, crashes>>

Step(r) ==
    \/ Count(r) \/ Prior(r) \/ Upsert(r) \/ Charge(r) \/ Spend(r)
    \/ Release(r) \/ Attempt(r) \/ Start(r) \/ Freeze(r) \/ Commit(r)

\* Nothing is left to do once the contest is final and every request ended.
Over ==
    /\ status = "final" /\ now = Patience
    /\ \A r \in Requests : req[r] = NoRequest
    /\ UNCHANGED vars

Next ==
    \/ \E r \in Requests :
          \/ Step(r) \/ Rollback(r)
          \/ \E u \in Users : BeginRegister(r, u) \/ BeginWithdraw(r, u) \/ BeginKey(r, u)
    \/ \E u \in Users : Lobby(u) \/ Score(u)
    \/ TickLock \/ TickCommit \/ TickRollback
    \/ Clock \/ FixKey \/ Over

Spec == Init /\ [][Next]_vars

\* Time passes, a request ends, the scheduler ticks every five seconds and a
\* tick ends.
Fairness ==
    /\ WF_vars(Clock)
    /\ \A r \in Requests : WF_vars(Step(r))
    /\ WF_vars(TickLock) /\ WF_vars(TickCommit)

FairSpec == Spec /\ Fairness

-----------------------------------------------------------------------------
(* Properties                                                              *)

Held(p) == Cardinality({u \in Users : Pack[u] = p /\ entry[u] \notin Absent})

\* "Serialising on the parent row is what actually makes two simultaneous
\* registrations for the last place mutually exclusive."
NeverOverbooked == MaxParticipants > 0 => Taken <= MaxParticipants

\* "An entry is spent while you HOLD a registration": refunds, refusals,
\* repeats and rollbacks leave a pack spent by as many entries as are held.
SpentIsHeld == \A p \in Packs : spent[p] = Held(p)

\* "Registering twice while already registered changes nothing and must cost
\* nothing."
TwiceCostsNothing == \A p \in Packs : spent[p] <= Held(p)

\* "A centre asking who missed the mock needs the row": however the contest
\* goes live, the students who never came are recorded as no-shows then.
GoingLiveMarksNoShows ==
    [][status # "live" /\ status' = "live" => \A u \in Users : entry'[u] # "registered"]_vars

\* The keys a contest is scored against are recorded once: no second starter
\* records what has been fixed since.
FrozenOnce == [][frozen # 0 => frozen' = frozen]_vars

\* A tick sets out to publish before the patience is over only when nobody
\* who has the paper is still writing: closing the entries drops no one from
\* those it waits for.
PublishingWaits ==
    [][tick # "final" /\ tick' = "final" /\ now < Patience =>
          \A u \in Users : attempt[u] # "live"]_vars

\* "A board that never appears is the worse failure": every contest is
\* published in the end, and stays so.
EveryContestEnds == <>[](status = "final")
=============================================================================
