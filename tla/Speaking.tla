------------------------------ MODULE Speaking ------------------------------
(***************************************************************************)
(* One speaking slot and the live queue: bookings, check-in, the matcher's *)
(* tick over both (one transaction, under an advisory lock), and pairs.    *)
(* The matcher reads at one point and writes at a later one; whatever locks *)
(* nothing of its own runs in between.  Ability, language and "my centre   *)
(* only" narrow who is compatible and are left out.                        *)
(***************************************************************************)
EXTENDS ConsoleBase

CONSTANTS
    Students, Young,    \* Young: who may be under 18 at the start
    Booked,           \* who has booked when the slot comes near
    AgeBands,         \* of the slot: "minor", "adult", "mixed_supervised"
    Capacity,
    MaxCalls          \* bound on the requests that people make

ASSUME SpeakingAssumption == IsFiniteSet(Students)

VARIABLES
    calls,            \* requests made so far
    adults,           \* those whose adult_at has come
    blocks,           \* pairs <<blocker, blocked>>
    slot,             \* [ageBand, status, time]; time: "early", "opens", "started"
    bookers,          \* requests to book that have counted the places
    bookings,         \* person -> [live, present, noShow, pair, made]; present orders the check-ins
    queueEntries,     \* sequence of [user, status]
    reading,          \* what the matcher has read, or None
    pairs,            \* sequence of [users, origin]
    noPartner         \* those told speaking.no_partner

speakingVars == <<calls, adults, blocks, slot, bookings, queueEntries, bookers, reading, pairs, noPartner>>

Unbooked == [live |-> FALSE, present |-> 0, noShow |-> FALSE, pair |-> 0, made |-> FALSE]

SpeakingInit ==
    /\ \E y \in SUBSET Young : adults = Students \ y
    /\ blocks = {} /\ calls = 0
    /\ slot \in [ageBand : AgeBands, status : {"booking"}, time : {"early"}]
    /\ bookings = [p \in Students |-> [Unbooked EXCEPT !.live = p \in Booked, !.made = p \in Booked]]
    /\ bookers = {} /\ queueEntries = <<>>
    /\ reading = None /\ pairs = <<>> /\ noPartner = {}

Call == calls < MaxCalls /\ calls' = calls + 1

is_minor(p) == p \notin adults
permitted(p) == {IF is_minor(p) THEN "minor" ELSE "adult", "mixed_supervised"}

-----------------------------------------------------------------------------
(* What people do. *)

Birthday(p) ==
    /\ p \notin adults /\ adults' = adults \cup {p}
    /\ UNCHANGED <<calls, blocks, slot, bookings, queueEntries, bookers, reading, pairs, noPartner>>
BlockUser(p, q) ==
    /\ p # q /\ <<p, q>> \notin blocks /\ Call /\ blocks' = blocks \cup {<<p, q>>}
    /\ UNCHANGED <<adults, slot, bookings, queueEntries, bookers, reading, pairs, noPartner>>
SlotTime ==
    /\ slot.time # "started"
    /\ slot' = [slot EXCEPT !.time = IF @ = "early" THEN "opens" ELSE "started"]
    /\ UNCHANGED <<calls, adults, blocks, bookings, queueEntries, bookers, reading, pairs, noPartner>>

\* book_slot: the places are counted, and the row written later.
LiveBookings == {p \in Students : bookings[p].live}
BookCounts(p) ==
    /\ Call /\ p \notin bookers /\ ~bookings[p].live
    /\ slot.ageBand \in permitted(p) /\ slot.status = "booking"
    /\ Cardinality(LiveBookings) < Capacity
    /\ bookers' = bookers \cup {p}
    /\ UNCHANGED <<adults, blocks, slot, bookings, queueEntries, reading, pairs, noPartner>>

\* ON CONFLICT (slot_id, user_id) DO UPDATE: what the old row held stays.  A new
\* row refers to the slot and waits for the matcher, which holds it.
book_slot(p) ==
    /\ p \in bookers
    /\ reading # None => bookings[p].made
    /\ bookers' = bookers \ {p}
    /\ bookings' = [bookings EXCEPT ![p].live = TRUE, ![p].made = TRUE]
    /\ UNCHANGED <<calls, adults, blocks, slot, queueEntries, reading, pairs, noPartner>>

cancel_booking(p) ==
    /\ bookings[p].live /\ Call
    /\ bookings' = [bookings EXCEPT ![p].live = FALSE]
    /\ UNCHANGED <<adults, blocks, slot, queueEntries, bookers, reading, pairs, noPartner>>

\* The slot's status is not looked at.
Arrivals == {bookings[p].present : p \in Students}
check_in(p) ==
    /\ bookings[p].live /\ bookings[p].present = 0 /\ slot.time # "early" /\ Call
    /\ bookings' = [bookings EXCEPT ![p].present = Max(Arrivals) + 1]
    /\ UNCHANGED <<adults, blocks, slot, queueEntries, bookers, reading, pairs, noPartner>>

\* The user's waiting entries are cancelled, and one is inserted.
Leaving(p) == [i \in DOMAIN queueEntries |->
                 IF queueEntries[i].user = p /\ queueEntries[i].status = "waiting"
                 THEN [queueEntries[i] EXCEPT !.status = "cancelled"] ELSE queueEntries[i]]
join_queue(p) ==
    /\ reading = None \/ Leaving(p) = queueEntries     \* the matcher holds waiting rows
    /\ Call
    /\ queueEntries' = Append(Leaving(p), [user |-> p, status |-> "waiting"])
    /\ UNCHANGED <<adults, blocks, slot, bookings, bookers, reading, pairs, noPartner>>
leave_queue(p) ==
    /\ reading = None /\ Leaving(p) # queueEntries /\ Call
    /\ queueEntries' = Leaving(p)
    /\ UNCHANGED <<adults, blocks, slot, bookings, bookers, reading, pairs, noPartner>>

-----------------------------------------------------------------------------
(* The matcher: match_speaking, one transaction over the slot and the queue. *)

Due == slot.status = "booking" /\ slot.time = "started"
CheckedIn == {p \in Students : bookings[p].live /\ bookings[p].present # 0 /\ bookings[p].pair = 0}
Waiting == {i \in DOMAIN queueEntries : queueEntries[i].status = "waiting"}

\* The pools, longest waiting first: there is one such order of each.
ByArrival ==
    {line \in [1 .. Cardinality(CheckedIn) -> CheckedIn] :
        \A i, j \in DOMAIN line : i < j => bookings[line[i]].present < bookings[line[j]].present}
ByEntry ==
    {line \in [1 .. Cardinality(Waiting) -> Waiting] :
        \A i, j \in DOMAIN line : i < j => line[i] < line[j]}

\* Ages as of the transaction; blocks in both directions; nobody from the last pairs.
minorsAtMatch_ByBand(asOf) == IF slot.ageBand = "minor" THEN Students ELSE {}
minorsAtMatch(asOf) == Students \ asOf
_blocked(p) == {q \in Students : <<p, q>> \in blocks \/ <<q, p>> \in blocks}
_recent_partners(p) == {q \in Students : \E i \in DOMAIN pairs : pairs[i].users = {p, q}}
_compatible(p, q, minors) == (p \in minors) = (q \in minors) /\ q \notin _blocked(p)

\* Whoever in the pool is not taken and suits; the first of them, but a recent
\* partner only when there is no other.
Fits(p, pool, taken, minors) ==
    {i \in DOMAIN pool : pool[i] \notin taken \cup {p} /\ _compatible(p, pool[i], minors)}
First(pool, S) == {pool[i] : i \in {i \in S : \A j \in S : i <= j}}

_best_partner_NoRepeat(p, pool, taken, minors) ==
    First(pool, {i \in Fits(p, pool, taken, minors) : pool[i] \notin _recent_partners(p)})
_best_partner(p, pool, taken, minors) ==
    LET fit == Fits(p, pool, taken, minors)
        fresh == {i \in fit : pool[i] \notin _recent_partners(p)}
    IN First(pool, IF fresh # {} THEN fresh ELSE fit)

\* match: whoever waits longest chooses first.
Chosen(made, p, pool, minors) ==
    IF p \in UNION made THEN made
    ELSE made \cup {{p, q} : q \in _best_partner(p, pool, UNION made, minors)}
match(pool, minors) ==
    LET made[n \in 0 .. Len(pool)] ==
          IF n = 0 THEN {} ELSE Chosen(made[n - 1], pool[n], pool, minors)
    IN made[Len(pool)]

TickReads ==
    /\ reading = None /\ (Due \/ Cardinality(Waiting) > 1)
    /\ \E line \in IF Due THEN ByArrival ELSE {<<>>} :
         reading' = [slot |-> Due, asOf |-> adults, blocks |-> blocks, pool |-> line,
                     pairs |-> match(line, minorsAtMatch(adults))]
    /\ UNCHANGED <<calls, adults, blocks, slot, bookings, queueEntries, bookers, pairs, noPartner>>

\* A user's last entry stands for all of them.
queuePool(line) == [i \in DOMAIN line |-> queueEntries[line[i]].user]
queuePairs(line) == match(queuePool(line), minorsAtMatch(reading.asOf))
entryOf(p) == Max({i \in Waiting : queueEntries[i].user = p})

NewPairs(made, origin) ==
    LET line == SetToSeq(made) IN [i \in DOMAIN line |-> [users |-> line[i], origin |-> origin]]
SlotWritten ==
    /\ bookings' = [p \in Students |->
         [bookings[p] EXCEPT
            !.noShow = @ \/ (bookings[p].live /\ bookings[p].present = 0),
            !.pair = IF \E m \in reading.pairs : p \in m
                     THEN Len(pairs) + (CHOOSE i \in 1..Cardinality(reading.pairs) :
                                          p \in SetToSeq(reading.pairs)[i])
                     ELSE @]]
    /\ slot' = [slot EXCEPT !.status = "live"]
    /\ noPartner' = {p \in ToSet(reading.pool) : \A m \in reading.pairs : p \notin m}
TickCommits ==
    /\ reading # None
    /\ IF reading.slot THEN SlotWritten ELSE UNCHANGED <<bookings, slot, noPartner>>
    /\ \E line \in ByEntry : LET made == queuePairs(line) IN
         /\ pairs' = pairs \o NewPairs(reading.pairs, "slot_batch") \o NewPairs(made, "live_queue")
         /\ queueEntries' = [i \in DOMAIN queueEntries |->
              IF \E m \in made : \E p \in m : i = entryOf(p)
              THEN [queueEntries[i] EXCEPT !.status = "matched"] ELSE queueEntries[i]]
    /\ reading' = None
    /\ UNCHANGED <<calls, adults, blocks, bookers>>

\* The matcher's process dies: its transaction never was.
TickDies ==
    /\ reading # None /\ reading' = None
    /\ UNCHANGED <<calls, adults, blocks, slot, bookings, queueEntries, bookers, pairs, noPartner>>

SpeakingNext ==
    \/ \E p \in Students : \/ Birthday(p) \/ BookCounts(p) \/ book_slot(p) \/ cancel_booking(p)
                         \/ check_in(p) \/ join_queue(p) \/ leave_queue(p)
    \/ \E p, q \in Students : BlockUser(p, q)
    \/ SlotTime \/ TickReads \/ TickCommits \/ TickDies

\* The scheduler ticks every fifteen seconds, and time passes, if this is what is
\* looked at.
SpeakingFairness ==
    /\ WF_speakingVars(screen = "speaking" /\ SlotTime)
    /\ WF_speakingVars(screen = "speaking" /\ TickReads)
    /\ SF_speakingVars(screen = "speaking" /\ TickCommits)

-----------------------------------------------------------------------------
\* The pairs of a tick are safe by what the tick read, whatever the slot was
\* labelled: all minors or all adults at that instant, and nobody with a person
\* they blocked, or who blocked them (service.py, _blocked; matching.py).
New == {pairs'[i].users : i \in DOMAIN pairs' \ DOMAIN pairs}
PairsAreSafe ==
    [][\A m \in New :
         /\ m \subseteq reading.asOf \/ m \cap reading.asOf = {}
         /\ \A p, q \in m : <<p, q>> \notin reading.blocks]_pairs

\* "It was the pool, not them": no two of those told that there was nobody for
\* them would have suited each other (match).
LeftOverIsThePool ==
    [][\A p, q \in noPartner' \ noPartner :
          p # q => \/ (p \in reading.asOf) # (q \in reading.asOf)
                   \/ {<<p, q>>, <<q, p>>} \cap reading.blocks # {}]_noPartner

\* "Checked in; await `slot.matched`" (openapi.yaml): whoever is checked in is
\* paired, told that there is nobody, or leaves.
CheckedInIsAnswered ==
    \A p \in Students :
        bookings[p].live /\ bookings[p].present # 0 ~>
            bookings[p].pair # 0 \/ p \in noPartner \/ ~bookings[p].live
=============================================================================
