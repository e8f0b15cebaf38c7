------------------------- MODULE CompetitionProofs -------------------------
(***************************************************************************)
(* The answer keys of a contest are frozen once and a board that is        *)
(* published early leaves nobody out; where a student sends one request at *)
(* a time, no contest is overbooked; and a pack is spent by what is held   *)
(* as long as no two of its requests overlap: for any students, requests,  *)
(* limits and crashes.                                                     *)
(***************************************************************************)
EXTENDS Competition, FiniteSetTheorems, TLAPS

EntryStates == {"none", "registered", "prefetched", "started", "submitted", "no_show", "withdrawn"}

Transactions ==
    [op : {"none", "register", "withdraw", "key"}, user : Users \cup {"none"},
     at : {"idle", "count", "prior", "upsert", "release", "attempt", "start", "charge", "spend",
           "freeze", "commit"},
     prior : EntryStates, put : EntryStates, seen : Nat, writes : BOOLEAN]

TypeOK ==
    /\ frozen \in Nat /\ keys \in Nat
    /\ entry \in [Users -> EntryStates]
    /\ attempt \in [Users -> {"none", "live", "scored"}]
    /\ spent \in [Packs -> Nat]
    /\ req \in [Requests -> Transactions]

\* The statements each operation goes through.
Stages(op) ==
    CASE op = "register" -> {"count", "prior", "upsert", "charge", "spend", "commit"}
      [] op = "withdraw" -> {"release", "charge", "spend", "commit"}
      [] op = "key"      -> {"attempt", "start", "freeze", "commit"}
      [] OTHER           -> {"idle"}

OnEntry(d) == d.at \in {"charge", "spend", "freeze", "commit"}

OnContest(d) ==
    \/ /\ d.op = "register" /\ MaxParticipants > 0
       /\ d.at \in {"prior", "upsert", "charge", "spend", "commit"}
    \/ d.op = "key" /\ d.at = "commit" /\ d.writes

InStage(d) ==
    /\ d.op # "none" /\ d.at \in Stages(d.op) /\ d.user \in Users
    /\ d.op # "key" /\ d.at # "commit" => ~ d.writes
    /\ d.op = "withdraw" /\ d.at = "commit" => d.writes

\* What a transaction has read under a lock is still so.
KeysKept(d) == d.op = "key" /\ d.at = "commit" /\ d.writes => frozen = 0

EntryKept(d) == OnEntry(d) =>
    /\ d.op = "register" =>
          d.put = IF entry[d.user] \in Absent THEN "registered" ELSE entry[d.user]
    /\ d.op = "withdraw" => entry[d.user] = "registered" /\ d.put = "withdrawn"
    /\ d.op = "key" => d.put = "started"

\* What follows holds of students who send one request at a time: what a
\* transaction has read before it had the lock is still so as well,
Alone == Impatient = {}

Found(d) ==
    /\ d.op = "register" =>
          /\ d.at = "upsert" => (d.prior \in Absent <=> entry[d.user] \in Absent)
          /\ d.at \in {"charge", "spend"} => entry[d.user] \in Absent
          /\ d.at = "commit" => (d.writes <=> entry[d.user] \in Absent)
    /\ d.op = "key" => entry[d.user] \notin Absent

\* and there is room for whom the count let in.
RoomLeft(d) == OnContest(d) /\ d.op = "register" => Taken < MaxParticipants

Charged(d) == d.op \in {"register", "withdraw"} /\ (d.at = "spend" \/ (d.at = "commit" /\ d.writes))

Fits(d) == d = NoRequest \/
    /\ InStage(d) /\ KeysKept(d) /\ EntryKept(d)
    /\ Alone => Found(d) /\ RoomLeft(d)

RequestsFit == \A r \in Requests : Fits(req[r])

EntryLocks == \A r, q \in Requests :
    OnEntry(req[r]) /\ OnEntry(req[q]) /\ User(r) = User(q) => r = q

ContestLock == \A r, q \in Requests : OnContest(req[r]) /\ OnContest(req[q]) => r = q

OneRequestEach == Alone => \A r, q \in Requests :
    req[r] # NoRequest /\ req[q] # NoRequest /\ User(r) = User(q) => r = q

LiveIsStarted == \A u \in Users : attempt[u] = "live" => entry[u] = "started"

Counts == Alone => NeverOverbooked

IInv ==
    /\ TypeOK /\ RequestsFit /\ EntryLocks /\ ContestLock /\ OneRequestEach
    /\ LiveIsStarted /\ Counts

-----------------------------------------------------------------------------
(* Locks                                                                   *)

LEMMA Holds ==
    ASSUME NEW r \in Requests
    PROVE  /\ HoldsEntry(r) <=> OnEntry(req[r])
           /\ HoldsContest(r) <=> OnContest(req[r])
  BY DEF HoldsEntry, HoldsContest, OnEntry, OnContest

LEMMA NoRequestFits == NoRequest \in Transactions /\ Fits(NoRequest) /\ ~ OnEntry(NoRequest) /\ ~ OnContest(NoRequest)
  BY DEF NoRequest, Transactions, EntryStates, Fits, OnEntry, OnContest

LEMMA InitInv == Init => IInv
  <1> SUFFICES ASSUME Init PROVE IInv
    OBVIOUS
  <1>1. TypeOK
    BY NoRequestFits DEF Init, TypeOK, EntryStates
  <1>2. {u \in Users : entry[u] \notin Absent} = {}
    BY DEF Init, Absent
  <1>3. Taken = 0
    BY <1>2, FS_EmptySet DEF Taken
  <1>4. Counts
    BY <1>3, CompetitionAssumption DEF Counts, NeverOverbooked
  <1> QED
    BY <1>1, <1>4, NoRequestFits
       DEF Init, IInv, RequestsFit, EntryLocks, ContestLock, OneRequestEach, LiveIsStarted

(* A request that goes on to its next statement, with the locks it needs. *)
LEMMA RequestOn ==
    ASSUME IInv, NEW r \in Requests, NEW d \in Transactions,
           req' = [req EXCEPT ![r] = d], UNCHANGED <<frozen, keys, entry, attempt, spent>>,
           Fits(d),
           d # NoRequest => \/ req[r] # NoRequest /\ d.user = User(r)
                            \/ Alone => \A q \in Requests : User(q) # d.user,
           OnEntry(d) => \/ OnEntry(req[r]) /\ d.user = User(r)
                         \/ \A q \in Requests \ {r} : HoldsEntry(q) => User(q) # d.user,
           OnContest(d) => \/ OnContest(req[r])
                           \/ \A q \in Requests \ {r} : ~ HoldsContest(q)
    PROVE  IInv'
  <1>1. \A q \in Requests : req'[q] = IF q = r THEN d ELSE req[q]
    BY DEF IInv, TypeOK
  <1>2. TypeOK'
    BY DEF IInv, TypeOK
  <1>3. ASSUME NEW q \in Requests PROVE Fits(req[q])'
    BY <1>1 DEF IInv, RequestsFit, Fits, InStage, KeysKept, EntryKept, Found, RoomLeft, Taken
  <1>4. EntryLocks'
    BY <1>1, Holds DEF IInv, EntryLocks, User
  <1>5. ContestLock'
    BY <1>1, Holds DEF IInv, ContestLock
  <1>6. OneRequestEach'
    BY <1>1 DEF IInv, OneRequestEach, User
  <1>7. LiveIsStarted' /\ Counts'
    BY DEF IInv, LiveIsStarted, Counts, NeverOverbooked, Taken
  <1> QED
    BY <1>2, <1>3, <1>4, <1>5, <1>6, <1>7 DEF IInv, RequestsFit

(* A request that ends without its commit. *)
LEMMA RequestGone ==
    ASSUME IInv, NEW r \in Requests, Ends_(r),
           UNCHANGED <<frozen, keys, entry, attempt, spent>>
    PROVE  IInv'
  BY NoRequestFits, RequestOn DEF Ends_

(* A step of another part that moves no entry a request has locked, and lets *)
(* nobody in or out.                                                         *)
LEMMA OthersStep ==
    ASSUME IInv, UNCHANGED <<req, frozen, spent>>, TypeOK', LiveIsStarted',
           \A u \in Users : entry'[u] \in Absent <=> entry[u] \in Absent,
           \A r \in Requests : HoldsEntry(r) => entry'[User(r)] = entry[User(r)]
    PROVE  IInv'
  <1>1. {u \in Users : entry'[u] \notin Absent} = {u \in Users : entry[u] \notin Absent}
    OBVIOUS
  <1>2. Taken' = Taken
    BY <1>1 DEF Taken
  <1>4. Counts'
    BY <1>2 DEF IInv, Counts, NeverOverbooked
  <1>5. ASSUME NEW r \in Requests PROVE Fits(req[r])'
    BY <1>2, Holds DEF IInv, RequestsFit, Fits, InStage, KeysKept, EntryKept, Found, RoomLeft,
       User
  <1>6. EntryLocks' /\ ContestLock' /\ OneRequestEach'
    BY DEF IInv, EntryLocks, ContestLock, OneRequestEach, User
  <1> QED
    BY <1>4, <1>5, <1>6 DEF IInv, RequestsFit

-----------------------------------------------------------------------------
(* The statements of a request                                             *)

(* A request that opens has read nothing and holds no lock. *)
LEMMA OpenInv ==
    ASSUME IInv, NEW r \in Requests, NEW u \in Users, NEW op \in {"register", "withdraw", "key"},
           NEW at \in Stages(op) \ {"upsert", "start", "charge", "spend", "freeze", "commit"},
           op = "register" => at = "count" \/ MaxParticipants = 0,
           NEW w \in BOOLEAN, op # "key" => ~ w, op = "key" => entry[u] \notin Absent,
           Open(r, u, op, at, w), UNCHANGED <<frozen, keys, entry, attempt, spent>>
    PROVE  IInv'
  <1> DEFINE d == [NoRequest EXCEPT !.op = op, !.user = u, !.at = at, !.writes = w]
  <1>0. Alone => \A q \in Requests : User(q) # u
    BY DEF Open, Alone
  <1>1. req' = [req EXCEPT ![r] = d]
    BY DEF Open
  <1>2. at \in {"count", "prior", "release", "attempt"}
    BY DEF Stages
  <1>3. NoRequest \in Transactions
    BY NoRequestFits
  <1>4. /\ d.op = op /\ d.user = u /\ d.at = at /\ d.writes = w
        /\ d \in Transactions
    BY <1>2, <1>3 DEF Transactions
  <1> HIDE DEF d
  <1>5. ~ OnEntry(d) /\ ~ Charged(d)
    BY <1>2, <1>4 DEF OnEntry, Charged
  <1>6. ~ OnContest(d)
    BY <1>2, <1>4 DEF OnContest
  <1>7. Fits(d)
    BY <1>2, <1>4, <1>5, <1>6 DEF Fits, InStage, KeysKept, EntryKept, Found, RoomLeft
  <1> QED
    BY <1>0, <1>1, <1>4, <1>5, <1>6, <1>7, RequestOn

LEMMA BeginInv ==
    ASSUME IInv, NEW r \in Requests, NEW u \in Users,
           BeginRegister(r, u) \/ BeginWithdraw(r, u) \/ BeginKey(r, u)
    PROVE  IInv'
  <1>1. CASE BeginRegister(r, u)
    <2> DEFINE at == IF MaxParticipants > 0 THEN "count" ELSE "prior"
    <2>1. at \in Stages("register") \ {"upsert", "start", "charge", "spend", "freeze", "commit"}
      BY DEF Stages
    <2>2. at = "count" \/ MaxParticipants = 0
      BY CompetitionAssumption
    <2>3. Open(r, u, "register", at, FALSE) /\ UNCHANGED <<frozen, keys, entry, attempt, spent>>
      BY <1>1 DEF BeginRegister, Rest, contest, entries
    <2> HIDE DEF at
    <2> QED
      BY <2>1, <2>2, <2>3, OpenInv
  <1>2. CASE BeginWithdraw(r, u)
    <2>1. "release" \in Stages("withdraw") \ {"upsert", "start", "charge", "spend", "freeze", "commit"}
      BY DEF Stages
    <2>2. Open(r, u, "withdraw", "release", FALSE) /\ UNCHANGED <<frozen, keys, entry, attempt, spent>>
      BY <1>2 DEF BeginWithdraw, Rest, contest, entries
    <2> QED
      BY <2>1, <2>2, OpenInv
  <1>3. CASE BeginKey(r, u)
    <2>1. "attempt" \in Stages("key") \ {"upsert", "start", "charge", "spend", "freeze", "commit"}
      BY DEF Stages
    <2>2. /\ Open(r, u, "key", "attempt", frozen = 0) /\ entry[u] \notin Absent
          /\ UNCHANGED <<frozen, keys, entry, attempt, spent>>
      BY <1>3 DEF BeginKey, Rest, contest, entries
    <2>3. (frozen = 0) \in BOOLEAN
      OBVIOUS
    <2> DEFINE w == frozen = 0
    <2>4. Open(r, u, "key", "attempt", w) /\ w \in BOOLEAN
      BY <2>2, <2>3
    <2> HIDE DEF w
    <2> QED
      BY <2>1, <2>2, <2>4, OpenInv
  <1> QED
    BY <1>1, <1>2, <1>3

(* The record of a transaction, and what IInv says of it. *)
LEMMA Current ==
    ASSUME IInv, NEW r \in Requests, req[r].at # "idle"
    PROVE  /\ req[r] \in Transactions /\ req[r] # NoRequest /\ Fits(req[r])
           /\ InStage(req[r]) /\ User(r) \in Users /\ User(r) = req[r].user
           /\ PackOf(r) \in Packs /\ PackOf(r) = Pack[req[r].user]
           /\ TypeOK
  <1>1. req[r] # NoRequest
    BY DEF NoRequest
  <1> QED
    BY <1>1, CompetitionAssumption DEF IInv, TypeOK, RequestsFit, Fits, InStage, User, PackOf

LEMMA CountInv ==
    ASSUME IInv, NEW r \in Requests, Count(r)
    PROVE  IInv'
  <1>1. CASE Taken >= MaxParticipants
    BY <1>1, RequestGone DEF Count, Rest, contest, entries
  <1>2. CASE ~ Taken >= MaxParticipants
    <2> DEFINE o == req[r]
               d == [o EXCEPT !.at = "prior"]
    <2>1. /\ o.at = "count" /\ ContestFree(r) /\ req' = [req EXCEPT ![r] = d]
          /\ UNCHANGED <<frozen, keys, entry, attempt, spent>>
      BY <1>2 DEF Count, Goes, Rest, contest, entries
    <2>2. /\ o \in Transactions /\ o # NoRequest /\ Fits(o) /\ o.op = "register"
          /\ o.user = User(r) /\ InStage(o)
      BY <2>1, Current DEF InStage, Stages
    <2> HIDE DEF o
    <2>3. /\ d \in Transactions /\ d.at = "prior" /\ d.op = "register" /\ d.user = o.user
          /\ d.writes = o.writes
      BY <2>2 DEF Transactions
    <2> HIDE DEF d
    <2>4. ~ OnEntry(d) /\ ~ Charged(d)
      BY <2>3 DEF OnEntry, Charged
    <2>5. Taken < MaxParticipants
      <3>1. Taken \in Nat
        BY CompetitionAssumption, FS_Subset, FS_CardinalityType DEF Taken
      <3> QED
        BY <1>2, <3>1, CompetitionAssumption
    <2>6. Fits(d)
      BY <2>1, <2>2, <2>3, <2>4, <2>5
         DEF Fits, InStage, Stages, KeysKept, EntryKept, Found, RoomLeft
    <2> QED
      BY <2>1, <2>2, <2>3, <2>4, <2>6, RequestOn DEF ContestFree, o
  <1> QED
    BY <1>1, <1>2

LEMMA PriorInv ==
    ASSUME IInv, NEW r \in Requests, Prior(r)
    PROVE  IInv'
  <1> DEFINE o == req[r]
             e == entry[User(r)]
             d == [o EXCEPT !.prior = e, !.at = "upsert"]
  <1>1. /\ o.at = "prior" /\ req' = [req EXCEPT ![r] = d]
        /\ UNCHANGED <<frozen, keys, entry, attempt, spent>>
    BY DEF Prior, Rest, contest, entries
  <1>2. /\ o \in Transactions /\ o # NoRequest /\ Fits(o) /\ o.op = "register"
        /\ o.user = User(r) /\ InStage(o) /\ e \in EntryStates /\ e = entry[o.user]
    BY <1>1, Current DEF InStage, Stages, TypeOK
  <1> HIDE DEF o, e
  <1>3. /\ d \in Transactions /\ d.at = "upsert" /\ d.op = "register" /\ d.user = o.user
        /\ d.writes = o.writes /\ d.prior = e
    BY <1>2 DEF Transactions
  <1> HIDE DEF d
  <1>4. ~ OnEntry(d) /\ ~ Charged(d)
    BY <1>3 DEF OnEntry, Charged
  <1>5. OnContest(d) => OnContest(o)
    BY <1>1, <1>2, <1>3 DEF OnContest
  <1>6. Fits(d)
    BY <1>1, <1>2, <1>3, <1>4, <1>5
       DEF Fits, InStage, Stages, KeysKept, EntryKept, Found, RoomLeft
  <1> QED
    BY <1>1, <1>2, <1>3, <1>4, <1>5, <1>6, RequestOn DEF o

LEMMA UpsertInv ==
    ASSUME IInv, NEW r \in Requests, Upsert(r)
    PROVE  IInv'
  <1> DEFINE o == req[r]
             e == IF entry[User(r)] \in Absent THEN "registered" ELSE entry[User(r)]
             a == IF Owes(r) THEN "charge" ELSE "commit"
             d == [o EXCEPT !.put = e, !.at = a]
  <1>1. /\ o.at = "upsert" /\ req' = [req EXCEPT ![r] = d] /\ EntryFree(r)
        /\ UNCHANGED <<frozen, keys, entry, attempt, spent>>
    BY DEF Upsert, Rest, contest, entries
  <1>2. /\ o \in Transactions /\ o # NoRequest /\ Fits(o) /\ o.op = "register"
        /\ o.user = User(r) /\ InStage(o) /\ e \in EntryStates
        /\ e = IF entry[o.user] \in Absent THEN "registered" ELSE entry[o.user]
        /\ a \in {"charge", "commit"} /\ (a = "charge" <=> o.prior \in Absent)
    BY <1>1, Current DEF InStage, Stages, TypeOK, Owes, EntryStates
  <1> HIDE DEF o, e, a
  <1>3. /\ d \in Transactions /\ d.at = a /\ d.op = "register" /\ d.user = o.user
        /\ d.writes = o.writes /\ d.put = e
    BY <1>2 DEF Transactions
  <1> HIDE DEF d
  <1>4. ~ d.writes
    BY <1>1, <1>2, <1>3 DEF InStage
  <1>5. ~ Charged(d)
    BY <1>2, <1>3, <1>4 DEF Charged
  <1>6. OnContest(d) => OnContest(o)
    BY <1>1, <1>2, <1>3 DEF OnContest
  <1>7. Fits(d)
    BY <1>1, <1>2, <1>3, <1>4, <1>5, <1>6
       DEF Fits, InStage, Stages, KeysKept, EntryKept, Found, RoomLeft
  <1> QED
    BY <1>1, <1>2, <1>3, <1>6, <1>7, RequestOn DEF o, EntryFree

LEMMA ChargeInv ==
    ASSUME IInv, NEW r \in Requests, Charge(r)
    PROVE  IInv'
  <1>1. CASE Ends_(r)
    BY <1>1, RequestGone DEF Charge, Rest, contest, entries
  <1>2. CASE ~ Ends_(r)
    <2> DEFINE o == req[r]
               s == spent[PackOf(r)]
               d == [o EXCEPT !.seen = s, !.at = "spend"]
    <2>1. /\ o.at = "charge" /\ req' = [req EXCEPT ![r] = d]
          /\ UNCHANGED <<frozen, keys, entry, attempt, spent>>
      BY <1>2 DEF Charge, Rest, contest, entries
    <2>2. /\ o \in Transactions /\ o # NoRequest /\ Fits(o) /\ o.op \in {"register", "withdraw"}
          /\ o.user = User(r) /\ InStage(o) /\ s \in Nat /\ s = spent[Pack[o.user]]
      BY <2>1, Current DEF InStage, Stages, TypeOK, Transactions
    <2> HIDE DEF o, s
    <2>3. /\ d \in Transactions /\ d.at = "spend" /\ d.op = o.op /\ d.user = o.user
          /\ d.writes = o.writes /\ d.put = o.put /\ d.seen = s
      BY <2>2 DEF Transactions
    <2> HIDE DEF d
    <2>4. OnEntry(o) /\ (OnContest(d) => OnContest(o))
      BY <2>1, <2>2, <2>3 DEF OnContest, OnEntry
    <2>5. InStage(d) /\ KeysKept(d) /\ EntryKept(d)
      BY <2>1, <2>2, <2>3, <2>4 DEF Fits, InStage, Stages, KeysKept, EntryKept
    <2>6. Alone => Found(d) /\ RoomLeft(d)
      BY <2>1, <2>2, <2>3, <2>4 DEF Fits, Found, RoomLeft
    <2>8. Fits(d)
      BY <2>5, <2>6 DEF Fits
    <2> QED
      BY <2>1, <2>2, <2>3, <2>4, <2>8, RequestOn DEF o
  <1> QED
    BY <1>1, <1>2

LEMMA SpendInv ==
    ASSUME IInv, NEW r \in Requests, Spend(r)
    PROVE  IInv'
  <1> DEFINE o == req[r]
             d == [o EXCEPT !.at = "commit", !.writes = TRUE]
  <1>1. /\ o.at = "spend" /\ req' = [req EXCEPT ![r] = d]
        /\ UNCHANGED <<frozen, keys, entry, attempt, spent>>
    BY DEF Spend, Rest, contest, entries
  <1>2. /\ o \in Transactions /\ o # NoRequest /\ Fits(o) /\ o.op \in {"register", "withdraw"}
        /\ o.user = User(r) /\ InStage(o)
    BY <1>1, Current DEF InStage, Stages, TypeOK, Transactions
  <1> HIDE DEF o
  <1>3. /\ d \in Transactions /\ d.at = "commit" /\ d.op = o.op /\ d.user = o.user
        /\ d.writes /\ d.put = o.put /\ d.seen = o.seen
    BY <1>2 DEF Transactions
  <1> HIDE DEF d
  <1>4. OnEntry(o) /\ Charged(o) /\ (OnContest(d) => OnContest(o))
    BY <1>1, <1>2, <1>3 DEF OnContest, OnEntry, Charged
  <1>5. InStage(d) /\ KeysKept(d) /\ EntryKept(d)
    BY <1>1, <1>2, <1>3, <1>4 DEF Fits, InStage, Stages, KeysKept, EntryKept
  <1>6. Alone => Found(d) /\ RoomLeft(d)
    BY <1>1, <1>2, <1>3, <1>4 DEF Fits, Found, RoomLeft
  <1>8. Fits(d)
    BY <1>5, <1>6 DEF Fits
  <1> QED
    BY <1>1, <1>2, <1>3, <1>4, <1>8, RequestOn DEF o

LEMMA ReleaseInv ==
    ASSUME IInv, NEW r \in Requests, Release(r)
    PROVE  IInv'
  <1>1. CASE entry[User(r)] # "registered"
    BY <1>1, RequestGone DEF Release, Rest, contest, entries
  <1>2. CASE entry[User(r)] = "registered"
    <2> DEFINE o == req[r]
               d == [o EXCEPT !.put = "withdrawn", !.at = "charge"]
    <2>1. /\ o.at = "release" /\ req' = [req EXCEPT ![r] = d] /\ EntryFree(r)
          /\ UNCHANGED <<frozen, keys, entry, attempt, spent>>
      BY <1>2 DEF Release, Rest, contest, entries
    <2>2. /\ o \in Transactions /\ o # NoRequest /\ Fits(o) /\ o.op = "withdraw"
          /\ o.user = User(r) /\ InStage(o) /\ entry[o.user] = "registered"
      BY <1>2, <2>1, Current DEF InStage, Stages
    <2> HIDE DEF o
    <2>3. /\ d \in Transactions /\ d.at = "charge" /\ d.op = "withdraw" /\ d.user = o.user
          /\ d.writes = o.writes /\ d.put = "withdrawn"
      BY <2>2 DEF Transactions, EntryStates
    <2> HIDE DEF d
    <2>4. ~ OnContest(d) /\ ~ Charged(d)
      BY <2>3 DEF OnContest, Charged
    <2>5. Fits(d)
      BY <2>1, <2>2, <2>3, <2>4
         DEF Fits, InStage, Stages, KeysKept, EntryKept, Found, RoomLeft
    <2> QED
      BY <2>1, <2>2, <2>3, <2>4, <2>5, RequestOn DEF o, EntryFree
  <1> QED
    BY <1>1, <1>2

LEMMA AttemptInv ==
    ASSUME IInv, NEW r \in Requests, Attempt(r)
    PROVE  IInv'
  <1> DEFINE o == req[r]
             d == [o EXCEPT !.at = "start"]
  <1>1. /\ o.at = "attempt" /\ req' = [req EXCEPT ![r] = d]
        /\ UNCHANGED <<frozen, keys, entry, attempt, spent>>
    BY DEF Attempt, Goes, Rest, contest, entries
  <1>2. /\ o \in Transactions /\ o # NoRequest /\ Fits(o) /\ o.op = "key"
        /\ o.user = User(r) /\ InStage(o)
    BY <1>1, Current DEF InStage, Stages
  <1> HIDE DEF o
  <1>3. /\ d \in Transactions /\ d.at = "start" /\ d.op = "key" /\ d.user = o.user
    BY <1>2 DEF Transactions
  <1> HIDE DEF d
  <1>4. ~ OnContest(d) /\ ~ OnEntry(d)
    BY <1>3 DEF OnContest, OnEntry
  <1>5. Fits(d)
    BY <1>1, <1>2, <1>3, <1>4 DEF Fits, InStage, Stages, KeysKept, EntryKept, Found, RoomLeft
  <1> QED
    BY <1>1, <1>2, <1>3, <1>4, <1>5, RequestOn DEF o

LEMMA StartInv ==
    ASSUME IInv, NEW r \in Requests, Start(r)
    PROVE  IInv'
  <1> DEFINE o == req[r]
             a == IF o.writes THEN "freeze" ELSE "commit"
             d == [o EXCEPT !.put = "started", !.at = a]
  <1>1. /\ o.at = "start" /\ req' = [req EXCEPT ![r] = d] /\ EntryFree(r)
        /\ UNCHANGED <<frozen, keys, entry, attempt, spent>>
    BY DEF Start, Rest, contest, entries
  <1>2. /\ o \in Transactions /\ o # NoRequest /\ Fits(o) /\ o.op = "key"
        /\ o.user = User(r) /\ InStage(o)
        /\ a \in {"freeze", "commit"} /\ (a = "commit" => ~ o.writes)
    BY <1>1, Current DEF InStage, Stages
  <1> HIDE DEF o, a
  <1>3. /\ d \in Transactions /\ d.at = a /\ d.op = "key" /\ d.user = o.user
        /\ d.writes = o.writes /\ d.put = "started"
    BY <1>2 DEF Transactions, EntryStates
  <1> HIDE DEF d
  <1>4. ~ OnContest(d) /\ ~ Charged(d)
    BY <1>2, <1>3 DEF OnContest, Charged
  <1>5. Fits(d)
    BY <1>1, <1>2, <1>3, <1>4
       DEF Fits, InStage, Stages, KeysKept, EntryKept, Found, RoomLeft
  <1> QED
    BY <1>1, <1>2, <1>3, <1>4, <1>5, RequestOn DEF o, EntryFree

(* Under the lock of the contest, the keys are found frozen or stay unfrozen. *)
LEMMA FreezeInv ==
    ASSUME IInv, NEW r \in Requests, Freeze(r)
    PROVE  IInv'
  <1> DEFINE o == req[r]
             w == Unfrozen
             d == [o EXCEPT !.seen = keys, !.writes = w, !.at = "commit"]
  <1>1. /\ o.at = "freeze" /\ req' = [req EXCEPT ![r] = d] /\ ContestFree(r)
        /\ UNCHANGED <<frozen, keys, entry, attempt, spent>>
    BY DEF Freeze, Rest, contest, entries
  <1>2. /\ o \in Transactions /\ o # NoRequest /\ Fits(o) /\ o.op = "key"
        /\ o.user = User(r) /\ InStage(o) /\ keys \in Nat
        /\ w \in BOOLEAN /\ (w => frozen = 0)
    BY <1>1, Current DEF InStage, Stages, TypeOK, Unfrozen
  <1> HIDE DEF o, w
  <1>3. /\ d \in Transactions /\ d.at = "commit" /\ d.op = "key" /\ d.user = o.user
        /\ d.writes = w /\ d.put = o.put
    BY <1>2 DEF Transactions
  <1> HIDE DEF d
  <1>4. OnEntry(o) /\ ~ Charged(d)
    BY <1>1, <1>3 DEF OnEntry, Charged
  <1>5. Fits(d)
    BY <1>1, <1>2, <1>3, <1>4
       DEF Fits, InStage, Stages, KeysKept, EntryKept, Found, RoomLeft
  <1> QED
    BY <1>1, <1>2, <1>3, <1>4, <1>5, RequestOn DEF o, ContestFree

-----------------------------------------------------------------------------
(* Commit                                                                  *)

(* The places taken when one entry changes. *)
LEMMA TakenBy ==
    ASSUME TypeOK, NEW u \in Users, NEW e \in EntryStates, entry' = [entry EXCEPT ![u] = e]
    PROVE  /\ Taken \in Nat /\ Taken' \in Nat /\ Taken' <= Taken + 1
           /\ entry[u] \notin Absent => Taken' <= Taken
           /\ e \in Absent => Taken' <= Taken
  <1> DEFINE S == {v \in Users : entry[v] \notin Absent}
             T == {v \in Users : entry'[v] \notin Absent}
  <1>1. IsFiniteSet(S) /\ IsFiniteSet(T)
    BY CompetitionAssumption, FS_Subset
  <1>2. \A v \in Users : entry'[v] = IF v = u THEN e ELSE entry[v]
    BY DEF TypeOK
  <1>3. T \subseteq S \cup {u}
    BY <1>2
  <1>4. entry[u] \notin Absent \/ e \in Absent => T \subseteq S
    BY <1>2
  <1> HIDE DEF S, T
  <1>5. Cardinality(S) \in Nat /\ Cardinality(T) \in Nat
    BY <1>1, FS_CardinalityType
  <1>6. IsFiniteSet(S \cup {u}) /\ Cardinality(S \cup {u}) <= Cardinality(S) + 1
    <2>1. Cardinality(S \cup {u}) = IF u \in S THEN Cardinality(S) ELSE Cardinality(S) + 1
      BY <1>1, FS_AddElement
    <2> QED
      BY <1>1, <1>5, <2>1, FS_AddElement
  <1>7. Cardinality(T) <= Cardinality(S) + 1
    <2>1. Cardinality(T) <= Cardinality(S \cup {u}) /\ Cardinality(S \cup {u}) \in Nat
      BY <1>3, <1>6, FS_Subset, FS_CardinalityType
    <2> QED
      BY <1>5, <1>6, <2>1
  <1>8. T \subseteq S => Cardinality(T) <= Cardinality(S)
    BY <1>1, FS_Subset
  <1>9. Taken = Cardinality(S) /\ Taken' = Cardinality(T)
    BY DEF Taken, S, T
  <1> QED
    BY <1>4, <1>5, <1>7, <1>8, <1>9

LEMMA CommitInv ==
    ASSUME IInv, NEW r \in Requests, Commit(r)
    PROVE  IInv'
  <1> DEFINE o == req[r]
             u == o.user
             p == Pack[u]
  <1>1. /\ o.at = "commit" /\ Ends_(r)
        /\ entry' = [entry EXCEPT ![User(r)] = req[r].put]
        /\ attempt' = IF req[r].op = "key" THEN [attempt EXCEPT ![User(r)] = "live"] ELSE attempt
        /\ spent' = IF HoldsPack(r) THEN [spent EXCEPT ![PackOf(r)] = Consumed(r)] ELSE spent
        /\ keys' = keys
    BY DEF Commit
  <1>2. /\ o \in Transactions /\ o # NoRequest /\ Fits(o) /\ InStage(o) /\ u \in Users
        /\ User(r) = u /\ p \in Packs /\ PackOf(r) = p /\ TypeOK
        /\ OnEntry(o) /\ KeysKept(o) /\ EntryKept(o) /\ o.put \in EntryStates /\ o.seen \in Nat
    BY <1>1, Current DEF Fits, OnEntry, Transactions
  <1>3. /\ HoldsPack(r) <=> Charged(o)
        /\ o.op \in {"register", "withdraw", "key"}
    BY <1>1, <1>2 DEF HoldsPack, Charged, InStage, Stages, Transactions
  <1>4. \A v \in Users : entry'[v] = IF v = u THEN o.put ELSE entry[v]
    BY <1>1, <1>2 DEF TypeOK
  <1>5. \A q \in Requests : req'[q] = IF q = r THEN NoRequest ELSE req[q]
    BY <1>1, <1>2 DEF Ends_, TypeOK
  <1>6. /\ OnContest(o) \/ frozen' = frozen
        /\ frozen' \in Nat
    BY <1>1, <1>2 DEF Commit, contest, OnContest, TypeOK
  <1>7. Consumed(r) \in Nat
    BY <1>2 DEF Consumed
  <1>8. /\ \A k \in Packs : spent'[k] = IF k = p /\ Charged(o) THEN Consumed(r) ELSE spent[k]
        /\ spent' \in [Packs -> Nat]
    BY <1>1, <1>2, <1>3, <1>7 DEF TypeOK
  <1>9. TypeOK'
    BY <1>1, <1>2, <1>6, <1>8, NoRequestFits DEF Ends_, TypeOK
  <1>10. LiveIsStarted'
    BY <1>1, <1>2, <1>3, <1>4, <1>9 DEF TypeOK, IInv, LiveIsStarted, EntryKept, Absent
  <1>11. EntryLocks' /\ ContestLock' /\ OneRequestEach'
    BY <1>5, NoRequestFits DEF IInv, EntryLocks, ContestLock, OneRequestEach, User
  <1>12. Taken' \in Nat /\ Taken \in Nat /\ Taken' <= Taken + 1
    BY <1>1, <1>2, TakenBy
  <1>13. Alone => /\ o.op # "register" => Taken' <= Taken
                  /\ o.op = "register" /\ OnContest(o) => Taken < MaxParticipants
    <2> SUFFICES ASSUME Alone
                 PROVE  /\ o.op # "register" => Taken' <= Taken
                        /\ o.op = "register" /\ OnContest(o) => Taken < MaxParticipants
      OBVIOUS
    <2>1. Found(o) /\ RoomLeft(o)
      BY <1>2 DEF Fits
    <2>2. o.op = "withdraw" => o.put \in Absent
      BY <1>2 DEF EntryKept, Absent
    <2>3. o.op = "key" => entry[u] \notin Absent
      BY <2>1 DEF Found
    <2> QED
      BY <1>1, <1>2, <1>3, <2>1, <2>2, <2>3, TakenBy DEF RoomLeft
  <1>14. Alone => NeverOverbooked'
    <2> SUFFICES ASSUME Alone, MaxParticipants > 0 PROVE Taken' <= MaxParticipants
      BY DEF NeverOverbooked
    <2>1. Taken <= MaxParticipants /\ MaxParticipants \in Nat
      BY CompetitionAssumption DEF IInv, Counts, NeverOverbooked
    <2>2. o.op = "register" => OnContest(o)
      BY <1>1 DEF OnContest
    <2> QED
      BY <1>12, <1>13, <2>1, <2>2
  <1>16. ASSUME NEW q \in Requests PROVE Fits(req[q])'
    <2>1. CASE q = r
      BY <1>5, <2>1 DEF Fits
    <2>2. CASE q # r
      <3> DEFINE d == req[q]
      <3>1. d' = d /\ Fits(d) /\ d.user = User(q)
        BY <1>5, <2>2 DEF IInv, RequestsFit, User
      <3> SUFFICES ASSUME d # NoRequest PROVE Fits(d)'
        BY <3>1 DEF Fits
      <3>2. OnEntry(d) /\ d.user \in Users => entry'[d.user] = entry[d.user]
        BY <1>2, <1>4, <2>2, <3>1 DEF IInv, EntryLocks
      <3>3. Alone /\ d # NoRequest => d.user # u
        BY <1>2, <2>2, <3>1 DEF IInv, OneRequestEach
      <3>4. Alone /\ d # NoRequest /\ d.user \in Users => entry'[d.user] = entry[d.user]
        BY <1>4, <3>3
      <3>6. OnContest(d) => ~ OnContest(o)
        BY <2>2 DEF IInv, ContestLock
      <3> HIDE DEF d
      <3>7. OnContest(d) => frozen' = frozen
        BY <1>6, <3>6
      <3>8. Alone /\ OnContest(d) /\ d.op = "register" => Taken' <= Taken
        <4>1. ~ OnContest(o) /\ o.op = "register" => ~ MaxParticipants > 0
          BY <1>1 DEF OnContest
        <4>2. OnContest(d) /\ d.op = "register" => MaxParticipants > 0
          BY DEF OnContest
        <4> QED
          BY <1>13, <3>6, <4>1, <4>2
      <3>9. InStage(d) /\ KeysKept(d) /\ EntryKept(d) /\ d.user \in Users
        BY <3>1 DEF Fits, InStage
      <3>10. InStage(d)' /\ KeysKept(d)'
        BY <3>1, <3>7, <3>9 DEF InStage, KeysKept, OnContest
      <3>11. EntryKept(d)'
        BY <3>1, <3>2, <3>9 DEF EntryKept, OnEntry
      <3>12. Alone => Found(d)' /\ RoomLeft(d)'
        <4> SUFFICES ASSUME Alone PROVE Found(d)' /\ RoomLeft(d)'
          OBVIOUS
        <4>1. Found(d) /\ RoomLeft(d)
          BY <3>1 DEF Fits
        <4>2. Found(d)'
          BY <3>1, <3>4, <3>9, <4>1 DEF Found
        <4>3. ASSUME OnContest(d), d.op = "register" PROVE Taken' < MaxParticipants
          <5>1. Taken < MaxParticipants /\ Taken' <= Taken
            BY <3>8, <4>1, <4>3 DEF RoomLeft
          <5> QED
            BY <1>12, <5>1, CompetitionAssumption
        <4>4. RoomLeft(d)'
          BY <3>1, <4>3 DEF RoomLeft, OnContest
        <4> QED
          BY <4>2, <4>4
      <3> QED
        BY <3>1, <3>10, <3>11, <3>12 DEF Fits
    <2> QED
      BY <2>1, <2>2
  <1> QED
    BY <1>9, <1>10, <1>11, <1>14, <1>16 DEF IInv, RequestsFit, Counts

-----------------------------------------------------------------------------
(* The others, and every step                                              *)

LEMMA LobbyInv ==
    ASSUME IInv, NEW u \in Users, Lobby(u)
    PROVE  IInv'
  <1>1. \A v \in Users : entry'[v] = IF v = u THEN "prefetched" ELSE entry[v]
    BY DEF Lobby, IInv, TypeOK
  <1>2. \A v \in Users : entry'[v] \in Absent <=> entry[v] \in Absent
    BY <1>1 DEF Lobby, Absent
  <1>3. \A r \in Requests : HoldsEntry(r) => entry'[User(r)] = entry[User(r)]
    BY DEF Lobby, IInv, TypeOK
  <1>4. TypeOK'
    BY DEF Lobby, IInv, TypeOK, EntryStates, contest
  <1>5. LiveIsStarted'
    BY <1>1 DEF Lobby, IInv, LiveIsStarted
  <1> QED
    BY <1>2, <1>3, <1>4, <1>5, OthersStep DEF Lobby, contest

LEMMA ScoreInv ==
    ASSUME IInv, NEW u \in Users, Score(u)
    PROVE  IInv'
  <1>1. TypeOK'
    BY DEF Score, IInv, TypeOK, contest
  <1>2. LiveIsStarted'
    BY DEF Score, IInv, TypeOK, LiveIsStarted
  <1> QED
    BY <1>1, <1>2, OthersStep DEF Score, contest

LEMMA TickCommitInv ==
    ASSUME IInv, TickCommit
    PROVE  IInv'
  <1>1. \A u \in Users : entry'[u] = IF u \in Absentees THEN "no_show"
                                     ELSE IF u \in Submitted THEN "submitted" ELSE entry[u]
    BY DEF TickCommit
  <1>2. \A u \in Users : entry'[u] \in Absent <=> entry[u] \in Absent
    BY <1>1 DEF Absentees, Submitted, Absent
  <1>3. TypeOK'
    BY <1>1 DEF TickCommit, IInv, TypeOK, EntryStates
  <1>4. LiveIsStarted'
    BY <1>1 DEF TickCommit, IInv, LiveIsStarted, Absentees, Submitted
  <1>5. ASSUME NEW r \in Requests, HoldsEntry(r) PROVE entry'[User(r)] = entry[User(r)]
    <2>1. req[r].at # "idle"
      BY <1>5 DEF HoldsEntry
    <2>2. User(r) \in Users
      BY <2>1, Current
    <2>3. User(r) \notin Absentees \cup Submitted
      BY <1>5 DEF TickCommit, TickWaits
    <2> QED
      BY <1>1, <2>2, <2>3
  <1> QED
    BY <1>2, <1>3, <1>4, <1>5, OthersStep DEF TickCommit

(* A step that touches nothing the invariant is about. *)
LEMMA NothingMoves ==
    ASSUME IInv, UNCHANGED <<req, frozen, entry, attempt, spent>>, keys' \in Nat
    PROVE  IInv'
  <1>1. TypeOK' /\ LiveIsStarted'
    BY DEF IInv, TypeOK, LiveIsStarted
  <1> QED
    BY <1>1, OthersStep

LEMMA StepInv ==
    ASSUME IInv, [Next]_vars
    PROVE  IInv'
  <1> USE DEF contest, entries
  <1>1. keys \in Nat
    BY DEF IInv, TypeOK
  <1>2. ASSUME NEW r \in Requests, Step(r) PROVE IInv'
    BY <1>2, CountInv, PriorInv, UpsertInv, ChargeInv, SpendInv, ReleaseInv, AttemptInv, StartInv, FreezeInv,
       CommitInv DEF Step
  <1>3. ASSUME NEW r \in Requests, Undo(r) PROVE IInv'
    BY <1>3, RequestGone DEF Undo
  <1>4. ASSUME NEW r \in Requests, NEW u \in Users,
               BeginRegister(r, u) \/ BeginWithdraw(r, u) \/ BeginKey(r, u)
        PROVE  IInv'
    BY <1>4, BeginInv
  <1>5. ASSUME NEW u \in Users, Lobby(u) \/ Score(u) PROVE IInv'
    BY <1>5, LobbyInv, ScoreInv
  <1>6. CASE TickCommit
    BY <1>6, TickCommitInv
  <1>7. CASE TickLock \/ TickRollback \/ Clock \/ FixKey \/ UNCHANGED vars
    <2>1. UNCHANGED <<req, frozen, entry, attempt, spent>> /\ keys' \in Nat
      BY <1>1, <1>7 DEF TickLock, TickRollback, Clock, FixKey, vars
    <2> QED
      BY <2>1, NothingMoves
  <1> QED
    BY <1>2, <1>3, <1>4, <1>5, <1>6, <1>7
       DEF Next, Rollback, TickRollback, Over

THEOREM Invariance == Spec => []IInv
  <1>1. IInv /\ [Next]_vars => IInv'
    BY StepInv
  <1> QED
    BY InitInv, <1>1, PTL DEF Spec

(* FrozenOnce: the first starter records the answer keys, and no other does    *)
(* (_freeze_keys, UPDATE ... WHERE key_freeze IS NULL), whoever starts with it. *)
THEOREM KeysFrozenOnce == Spec => FrozenOnce
  <1>1. ASSUME IInv, [Next]_vars, frozen # 0 PROVE frozen' = frozen
    <2>1. ASSUME NEW r \in Requests, Commit(r) PROVE frozen' = frozen
      <3>1. req[r].at = "commit"
        BY <2>1 DEF Commit
      <3>2. Fits(req[r]) /\ req[r] # NoRequest
        BY <1>1, <3>1 DEF IInv, RequestsFit, NoRequest
      <3>3. KeysKept(req[r])
        BY <3>2 DEF Fits
      <3>4. ~ (req[r].op = "key" /\ req[r].writes)
        BY <1>1, <3>1, <3>3 DEF KeysKept
      <3> QED
        BY <2>1, <3>4 DEF Commit, contest
    <2> USE DEF contest, entries
    <2>2. CASE UNCHANGED frozen
      BY <2>2
    <2> QED
      BY <1>1, <2>1, <2>2
         DEF Next, Step, Count, Prior, Upsert, Charge, Spend, Release, Attempt, Start, Freeze, Rest, Rollback,
             Undo, BeginRegister, BeginWithdraw, BeginKey, Lobby, Score, TickLock, TickCommit,
             TickRollback, Clock, FixKey, Over, vars
  <1>2. IInv /\ [Next]_vars => [frozen # 0 => frozen' = frozen]_vars
    BY <1>1
  <1> QED
    BY <1>2, Invariance, PTL DEF Spec, FrozenOnce

(* PublishingWaits: before the patience is over, the tick sets out to publish  *)
(* only when nobody who has the paper is still writing: an attempt that is     *)
(* live belongs to an entry that is started, and the tick waits for those.     *)
THEOREM NobodyIsLeftWriting == Spec => PublishingWaits
  <1> DEFINE Waits == tick # "final" /\ tick' = "final" /\ now < Patience =>
                         \A u \in Users : attempt[u] # "live"
  <1>1. ASSUME IInv, now \in 0 .. Patience, [Next]_vars,
               tick # "final", tick' = "final", now < Patience
        PROVE  \A u \in Users : attempt[u] # "live"
    <2> USE DEF contest, entries
    <2>1. TickLock
      BY <1>1
         DEF Next, Step, Count, Prior, Upsert, Charge, Spend, Release, Attempt, Start, Freeze, Commit, Rest,
             Rollback, Undo, BeginRegister, BeginWithdraw, BeginKey, Lobby, Score, TickCommit,
             TickRollback, Clock, FixKey, Over, vars
    <2>2. NextStatus = "final"
      BY <1>1, <2>1 DEF TickLock
    <2>3. Pending = {} \/ now >= Patience
      BY <2>2 DEF NextStatus
    <2>4. ~ (now >= Patience)
      BY <1>1 DEF Patience
    <2>5. Pending = {}
      BY <2>3, <2>4
    <2> QED
      BY <1>1, <2>5 DEF IInv, LiveIsStarted, Pending
  <1>2. Init => now \in 0 .. Patience
    BY DEF Init, Patience
  <1>3. now \in 0 .. Patience /\ [Next]_vars => (now \in 0 .. Patience)'
    <2>1. ASSUME now \in 0 .. Patience, Clock PROVE now' \in 0 .. Patience
      BY <2>1 DEF Clock, Patience
    <2>2. [Next]_vars => Clock \/ UNCHANGED now
      BY DEF Next, Step, Count, Prior, Upsert, Charge, Spend, Release, Attempt, Start, Freeze, Commit, Rest,
             Rollback, Undo, BeginRegister, BeginWithdraw, BeginKey, Lobby, Score, TickLock, TickCommit,
             TickRollback, FixKey, Over, vars
    <2> QED
      BY <2>1, <2>2
  <1>4. IInv /\ now \in 0 .. Patience /\ [Next]_vars => [Waits]_vars
    BY <1>1
  <1> QED
    BY <1>2, <1>3, <1>4, Invariance, PTL DEF Spec, PublishingWaits

(* NeverOverbooked: counting under the lock of the contest makes the requests  *)
(* for the last place mutually exclusive, and no refund, repeat or release of  *)
(* a key brings an entry back: where nobody sends a request while theirs is    *)
(* still open.                                                                 *)
THEOREM PlacesAreLimited ==
    ASSUME Impatient = {} PROVE Spec => []NeverOverbooked
  <1>1. IInv => NeverOverbooked
    BY DEF IInv, Counts, Alone
  <1> QED
    BY <1>1, Invariance, PTL

-----------------------------------------------------------------------------
(* Packs.  A charge writes back what it read plus one, so two requests that  *)
(* overlap on one pack may lose one of them.  They are all that goes wrong.  *)

\* The requests charged to pack p come one after the other.
Serial(p) == \A r, q \in Requests :
    req[r] # NoRequest /\ req[q] # NoRequest /\ PackOf(r) = p /\ PackOf(q) = p => r = q

\* The open request of the pack has read what is still so.
PackKept(d) == Charged(d) => d.seen = spent[Pack[d.user]]

Kept(d) == Found(d) /\ PackKept(d)

PackInv(p) ==
    /\ spent[p] = Held(p)
    /\ \A r \in Requests : req[r] # NoRequest /\ PackOf(r) = p => Kept(req[r])

(* What is held of a pack when one entry changes. *)
LEMMA HeldBy ==
    ASSUME TypeOK, NEW p \in Packs, NEW u \in Users, NEW e \in EntryStates,
           entry' = [entry EXCEPT ![u] = e]
    PROVE  /\ Held(p) \in Nat /\ Held(p)' \in Nat
           /\ Pack[u] # p => Held(p)' = Held(p)
           /\ (entry[u] \in Absent <=> e \in Absent) => Held(p)' = Held(p)
           /\ Pack[u] = p /\ entry[u] \in Absent /\ e \notin Absent => Held(p)' = Held(p) + 1
           /\ Pack[u] = p /\ entry[u] \notin Absent /\ e \in Absent => Held(p)' = Held(p) - 1
  <1> DEFINE S == {v \in Users : Pack[v] = p /\ entry[v] \notin Absent}
             T == {v \in Users : Pack[v] = p /\ entry'[v] \notin Absent}
  <1>1. IsFiniteSet(S) /\ IsFiniteSet(T)
    BY CompetitionAssumption, FS_Subset
  <1>2. \A v \in Users : entry'[v] = IF v = u THEN e ELSE entry[v]
    BY DEF TypeOK
  <1>3. Pack[u] # p \/ (entry[u] \in Absent <=> e \in Absent) => T = S
    BY <1>2
  <1>4. Pack[u] = p /\ entry[u] \in Absent /\ e \notin Absent => T = S \cup {u} /\ u \notin S
    BY <1>2
  <1>5. Pack[u] = p /\ entry[u] \notin Absent /\ e \in Absent => T = S \ {u} /\ u \in S
    BY <1>2
  <1> HIDE DEF S, T
  <1>6. Cardinality(S) \in Nat /\ Cardinality(T) \in Nat
    BY <1>1, FS_CardinalityType
  <1>7. T = S \cup {u} /\ u \notin S => Cardinality(T) = Cardinality(S) + 1
    BY <1>1, FS_AddElement
  <1>8. T = S \ {u} /\ u \in S => Cardinality(T) = Cardinality(S) - 1
    BY <1>1, FS_RemoveElement
  <1>9. Held(p) = Cardinality(S) /\ Held(p)' = Cardinality(T)
    BY DEF Held, S, T
  <1> QED
    BY <1>3, <1>4, <1>5, <1>6, <1>7, <1>8, <1>9

(* A statement reads what is so. *)
LEMMA StatementKept ==
    ASSUME IInv, NEW r \in Requests, req[r] # NoRequest, Step(r), ~ Commit(r)
    PROVE  /\ UNCHANGED <<entry, spent>>
           /\ \/ req' = [req EXCEPT ![r] = NoRequest]
              \/ \E d \in Transactions :
                    /\ req' = [req EXCEPT ![r] = d] /\ d.user = User(r)
                    /\ Kept(req[r]) => Kept(d)
  <1> DEFINE o == req[r]
  <1> USE DEF Rest, entries
  <1>1. /\ o \in Transactions /\ InStage(o) /\ o.user = User(r) /\ EntryKept(o)
        /\ entry \in [Users -> EntryStates] /\ spent \in [Packs -> Nat] /\ frozen \in Nat /\ keys \in Nat
        /\ User(r) \in Users /\ Pack[o.user] = PackOf(r) /\ Pack[o.user] \in Packs
    <2>1. Fits(o) /\ o \in Transactions
      BY DEF IInv, RequestsFit, TypeOK
    <2> QED
      BY <2>1, CompetitionAssumption DEF IInv, TypeOK, Fits, InStage, User, PackOf
  <1>2. CASE Count(r)
    <2>1. CASE Taken >= MaxParticipants
      BY <1>2, <2>1 DEF Count, Ends_
    <2>2. CASE ~ Taken >= MaxParticipants
      <3> DEFINE d == [o EXCEPT !.at = "prior"]
      <3>1. d \in Transactions /\ d.user = User(r) /\ d.op = "register" /\ d.at = "prior"
        BY <1>1, <1>2 DEF Transactions, Count, InStage, Stages
      <3>2. Kept(o) => Kept(d)
        BY <3>1 DEF Kept, Found, PackKept, Charged
      <3> QED
        BY <1>2, <2>2, <3>1, <3>2 DEF Count, Goes
    <2> QED
      BY <2>1, <2>2
  <1>3. CASE Prior(r)
    <2> DEFINE e == entry[User(r)]
               d == [o EXCEPT !.prior = e, !.at = "upsert"]
    <2>1. e \in EntryStates /\ o.op = "register"
      BY <1>1, <1>3 DEF Prior, InStage, Stages
    <2>2. req' = [req EXCEPT ![r] = d]
      BY <1>3 DEF Prior
    <2>3. d \in Transactions /\ d.user = User(r) /\ d.op = "register" /\ d.at = "upsert" /\ d.prior = e
      BY <1>1, <2>1 DEF Transactions
    <2>4. Kept(o) => Kept(d)
      BY <2>3 DEF Kept, Found, PackKept, Charged
    <2> QED
      BY <1>3, <2>2, <2>3, <2>4 DEF Prior
  <1>4. CASE Upsert(r)
    <2> DEFINE e == IF entry[User(r)] \in Absent THEN "registered" ELSE entry[User(r)]
               a == IF Owes(r) THEN "charge" ELSE "commit"
               d == [o EXCEPT !.put = e, !.at = a]
    <2>1. e \in EntryStates /\ o.op = "register" /\ o.at = "upsert" /\ ~ o.writes
          /\ a \in {"charge", "commit"} /\ (a = "charge" <=> o.prior \in Absent)
      BY <1>1, <1>4 DEF Upsert, InStage, Stages, EntryStates, Owes
    <2>2. req' = [req EXCEPT ![r] = d] /\ UNCHANGED <<entry, spent>>
      BY <1>4 DEF Upsert
    <2> HIDE DEF e, a
    <2>3. d \in Transactions /\ d.user = User(r) /\ d.op = "register" /\ d.at = a /\ ~ d.writes
      BY <1>1, <2>1 DEF Transactions
    <2>4. Kept(o) => Kept(d)
      BY <1>1, <2>1, <2>3 DEF Kept, Found, PackKept, Charged
    <2> QED
      BY <2>2, <2>3, <2>4
  <1>5. CASE Charge(r)
    <2>1. CASE Ends_(r)
      BY <1>5, <2>1 DEF Charge, Ends_
    <2>2. CASE ~ Ends_(r)
      <3> DEFINE n == spent[PackOf(r)]
                 d == [o EXCEPT !.seen = n, !.at = "spend"]
      <3>1. req' = [req EXCEPT ![r] = d] /\ o.at = "charge" /\ UNCHANGED <<entry, spent>>
        BY <1>5, <2>2 DEF Charge
      <3>2. n \in Nat /\ n = spent[Pack[o.user]]
        BY <1>1
      <3> HIDE DEF n
      <3>3. /\ d \in Transactions /\ d.user = User(r) /\ d.op = o.op /\ d.at = "spend"
            /\ d.seen = n /\ d.user = o.user
        BY <1>1, <3>2 DEF Transactions
      <3>4. Kept(o) => Kept(d)
        BY <3>1, <3>2, <3>3 DEF Kept, Found, PackKept
      <3> QED
        BY <3>1, <3>3, <3>4
    <2> QED
      BY <2>1, <2>2
  <1>6. CASE Spend(r)
    <2> DEFINE d == [o EXCEPT !.at = "commit", !.writes = TRUE]
    <2>1. req' = [req EXCEPT ![r] = d] /\ o.at = "spend" /\ UNCHANGED <<entry, spent>>
      BY <1>6 DEF Spend
    <2>2. /\ d \in Transactions /\ d.user = User(r) /\ d.op = o.op /\ d.at = "commit"
          /\ d.seen = o.seen /\ d.user = o.user /\ d.writes
      BY <1>1 DEF Transactions
    <2>3. o.op \in {"register", "withdraw"}
      BY <1>1, <2>1 DEF InStage, Stages, Transactions
    <2>4. Kept(o) => Kept(d)
      BY <2>1, <2>2, <2>3 DEF Kept, Found, PackKept, Charged
    <2> QED
      BY <2>1, <2>2, <2>4
  <1>7. CASE Release(r)
    <2>1. CASE entry[User(r)] # "registered"
      BY <1>7, <2>1 DEF Release, Ends_
    <2>2. CASE entry[User(r)] = "registered"
      <3> DEFINE d == [o EXCEPT !.put = "withdrawn", !.at = "charge"]
      <3>1. req' = [req EXCEPT ![r] = d] /\ o.op = "withdraw" /\ UNCHANGED <<entry, spent>>
        BY <1>1, <1>7, <2>2 DEF Release, InStage, Stages
      <3>2. d \in Transactions /\ d.user = User(r) /\ d.op = "withdraw" /\ d.at = "charge"
        BY <1>1, <3>1 DEF Transactions, EntryStates
      <3>3. Kept(o) => Kept(d)
        BY <3>2 DEF Kept, Found, PackKept, Charged
      <3> QED
        BY <3>1, <3>2, <3>3
    <2> QED
      BY <2>1, <2>2
  <1>8. CASE Attempt(r)
    <2> DEFINE d == [o EXCEPT !.at = "start"]
    <2>1. req' = [req EXCEPT ![r] = d] /\ o.op = "key" /\ UNCHANGED <<entry, spent>>
      BY <1>1, <1>8 DEF Attempt, Goes, InStage, Stages
    <2>2. d \in Transactions /\ d.user = User(r) /\ d.user = o.user /\ d.op = "key" /\ d.at = "start"
      BY <1>1, <2>1 DEF Transactions
    <2>3. Kept(o) => Kept(d)
      BY <2>1, <2>2 DEF Kept, Found, PackKept, Charged
    <2> QED
      BY <2>1, <2>2, <2>3
  <1>9. CASE Start(r)
    <2> DEFINE a == IF o.writes THEN "freeze" ELSE "commit"
               d == [o EXCEPT !.put = "started", !.at = a]
    <2>1. req' = [req EXCEPT ![r] = d] /\ o.op = "key" /\ UNCHANGED <<entry, spent>>
      BY <1>1, <1>9 DEF Start, InStage, Stages
    <2>2. a \in {"freeze", "commit"}
      OBVIOUS
    <2> HIDE DEF a
    <2>3. d \in Transactions /\ d.user = User(r) /\ d.user = o.user /\ d.op = "key"
      BY <1>1, <2>1, <2>2 DEF Transactions, EntryStates
    <2>4. Kept(o) => Kept(d)
      BY <2>1, <2>3 DEF Kept, Found, PackKept, Charged
    <2> QED
      BY <2>1, <2>3, <2>4
  <1>10. CASE Freeze(r)
    <2> DEFINE w == Unfrozen
               d == [o EXCEPT !.seen = keys, !.writes = w, !.at = "commit"]
    <2>1. req' = [req EXCEPT ![r] = d] /\ o.op = "key" /\ UNCHANGED <<entry, spent>>
      BY <1>1, <1>10 DEF Freeze, InStage, Stages
    <2>2. w \in BOOLEAN
      BY DEF Unfrozen
    <2> HIDE DEF w
    <2>3. d \in Transactions /\ d.user = User(r) /\ d.user = o.user /\ d.op = "key"
      BY <1>1, <2>1, <2>2 DEF Transactions
    <2>4. Kept(o) => Kept(d)
      BY <2>1, <2>3 DEF Kept, Found, PackKept, Charged
    <2> QED
      BY <2>1, <2>3, <2>4
  <1> QED
    BY <1>2, <1>3, <1>4, <1>5, <1>6, <1>7, <1>8, <1>9, <1>10 DEF Step

(* A request that opens on the pack has read nothing of it yet. *)
LEMMA OpeningKept ==
    ASSUME IInv, NEW r \in Requests, NEW u \in Users,
           BeginRegister(r, u) \/ BeginWithdraw(r, u) \/ BeginKey(r, u)
    PROVE  /\ UNCHANGED <<entry, spent>>
           /\ req[r] = NoRequest
           /\ \E d \in Transactions : req' = [req EXCEPT ![r] = d] /\ d.user = u /\ Kept(d)
  <1>1. /\ NoRequest \in Transactions /\ NoRequest.prior = "none"
    BY NoRequestFits DEF NoRequest
  <1>2. ASSUME NEW op \in {"register", "withdraw", "key"},
               NEW at \in {"count", "prior", "release", "attempt"}, NEW w \in BOOLEAN,
               Open(r, u, op, at, w), UNCHANGED <<entry, spent>>, op = "key" => entry[u] \notin Absent
        PROVE  /\ req[r] = NoRequest
               /\ \E d \in Transactions : req' = [req EXCEPT ![r] = d] /\ d.user = u /\ Kept(d)
    <2> DEFINE d == [NoRequest EXCEPT !.op = op, !.user = u, !.at = at, !.writes = w]
    <2>1. req' = [req EXCEPT ![r] = d] /\ req[r] = NoRequest
      BY <1>2 DEF Open
    <2>2. d \in Transactions /\ d.user = u /\ d.at = at /\ d.op = op
      BY <1>1 DEF Transactions
    <2> HIDE DEF d
    <2>3. Kept(d)
      BY <1>2, <2>2 DEF Kept, Found, PackKept, Charged
    <2> QED
      BY <2>1, <2>2, <2>3
  <1> USE DEF Rest, entries
  <1>3. CASE BeginRegister(r, u)
    <2> DEFINE a == IF MaxParticipants > 0 THEN "count" ELSE "prior"
    <2>1. Open(r, u, "register", a, FALSE) /\ UNCHANGED <<entry, spent>> /\ a \in {"count", "prior"}
      BY <1>3 DEF BeginRegister
    <2> HIDE DEF a
    <2> QED
      BY <1>2, <2>1
  <1>4. CASE BeginWithdraw(r, u)
    BY <1>2, <1>4 DEF BeginWithdraw
  <1>5. CASE BeginKey(r, u)
    <2> DEFINE w == frozen = 0
    <2>1. /\ Open(r, u, "key", "attempt", w) /\ UNCHANGED <<entry, spent>> /\ w \in BOOLEAN
          /\ entry[u] \notin Absent
      BY <1>5 DEF BeginKey
    <2> HIDE DEF w
    <2> QED
      BY <1>2, <2>1
  <1>6. UNCHANGED <<entry, spent>>
    BY DEF BeginRegister, BeginWithdraw, BeginKey
  <1> QED
    BY <1>3, <1>4, <1>5, <1>6

(* A request has moved and nothing else of the pack. *)
LEMMA RequestKept ==
    ASSUME IInv, NEW p \in Packs, PackInv(p), NEW r \in Requests, NEW d \in Transactions,
           req' = [req EXCEPT ![r] = d], UNCHANGED <<entry, spent>>,
           d # NoRequest /\ Pack[d.user] = p => Kept(d)
    PROVE  PackInv(p)'
  <1>1. \A q \in Requests : req'[q] = IF q = r THEN d ELSE req[q]
    BY DEF IInv, TypeOK
  <1>2. Held(p)' = Held(p)
    BY DEF Held
  <1>3. ASSUME NEW q \in Requests, req'[q] # NoRequest, Pack[req'[q].user] = p PROVE Kept(req[q])'
    <2>1. CASE q = r
      BY <1>1, <1>3, <2>1 DEF Kept, Found, PackKept, Charged
    <2>2. CASE q # r
      BY <1>1, <1>3, <2>2 DEF PackInv, PackOf, User, Kept, Found, PackKept, Charged
    <2> QED
      BY <2>1, <2>2
  <1> QED
    BY <1>2, <1>3 DEF PackInv, PackOf, User

(* Entries move that nobody is let in or out by. *)
LEMMA OthersKept ==
    ASSUME IInv, NEW p \in Packs, PackInv(p), UNCHANGED <<req, spent>>,
           \A u \in Users : entry'[u] \in Absent <=> entry[u] \in Absent
    PROVE  PackInv(p)'
  <1>1. {u \in Users : Pack[u] = p /\ entry'[u] \notin Absent}
          = {u \in Users : Pack[u] = p /\ entry[u] \notin Absent}
    OBVIOUS
  <1>2. Held(p)' = Held(p)
    BY <1>1 DEF Held
  <1>3. ASSUME NEW r \in Requests, req[r] # NoRequest, PackOf(r) = p PROVE Kept(req[r])'
    <2>1. req[r].user \in Users /\ Kept(req[r])
      BY <1>3 DEF IInv, RequestsFit, Fits, InStage, PackInv
    <2> QED
      BY <2>1 DEF Kept, Found, PackKept, Charged
  <1> QED
    BY <1>2, <1>3 DEF PackInv, PackOf, User

(* A request of the pack that commits has it to itself. *)
LEMMA CommitKept ==
    ASSUME IInv, NEW p \in Packs, PackInv(p), Serial(p), NEW r \in Requests, Commit(r)
    PROVE  PackInv(p)'
  <1> DEFINE o == req[r]
             u == o.user
             k == Pack[u]
             e == o.put
  <1>1. /\ o.at = "commit" /\ Ends_(r)
        /\ entry' = [entry EXCEPT ![u] = e]
        /\ spent' = IF HoldsPack(r) THEN [spent EXCEPT ![k] = Consumed(r)] ELSE spent
    BY DEF Commit, PackOf, User
  <1>2. /\ o \in Transactions /\ o # NoRequest /\ InStage(o) /\ u \in Users /\ User(r) = u /\ TypeOK
        /\ k \in Packs /\ EntryKept(o) /\ e \in EntryStates /\ o.seen \in Nat /\ PackOf(r) = k /\ OnEntry(o)
    BY <1>1, Current DEF Fits, OnEntry, Transactions
  <1>3. /\ HoldsPack(r) <=> Charged(o)
        /\ o.op \in {"register", "withdraw", "key"}
    BY <1>1, <1>2 DEF HoldsPack, Charged, InStage, Stages, Transactions
  <1>4. \A v \in Users : entry'[v] = IF v = u THEN e ELSE entry[v]
    BY <1>1, <1>2 DEF TypeOK
  <1>5. \A q \in Requests : req'[q] = IF q = r THEN NoRequest ELSE req[q]
    BY <1>1, <1>2 DEF Ends_, TypeOK
  <1>6. spent'[p] = IF p = k /\ Charged(o) THEN Consumed(r) ELSE spent[p]
    BY <1>1, <1>2, <1>3 DEF TypeOK
  <1>7. /\ Held(p) \in Nat /\ Held(p)' \in Nat
        /\ k # p => Held(p)' = Held(p)
        /\ (entry[u] \in Absent <=> e \in Absent) => Held(p)' = Held(p)
        /\ k = p /\ entry[u] \in Absent /\ e \notin Absent => Held(p)' = Held(p) + 1
        /\ k = p /\ entry[u] \notin Absent /\ e \in Absent => Held(p)' = Held(p) - 1
    BY <1>1, <1>2, HeldBy
  <1>8. spent[p] = Held(p)
    BY DEF PackInv
  <1>9. spent'[p] = Held(p)'
    <2>1. CASE k # p
      BY <1>6, <1>7, <1>8, <2>1
    <2>2. CASE k = p
      <3>1. Found(o) /\ (Charged(o) => o.seen = spent[p])
        BY <1>2, <2>2 DEF PackInv, Kept, PackKept
      <3>2. CASE o.op = "register"
        <4>1. /\ Charged(o) <=> entry[u] \in Absent
              /\ e = IF entry[u] \in Absent THEN "registered" ELSE entry[u]
          BY <1>1, <1>2, <3>1, <3>2 DEF Charged, Found, EntryKept
        <4>2. Consumed(r) = o.seen + 1
          BY <3>2 DEF Consumed
        <4> QED
          BY <1>6, <1>7, <1>8, <2>2, <3>1, <4>1, <4>2 DEF Absent
      <3>3. CASE o.op = "withdraw"
        <4>1. Charged(o) /\ entry[u] = "registered" /\ e = "withdrawn"
          BY <1>1, <1>2, <3>3 DEF Charged, EntryKept, InStage
        <4>2. Consumed(r) = IF o.seen > 0 THEN o.seen - 1 ELSE 0
          BY <3>3 DEF Consumed
        <4> QED
          BY <1>2, <1>6, <1>7, <1>8, <2>2, <3>1, <4>1, <4>2 DEF Absent
      <3>4. CASE o.op = "key"
        <4>1. ~ Charged(o) /\ entry[u] \notin Absent /\ e = "started"
          BY <1>2, <3>1, <3>4 DEF Charged, EntryKept, Found
        <4> QED
          BY <1>6, <1>7, <1>8, <4>1 DEF Absent
      <3> QED
        BY <1>3, <3>2, <3>3, <3>4
    <2> QED
      BY <2>1, <2>2
  <1>10. ASSUME NEW q \in Requests, req'[q] # NoRequest, Pack[req'[q].user] = p PROVE Kept(req[q])'
    <2> DEFINE d == req[q]
    <2>1. q # r /\ d' = d /\ d # NoRequest /\ Pack[d.user] = p
      BY <1>5, <1>10
    <2>2. k # p
      BY <1>2, <2>1 DEF Serial, PackOf, User
    <2>3. Kept(d) /\ d.user # u /\ d.user \in Users
      BY <2>1, <2>2 DEF PackInv, PackOf, User, IInv, RequestsFit, Fits, InStage
    <2>4. entry'[d.user] = entry[d.user] /\ spent'[p] = spent[p]
      BY <1>4, <1>6, <2>2, <2>3
    <2> QED
      BY <2>1, <2>3, <2>4 DEF Kept, Found, PackKept, Charged
  <1> QED
    BY <1>9, <1>10 DEF PackInv, PackOf, User

LEMMA NextKept ==
    ASSUME IInv, NEW p \in Packs, PackInv(p), Serial(p), [Next]_vars
    PROVE  PackInv(p)'
  <1> USE DEF contest, entries
  <1>1. NoRequest \in Transactions
    BY NoRequestFits
  <1>2. ASSUME NEW r \in Requests, Step(r) PROVE PackInv(p)'
    <2>1. CASE Commit(r)
      BY <2>1, CommitKept
    <2>2. CASE ~ Commit(r)
      <3>1. req[r] # NoRequest
        BY <1>2, <2>2 DEF Step, Count, Prior, Upsert, Charge, Spend, Release, Attempt, Start, Freeze, NoRequest
      <3>2. PackOf(r) = p => Kept(req[r])
        BY <3>1 DEF PackInv
      <3>3. CASE req' = [req EXCEPT ![r] = NoRequest]
        BY <1>1, <1>2, <2>2, <3>1, <3>3, StatementKept, RequestKept
      <3>4. ASSUME NEW d \in Transactions, req' = [req EXCEPT ![r] = d], d.user = User(r),
                   Kept(req[r]) => Kept(d)
            PROVE  PackInv(p)'
        <4>1. d # NoRequest /\ Pack[d.user] = p => Kept(d)
          BY <3>2, <3>4 DEF PackOf
        <4>2. UNCHANGED <<entry, spent>>
          BY <1>2, <2>2, <3>1, StatementKept
        <4> QED
          BY <3>4, <4>1, <4>2, RequestKept
      <3> QED
        BY <1>2, <2>2, <3>1, <3>3, <3>4, StatementKept
    <2> QED
      BY <2>1, <2>2
  <1>3. ASSUME NEW r \in Requests, Undo(r) PROVE PackInv(p)'
    BY <1>1, <1>3, RequestKept DEF Undo, Ends_
  <1>4. ASSUME NEW r \in Requests, NEW u \in Users,
               BeginRegister(r, u) \/ BeginWithdraw(r, u) \/ BeginKey(r, u)
        PROVE  PackInv(p)'
    <2>1. /\ UNCHANGED <<entry, spent>>
          /\ \E d \in Transactions : req' = [req EXCEPT ![r] = d] /\ d.user = u /\ Kept(d)
      BY <1>4, OpeningKept
    <2> QED
      BY <2>1, RequestKept
  <1>5. ASSUME NEW u \in Users, Lobby(u) \/ Score(u) PROVE PackInv(p)'
    <2>1. \A v \in Users : entry'[v] \in Absent <=> entry[v] \in Absent
      BY <1>5 DEF Lobby, Score, Absent, IInv, TypeOK
    <2> QED
      BY <1>5, <2>1, OthersKept DEF Lobby, Score
  <1>6. CASE TickCommit
    <2>1. \A v \in Users : entry'[v] \in Absent <=> entry[v] \in Absent
      BY <1>6 DEF TickCommit, Absentees, Submitted, Absent
    <2> QED
      BY <1>6, <2>1, OthersKept DEF TickCommit
  <1>7. CASE TickLock \/ TickRollback \/ Clock \/ FixKey \/ UNCHANGED vars
    <2>1. UNCHANGED <<req, entry, spent>>
      BY <1>7 DEF TickLock, TickRollback, Clock, FixKey, vars
    <2> QED
      BY <2>1, OthersKept
  <1> QED
    BY <1>2, <1>3, <1>4, <1>5, <1>6, <1>7 DEF Next, Rollback, TickRollback, Over

(* SpentIsHeld, of one pack: whoever else registers, withdraws and fails, and    *)
(* however often its own requests are repeated, refused or rolled back, a pack   *)
(* stands at the entries held against it until two requests charged to it are    *)
(* open at once (Entitlements.consume and refund write back what they read).     *)
THEOREM PacksAreSpentByWhatIsHeld ==
    ASSUME NEW p \in Packs
    PROVE  Spec /\ []Serial(p) => [](spent[p] = Held(p))
  <1>1. Init => PackInv(p)
    <2> SUFFICES ASSUME Init PROVE PackInv(p)
      OBVIOUS
    <2>1. {u \in Users : Pack[u] = p /\ entry[u] \notin Absent} = {}
      BY DEF Init, Absent
    <2>2. Held(p) = 0
      BY <2>1, FS_EmptySet DEF Held
    <2> QED
      BY <2>2 DEF Init, PackInv
  <1>2. IInv /\ PackInv(p) /\ Serial(p) /\ [Next]_vars => PackInv(p)'
    BY NextKept
  <1>3. PackInv(p) => spent[p] = Held(p)
    BY DEF PackInv
  <1> QED
    BY <1>1, <1>2, <1>3, Invariance, PTL DEF Spec

=============================================================================
