------------------------- MODULE OutboxRelayProofs -------------------------
(***************************************************************************)
(* No message of a dispatched row is lost, a row is in one drain at a time *)
(* and is sent again only after a crash or an outage, and no two notices   *)
(* have the same key: for any rows, relays, workers and bounds.            *)
(***************************************************************************)
EXTENDS OutboxRelay, SequenceTheorems, TLAPS

Drains ==
    [open : BOOLEAN, todo : Seq(Events), next : Nat \ {0},
     done : SUBSET Events, later : SUBSET Events, charged : SUBSET Events]

Jobs == [open : BOOLEAN, m : Messages \cup {<<>>}, key : Nat, fresh : BOOLEAN]

TypeOK ==
    /\ row \in [Events -> {"none", "pending", "dispatched"}]
    /\ attempts \in [Events -> Nat]
    /\ ready \in Seq(Events)
    /\ relay \in [Relays -> Drains]
    /\ up \in BOOLEAN
    /\ sent \in [Messages -> Nat] /\ queue \in [Messages -> Nat]
    /\ job \in [Workers -> Jobs]
    /\ told \in [Messages -> Seq(Nat)]
    /\ run \in [Events -> Nat]
    /\ crashes \in Nat /\ outages \in Nat
    /\ \A w \in Workers : job[w].open => job[w].m \in Messages

Distinct(s) == \A i, j \in DOMAIN s : s[i] = s[j] => i = j

\* The rows that are ready are pending, each once.
ReadyArePending == Distinct(ready) /\ \A e \in ToSet(ready) : row[e] = "pending"

\* A drain is about rows that are ready, each once, and is in the middle of
\* sending the first it has still to do.
DrainsInOrder == \A r \in Relays :
    /\ ~ relay[r].open => relay[r] = NoDrain
    /\ Rows(relay[r]) \subseteq ToSet(ready)
    /\ Distinct(relay[r].todo)
    /\ ToSet(relay[r].todo) \cap (relay[r].done \cup relay[r].later) = {}
    /\ relay[r].todo = <<>> => relay[r].next = 1
    /\ relay[r].todo # <<>> => relay[r].next <= Len(Targets[relay[r].todo[1]])

\* The row locks: two drains have no row in common.
DrainsApart == \A r, s \in Relays : r # s => Rows(relay[r]) \cap Rows(relay[s]) = {}

TableInv == TypeOK /\ ReadyArePending /\ DrainsInOrder /\ DrainsApart

\* What NOT EXISTS found is still there when the actor commits.
FreshKnown == \A w \in Workers :
    job[w].open /\ ~ job[w].fresh => told[job[w].m] # <<>>

Reached == {m \in Messages : Held(m) \/ told[m] # <<>>}

\* What a drain has sent has reached the queue or gone further.
DrainsReached == \A r \in Relays :
    /\ \A e \in relay[r].done : Of(e) \subseteq Reached
    /\ relay[r].todo # <<>> =>
          \A i \in 1 .. relay[r].next - 1 : <<relay[r].todo[1], i>> \in Reached

DeliveryInv == TableInv /\ FreshKnown /\ DrainsReached /\ NothingLost

\* An open drain has sent the message and not committed.
Out(m) == \E r \in Relays :
    \/ m[1] \in relay[r].done
    \/ relay[r].todo # <<>> /\ relay[r].todo[1] = m[1] /\ m[2] < relay[r].next

\* A message of a row that is not marked has been sent once for each crash and
\* outage so far, and once more only while its drain may still be undone by the
\* next; an outage that lasts has been counted before it undoes anything.
Accounted == \A m \in Messages :
    row[m[1]] # "dispatched" /\ ~ (up /\ Out(m)) => sent[m] <= crashes + outages

PoisonUnsent == \A m \in Messages : m[1] \in Poison => sent[m] = 0

SentInv == TableInv /\ Accounted /\ PoisonUnsent /\ SentOnce

-----------------------------------------------------------------------------
(* Lemmas about sequences, rows and messages                               *)

(* What is left of a sequence with no element twice when its first is taken. *)
LEMMA TailDistinct ==
    ASSUME NEW S, NEW s \in Seq(S), s # <<>>, Distinct(s)
    PROVE  /\ Tail(s) \in Seq(S) /\ Distinct(Tail(s))
           /\ s[1] \in S
           /\ ToSet(Tail(s)) = ToSet(s) \ {s[1]}
  <1>1. /\ Tail(s) \in Seq(S) /\ Len(Tail(s)) = Len(s) - 1
        /\ \A i \in 1 .. Len(Tail(s)) : Tail(s)[i] = s[i + 1]
    BY HeadTailProperties
  <1>2. Len(s) \in Nat \ {0} /\ DOMAIN s = 1 .. Len(s) /\ DOMAIN Tail(s) = 1 .. Len(s) - 1
    BY <1>1, EmptySeq, LenProperties
  <1>3. s[1] \in S
    BY <1>2, ElementOfSeq
  <1>4. Distinct(Tail(s))
    BY <1>1, <1>2 DEF Distinct
  <1>5. ASSUME NEW x \in ToSet(Tail(s)) PROVE x \in ToSet(s) \ {s[1]}
    <2>1. PICK i \in 1 .. Len(s) - 1 : x = s[i + 1]
      BY <1>1, <1>2 DEF ToSet
    <2>2. i + 1 \in DOMAIN s /\ 1 \in DOMAIN s /\ i + 1 # 1
      BY <1>2
    <2> QED
      BY <2>1, <2>2 DEF ToSet, Distinct
  <1>6. ASSUME NEW x \in ToSet(s) \ {s[1]} PROVE x \in ToSet(Tail(s))
    <2>1. PICK i \in 1 .. Len(s) : x = s[i] /\ i # 1
      BY <1>2 DEF ToSet
    <2>2. i - 1 \in 1 .. Len(s) - 1 /\ Tail(s)[i - 1] = s[i]
      BY <1>1, <1>2, <2>1
    <2> QED
      BY <2>1, <2>2, <1>2 DEF ToSet
  <1> QED
    BY <1>1, <1>3, <1>4, <1>5, <1>6

(* A row that becomes ready joins the others at their end. *)
LEMMA AppendDistinct ==
    ASSUME NEW S, NEW s \in Seq(S), Distinct(s), NEW x \in S, x \notin ToSet(s)
    PROVE  /\ Append(s, x) \in Seq(S) /\ Distinct(Append(s, x))
           /\ ToSet(Append(s, x)) = ToSet(s) \cup {x}
  <1> DEFINE t == Append(s, x)
  <1>1. /\ t \in Seq(S) /\ Len(t) = Len(s) + 1 /\ t[Len(s) + 1] = x
        /\ \A i \in 1 .. Len(s) : t[i] = s[i]
    BY AppendProperties
  <1>2. Len(s) \in Nat /\ DOMAIN s = 1 .. Len(s) /\ DOMAIN t = 1 .. Len(s) + 1
    BY <1>1, LenProperties
  <1> HIDE DEF t
  <1>3. \A i \in DOMAIN t : (i \in DOMAIN s /\ t[i] = s[i]) \/ (i = Len(s) + 1 /\ t[i] = x)
    BY <1>1, <1>2
  <1>4. \A i \in DOMAIN s : s[i] # x /\ i \in DOMAIN t /\ t[i] = s[i]
    BY <1>1, <1>2 DEF ToSet
  <1>5. Distinct(t)
    BY <1>3, <1>4 DEF Distinct
  <1>6. ToSet(t) = ToSet(s) \cup {x}
    BY <1>1, <1>2, <1>3, <1>4 DEF ToSet
  <1> QED
    BY <1>1, <1>5, <1>6 DEF t

(* A listing of ready rows has each of them once. *)
LEMMA ListingDistinct ==
    ASSUME NEW K \in SUBSET Events, NEW t \in Listing(K), ready \in Seq(Events), Distinct(ready)
    PROVE  t \in Seq(Events) /\ Distinct(t) /\ ToSet(t) = K
  <1>1. PICK n \in 0 .. Len(ready) : t \in [1 .. n -> K]
    BY DEF Listing, SeqOf
  <1>2. Len(ready) \in Nat /\ n \in Nat
    BY LenProperties
  <1>3. t \in Seq(Events)
    BY <1>1, <1>2, SMT
  <1>4. ASSUME NEW i \in DOMAIN t, NEW j \in DOMAIN t, i < j PROVE t[i] # t[j]
    <2>1. Before(t[i], t[j])
      BY <1>4 DEF Listing
    <2>2. DOMAIN ready = 1 .. Len(ready)
      BY LenProperties
    <2> QED
      BY <2>1, <2>2, <1>2 DEF Before, Distinct
  <1>5. Distinct(t)
    BY <1>1, <1>2, <1>4 DEF Distinct
  <1> QED
    BY <1>3, <1>5 DEF Listing

(* The first rows of a listing. *)
LEMMA PrefixDistinct ==
    ASSUME NEW S, NEW s \in Seq(S), Distinct(s), s # <<>>, NEW n \in 1 .. Len(s)
    PROVE  /\ SubSeq(s, 1, n) \in Seq(S) /\ SubSeq(s, 1, n) # <<>>
           /\ Distinct(SubSeq(s, 1, n)) /\ ToSet(SubSeq(s, 1, n)) \subseteq ToSet(s)
  <1> DEFINE t == SubSeq(s, 1, n)
  <1>1. Len(s) \in Nat /\ DOMAIN s = 1 .. Len(s)
    BY LenProperties
  <1>2. \A i \in 1 .. n : s[i] \in S
    BY <1>1, ElementOfSeq
  <1>3. /\ t \in Seq(S) /\ Len(t) = n
        /\ \A i \in 1 .. n : t[i] = s[i]
    BY <1>1, <1>2, SubSeqProperties
  <1>4. DOMAIN t = 1 .. n
    BY <1>3, LenProperties
  <1> HIDE DEF t
  <1>5. t # <<>>
    BY <1>3, EmptySeq
  <1>6. Distinct(t)
    BY <1>1, <1>3, <1>4 DEF Distinct
  <1>7. ToSet(t) \subseteq ToSet(s)
    BY <1>1, <1>3, <1>4 DEF ToSet
  <1> QED
    BY <1>3, <1>5, <1>6, <1>7 DEF t

(* A message is one of a row's, told by its place among the row's targets. *)
LEMMA MessageOf ==
    ASSUME NEW m \in Messages
    PROVE  m[1] \in Events /\ m[2] \in DOMAIN Targets[m[1]] /\ m = <<m[1], m[2]>> /\ m \in Of(m[1])
  BY DEF Messages, Of

LEMMA OfEvent ==
    ASSUME NEW e \in Events
    PROVE  /\ Of(e) \subseteq Messages
           /\ Targets[e] \in Seq(STRING) /\ Len(Targets[e]) \in Nat \ {0}
           /\ \A i \in 1 .. Len(Targets[e]) : <<e, i>> \in Messages
           /\ \A m \in Of(e) : \E i \in 1 .. Len(Targets[e]) : m = <<e, i>>
  <1>1. Targets[e] \in Seq(STRING) /\ Targets[e] # <<>>
    BY RelayAssumption
  <1>2. Len(Targets[e]) \in Nat \ {0} /\ DOMAIN Targets[e] = 1 .. Len(Targets[e])
    BY <1>1, EmptySeq, LenProperties
  <1> QED
    BY <1>1, <1>2 DEF Messages, Of

-----------------------------------------------------------------------------
(* The rows and their drains                                               *)

LEMMA InitTable == Init => TableInv
  <1> SUFFICES ASSUME Init PROVE TableInv
    OBVIOUS
  <1>1. NoDrain \in Drains /\ NoJob \in Jobs /\ ~ NoJob.open
    BY DEF NoDrain, Drains, NoJob, Jobs
  <1>2. TypeOK
    BY <1>1 DEF Init, TypeOK
  <1>3. Rows(NoDrain) = {} /\ ToSet(NoDrain.todo) = {} /\ Distinct(NoDrain.todo)
    BY DEF Rows, NoDrain, ToSet, Distinct
  <1> QED
    BY <1>2, <1>3 DEF Init, TableInv, ReadyArePending, DrainsInOrder, DrainsApart, Distinct, ToSet, NoDrain

(* A step that leaves the rows and the drains alone. *)
LEMMA SameTable ==
    ASSUME TableInv, TypeOK', UNCHANGED <<row, ready, relay>>
    PROVE  TableInv'
  <1>1. ReadyArePending'
    BY DEF TableInv, ReadyArePending, Distinct, ToSet
  <1>2. DrainsInOrder'
    BY DEF TableInv, DrainsInOrder
  <1>3. DrainsApart'
    BY DEF TableInv, DrainsApart
  <1> QED
    BY <1>1, <1>2, <1>3 DEF TableInv

(* A drain that is given up, with all it held. *)
LEMMA DropDrain ==
    ASSUME TableInv, NEW r \in Relays, relay' = [relay EXCEPT ![r] = NoDrain],
           UNCHANGED <<row, ready>>, TypeOK'
    PROVE  TableInv'
  <1>1. \A s \in Relays : relay'[s] = IF s = r THEN NoDrain ELSE relay[s]
    BY DEF TableInv, TypeOK
  <1>2. Rows(NoDrain) = {} /\ ToSet(NoDrain.todo) = {} /\ Distinct(NoDrain.todo)
    BY DEF Rows, NoDrain, ToSet, Distinct
  <1>3. ReadyArePending'
    BY DEF TableInv, ReadyArePending, Distinct, ToSet
  <1>4. DrainsApart'
    BY <1>1, <1>2 DEF TableInv, DrainsApart
  <1>5. \A s \in Relays : Rows(relay'[s]) \subseteq ToSet(ready')
    BY <1>1, <1>2 DEF TableInv, DrainsInOrder
  <1>6. DrainsInOrder'
    BY <1>1, <1>2, <1>5 DEF TableInv, DrainsInOrder, NoDrain
  <1> QED
    BY <1>3, <1>4, <1>6 DEF TableInv

(* A drain that goes on holds no row it did not hold. *)
LEMMA DrainOn ==
    ASSUME TableInv, NEW r \in Relays, NEW d \in Drains, relay' = [relay EXCEPT ![r] = d],
           UNCHANGED <<row, ready>>, TypeOK',
           d.open, Rows(d) \subseteq Rows(relay[r]), Distinct(d.todo),
           ToSet(d.todo) \cap (d.done \cup d.later) = {},
           d.todo = <<>> => d.next = 1,
           d.todo # <<>> => d.next <= Len(Targets[d.todo[1]])
    PROVE  TableInv'
  <1>1. \A s \in Relays : relay'[s] = IF s = r THEN d ELSE relay[s]
    BY DEF TableInv, TypeOK
  <1>3. ReadyArePending'
    BY DEF TableInv, ReadyArePending, Distinct, ToSet
  <1>4. DrainsApart'
    BY <1>1 DEF TableInv, DrainsApart
  <1>5. \A s \in Relays : Rows(relay'[s]) \subseteq ToSet(ready')
    BY <1>1 DEF TableInv, DrainsInOrder
  <1>6. DrainsInOrder'
    BY <1>1, <1>5 DEF TableInv, DrainsInOrder
  <1> QED
    BY <1>3, <1>4, <1>6 DEF TableInv

LEMMA RowsOf ==
    ASSUME NEW d
    PROVE  Rows(d) = ToSet(d.todo) \cup d.done \cup d.later
  BY DEF Rows, ToSet

(* The first row of a drain, done with. *)
LEMMA FirstDone ==
    ASSUME TableInv, NEW r \in Relays, relay[r].todo # <<>>
    PROVE  /\ relay[r].open /\ relay[r] \in Drains
           /\ relay[r].todo[1] \in Events
           /\ relay[r].todo[1] \in ToSet(relay[r].todo)
           /\ relay[r].todo[1] \notin relay[r].done \cup relay[r].later
           /\ Tail(relay[r].todo) \in Seq(Events) /\ Distinct(Tail(relay[r].todo))
           /\ ToSet(Tail(relay[r].todo)) = ToSet(relay[r].todo) \ {relay[r].todo[1]}
  <1>1. relay[r] \in Drains /\ relay[r].todo \in Seq(Events)
    BY DEF TableInv, TypeOK, Drains
  <1>2. relay[r].open
    BY DEF TableInv, DrainsInOrder, NoDrain
  <1>3. Distinct(relay[r].todo)
    BY DEF TableInv, DrainsInOrder
  <1>4. 1 \in DOMAIN relay[r].todo
    BY <1>1, EmptySeq, LenProperties
  <1>5. relay[r].todo[1] \in ToSet(relay[r].todo)
    BY <1>4 DEF ToSet
  <1>6. relay[r].todo[1] \notin relay[r].done \cup relay[r].later
    BY <1>5 DEF TableInv, DrainsInOrder
  <1> QED
    BY <1>1, <1>2, <1>3, <1>5, <1>6, TailDistinct

LEMMA CommitTable ==
    ASSUME TableInv, NEW e \in Events, Commit(e)
    PROVE  TableInv'
  <1>1. ready \in Seq(Events) /\ Distinct(ready) /\ e \notin ToSet(ready)
    BY DEF Commit, TableInv, TypeOK, ReadyArePending
  <1>2. /\ ready' \in Seq(Events) /\ Distinct(ready')
        /\ ToSet(ready') = ToSet(ready) \cup {e}
    BY <1>1, AppendDistinct DEF Commit
  <1>3. row' \in [Events -> {"none", "pending", "dispatched"}]
    BY DEF Commit, TableInv, TypeOK
  <1>4. TypeOK'
    BY <1>2, <1>3 DEF Commit, TableInv, TypeOK, broker, actors
  <1>5. \A f \in ToSet(ready') : f \in Events /\ row'[f] = "pending"
    BY <1>2, <1>4 DEF Commit, TableInv, TypeOK, ReadyArePending, ToSet
  <1>6. ReadyArePending'
    BY <1>2, <1>5 DEF ReadyArePending
  <1>7. DrainsInOrder' /\ DrainsApart'
    BY <1>2 DEF Commit, TableInv, DrainsInOrder, DrainsApart
  <1> QED
    BY <1>4, <1>6, <1>7 DEF TableInv

LEMMA BackoffTable ==
    ASSUME TableInv, NEW e \in Events, BackoffOver(e)
    PROVE  TableInv'
  <1>1. ready \in Seq(Events) /\ Distinct(ready) /\ e \notin ToSet(ready)
    BY DEF BackoffOver, TableInv, TypeOK, ReadyArePending
  <1>2. /\ ready' \in Seq(Events) /\ Distinct(ready')
        /\ ToSet(ready') = ToSet(ready) \cup {e}
    BY <1>1, AppendDistinct DEF BackoffOver
  <1>3. TypeOK'
    BY <1>2 DEF BackoffOver, TableInv, TypeOK, broker, actors
  <1>4. ReadyArePending'
    BY <1>2 DEF BackoffOver, TableInv, ReadyArePending
  <1>5. DrainsInOrder' /\ DrainsApart'
    BY <1>2 DEF BackoffOver, TableInv, DrainsInOrder, DrainsApart
  <1> QED
    BY <1>3, <1>4, <1>5 DEF TableInv

LEMMA SelectTable ==
    ASSUME TableInv, NEW r \in Relays, Select(r)
    PROVE  TableInv'
  <1>1. PICK t \in Listing(Eligible) : relay' = [relay EXCEPT ![r] =
             [NoDrain EXCEPT !.open = TRUE,
                !.todo = SubSeq(t, 1, IF Len(t) < Batch THEN Len(t) ELSE Batch)]]
    BY DEF Select
  <1> DEFINE todo == SubSeq(t, 1, IF Len(t) < Batch THEN Len(t) ELSE Batch)
             d    == [NoDrain EXCEPT !.open = TRUE, !.todo = todo]
  <1>2. ready \in Seq(Events) /\ Distinct(ready) /\ Eligible \subseteq ToSet(ready)
    BY DEF TableInv, TypeOK, ReadyArePending, Eligible
  <1>3. Eligible \in SUBSET Events
    BY <1>2, ElementOfSeq, LenProperties DEF ToSet
  <1>4. t \in Seq(Events) /\ Distinct(t) /\ ToSet(t) = Eligible
    BY <1>2, <1>3, ListingDistinct
  <1>5. t # <<>>
    BY <1>4 DEF Select, ToSet
  <1>6. (IF Len(t) < Batch THEN Len(t) ELSE Batch) \in 1 .. Len(t)
    BY <1>4, <1>5, EmptySeq, LenProperties, RelayAssumption
  <1>7. /\ todo \in Seq(Events) /\ todo # <<>> /\ Distinct(todo)
        /\ ToSet(todo) \subseteq Eligible
    BY <1>4, <1>5, <1>6, PrefixDistinct
  <1> HIDE DEF todo
  <1>8. /\ d.open /\ d.todo = todo /\ d.next = 1 /\ d.done = {} /\ d.later = {}
        /\ d \in Drains
    <2> DEFINE o == NoDrain
    <2>1. d = [o EXCEPT !.open = TRUE, !.todo = todo]
      OBVIOUS
    <2>2. /\ o \in [open : BOOLEAN, todo : Seq(Events), next : Nat \ {0},
                    done : SUBSET Events, later : SUBSET Events, charged : SUBSET Events]
          /\ o.next = 1 /\ o.done = {} /\ o.later = {}
      BY DEF NoDrain
    <2> HIDE DEF d, o
    <2> QED
      BY <1>7, <2>1, <2>2 DEF Drains
  <1>9. Rows(d) \subseteq Eligible
    BY <1>7, <1>8, RowsOf
  <1> HIDE DEF d
  <1>10. relay' = [relay EXCEPT ![r] = d]
    BY <1>1 DEF d, todo
  <1>11. \A s \in Relays : relay'[s] = IF s = r THEN d ELSE relay[s]
    BY <1>10 DEF TableInv, TypeOK
  <1>12. TypeOK'
    BY <1>8, <1>10 DEF Select, TableInv, TypeOK, table, broker, actors
  <1>13. ReadyArePending'
    BY DEF Select, TableInv, ReadyArePending, table
  <1>14. \A s \in Relays : Rows(d) \cap Rows(relay[s]) = {}
    BY <1>9 DEF Eligible, Locked
  <1>15. DrainsApart'
    BY <1>11, <1>14 DEF TableInv, DrainsApart
  <1>16. 1 <= Len(Targets[todo[1]])
    <2>1. todo[1] \in Events
      BY <1>7, ElementOfSeq, EmptySeq, LenProperties
    <2> QED
      BY <2>1, OfEvent
  <1>17. DrainsInOrder'
    <2>1. \A s \in Relays : Rows(relay'[s]) \subseteq ToSet(ready')
      BY <1>2, <1>9, <1>11 DEF Select, TableInv, DrainsInOrder, table
    <2> QED
      BY <1>7, <1>8, <1>11, <1>16, <2>1 DEF TableInv, DrainsInOrder
  <1> QED
    BY <1>12, <1>13, <1>15, <1>17 DEF TableInv

LEMMA SendTable ==
    ASSUME TableInv, NEW r \in Relays, Send(r)
    PROVE  TableInv'
  <1> DEFINE o == relay[r]
             e == o.todo[1]
             d == IF SentAll(r)
                  THEN [o EXCEPT !.todo = Tail(@), !.next = 1, !.done = @ \cup {e}]
                  ELSE [o EXCEPT !.next = @ + 1]
  <1>1. /\ o.todo # <<>>
        /\ sent' = [sent EXCEPT ![<<e, o.next>>] = @ + 1]
        /\ queue' = [queue EXCEPT ![<<e, o.next>>] = @ + 1]
        /\ relay' = [relay EXCEPT ![r] = d]
    BY DEF Send
  <1>2. /\ o.open /\ o \in Drains /\ e \in Events
        /\ e \in ToSet(o.todo) /\ e \notin o.done \cup o.later
        /\ Tail(o.todo) \in Seq(Events) /\ Distinct(Tail(o.todo))
        /\ ToSet(Tail(o.todo)) = ToSet(o.todo) \ {e}
    BY <1>1, FirstDone
  <1>3. /\ o.next \in Nat \ {0} /\ o.next <= Len(Targets[e])
        /\ Distinct(o.todo) /\ ToSet(o.todo) \cap (o.done \cup o.later) = {}
    BY <1>1, <1>2 DEF TableInv, DrainsInOrder, Drains
  <1>4. Len(Targets[e]) \in Nat \ {0} /\ \A i \in 1 .. Len(Targets[e]) : <<e, i>> \in Messages
    BY <1>2, OfEvent
  <1>5. <<e, o.next>> \in Messages
    BY <1>3, <1>4
  <1>6. /\ d \in Drains /\ d.open /\ d.later = o.later
        /\ \/ d.todo = o.todo /\ d.done = o.done /\ d.next = o.next + 1 /\ o.next < Len(Targets[e])
           \/ d.todo = Tail(o.todo) /\ d.done = o.done \cup {e} /\ d.next = 1
    <2>1. o.done \cup {e} \in SUBSET Events /\ 1 \in Nat \ {0} /\ o.next + 1 \in Nat \ {0}
      BY <1>2, <1>3 DEF Drains
    <2>2. CASE SentAll(r)
      <3> DEFINE T == Tail(o.todo)
                 X == o.done \cup {e}
                 n == 1
      <3>1. d = [o EXCEPT !.todo = T, !.next = n, !.done = X]
        BY <2>2
      <3>2. /\ o \in Drains /\ o.open /\ T \in Seq(Events) /\ X \in SUBSET Events
            /\ n \in Nat \ {0}
        BY <1>2, <2>1
      <3> HIDE DEF T, X, n, d, o
      <3>3. /\ d \in Drains /\ d.open /\ d.todo = T /\ d.next = n
            /\ d.done = X /\ d.later = o.later
        BY <3>1, <3>2 DEF Drains
      <3> QED
        BY <3>3 DEF T, X, n
    <2>3. CASE ~ SentAll(r)
      <3>1. d = [o EXCEPT !.next = o.next + 1]
        BY <2>3
      <3>2. o.next < Len(Targets[e])
        BY <1>3, <1>4, <2>3 DEF SentAll
      <3> HIDE DEF d, o
      <3>3. /\ d \in Drains /\ d.open = o.open /\ d.todo = o.todo /\ d.next = o.next + 1
            /\ d.done = o.done /\ d.later = o.later
        BY <1>2, <2>1, <3>1 DEF Drains
      <3> QED
        BY <1>2, <3>2, <3>3
    <2> QED
      BY <2>2, <2>3
  <1> HIDE DEF d
  <1>7. TypeOK'
    <2>1. relay' \in [Relays -> Drains]
      BY <1>1, <1>6 DEF TableInv, TypeOK
    <2>2. sent' \in [Messages -> Nat] /\ queue' \in [Messages -> Nat]
      BY <1>1, <1>5 DEF TableInv, TypeOK
    <2> QED
      BY <2>1, <2>2 DEF Send, TableInv, TypeOK, table, actors
  <1>8. Rows(d) \subseteq Rows(o)
    BY <1>2, <1>6, RowsOf
  <1>9. Distinct(d.todo) /\ ToSet(d.todo) \cap (d.done \cup d.later) = {}
    BY <1>2, <1>3, <1>6
  <1>10. d.todo = <<>> => d.next = 1
    BY <1>1, <1>6
  <1>11. d.todo # <<>> => d.next <= Len(Targets[d.todo[1]])
    <2>1. CASE d.todo = o.todo /\ d.next = o.next + 1 /\ o.next < Len(Targets[e])
      BY <1>3, <1>4, <2>1
    <2>2. CASE d.todo = Tail(o.todo) /\ d.next = 1
      <3>1. d.todo # <<>> => d.todo[1] \in Events
        BY <1>2, <2>2, ElementOfSeq, EmptySeq, LenProperties
      <3> QED
        BY <2>2, <3>1, OfEvent
    <2> QED
      BY <1>6, <2>1, <2>2
  <1> QED
    BY <1>1, <1>6, <1>7, <1>8, <1>9, <1>10, <1>11, DrainOn DEF Send, table

LEMMA RescheduleTable ==
    ASSUME TableInv, NEW r \in Relays, Reschedule(r)
    PROVE  TableInv'
  <1> DEFINE o == relay[r]
             e == o.todo[1]
             d == [o EXCEPT !.todo = Tail(@), !.next = 1, !.later = @ \cup {e},
                            !.charged = @ \cup {f \in {e} : Charges(f)}]
  <1>1. o.todo # <<>> /\ relay' = [relay EXCEPT ![r] = d]
    BY DEF Reschedule
  <1>2. /\ o.open /\ o \in Drains /\ e \in Events
        /\ e \in ToSet(o.todo) /\ e \notin o.done \cup o.later
        /\ Tail(o.todo) \in Seq(Events) /\ Distinct(Tail(o.todo))
        /\ ToSet(Tail(o.todo)) = ToSet(o.todo) \ {e}
    BY <1>1, FirstDone
  <1>3. ToSet(o.todo) \cap (o.done \cup o.later) = {}
    BY DEF TableInv, DrainsInOrder
  <1>4. /\ d \in Drains /\ d.open /\ d.todo = Tail(o.todo) /\ d.done = o.done
        /\ d.later = o.later \cup {e} /\ d.next = 1
    <2> DEFINE X == o.later \cup {e}
               Y == o.charged \cup {f \in {e} : Charges(f)}
               T == Tail(o.todo)
               n == 1
    <2>1. /\ o \in Drains /\ o.open /\ T \in Seq(Events)
          /\ X \in SUBSET Events /\ Y \in SUBSET Events /\ n \in Nat \ {0}
      BY <1>2 DEF Drains
    <2>2. d = [o EXCEPT !.todo = T, !.next = n, !.later = X, !.charged = Y]
      OBVIOUS
    <2> HIDE DEF X, Y, T, n, d, o
    <2>3. /\ d \in Drains /\ d.open /\ d.todo = T /\ d.next = n
          /\ d.done = o.done /\ d.later = X
      BY <2>1, <2>2 DEF Drains
    <2> QED
      BY <2>3 DEF X, T, n
  <1> HIDE DEF d
  <1>5. TypeOK'
    BY <1>1, <1>4 DEF Reschedule, TableInv, TypeOK, table, broker, actors
  <1>6. Rows(d) \subseteq Rows(o)
    BY <1>2, <1>4, RowsOf
  <1>7. Distinct(d.todo) /\ ToSet(d.todo) \cap (d.done \cup d.later) = {}
    BY <1>2, <1>3, <1>4
  <1>8. d.todo # <<>> => d.next <= Len(Targets[d.todo[1]])
    <2>1. d.todo # <<>> => d.todo[1] \in Events
      BY <1>2, <1>4, ElementOfSeq, EmptySeq, LenProperties
    <2> QED
      BY <1>4, <2>1, OfEvent
  <1> QED
    BY <1>1, <1>4, <1>5, <1>6, <1>7, <1>8, DrainOn DEF Reschedule, table

(* What a drain commits is no longer ready, and no other drain holds it. *)
LEMMA CommitDrainTable ==
    ASSUME TableInv, NEW r \in Relays, CommitDrain(r)
    PROVE  TableInv'
  <1> DEFINE gone == relay[r].done \cup relay[r].later
             K    == ToSet(ready) \ gone
  <1>1. ready \in Seq(Events) /\ Distinct(ready)
    BY DEF TableInv, TypeOK, ReadyArePending
  <1>2. K \in SUBSET Events
    BY <1>1, ElementOfSeq, LenProperties DEF ToSet
  <1>3. ready' \in Listing(K)
    BY DEF CommitDrain
  <1>4. ready' \in Seq(Events) /\ Distinct(ready') /\ ToSet(ready') = K
    BY <1>1, <1>2, <1>3, ListingDistinct
  <1>5. TypeOK'
    <2>1. NoDrain \in Drains
      BY DEF NoDrain, Drains
    <2>2. row' \in [Events -> {"none", "pending", "dispatched"}] /\ attempts' \in [Events -> Nat]
      BY DEF CommitDrain, TableInv, TypeOK
    <2> QED
      BY <1>4, <2>1, <2>2 DEF CommitDrain, TableInv, TypeOK, broker, actors
  <1>6. ReadyArePending'
    BY <1>2, <1>4 DEF CommitDrain, TableInv, ReadyArePending
  <1>7. \A s \in Relays : relay'[s] = IF s = r THEN NoDrain ELSE relay[s]
    BY DEF CommitDrain, TableInv, TypeOK
  <1>8. Rows(NoDrain) = {} /\ ToSet(NoDrain.todo) = {} /\ Distinct(NoDrain.todo)
    BY DEF Rows, NoDrain, ToSet, Distinct
  <1>9. DrainsApart'
    BY <1>7, <1>8 DEF TableInv, DrainsApart
  <1>10. gone \subseteq Rows(relay[r])
    BY RowsOf
  <1>11. \A s \in Relays : Rows(relay'[s]) \subseteq ToSet(ready')
    BY <1>4, <1>7, <1>8, <1>10 DEF TableInv, DrainsInOrder, DrainsApart
  <1>12. DrainsInOrder'
    BY <1>7, <1>8, <1>11 DEF TableInv, DrainsInOrder, NoDrain
  <1> QED
    BY <1>5, <1>6, <1>9, <1>12 DEF TableInv

-----------------------------------------------------------------------------
(* The actors                                                              *)

(* What an actor writes: a key is added or nothing is. *)
LEMMA ToldGrows ==
    ASSUME TypeOK, NEW w \in Workers, job[w].open, told' = Told(w)
    PROVE  /\ told' \in [Messages -> Seq(Nat)]
           /\ \A m \in Messages \ {job[w].m} : told'[m] = told[m]
           /\ job[w].m \in Messages
           /\ Inserts(w) => told'[job[w].m] = Append(told[job[w].m], job[w].key)
           /\ ~ Inserts(w) => told'[job[w].m] = told[job[w].m]
  <1>1. job[w].m \in Messages /\ job[w].key \in Nat /\ told[job[w].m] \in Seq(Nat)
    BY DEF TypeOK, Jobs
  <1>2. Append(told[job[w].m], job[w].key) \in Seq(Nat)
    BY <1>1, AppendProperties
  <1>3. CASE Inserts(w)
    <2>1. told' = [told EXCEPT ![job[w].m] = Append(@, job[w].key)]
      BY <1>3 DEF Told
    <2> QED
      BY <1>1, <1>2, <1>3, <2>1 DEF TypeOK
  <1>4. CASE ~ Inserts(w)
    BY <1>1, <1>4 DEF Told, TypeOK
  <1> QED
    BY <1>3, <1>4

LEMMA TakeType ==
    ASSUME TypeOK, NEW w \in Workers, NEW m \in Messages, Take(w, m)
    PROVE  /\ TypeOK'
           /\ \A v \in Workers : job'[v] =
                IF v = w THEN [open |-> TRUE, m |-> m, key |-> Key(m), fresh |-> told[m] = <<>>]
                ELSE job[v]
  <1> DEFINE j == [open |-> TRUE, m |-> m, key |-> Key(m), fresh |-> told[m] = <<>>]
  <1>1. Key(m) \in Nat
    BY MessageOf DEF Key, TypeOK
  <1>2. (told[m] = <<>>) \in BOOLEAN
    OBVIOUS
  <1>3. j \in Jobs /\ j.m \in Messages
    BY <1>1, <1>2 DEF Jobs
  <1> HIDE DEF j
  <1>4. \A v \in Workers : job'[v] = IF v = w THEN j ELSE job[v]
    BY DEF Take, TypeOK, j
  <1>5. job' \in [Workers -> Jobs] /\ \A v \in Workers : job'[v].open => job'[v].m \in Messages
    BY <1>3, <1>4 DEF Take, TypeOK, j
  <1>6. queue' \in [Messages -> Nat]
    BY DEF Take, TypeOK
  <1>7. TypeOK'
    BY <1>5, <1>6 DEF Take, TypeOK, table
  <1> QED
    BY <1>4, <1>7 DEF j

LEMMA NoJobType ==
    ASSUME TypeOK, NEW w \in Workers, job' = [job EXCEPT ![w] = NoJob]
    PROVE  /\ job' \in [Workers -> Jobs]
           /\ \A v \in Workers : job'[v].open => v # w /\ job'[v] = job[v] /\ job[v].m \in Messages
  <1>1. NoJob \in Jobs /\ ~ NoJob.open
    BY DEF NoJob, Jobs
  <1> QED
    BY <1>1 DEF TypeOK

LEMMA TableStep == TableInv /\ [Next]_vars => TableInv'
  <1> SUFFICES ASSUME TableInv, [Next]_vars PROVE TableInv'
    OBVIOUS
  <1> USE DEF table, broker, actors
  <1>1. ASSUME NEW e \in Events, Commit(e) PROVE TableInv'
    BY <1>1, CommitTable
  <1>2. ASSUME NEW e \in Events, BackoffOver(e) PROVE TableInv'
    BY <1>2, BackoffTable
  <1>3. ASSUME NEW r \in Relays, Select(r) PROVE TableInv'
    BY <1>3, SelectTable
  <1>4. ASSUME NEW r \in Relays, Send(r) PROVE TableInv'
    BY <1>4, SendTable
  <1>5. ASSUME NEW r \in Relays, Reschedule(r) PROVE TableInv'
    BY <1>5, RescheduleTable
  <1>6. ASSUME NEW r \in Relays, CommitDrain(r) PROVE TableInv'
    BY <1>6, CommitDrainTable
  <1>7. ASSUME NEW r \in Relays, CrashRelay(r) PROVE TableInv'
    <2>1. NoDrain \in Drains
      BY DEF NoDrain, Drains
    <2>2. TypeOK'
      BY <1>7, <2>1 DEF CrashRelay, TableInv, TypeOK
    <2> QED
      BY <1>7, <2>2, DropDrain DEF CrashRelay
  <1>8. CASE BrokerDown
    <2>0. outages' \in Nat /\ up' \in BOOLEAN
      <3>1. outages \in Nat /\ outages' = outages + 1 /\ up' = FALSE
        BY <1>8 DEF BrokerDown, TableInv, TypeOK
      <3>2. outages' \in Nat
        BY <3>1
      <3>3. up' \in BOOLEAN
        BY <3>1, Zenon
      <3> QED
        BY <3>2, <3>3
    <2>1. TypeOK'
      BY <1>8, <2>0 DEF BrokerDown, TableInv, TypeOK
    <2> QED
      BY <1>8, <2>1, SameTable DEF BrokerDown
  <1>9. CASE BrokerUp
    <2>1. TypeOK'
      BY <1>9 DEF BrokerUp, TableInv, TypeOK
    <2> QED
      BY <1>9, <2>1, SameTable DEF BrokerUp
  <1>10. ASSUME NEW e \in Events, Regrade(e) PROVE TableInv'
    <2>1. TypeOK'
      BY <1>10 DEF Regrade, TableInv, TypeOK
    <2> QED
      BY <1>10, <2>1, SameTable DEF Regrade
  <1>11. ASSUME NEW w \in Workers, NEW m \in Messages, Take(w, m) PROVE TableInv'
    <2>1. TypeOK'
      BY <1>11, TakeType DEF TableInv
    <2> QED
      BY <1>11, <2>1, SameTable DEF Take
  <1>12. ASSUME NEW w \in Workers, Finish(w) PROVE TableInv'
    <2>1. told' \in [Messages -> Seq(Nat)]
      BY <1>12, ToldGrows DEF Finish, TableInv
    <2>2. /\ job' \in [Workers -> Jobs]
          /\ \A v \in Workers : job'[v].open => job'[v].m \in Messages
      BY <1>12, NoJobType DEF Finish, TableInv
    <2>3. TypeOK'
      BY <1>12, <2>1, <2>2 DEF Finish, TableInv, TypeOK
    <2> QED
      BY <1>12, <2>3, SameTable DEF Finish
  <1>13. ASSUME NEW w \in Workers, CrashActor(w) PROVE TableInv'
    <2>1. told' \in [Messages -> Seq(Nat)]
      BY <1>13, ToldGrows DEF CrashActor, TableInv, TypeOK
    <2>2. /\ job' \in [Workers -> Jobs]
          /\ \A v \in Workers : job'[v].open => job'[v].m \in Messages
      BY <1>13, NoJobType DEF CrashActor, TableInv
    <2>3. queue' \in [Messages -> Nat] /\ crashes' \in Nat
      <3>1. /\ queue \in [Messages -> Nat] /\ crashes \in Nat
            /\ queue' = [queue EXCEPT ![job[w].m] = @ + 1] /\ crashes' = crashes + 1
            /\ job[w].m \in Messages
        BY <1>13 DEF CrashActor, TableInv, TypeOK
      <3> QED
        BY <3>1
    <2>4. TypeOK'
      BY <1>13, <2>1, <2>2, <2>3 DEF CrashActor, TableInv, TypeOK
    <2> QED
      BY <1>13, <2>4, SameTable DEF CrashActor
  <1>14. CASE UNCHANGED vars
    <2>1. TypeOK'
      BY <1>14 DEF vars, TableInv, TypeOK
    <2> QED
      BY <1>14, <2>1, SameTable DEF vars
  <1> QED
    BY <1>1, <1>2, <1>3, <1>4, <1>5, <1>6, <1>7, <1>8, <1>9, <1>10, <1>11, <1>12, <1>13, <1>14
       DEF Next, RelayStep, WorkerStep, Settled

-----------------------------------------------------------------------------
(* Send, then mark                                                         *)

(* A message that has reached the queue stays there, with a worker, or told. *)
LEMMA ReachedStays ==
    ASSUME TableInv, FreshKnown, [Next]_vars
    PROVE  FreshKnown' /\ Reached \subseteq Reached'
  <1> DEFINE Stays == FreshKnown' /\ Reached \subseteq Reached'
  <1> USE DEF table, broker, actors
  <1>0. TypeOK
    BY DEF TableInv
  <1>1. CASE UNCHANGED <<queue, job, told>>
    BY <1>1 DEF Reached, Held, FreshKnown
  <1>2. ASSUME NEW r \in Relays, Send(r) PROVE Stays
    <2> DEFINE m0 == <<relay[r].todo[1], relay[r].next>>
    <2>1. queue' = [queue EXCEPT ![m0] = @ + 1] /\ UNCHANGED <<job, told>>
      BY <1>2 DEF Send
    <2> HIDE DEF m0
    <2>2. \A m \in Messages : queue[m] > 0 => queue'[m] > 0
      BY <1>0, <2>1 DEF TypeOK
    <2> QED
      BY <2>1, <2>2 DEF Reached, Held, FreshKnown
  <1>3. ASSUME NEW w \in Workers, NEW m0 \in Messages, Take(w, m0) PROVE Stays
    <2>1. /\ told' = told /\ ~ job[w].open
          /\ \A m \in Messages \ {m0} : queue'[m] = queue[m]
          /\ \A v \in Workers \ {w} : job'[v] = job[v]
          /\ job'[w].open /\ job'[w].m = m0
          /\ ~ job'[w].fresh => told[m0] # <<>>
      BY <1>0, <1>3, TakeType DEF Take, TypeOK
    <2>2. FreshKnown'
      BY <2>1 DEF FreshKnown
    <2> QED
      BY <2>1, <2>2 DEF Reached, Held
  <1>4. ASSUME NEW w \in Workers, job[w].open, told' = Told(w)
        PROVE  /\ told'[job[w].m] # <<>>
               /\ \A m \in Messages : told[m] # <<>> => told'[m] # <<>>
    <2>1. /\ job[w].m \in Messages /\ job[w].key \in Nat
          /\ \A m \in Messages \ {job[w].m} : told'[m] = told[m]
          /\ Inserts(w) => told'[job[w].m] = Append(told[job[w].m], job[w].key)
          /\ ~ Inserts(w) => told'[job[w].m] = told[job[w].m]
      BY <1>0, <1>4, ToldGrows DEF TypeOK, Jobs
    <2>2. told[job[w].m] \in Seq(Nat)
      BY <1>0, <2>1 DEF TypeOK
    <2>3. CASE Inserts(w)
      BY <2>1, <2>2, <2>3, AppendProperties
    <2>4. CASE ~ Inserts(w)
      <3>1. told[job[w].m] # <<>>
        BY <1>4, <2>4 DEF Inserts, FreshKnown
      <3> QED
        BY <2>1, <2>4, <3>1
    <2> QED
      BY <2>1, <2>3, <2>4
  <1>5. ASSUME NEW w \in Workers, Finish(w) PROVE Stays
    <2>1. /\ job[w].open /\ queue' = queue
          /\ told'[job[w].m] # <<>>
          /\ \A m \in Messages : told[m] # <<>> => told'[m] # <<>>
      BY <1>4, <1>5 DEF Finish
    <2>2. \A v \in Workers : job'[v].open => v # w /\ job'[v] = job[v] /\ job[v].m \in Messages
      BY <1>0, <1>5, NoJobType DEF Finish
    <2>3. \A v \in Workers \ {w} : job'[v] = job[v]
      BY <1>0, <1>5 DEF Finish, TypeOK
    <2>4. FreshKnown'
      BY <2>1, <2>2 DEF FreshKnown
    <2> QED
      BY <2>1, <2>3, <2>4 DEF Reached, Held
  <1>6. ASSUME NEW w \in Workers, CrashActor(w) PROVE Stays
    <2>1. job[w].open /\ queue' = [queue EXCEPT ![job[w].m] = @ + 1]
      BY <1>6 DEF CrashActor
    <2>2. \A m \in Messages : told[m] # <<>> => told'[m] # <<>>
      BY <1>4, <1>6 DEF CrashActor
    <2>3. \A v \in Workers : job'[v].open => v # w /\ job'[v] = job[v] /\ job[v].m \in Messages
      BY <1>0, <1>6, NoJobType DEF CrashActor
    <2>4. \A v \in Workers \ {w} : job'[v] = job[v]
      BY <1>0, <1>6 DEF CrashActor, TypeOK
    <2>5. job[w].m \in Messages /\ queue'[job[w].m] > 0
      BY <1>0, <2>1 DEF TypeOK
    <2>6. \A m \in Messages : queue[m] > 0 => queue'[m] > 0
      BY <1>0, <2>1 DEF TypeOK
    <2>7. FreshKnown'
      BY <2>2, <2>3 DEF FreshKnown
    <2> QED
      BY <2>2, <2>4, <2>5, <2>6, <2>7 DEF Reached, Held
  <1> QED
    BY <1>1, <1>2, <1>3, <1>5, <1>6
       DEF Next, RelayStep, WorkerStep, Settled, Commit, BackoffOver, Select, Reschedule,
           CommitDrain, CrashRelay, BrokerDown, BrokerUp, Regrade, vars

LEMMA InitDelivery == Init => DeliveryInv
  <1> SUFFICES ASSUME Init PROVE DeliveryInv
    OBVIOUS
  <1>1. TableInv
    BY InitTable
  <1>2. ~ NoJob.open /\ NoDrain.done = {} /\ NoDrain.todo = <<>>
    BY DEF NoJob, NoDrain
  <1> QED
    BY <1>1, <1>2 DEF Init, DeliveryInv, FreshKnown, DrainsReached, NothingLost

LEMMA DeliveryStep == DeliveryInv /\ [Next]_vars => DeliveryInv'
  <1> SUFFICES ASSUME DeliveryInv, [Next]_vars PROVE DeliveryInv'
    OBVIOUS
  <1> USE DEF table, broker, actors
  <1>1. TableInv /\ TableInv' /\ TypeOK
    BY TableStep DEF DeliveryInv, TableInv
  <1>2. FreshKnown' /\ Reached \subseteq Reached'
    BY ReachedStays DEF DeliveryInv
  <1>3. \A e \in Events : Of(e) \subseteq Messages
    BY OfEvent
  <1>4. \A r \in Relays : relay[r].done \subseteq Events
    BY <1>1 DEF TypeOK, Drains
  <1>5. \A r \in Relays : relay[r].todo # <<>> =>
           \A i \in 1 .. relay[r].next - 1 : <<relay[r].todo[1], i>> \in Messages
    <2> SUFFICES ASSUME NEW r \in Relays, relay[r].todo # <<>>, NEW i \in 1 .. relay[r].next - 1
                 PROVE  <<relay[r].todo[1], i>> \in Messages
      OBVIOUS
    <2>1. relay[r].todo[1] \in Events /\ relay[r].next \in Nat
      BY <1>1, FirstDone DEF Drains
    <2>2. i \in 1 .. Len(Targets[relay[r].todo[1]])
      BY <1>1, <2>1, OfEvent DEF TableInv, DrainsInOrder
    <2> QED
      BY <2>1, <2>2, OfEvent
  <1> DEFINE Good(d) ==
        /\ \A e \in d.done : Of(e) \subseteq Reached'
        /\ d.todo # <<>> => \A i \in 1 .. d.next - 1 : <<d.todo[1], i>> \in Reached'
  <1>6. \A r \in Relays : Good(relay[r])
    BY <1>2, <1>3, <1>4, <1>5 DEF DeliveryInv, DrainsReached
  <1>7. ASSUME NEW r \in Relays, NEW d, relay' = [relay EXCEPT ![r] = d], Good(d)
        PROVE  DrainsReached'
    <2>1. \A s \in Relays : relay'[s] = IF s = r THEN d ELSE relay[s]
      BY <1>1, <1>7 DEF TypeOK
    <2>2. \A s \in Relays : Good(relay'[s])
      BY <1>6, <1>7, <2>1
    <2> QED
      BY <2>2 DEF DrainsReached
  <1>9. ASSUME UNCHANGED relay PROVE DrainsReached'
    BY <1>6, <1>9 DEF DrainsReached
  <1>10. ASSUME NEW r \in Relays, Select(r) PROVE DrainsReached'
    <2>1. PICK t : relay' = [relay EXCEPT ![r] = [NoDrain EXCEPT !.open = TRUE, !.todo = t]]
      BY <1>10 DEF Select
    <2>2. Good([NoDrain EXCEPT !.open = TRUE, !.todo = t])
      BY DEF NoDrain
    <2> QED
      BY <1>7, <2>1, <2>2
  <1>11. ASSUME NEW r \in Relays, Send(r) PROVE DrainsReached'
    <2> DEFINE o == relay[r]
               e == o.todo[1]
               m0 == <<e, o.next>>
               d == IF SentAll(r)
                    THEN [o EXCEPT !.todo = Tail(@), !.next = 1, !.done = @ \cup {e}]
                    ELSE [o EXCEPT !.next = @ + 1]
    <2>1. /\ o.todo # <<>> /\ queue' = [queue EXCEPT ![m0] = @ + 1]
          /\ relay' = [relay EXCEPT ![r] = d]
      BY <1>11 DEF Send
    <2>2. o \in Drains /\ e \in Events /\ o.next \in Nat \ {0} /\ o.next <= Len(Targets[e])
      BY <1>1, <2>1, FirstDone DEF TableInv, DrainsInOrder, Drains
    <2>3. m0 \in Messages
      BY <2>2, OfEvent
    <2>4. m0 \in Reached'
      BY <1>1, <2>1, <2>3 DEF TypeOK, Reached, Held
    <2>5. \A i \in 1 .. o.next : <<e, i>> \in Reached'
      BY <1>6, <2>1, <2>2, <2>4
    <2>6. Good(d)
      <3>1. CASE SentAll(r)
        <4>1. d.done = o.done \cup {e} /\ d.next = 1
          BY <2>2, <3>1 DEF Drains
        <4>2. Of(e) \subseteq Reached'
          BY <2>2, <2>5, <3>1, OfEvent DEF SentAll
        <4> HIDE DEF d
        <4> QED
          BY <1>6, <4>1, <4>2
      <3>2. CASE ~ SentAll(r)
        <4>1. d.done = o.done /\ d.todo = o.todo /\ d.next = o.next + 1
          BY <2>2, <3>2 DEF Drains
        <4> HIDE DEF d
        <4> QED
          BY <1>6, <2>2, <2>5, <4>1
      <3> QED
        BY <3>1, <3>2
    <2> QED
      BY <1>7, <2>1, <2>6
  <1>12. ASSUME NEW r \in Relays, Reschedule(r) PROVE DrainsReached'
    <2> DEFINE o == relay[r]
               d == [o EXCEPT !.todo = Tail(@), !.next = 1, !.later = @ \cup {o.todo[1]},
                              !.charged = @ \cup {f \in {o.todo[1]} : Charges(f)}]
    <2>1. relay' = [relay EXCEPT ![r] = d]
      BY <1>12 DEF Reschedule
    <2>2. d.done = o.done /\ d.next = 1
      BY <1>1 DEF TypeOK, Drains
    <2> HIDE DEF d
    <2>3. Good(d)
      BY <1>6, <2>2
    <2> QED
      BY <1>7, <2>1, <2>3
  <1>13. ASSUME NEW r \in Relays, relay' = [relay EXCEPT ![r] = NoDrain] PROVE DrainsReached'
    <2>1. Good(NoDrain)
      BY DEF NoDrain
    <2> QED
      BY <1>7, <1>13, <2>1
  <1>14. DrainsReached'
    BY <1>9, <1>10, <1>11, <1>12, <1>13
       DEF Next, RelayStep, WorkerStep, Settled, Commit, BackoffOver, CommitDrain, CrashRelay,
           BrokerDown, BrokerUp, Regrade, Take, Finish, CrashActor, vars
  <1>15. \A e \in Events : row'[e] = "dispatched" =>
            \/ row[e] = "dispatched"
            \/ \E r \in Relays : e \in relay[r].done
    BY <1>1 DEF Next, RelayStep, WorkerStep, Settled, Commit, BackoffOver, CommitDrain, CrashRelay,
           BrokerDown, BrokerUp, Regrade, Take, Finish, CrashActor, Select, Send, Reschedule,
           vars, TypeOK
  <1>16. NothingLost'
    <2> SUFFICES ASSUME NEW e \in Events, row'[e] = "dispatched", NEW m \in Of(e)
                 PROVE  m \in Reached'
      BY DEF NothingLost, Reached, Held
    <2>1. CASE row[e] = "dispatched"
      <3>1. m \in Reached
        BY <1>3, <2>1 DEF DeliveryInv, NothingLost, Reached
      <3> QED
        BY <1>2, <3>1
    <2>2. CASE \E r \in Relays : e \in relay[r].done
      BY <1>6, <2>2
    <2> QED
      BY <1>15, <2>1, <2>2
  <1> QED
    BY <1>1, <1>2, <1>14, <1>16 DEF DeliveryInv

(* NothingLost: a row is marked only when every message of it is on the queue, *)
(* with an actor, or consumed (drain marks after dispatch returned).           *)
THEOREM NothingIsLost == Spec => []NothingLost
  <1>1. DeliveryInv => NothingLost
    BY DEF DeliveryInv
  <1> QED
    BY InitDelivery, DeliveryStep, <1>1, PTL DEF Spec

-----------------------------------------------------------------------------
(* What is sent twice                                                      *)

LEMMA InitSent == Init => SentInv
  <1> SUFFICES ASSUME Init PROVE SentInv
    OBVIOUS
  <1>1. TableInv
    BY InitTable
  <1>2. \A m \in Messages : sent[m] = 0
    BY DEF Init
  <1> QED
    BY <1>1, <1>2 DEF Init, SentInv, Accounted, PoisonUnsent, SentOnce

(* A step that sends nothing and takes nothing back. *)
LEMMA SameSent ==
    ASSUME SentInv, TableInv', UNCHANGED <<row, relay, sent, up, crashes, outages>>
    PROVE  SentInv'
  BY DEF SentInv, Accounted, PoisonUnsent, SentOnce, Out

(* Whatever is undone, it is counted first. *)
LEMMA CountedLoss ==
    ASSUME SentInv, TableInv', UNCHANGED sent,
           \/ crashes' = crashes + 1 /\ outages' = outages
           \/ outages' = outages + 1 /\ crashes' = crashes
    PROVE  SentInv'
  <1>1. /\ sent \in [Messages -> Nat] /\ crashes \in Nat /\ outages \in Nat
        /\ crashes' \in Nat /\ outages' \in Nat
    BY DEF SentInv, TableInv, TypeOK
  <1>2. \A m \in Messages : sent'[m] \in Nat /\ sent'[m] <= crashes' + outages'
    <2> SUFFICES ASSUME NEW m \in Messages
                 PROVE  sent'[m] \in Nat /\ sent'[m] <= crashes' + outages'
      OBVIOUS
    <2>1. sent[m] <= 1 + crashes + outages /\ sent'[m] = sent[m] /\ sent[m] \in Nat
      BY <1>1 DEF SentInv, SentOnce
    <2>2. crashes' + outages' = 1 + crashes + outages
      <3>1. CASE crashes' = crashes + 1 /\ outages' = outages
        BY <1>1, <3>1
      <3>2. CASE outages' = outages + 1 /\ crashes' = crashes
        BY <1>1, <3>2
      <3> QED
        BY <3>1, <3>2
    <2> QED
      BY <1>1, <2>1, <2>2
  <1>3. SentOnce'
    BY <1>1, <1>2 DEF SentOnce
  <1>4. Accounted'
    BY <1>2 DEF Accounted
  <1>5. PoisonUnsent'
    BY DEF SentInv, PoisonUnsent
  <1> QED
    BY <1>3, <1>4, <1>5 DEF SentInv

(* A step that sends nothing and loses no count, of rows and drains. *)
LEMMA NothingUndone ==
    ASSUME SentInv, TableInv', UNCHANGED <<sent, crashes, outages>>,
           \A m \in Messages : row[m[1]] = "dispatched" => row'[m[1]] = "dispatched",
           \A m \in Messages : up /\ Out(m) =>
              \/ sent[m] <= crashes + outages
              \/ row'[m[1]] = "dispatched"
              \/ up' /\ Out(m)'
    PROVE  SentInv'
  <1>1. SentOnce' /\ PoisonUnsent'
    BY DEF SentInv, SentOnce, PoisonUnsent
  <1>2. Accounted'
    BY DEF SentInv, Accounted
  <1> QED
    BY <1>1, <1>2 DEF SentInv

(* A message that is about to be sent is not out yet: only this drain has its *)
(* row, and has not reached its message.                                     *)
LEMMA SendSent ==
    ASSUME SentInv, TableInv', NEW r \in Relays, Send(r)
    PROVE  SentInv'
  <1> DEFINE o == relay[r]
             e == o.todo[1]
             m0 == <<e, o.next>>
             d == IF SentAll(r)
                  THEN [o EXCEPT !.todo = Tail(@), !.next = 1, !.done = @ \cup {e}]
                  ELSE [o EXCEPT !.next = @ + 1]
  <1>1. /\ o.todo # <<>> /\ up /\ up' /\ e \notin Poison
        /\ sent' = [sent EXCEPT ![m0] = @ + 1]
        /\ relay' = [relay EXCEPT ![r] = d]
        /\ UNCHANGED <<row, crashes, outages>>
    BY DEF Send, table
  <1>2. TableInv /\ TypeOK
    BY DEF SentInv, TableInv
  <1>3. /\ o \in Drains /\ e \in Events /\ e \in ToSet(o.todo) /\ e \notin o.done
        /\ o.next \in Nat \ {0} /\ o.next <= Len(Targets[e])
    BY <1>1, <1>2, FirstDone DEF TableInv, DrainsInOrder, Drains
  <1>4. m0 \in Messages /\ m0[1] = e /\ m0[2] = o.next
    BY <1>3, OfEvent
  <1>5. e \in Rows(o)
    BY <1>3, RowsOf
  <1>6. row[e] = "pending"
    BY <1>2, <1>5 DEF TableInv, DrainsInOrder, ReadyArePending
  <1>7. \A s \in Relays \ {r} : e \notin Rows(relay[s])
    BY <1>2, <1>5 DEF TableInv, DrainsApart
  <1>8. \A s \in Relays : relay[s].todo # <<>> => relay[s].todo[1] \in Rows(relay[s])
    BY <1>2, FirstDone, RowsOf
  <1>9. ~ Out(m0)
    <2> SUFFICES ASSUME NEW s \in Relays,
                        \/ e \in relay[s].done
                        \/ relay[s].todo # <<>> /\ relay[s].todo[1] = e /\ o.next < relay[s].next
                 PROVE  FALSE
      BY <1>4 DEF Out
    <2>1. s = r
      BY <1>7, <1>8, RowsOf
    <2> QED
      BY <1>3, <2>1
  <1>10. sent \in [Messages -> Nat] /\ crashes \in Nat /\ outages \in Nat
    BY <1>2 DEF TypeOK
  <1>11. sent[m0] <= crashes + outages
    BY <1>4, <1>6, <1>9 DEF SentInv, Accounted
  <1>12. \A m \in Messages : sent'[m] = IF m = m0 THEN sent[m] + 1 ELSE sent[m]
    BY <1>1, <1>4, <1>10
  <1>13. SentOnce'
    BY <1>1, <1>10, <1>11, <1>12 DEF SentInv, SentOnce
  <1>14. PoisonUnsent'
    BY <1>1, <1>4, <1>12 DEF SentInv, PoisonUnsent
  <1>15. /\ o.done \subseteq d.done
         /\ \/ d.todo = o.todo /\ d.next = o.next + 1
            \/ e \in d.done
    <2>1. CASE SentAll(r)
      <3>1. d.done = o.done \cup {e}
        BY <1>3, <2>1 DEF Drains
      <3> QED
        BY <3>1
    <2>2. CASE ~ SentAll(r)
      <3>1. d.done = o.done /\ d.todo = o.todo /\ d.next = o.next + 1
        BY <1>3, <2>2 DEF Drains
      <3> QED
        BY <3>1
    <2> QED
      BY <2>1, <2>2
  <1> HIDE DEF d
  <1>16. \A s \in Relays : relay'[s] = IF s = r THEN d ELSE relay[s]
    BY <1>1, <1>2 DEF TypeOK
  <1>17. ASSUME NEW m \in Messages, Out(m) \/ m = m0 PROVE Out(m)'
    <2>1. CASE m = m0
      BY <1>1, <1>3, <1>4, <1>15, <1>16, <2>1 DEF Out
    <2>2. ASSUME NEW s \in Relays, m[1] \in relay[s].done PROVE Out(m)'
      BY <1>15, <1>16, <2>2 DEF Out
    <2>3. ASSUME NEW s \in Relays, relay[s].todo # <<>>, relay[s].todo[1] = m[1], m[2] < relay[s].next
          PROVE  Out(m)'
      <3>1. CASE s = r
        <4>1. m[2] \in Nat
          BY MessageOf, OfEvent, LenProperties
        <4>2. m[2] < o.next + 1
          BY <1>3, <2>3, <3>1, <4>1
        <4> QED
          BY <1>1, <1>15, <1>16, <2>3, <3>1, <4>2 DEF Out
      <3>2. CASE s # r
        BY <1>16, <2>3, <3>2 DEF Out
      <3> QED
        BY <3>1, <3>2
    <2> QED
      BY <1>17, <2>1, <2>2, <2>3 DEF Out
  <1>18. Accounted'
    BY <1>1, <1>12, <1>17 DEF SentInv, Accounted
  <1> QED
    BY <1>13, <1>14, <1>18 DEF SentInv

LEMMA SentStep == SentInv /\ [Next]_vars => SentInv'
  <1> SUFFICES ASSUME SentInv, [Next]_vars PROVE SentInv'
    OBVIOUS
  <1> USE DEF table, broker, actors
  <1>1. TableInv /\ TableInv' /\ TypeOK
    BY TableStep DEF SentInv, TableInv
  <1>2. crashes \in Nat /\ outages \in Nat
    BY <1>1 DEF TypeOK
  <1>3. CASE UNCHANGED <<row, relay, sent, up, crashes, outages>>
    BY <1>1, <1>3, SameSent
  <1>4. ASSUME NEW r \in Relays, CrashRelay(r) PROVE SentInv'
    BY <1>1, <1>2, <1>4, CountedLoss DEF CrashRelay
  <1>5. ASSUME NEW w \in Workers, CrashActor(w) PROVE SentInv'
    BY <1>1, <1>2, <1>5, CountedLoss DEF CrashActor
  <1>6. CASE BrokerDown
    BY <1>1, <1>2, <1>6, CountedLoss DEF BrokerDown
  <1>7. CASE BrokerUp
    BY <1>1, <1>7, NothingUndone DEF BrokerUp
  <1>8. ASSUME NEW e \in Events, Commit(e) PROVE SentInv'
    <2>1. \A m \in Messages : row[m[1]] = "dispatched" => row'[m[1]] = "dispatched"
      BY <1>1, <1>8, MessageOf DEF Commit, TypeOK
    <2>2. \A m \in Messages : up /\ Out(m) => up' /\ Out(m)'
      BY <1>8 DEF Commit, Out
    <2> QED
      BY <1>1, <1>8, <2>1, <2>2, NothingUndone DEF Commit
  <1>9. ASSUME NEW r \in Relays, Select(r) PROVE SentInv'
    <2>1. relay[r] = NoDrain /\ \A s \in Relays \ {r} : relay'[s] = relay[s]
      BY <1>1, <1>9 DEF Select, TableInv, DrainsInOrder, TypeOK
    <2>2. \A m \in Messages : up /\ Out(m) => up' /\ Out(m)'
      BY <1>9, <2>1 DEF Select, Out, NoDrain
    <2> QED
      BY <1>1, <1>9, <2>2, NothingUndone DEF Select
  <1>10. ASSUME NEW r \in Relays, Send(r) PROVE SentInv'
    BY <1>1, <1>10, SendSent
  <1>11. ASSUME NEW r \in Relays, Reschedule(r) PROVE SentInv'
    <2> DEFINE o == relay[r]
               e == o.todo[1]
               d == [o EXCEPT !.todo = Tail(@), !.next = 1, !.later = @ \cup {e},
                              !.charged = @ \cup {f \in {e} : Charges(f)}]
    <2>1. /\ o.todo # <<>> /\ (e \in Poison \/ ~ up)
          /\ relay' = [relay EXCEPT ![r] = d]
          /\ UNCHANGED <<row, sent, up, crashes, outages>>
      BY <1>11 DEF Reschedule
    <2>2. d.done = o.done
      BY <1>1 DEF TypeOK, Drains
    <2> HIDE DEF d
    <2>3. \A s \in Relays : relay'[s] = IF s = r THEN d ELSE relay[s]
      BY <1>1, <2>1 DEF TypeOK
    <2>4. ASSUME NEW m \in Messages, up, Out(m)
          PROVE  sent[m] <= crashes + outages \/ Out(m)'
      <3>1. CASE m[1] = e
        BY <1>2, <2>1, <2>4, <3>1 DEF SentInv, PoisonUnsent
      <3>2. CASE m[1] # e
        BY <2>2, <2>3, <2>4, <3>2 DEF Out
      <3> QED
        BY <3>1, <3>2
    <2> QED
      BY <1>1, <2>1, <2>4, NothingUndone
  <1>12. ASSUME NEW r \in Relays, CommitDrain(r) PROVE SentInv'
    <2>1. /\ relay[r].todo = <<>>
          /\ row' = [e \in Events |-> IF e \in relay[r].done THEN "dispatched" ELSE row[e]]
          /\ UNCHANGED <<sent, up, crashes, outages>>
          /\ \A s \in Relays \ {r} : relay'[s] = relay[s]
      BY <1>1, <1>12 DEF CommitDrain, TypeOK
    <2>2. \A m \in Messages : row[m[1]] = "dispatched" => row'[m[1]] = "dispatched"
      BY <2>1, MessageOf
    <2>3. \A m \in Messages : Out(m) => row'[m[1]] = "dispatched" \/ Out(m)'
      BY <2>1, MessageOf DEF Out
    <2> QED
      BY <1>1, <2>1, <2>2, <2>3, NothingUndone
  <1> QED
    BY <1>3, <1>4, <1>5, <1>6, <1>7, <1>8, <1>9, <1>10, <1>11, <1>12
       DEF Next, RelayStep, WorkerStep, Settled, BackoffOver, Regrade, Take, Finish, vars

(* SentOnce: two relays do not dispatch the same row (FOR UPDATE SKIP LOCKED), *)
(* and a message goes out again only once for each crash and each outage.      *)
THEOREM SentOnceEach == Spec => []SentOnce
  <1>1. SentInv => SentOnce
    BY DEF SentInv
  <1> QED
    BY InitSent, SentStep, <1>1, PTL DEF Spec

=============================================================================
