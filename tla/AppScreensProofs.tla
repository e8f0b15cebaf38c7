-------------------------- MODULE AppScreensProofs --------------------------
(***************************************************************************)
(* What holds on the screens for any people, any data and any bounds.      *)
(* Each screen has an inductive invariant of its own; a step of the        *)
(* application is a step of one screen, or none of it.                     *)
(***************************************************************************)
EXTENDS AppScreens, ReadingPaneProofs, FiniteSetTheorems, WellFoundedInduction, TLAPS

(* A sequence with one element changed. *)
LEMMA Changed ==
    ASSUME NEW S, NEW s \in Seq(S), NEW i \in DOMAIN s, NEW d \in S
    PROVE  /\ [s EXCEPT ![i] = d] \in Seq(S)
           /\ Len([s EXCEPT ![i] = d]) = Len(s) /\ DOMAIN [s EXCEPT ![i] = d] = DOMAIN s
           /\ [s EXCEPT ![i] = d][i] = d
           /\ \A j \in DOMAIN s \ {i} : [s EXCEPT ![i] = d][j] = s[j]
  OBVIOUS

(* A sequence with one element more. *)
LEMMA Longer ==
    ASSUME NEW S, NEW s \in Seq(S), NEW d \in S
    PROVE  /\ Append(s, d) \in Seq(S)
           /\ Len(Append(s, d)) = Len(s) + 1 /\ DOMAIN Append(s, d) = DOMAIN s \cup {Len(s) + 1}
           /\ Append(s, d)[Len(s) + 1] = d
           /\ \A j \in DOMAIN s : Append(s, d)[j] = s[j]
  OBVIOUS

(* The greater of two numbers. *)
LEMMA Higher ==
    ASSUME NEW m \in Nat, NEW n \in Nat
    PROVE  Max({m, n}) \in {m, n} /\ Max({m, n}) >= m /\ Max({m, n}) >= n
  BY DEF Max

-----------------------------------------------------------------------------
(* Moderation: the form of a row is about the person that row is about.    *)

OnSubject(d) == d.by = "row" /\ d.target # None => d.target = SubjectOf[d.report]

Targets == Persons \cup {None}
Forms == [action : Actions, target : Targets, by : {"hand", "row"}, reason : BOOLEAN]
Takes == [report : Reports, action : Actions, by : {"hand", "row"}, target : Targets]

ModerationInv ==
    /\ acting # None => acting \in Reports
    /\ form \in Forms /\ actionLog \in Seq(Takes)
    /\ minorQueue \cup allQueue \cup filed \subseteq Reports
    /\ form.by = "row" => form.target = SubjectOf[acting]
    /\ take # None => take \in Takes /\ OnSubject(take)
    /\ ActsOnItsSubject

\* The dialog asks about a report the form is open on.
AsksOfARow == asking => acting # None

LEMMA ModerationStarts == ModerationInit => ModerationInv /\ AsksOfARow
  BY DEF AsksOfARow, ModerationInit, ModerationInv, EMPTY, Forms, Actions, Targets, ActsOnItsSubject

\* The log as it was, with or without the action that was posted.
LEMMA LogGrows ==
    ASSUME ModerationInv, UNCHANGED <<filed, queues, acting>>, take' = None, form' \in {form, EMPTY},
           actionLog' = actionLog \/ (take # None /\ actionLog' = Append(actionLog, take))
    PROVE  ModerationInv'
  <1>1. EMPTY \in Forms /\ EMPTY.by = "hand"
    BY DEF EMPTY, Forms, Actions, Targets
  <1>2. form' \in Forms /\ (form'.by = "row" => form'.target = SubjectOf[acting])
    BY <1>1 DEF ModerationInv
  <1>3. actionLog' \in Seq(Takes) /\ ActsOnItsSubject'
    <2>1. CASE actionLog' = actionLog
      BY <2>1 DEF ModerationInv, ActsOnItsSubject
    <2>2. CASE take # None /\ actionLog' = Append(actionLog, take)
      <3>1. take \in Takes /\ actionLog \in Seq(Takes) /\ OnSubject(take) /\ ActsOnItsSubject
        BY <2>2 DEF ModerationInv
      <3> QED
        BY <2>2, <3>1, Longer DEF ActsOnItsSubject, OnSubject
    <2> QED
      BY <2>1, <2>2
  <1> QED
    BY <1>2, <1>3 DEF ModerationInv, queues

\* The action is posted as the form stands.
LEMMA FormIsPosted ==
    ASSUME ModerationInv, acting # None
    PROVE  Posted(form) \in Takes /\ OnSubject(Posted(form))
  BY DEF ModerationInv, Posted, Takes, Forms, Targets, OnSubject

LEMMA AskingSteps ==
    ASSUME AsksOfARow, [ModerationNext]_moderationVars
    PROVE  AsksOfARow'
  BY DEF AsksOfARow, ModerationNext, PrincipalLoaded, FileReport, FetchMinors, FetchGeneral, FetchHistory,
         Act, StopActing, EditAction, SubmitAction, ConfirmAction, CancelAction, ActionRecorded,
         ActionFails, moderationVars, moderationServer, queues, actionForm

LEMMA ModerationSteps ==
    ASSUME ModerationInv, AsksOfARow, [ModerationNext]_moderationVars
    PROVE  ModerationInv'
  <1> USE DEF moderationServer, queues, actionForm
  <1>1. ASSUME UNCHANGED <<acting, form, take, actionLog>>, 
               minorQueue' \cup allQueue' \cup filed' \subseteq Reports
        PROVE  ModerationInv'
    BY <1>1 DEF ModerationInv, OnSubject, ActsOnItsSubject
  <1>2. CASE Act \/ StopActing
    <2>1. acting' # None => acting' \in Reports
      BY <1>2 DEF Act, StopActing, Offered, ModerationInv
    <2>2. form' \in Forms /\ (form'.by = "row" => form'.target = SubjectOf[acting'])
      <3>1. EMPTY \in Forms /\ EMPTY.by = "hand"
        BY DEF EMPTY, Forms, Actions, Targets
      <3>2. ASSUME NEW r \in Reports
            PROVE  Prefilled(r) \in Forms /\ (Prefilled(r).by = "row" => Prefilled(r).target = SubjectOf[r])
        BY <3>1 DEF Prefilled, EMPTY, Forms, Targets, Persons
      <3> QED
        BY <1>2, <3>1, <3>2 DEF Act, StopActing, Offered, ModerationInv
    <2>3. take' = None /\ UNCHANGED <<actionLog, minorQueue, allQueue, filed>>
      BY <1>2 DEF Act, StopActing
    <2> QED
      BY <2>1, <2>2, <2>3 DEF ModerationInv, ActsOnItsSubject
  <1>3. CASE EditAction
    <2>1. form' \in Forms /\ (form'.by = "row" => form'.target = SubjectOf[acting])
      BY <1>3 DEF EditAction, ModerationInv, Forms, Targets
    <2> QED
      BY <1>3, <2>1 DEF EditAction, ModerationInv, OnSubject, ActsOnItsSubject
  <1>4. CASE SubmitAction \/ ConfirmAction
    <2>1. take' = take \/ take' = Posted(form)
      BY <1>4 DEF SubmitAction, ConfirmAction
    <2>2. take' # None => take' \in Takes /\ OnSubject(take')
      <3>1. take # None => take \in Takes /\ OnSubject(take)
        BY DEF ModerationInv
      <3>2. Posted(form) \in Takes /\ OnSubject(Posted(form))
        BY <1>4, FormIsPosted DEF SubmitAction, ConfirmAction, AsksOfARow
      <3> QED
        BY <2>1, <3>1, <3>2
    <2>3. UNCHANGED <<acting, form, actionLog, minorQueue, allQueue, filed>>
      BY <1>4 DEF SubmitAction, ConfirmAction
    <2> QED
      BY <2>2, <2>3 DEF ModerationInv, OnSubject, ActsOnItsSubject
  <1>5. CASE ActionRecorded \/ ActionFails
    BY <1>5, LogGrows DEF ActionRecorded, ActionFails
  <1>6. CASE FileReport \/ FetchMinors \/ FetchGeneral
    BY <1>1, <1>6 DEF FileReport, FetchMinors, FetchGeneral, ModerationInv
  <1>7. CASE PrincipalLoaded \/ FetchHistory \/ CancelAction \/ UNCHANGED moderationVars
    BY <1>1, <1>7 DEF PrincipalLoaded, FetchHistory, CancelAction, moderationVars, ModerationInv
  <1> QED
    BY <1>2, <1>3, <1>4, <1>5, <1>6, <1>7 DEF ModerationNext

-----------------------------------------------------------------------------
(* Billing: the order of a body that is not on the screen yet has the key  *)
(* the page holds for it, and a key is that of one order.                  *)

Order == [body : Bodies, key : Nat \ {0}, visit : Nat \ {0}, paid : BOOLEAN]
Buys == [body : Bodies, key : Nat \ {0}, answer : Nat]

OfThisPage(i) == orders[i].visit = visit

FormTyped ==
    /\ billedTo # None => billedTo \in Centres
    /\ chosen # None => chosen \in Prices
    /\ quantityText \in Quantities

KeysApart ==
    /\ \A b \in Bodies : keys[b] <= minted
    /\ \A b, c \in Bodies : keys[b] # 0 /\ keys[b] = keys[c] => b = c

OrdersKeyed ==
    /\ \A i \in DOMAIN orders : orders[i].visit <= visit
    /\ \A i \in DOMAIN orders : OfThisPage(i) =>
          /\ orders[i].key <= minted
          /\ \A j \in DOMAIN orders : OfThisPage(j) /\ orders[j].key = orders[i].key => j = i
          /\ \A b \in Bodies : keys[b] = orders[i].key => orders[i].body = b
          /\ i \notin placed => keys[orders[i].body] = orders[i].key

Buying == buy # None =>
    /\ buy \in Buys /\ keys[buy.body] = buy.key
    /\ buy.answer # 0 =>
          /\ buy.answer \in DOMAIN orders /\ OfThisPage(buy.answer)
          /\ orders[buy.answer].key = buy.key

BillingInv ==
    /\ orders \in Seq(Order) /\ visit \in Nat \ {0} /\ minted \in Nat /\ keys \in [Bodies -> Nat]
    /\ FormTyped /\ KeysApart /\ OrdersKeyed /\ Buying

LEMMA OrderTyped ==
    ASSUME BillingInv, NEW i \in DOMAIN orders
    PROVE  /\ orders[i].body \in Bodies /\ orders[i].key \in Nat \ {0}
           /\ orders[i].visit \in Nat \ {0} /\ orders[i].visit <= visit
  <1>1. orders[i] \in Order
    BY DEF BillingInv
  <1> QED
    BY <1>1 DEF BillingInv, OrdersKeyed, Order

LEMMA BillingStarts == BillingInit => BillingInv
  BY BillingAssumption
     DEF BillingInit, BillingInv, FormTyped, KeysApart, OrdersKeyed, Buying

LEMMA UnseenIsOne == BillingInv => OneUnseenOrder
  <1> SUFFICES ASSUME BillingInv, NEW b \in Bodies
               PROVE  Cardinality({i \in DOMAIN orders : OfThisPage(i) /\ orders[i].body = b /\ i \notin placed}) <= 1
    BY DEF OneUnseenOrder, OfThisPage
  <1> DEFINE S == {i \in DOMAIN orders : OfThisPage(i) /\ orders[i].body = b /\ i \notin placed}
  <1>1. \A i, j \in S : i = j
    BY DEF BillingInv, OrdersKeyed
  <1>2. CASE S = {}
    BY <1>2, FS_EmptySet
  <1>3. CASE S # {}
    <2>1. PICK i \in S : TRUE
      BY <1>3
    <2>2. S = {i}
      BY <1>1, <2>1
    <2> QED
      BY <2>2, FS_Singleton
  <1> QED
    BY <1>2, <1>3

\* Pages, keys and orders stay as they are.
LEMMA FormFilled ==
    ASSUME BillingInv, UNCHANGED <<orders, visit, keys, minted, placed>>, FormTyped', Buying'
    PROVE  BillingInv'
  BY DEF BillingInv, KeysApart, OrdersKeyed, OfThisPage

LEMMA PlaceOrderKeeps == ASSUME BillingInv, PlaceOrder PROVE BillingInv'
  <1> DEFINE b == [price |-> chosen, quantity |-> parseQuantity(quantityText), org |-> billedTo]
             k == KeyFor(b)
  <1>1. b \in Bodies
    <2>1. quantityText >= 1 /\ parseQuantity(quantityText) = quantityText
      BY DEF PlaceOrder, Orderable, parseQuantity
    <2>2. quantityText \in Quantities \ {0}
      BY <2>1, BillingAssumption DEF BillingInv, FormTyped
    <2> QED
      BY <2>1, <2>2 DEF PlaceOrder, Orderable, Bodies, BillingInv, FormTyped
  <1>2. keys' = [keys EXCEPT ![b] = k] /\ minted' = Max({minted, k})
        /\ buy' = [body |-> b, key |-> k, answer |-> 0]
    BY DEF PlaceOrder
  <1> HIDE DEF b
  <1>3. keys \in [Bodies -> Nat] /\ minted \in Nat /\ keys[b] \in Nat /\ keys[b] <= minted
    BY <1>1 DEF BillingInv, KeysApart
  <1>4. k \in Nat \ {0} /\ ((k = minted + 1 /\ keys[b] = 0) \/ (k = keys[b] /\ keys[b] # 0))
    BY <1>3 DEF KeyFor
  <1> HIDE DEF k
  <1>5. minted' \in Nat /\ minted' >= minted /\ k <= minted'
    BY <1>2, <1>3, <1>4, Higher
  <1>6. keys' \in [Bodies -> Nat] /\ keys'[b] = k /\ \A c \in Bodies : c # b => keys'[c] = keys[c]
    BY <1>1, <1>2, <1>3, <1>4
  <1>7. \A c \in Bodies : c # b => keys[c] # k
    <2>1. \A c \in Bodies : keys[c] \in Nat /\ keys[c] <= minted
      BY <1>3 DEF BillingInv, KeysApart
    <2>2. CASE k = minted + 1
      BY <1>3, <2>1, <2>2
    <2>3. CASE k = keys[b] /\ keys[b] # 0
      BY <1>1, <2>3 DEF BillingInv, KeysApart
    <2> QED
      BY <1>4, <2>2, <2>3
  <1>8. KeysApart'
    <2>1. \A c \in Bodies : keys'[c] <= minted'
      <3>1. \A c \in Bodies : keys[c] \in Nat /\ keys[c] <= minted
        BY <1>3 DEF BillingInv, KeysApart
      <3> QED
        BY <1>3, <1>5, <1>6, <3>1
    <2>2. \A c, d \in Bodies : keys'[c] # 0 /\ keys'[c] = keys'[d] => c = d
      BY <1>6, <1>7 DEF BillingInv, KeysApart
    <2> QED
      BY <2>1, <2>2 DEF KeysApart
  <1>9. UNCHANGED <<orders, visit, placed, billedTo, chosen, quantityText>>
    BY DEF PlaceOrder, billingServer
  <1>10. OrdersKeyed'
    <2>1. ASSUME NEW i \in DOMAIN orders, OfThisPage(i)
          PROVE  /\ orders[i].key <= minted'
                 /\ \A c \in Bodies : keys'[c] = orders[i].key => orders[i].body = c
                 /\ i \notin placed => keys'[orders[i].body] = orders[i].key
      <3>1. /\ orders[i].key \in Nat \ {0} /\ orders[i].body \in Bodies
            /\ orders[i].key <= minted
            /\ \A c \in Bodies : keys[c] = orders[i].key => orders[i].body = c
            /\ i \notin placed => keys[orders[i].body] = orders[i].key
        BY <2>1, OrderTyped DEF BillingInv, OrdersKeyed
      <3>2. orders[i].key <= minted'
        BY <1>3, <1>5, <3>1
      <3>3. k = orders[i].key => k = keys[b]
        BY <1>3, <1>4, <3>1
      <3>4. \A c \in Bodies : keys'[c] = orders[i].key => orders[i].body = c
        BY <1>6, <3>1, <3>3
      <3>5. i \notin placed => keys'[orders[i].body] = orders[i].key
        BY <1>4, <1>6, <3>1
      <3> QED
        BY <3>2, <3>4, <3>5
    <2> QED
      BY <1>9, <2>1 DEF BillingInv, OrdersKeyed, OfThisPage
  <1>11. FormTyped' /\ Buying'
    BY <1>1, <1>2, <1>4, <1>6, <1>9 DEF BillingInv, FormTyped, Buying, Buys
  <1> QED
    BY <1>5, <1>6, <1>8, <1>9, <1>10, <1>11 DEF BillingInv

LEMMA OrderCreatedKeeps == ASSUME BillingInv, OrderCreated PROVE BillingInv'
  <1> USE DEF orderForm
  <1>1. /\ buy \in Buys /\ keys[buy.body] = buy.key /\ buy.body \in Bodies /\ buy.key \in Nat \ {0}
        /\ orders \in Seq(Order)
    BY DEF OrderCreated, BillingInv, Buying, Buys
  <1>2. CASE Replay # {}
    <2>1. PICK i \in Replay : TRUE
      BY <1>2
    <2>2. i \in DOMAIN orders /\ OfThisPage(i) /\ orders[i].key = buy.key /\ i \in Nat \ {0}
      BY <1>1, <2>1 DEF Replay, OfThisPage
    <2>3. \A j \in Replay : j = i
      BY <2>2 DEF Replay, OfThisPage, BillingInv, OrdersKeyed
    <2>4. Max(Replay) = i
      BY <2>1, <2>2, <2>3 DEF Max
    <2>5. buy' = [buy EXCEPT !.answer = i] /\ UNCHANGED <<orders, visit, keys, minted, placed, billedTo, chosen, quantityText>>
      BY <1>2, <2>4 DEF OrderCreated
    <2>6. buy' \in Buys /\ buy'.body = buy.body /\ buy'.key = buy.key /\ buy'.answer = i
      BY <1>1, <2>2, <2>5 DEF Buys
    <2>7. Buying' /\ FormTyped'
      BY <1>1, <2>2, <2>5, <2>6 DEF Buying, OfThisPage, BillingInv, FormTyped
    <2> QED
      BY <2>5, <2>7, FormFilled
  <1>3. CASE Replay = {}
    <2> DEFINE n == Len(orders) + 1
               o == [body |-> buy.body, key |-> buy.key, visit |-> visit, paid |-> FALSE]
    <2>1. visit \in Nat \ {0} /\ o \in Order /\ n \in Nat \ {0}
      BY <1>1 DEF BillingInv, Order
    <2>2. /\ orders' = Append(orders, o) /\ buy' = [buy EXCEPT !.answer = n]
          /\ UNCHANGED <<visit, keys, minted, placed, billedTo, chosen, quantityText>>
      BY <1>3 DEF OrderCreated
    <2>3. o.body = buy.body /\ o.key = buy.key /\ o.visit = visit
      OBVIOUS
    <2> HIDE DEF o
    <2>4. /\ orders' \in Seq(Order) /\ DOMAIN orders' = DOMAIN orders \cup {n} /\ orders'[n] = o
          /\ \A j \in DOMAIN orders : orders'[j] = orders[j]
      BY <1>1, <2>1, <2>2, Longer
    <2>5. n \notin DOMAIN orders
      BY <1>1
    <2> HIDE DEF n
    <2>6. buy' \in Buys /\ buy'.body = buy.body /\ buy'.key = buy.key /\ buy'.answer = n
      BY <1>1, <2>1, <2>2 DEF Buys
    <2>7. Buying' /\ FormTyped'
      BY <1>1, <2>2, <2>3, <2>4, <2>6 DEF Buying, OfThisPage, BillingInv, FormTyped
    <2>8. keys[buy.body] <= minted /\ \A b \in Bodies : keys[b] = buy.key => b = buy.body
      BY <1>1 DEF BillingInv, KeysApart
    <2>9. \A j \in DOMAIN orders : OfThisPage(j) => orders[j].key # buy.key
      BY <1>3 DEF Replay, OfThisPage
    <2>10. OrdersKeyed'
      <3>1. \A i \in DOMAIN orders' : orders'[i].visit <= visit
        BY <2>1, <2>3, <2>4 DEF BillingInv, OrdersKeyed
      <3>2. ASSUME NEW i \in DOMAIN orders', orders'[i].visit = visit
            PROVE  /\ orders'[i].key <= minted
                   /\ \A j \in DOMAIN orders' :
                         orders'[j].visit = visit /\ orders'[j].key = orders'[i].key => j = i
                   /\ \A b \in Bodies : keys[b] = orders'[i].key => orders'[i].body = b
                   /\ i \notin placed => keys[orders'[i].body] = orders'[i].key
        <4>1. CASE i = n
          BY <1>1, <2>3, <2>4, <2>8, <2>9, <4>1 DEF OfThisPage
        <4>2. CASE i # n
          BY <2>3, <2>4, <2>9, <3>2, <4>2 DEF OfThisPage, BillingInv, OrdersKeyed
        <4> QED
          BY <4>1, <4>2
      <3> QED
        BY <2>2, <3>1, <3>2 DEF OrdersKeyed, OfThisPage
    <2> QED
      BY <2>2, <2>4, <2>7, <2>10 DEF BillingInv, KeysApart
  <1> QED
    BY <1>2, <1>3

LEMMA OrderPlacedKeeps == ASSUME BillingInv, OrderPlaced PROVE BillingInv'
  <1> DEFINE n == buy.answer
  <1>1. /\ buy \in Buys /\ buy.body \in Bodies /\ keys[buy.body] = buy.key
        /\ n \in DOMAIN orders /\ OfThisPage(n) /\ orders[n].key = buy.key /\ orders[n].body = buy.body
    BY DEF OrderPlaced, BillingInv, Buying, Buys, OrdersKeyed
  <1>2. /\ keys' = [keys EXCEPT ![buy.body] = 0] /\ placed' = placed \cup {n} /\ buy' = None
        /\ UNCHANGED <<orders, visit, minted, billedTo, chosen, quantityText>>
    BY DEF OrderPlaced, billingServer
  <1>3. /\ keys' \in [Bodies -> Nat] /\ keys'[buy.body] = 0
        /\ \A c \in Bodies : c # buy.body => keys'[c] = keys[c]
    BY <1>1, <1>2 DEF BillingInv
  <1>4. KeysApart'
    BY <1>2, <1>3 DEF BillingInv, KeysApart
  <1>5. OrdersKeyed'
    <2>1. ASSUME NEW i \in DOMAIN orders, OfThisPage(i)
          PROVE  /\ \A c \in Bodies : keys'[c] = orders[i].key => orders[i].body = c
                 /\ i \notin placed' => keys'[orders[i].body] = orders[i].key
      <3>1. /\ orders[i].key # 0 /\ orders[i].body \in Bodies
            /\ \A c \in Bodies : keys[c] = orders[i].key => orders[i].body = c
            /\ i \notin placed => keys[orders[i].body] = orders[i].key
            /\ orders[n].key = orders[i].key => n = i
        BY <1>1, <2>1, OrderTyped DEF BillingInv, OrdersKeyed
      <3>2. ASSUME NEW c \in Bodies, keys'[c] = orders[i].key PROVE orders[i].body = c
        BY <1>3, <3>1, <3>2
      <3>3. ASSUME i \notin placed' PROVE keys'[orders[i].body] = orders[i].key
        <4>1. i # n /\ i \notin placed
          BY <1>2, <3>3
        <4>2. orders[i].body # buy.body
          BY <1>1, <3>1, <4>1
        <4> QED
          BY <1>3, <3>1, <4>1, <4>2
      <3> QED
        BY <3>2, <3>3
    <2> QED
      BY <1>2, <2>1 DEF BillingInv, OrdersKeyed, OfThisPage
  <1>6. FormTyped' /\ Buying'
    BY <1>2 DEF BillingInv, FormTyped, Buying
  <1> QED
    BY <1>2, <1>3, <1>4, <1>5, <1>6 DEF BillingInv

LEMMA ProviderPaysKeeps == ASSUME BillingInv, NEW i \in DOMAIN orders, ProviderPays(i) PROVE BillingInv'
  <1> USE DEF orderForm
  <1> DEFINE o == [orders[i] EXCEPT !.paid = TRUE]
  <1>1. orders \in Seq(Order) /\ orders[i] \in Order
    BY DEF BillingInv
  <1>2. o \in Order /\ o.body = orders[i].body /\ o.key = orders[i].key /\ o.visit = orders[i].visit
    BY <1>1 DEF Order
  <1>3. orders' = [orders EXCEPT ![i] = o]
    BY DEF ProviderPays
  <1> HIDE DEF o
  <1>4. /\ orders' \in Seq(Order) /\ DOMAIN orders' = DOMAIN orders
        /\ \A j \in DOMAIN orders : /\ orders'[j].body = orders[j].body /\ orders'[j].key = orders[j].key
                                    /\ orders'[j].visit = orders[j].visit
    BY <1>1, <1>2, <1>3, Changed
  <1>5. UNCHANGED <<visit, keys, minted, placed, billedTo, chosen, quantityText, buy>>
    BY DEF ProviderPays
  <1>6. FormTyped' /\ KeysApart'
    BY <1>5 DEF BillingInv, FormTyped, KeysApart
  <1>7. OrdersKeyed'
    <2>1. ASSUME NEW j \in DOMAIN orders
          PROVE  /\ orders'[j].visit <= visit
                 /\ orders'[j].visit = visit =>
                      /\ orders'[j].key <= minted
                      /\ \A l \in DOMAIN orders :
                            orders'[l].visit = visit /\ orders'[l].key = orders'[j].key => l = j
                      /\ \A b \in Bodies : keys[b] = orders'[j].key => orders'[j].body = b
                      /\ j \notin placed => keys[orders'[j].body] = orders'[j].key
      BY <1>4 DEF BillingInv, OrdersKeyed, OfThisPage
    <2> QED
      BY <1>4, <1>5, <2>1 DEF OrdersKeyed, OfThisPage
  <1>8. Buying'
    BY <1>4, <1>5 DEF BillingInv, Buying, OfThisPage
  <1> QED
    BY <1>4, <1>5, <1>6, <1>7, <1>8 DEF BillingInv

\* On a new page no order is of this page.
LEMMA ReopenKeeps == ASSUME BillingInv, ReopenBilling PROVE BillingInv'
  <1>1. /\ orders' = orders /\ visit' = visit + 1 /\ minted' = 0 /\ buy' = None
        /\ keys' = [b \in Bodies |-> 0] /\ billedTo' = None /\ chosen' = None /\ quantityText' = 1
    BY DEF ReopenBilling, billingServer
  <1>2. visit' \in Nat \ {0} /\ \A i \in DOMAIN orders : orders[i].visit <= visit' /\ orders[i].visit # visit'
    <2>1. visit \in Nat \ {0} /\ \A i \in DOMAIN orders : orders[i].visit \in Nat /\ orders[i].visit <= visit
      BY OrderTyped DEF BillingInv
    <2> QED
      BY <1>1, <2>1
  <1>3. OrdersKeyed'
    BY <1>1, <1>2 DEF OrdersKeyed, OfThisPage
  <1>4. KeysApart' /\ FormTyped' /\ Buying'
    BY <1>1, BillingAssumption DEF KeysApart, FormTyped, Buying
  <1> QED
    BY <1>1, <1>2, <1>3, <1>4 DEF BillingInv

LEMMA BillingSteps ==
    ASSUME BillingInv, [BillingNext]_billingVars
    PROVE  BillingInv'
  <1> USE DEF billingServer, orderForm
  <1>1. CASE OrgsLoaded \/ EditOrder \/ \E p \in Prices : ChoosePrice(p)
    <2>1. FormTyped'
      BY <1>1, BillingAssumption DEF OrgsLoaded, EditOrder, ChoosePrice, BillingInv, FormTyped
    <2>2. Buying'
      BY <1>1 DEF OrgsLoaded, EditOrder, ChoosePrice, BillingInv, Buying, OfThisPage
    <2> QED
      BY <1>1, <2>1, <2>2, FormFilled DEF OrgsLoaded, EditOrder, ChoosePrice
  <1>2. CASE \/ OrderFails \/ OrderRead \/ EntitlementsLoaded \/ UNCHANGED billingVars
             \/ \E i \in DOMAIN orders : Track(i) \/ Grant(i)
    <2>1. /\ UNCHANGED <<orders, visit, keys, minted, placed, billedTo, chosen, quantityText>>
          /\ buy' \in {buy, None}
      BY <1>2 DEF OrderFails, OrderRead, EntitlementsLoaded, Track, Grant, billingVars
    <2>2. FormTyped' /\ Buying'
      BY <2>1 DEF BillingInv, FormTyped, Buying, OfThisPage
    <2> QED
      BY <2>1, <2>2, FormFilled
  <1> QED
    BY <1>1, <1>2, PlaceOrderKeeps, OrderCreatedKeeps, OrderPlacedKeeps, ProviderPaysKeeps, ReopenKeeps
       DEF BillingNext

-----------------------------------------------------------------------------
(* Session: where one page is open, a token that was rotated is presented  *)
(* again only after a refresh was given up, and none is revoked before     *)
(* that or a sign-out.                                                     *)

OneTab == \A s, t \in Tabs : s = t

Sessions == [user : Users, state : {"live", "rotated", "revoked"}]
Refreshes == [token : Tokens \cup {0}, result : Tokens \cup {0, Sent}]
Issued == {0} \cup DOMAIN tokens

SessionTyped ==
    /\ tokens \in Seq(Sessions) /\ Len(tokens) <= MaxTokens
    /\ answerLost \in BOOLEAN /\ signedOut \in BOOLEAN
    /\ cookie \in Issued /\ strays \subseteq DOMAIN tokens
    /\ refreshing \in [Tabs -> {None} \cup Refreshes]
    /\ \A t \in Tabs : refreshing[t] # None =>
          /\ refreshing[t].token \in Issued
          /\ refreshing[t].result \in Tokens => refreshing[t].result \in DOMAIN tokens

Spent(i) == i # 0 /\ tokens[i].state = "rotated"

NothingSpent ==
    /\ "rotated" \notin alarm /\ strays = {}
    /\ \A t \in Tabs :
          /\ Spent(cookie) => refreshing[t] # None /\ refreshing[t].result \in Tokens
          /\ refreshing[t] # None =>
                /\ refreshing[t].result = Sent => ~ Spent(refreshing[t].token)
                /\ refreshing[t].result \in Tokens => ~ Spent(refreshing[t].result)

NothingRevoked == "revoked" \notin alarm /\ \A i \in DOMAIN tokens : tokens[i].state # "revoked"

SessionInv ==
    /\ SessionTyped
    /\ ~ answerLost => NothingSpent
    /\ ~ answerLost /\ ~ signedOut => NothingRevoked

LEMMA SessionStarts == SessionInit => SessionInv
  <1> SUFFICES ASSUME SessionInit PROVE SessionInv
    OBVIOUS
  <1>1. tokens = <<>> /\ tokens \in Seq(Sessions) /\ Len(tokens) = 0 /\ DOMAIN tokens = {}
    BY DEF SessionInit
  <1>2. alarm = {} /\ strays = {} /\ answerLost = FALSE /\ signedOut = FALSE
    BY DEF SessionInit
  <1>3. cookie = 0 /\ refreshing \in [Tabs -> {None} \cup Refreshes] /\ \A t \in Tabs : refreshing[t] = None
    BY DEF SessionInit
  <1>4. SessionTyped
    <2>1. Len(tokens) <= MaxTokens
      BY <1>1, SessionAssumption
    <2>2. answerLost \in BOOLEAN /\ signedOut \in BOOLEAN
      BY <1>2
    <2> QED
      BY <1>1, <1>2, <1>3, <2>1, <2>2, Zenon DEF SessionTyped, Issued
  <1>5. NothingSpent /\ NothingRevoked
    BY <1>1, <1>2, <1>3 DEF NothingSpent, NothingRevoked, Spent
  <1> QED
    BY <1>4, <1>5 DEF SessionInv

LEMMA RefreshIsSomething == None \notin Refreshes /\ Sent \notin Tokens /\ 0 \notin Tokens /\ Sent # 0
  BY SessionAssumption DEF Refreshes, Tokens, Sent

\* No token is rotated by a sign-out, and none that was is not any more.
LEMMA RevokedKeeps ==
    ASSUME tokens \in Seq(Sessions), NEW u
    PROVE  /\ Revoked(u) \in Seq(Sessions) /\ Len(Revoked(u)) = Len(tokens)
           /\ DOMAIN Revoked(u) = DOMAIN tokens
           /\ \A i \in DOMAIN tokens : Revoked(u)[i].state = "rotated" <=> tokens[i].state = "rotated"
  <1> DEFINE d(i) == IF tokens[i].user = u /\ tokens[i].state = "live"
                     THEN [tokens[i] EXCEPT !.state = "revoked"] ELSE tokens[i]
  <1>1. \A i \in DOMAIN tokens : d(i) \in Sessions /\ (d(i).state = "rotated" <=> tokens[i].state = "rotated")
    <2>1. ASSUME NEW x \in Sessions
          PROVE  /\ x.state = "live" => x.state # "rotated"
                 /\ [x EXCEPT !.state = "revoked"] \in Sessions
                 /\ [x EXCEPT !.state = "revoked"].state # "rotated"
      BY DEF Sessions
    <2>2. \A i \in DOMAIN tokens : tokens[i] \in Sessions
      OBVIOUS
    <2> QED
      BY <2>1, <2>2
  <1>2. Revoked(u) = [i \in DOMAIN tokens |-> d(i)]
    BY DEF Revoked
  <1> HIDE DEF d
  <1> QED
    BY <1>1, <1>2

\* Tokens may be added, and revoked if a sign-out is recorded, the refreshes being
\* as they were.
LEMMA TokensMove ==
    ASSUME SessionInv, UNCHANGED <<alarm, strays, answerLost, refreshing>>,
           tokens' \in Seq(Sessions), Len(tokens') <= MaxTokens, DOMAIN tokens \subseteq DOMAIN tokens',
           \A i \in DOMAIN tokens : tokens'[i].state = "rotated" <=> tokens[i].state = "rotated",
           signedOut' \in BOOLEAN,
           ~ signedOut' => /\ ~ signedOut
                           /\ \A i \in DOMAIN tokens' :
                                tokens'[i].state = "revoked" => i \in DOMAIN tokens /\ tokens[i].state = "revoked",
           cookie' \in DOMAIN tokens' \cup {0},
           cookie' = cookie \/ ~ Spent(cookie)'
    PROVE  SessionInv'
  <1>1. SessionTyped'
    BY DEF SessionInv, SessionTyped, Issued
  <1>2. ASSUME ~ answerLost PROVE NothingSpent'
    <2>1. NothingSpent /\ SessionTyped
      BY <1>2 DEF SessionInv
    <2>2. \A i \in Issued : Spent(i)' <=> Spent(i)
      BY DEF Spent, Issued
    <2>3. Spent(cookie)' => Spent(cookie)
      BY <2>1, <2>2 DEF SessionTyped
    <2>4. ASSUME NEW t \in Tabs, refreshing[t] # None
          PROVE  /\ refreshing[t].result = Sent => ~ Spent(refreshing[t].token)'
                 /\ refreshing[t].result \in Tokens => ~ Spent(refreshing[t].result)'
      BY <2>1, <2>2, <2>4 DEF NothingSpent, SessionTyped, Issued
    <2> QED
      BY <2>1, <2>3, <2>4 DEF NothingSpent
  <1>3. ~ answerLost /\ ~ signedOut' => NothingRevoked'
    BY DEF SessionInv, NothingRevoked
  <1> QED
    BY <1>1, <1>2, <1>3 DEF SessionInv

\* The tokens, the cookie and the refreshes stay.
LEMMA SessionRests ==
    ASSUME SessionInv, UNCHANGED <<tokens, alarm, strays, answerLost, signedOut, cookie, refreshing>>
    PROVE  SessionInv'
  BY DEF SessionInv, SessionTyped, NothingSpent, NothingRevoked, Spent, Issued

\* A refresh is over, its page having the cookie of the answer or having given it up.
LEMMA RefreshEnds ==
    ASSUME SessionInv, OneTab, NEW t \in Tabs, UNCHANGED <<tokens, alarm, signedOut>>,
           refreshing' = [refreshing EXCEPT ![t] = None],
           answerLost' \in BOOLEAN, cookie' \in Issued, strays' \subseteq DOMAIN tokens,
           ~ answerLost' => ~ answerLost /\ ~ Spent(cookie') /\ strays' = strays
    PROVE  SessionInv'
  <1>1. \A s \in Tabs : refreshing'[s] = None
    BY DEF OneTab, SessionInv, SessionTyped
  <1>2. SessionTyped'
    BY <1>1 DEF SessionInv, SessionTyped, Issued
  <1>3. ~ answerLost' => NothingSpent'
    BY <1>1 DEF SessionInv, NothingSpent, Spent
  <1>4. ~ answerLost' /\ ~ signedOut' => NothingRevoked'
    BY DEF SessionInv, NothingRevoked
  <1> QED
    BY <1>2, <1>3, <1>4 DEF SessionInv

LEMMA SubmitCodeKeeps == ASSUME SessionInv, NEW t \in Tabs, SubmitCode(t) PROVE SessionInv'
  <1>1. PICK u \in Users : /\ tokens' = Append(tokens, [user |-> u, state |-> "live"])
                           /\ Stored(t, Len(tokens) + 1, u)
    BY DEF SubmitCode
  <1> DEFINE d == [user |-> u, state |-> "live"]
  <1>2. d \in Sessions /\ d.state # "rotated" /\ d.state # "revoked"
    BY DEF Sessions
  <1>3. /\ tokens \in Seq(Sessions) /\ Len(tokens) \in Nat /\ Len(tokens) < MaxTokens
        /\ signedOut \in BOOLEAN
    BY DEF SessionInv, SessionTyped, SubmitCode
  <1> HIDE DEF d
  <1>4. /\ tokens' \in Seq(Sessions) /\ Len(tokens') = Len(tokens) + 1 /\ tokens'[Len(tokens) + 1] = d
        /\ DOMAIN tokens' = DOMAIN tokens \cup {Len(tokens) + 1}
        /\ \A i \in DOMAIN tokens : tokens'[i] = tokens[i]
    BY <1>1, <1>2, <1>3, Longer DEF d
  <1>5. Len(tokens') <= MaxTokens
    BY <1>3, <1>4, SessionAssumption
  <1>6. cookie' = Len(tokens) + 1 /\ UNCHANGED <<alarm, strays, answerLost, signedOut, refreshing>>
    BY <1>1 DEF Stored, SubmitCode
  <1>7. ~ Spent(cookie)'
    BY <1>2, <1>4, <1>6 DEF Spent
  <1>8. \A i \in DOMAIN tokens' :
          tokens'[i].state = "revoked" => i \in DOMAIN tokens /\ tokens[i].state = "revoked"
    BY <1>2, <1>4
  <1> QED
    BY <1>3, <1>4, <1>5, <1>6, <1>7, <1>8, TokensMove

\* A session is closed, here or elsewhere.
LEMMA ClosedKeeps ==
    ASSUME SessionInv, UNCHANGED <<alarm, strays, answerLost, refreshing, cookie>>, signedOut' = TRUE,
           \/ \E u : tokens' = Revoked(u)
           \/ \E i \in DOMAIN tokens : tokens[i].state = "live" /\ tokens' = [tokens EXCEPT ![i].state = "revoked"]
    PROVE  SessionInv'
  <1>1. tokens \in Seq(Sessions) /\ cookie \in Issued /\ Len(tokens) <= MaxTokens
    BY DEF SessionInv, SessionTyped
  <1>2. /\ tokens' \in Seq(Sessions) /\ Len(tokens') = Len(tokens) /\ DOMAIN tokens' = DOMAIN tokens
        /\ \A i \in DOMAIN tokens : tokens'[i].state = "rotated" <=> tokens[i].state = "rotated"
    <2>1. CASE \E u : tokens' = Revoked(u)
      BY <1>1, <2>1, RevokedKeeps
    <2>2. ASSUME NEW i \in DOMAIN tokens, tokens[i].state = "live", tokens' = [tokens EXCEPT ![i].state = "revoked"]
          PROVE  /\ tokens' \in Seq(Sessions) /\ Len(tokens') = Len(tokens) /\ DOMAIN tokens' = DOMAIN tokens
                 /\ \A j \in DOMAIN tokens : tokens'[j].state = "rotated" <=> tokens[j].state = "rotated"
      <3> DEFINE o == [tokens[i] EXCEPT !.state = "revoked"]
      <3>1. tokens[i] \in Sessions
        BY <1>1, <2>2
      <3>2. o \in Sessions /\ o.state = "revoked" /\ tokens' = [tokens EXCEPT ![i] = o]
        BY <2>2, <3>1 DEF Sessions
      <3> HIDE DEF o
      <3> QED
        BY <1>1, <2>2, <3>2, Changed
    <2> QED
      BY <2>1, <2>2
  <1> QED
    BY <1>1, <1>2, TokensMove DEF Issued

\* The answer to a sign-out clears the cookie.
LEMMA SignOutAnsweredKeeps == ASSUME SessionInv, NEW t \in Tabs, SignOutAnswered(t) PROVE SessionInv'
  <1>1. cookie' = 0 /\ UNCHANGED <<tokens, alarm, strays, answerLost, signedOut, refreshing>>
    BY DEF SignOutAnswered, sessionServer
  <1>2. tokens \in Seq(Sessions) /\ Len(tokens) <= MaxTokens /\ signedOut \in BOOLEAN
    BY DEF SessionInv, SessionTyped
  <1> QED
    BY <1>1, <1>2, TokensMove DEF Spent

LEMMA UnauthorizedKeeps ==
    ASSUME SessionInv, OneTab, NEW t \in Tabs, NEW k \in Kinds, Unauthorized(t, k)
    PROVE  SessionInv'
  <1> USE DEF sessionServer, browser
  <1>1. UNCHANGED <<tokens, alarm, strays, answerLost, signedOut, cookie>>
    BY DEF Unauthorized
  <1>2. CASE refreshing[t] # None
    <2>1. UNCHANGED refreshing
      BY <1>2 DEF Unauthorized, SingleFlight
    <2> QED
      BY <1>1, <2>1, SessionRests
  <1>3. CASE refreshing[t] = None
    <2> DEFINE d == [token |-> cookie, result |-> Sent]
    <2>1. refreshing' = [refreshing EXCEPT ![t] = d]
      BY <1>3 DEF Unauthorized, SingleFlight
    <2>2. cookie \in Tokens \cup {0}
      BY SessionAssumption DEF SessionInv, SessionTyped, Issued, Tokens
    <2>3. d \in Refreshes /\ d.token = cookie /\ d.result = Sent
      BY <2>2 DEF Refreshes
    <2> HIDE DEF d
    <2>4. \A s \in Tabs : refreshing'[s] = d
      BY <2>1 DEF OneTab, SessionInv, SessionTyped
    <2>5. SessionTyped'
      BY <1>1, <2>1, <2>3, <2>4, RefreshIsSomething DEF SessionInv, SessionTyped, Issued
    <2>6. ~ answerLost => "rotated" \notin alarm /\ strays = {} /\ ~ Spent(cookie)
      BY <1>3 DEF SessionInv, NothingSpent
    <2>7. ~ answerLost => NothingSpent'
      BY <1>1, <2>3, <2>4, <2>6, RefreshIsSomething DEF NothingSpent, Spent
    <2> QED
      BY <1>1, <2>5, <2>7 DEF SessionInv, NothingRevoked
  <1> QED
    BY <1>2, <1>3

LEMMA RefreshHandledKeeps ==
    ASSUME SessionInv, OneTab, NEW t \in Tabs, RefreshHandled(t)
    PROVE  SessionInv'
  <1> USE DEF browser
  <1> DEFINE i == refreshing[t].token
             n == Len(tokens) + 1
             d(r) == [refreshing[t] EXCEPT !.result = r]
  <1>1. /\ UNCHANGED <<strays, answerLost, signedOut, cookie>>
        /\ refreshing[t] # None /\ refreshing[t].result = Sent
    BY DEF RefreshHandled
  <1>2. /\ refreshing[t] \in Refreshes /\ i \in Issued /\ tokens \in Seq(Sessions) /\ Len(tokens) \in Nat
        /\ Len(tokens) <= MaxTokens /\ cookie \in Issued
    BY <1>1 DEF SessionInv, SessionTyped
  <1>3. ~ answerLost => "rotated" \notin alarm /\ strays = {} /\ ~ Spent(i) /\ ~ Spent(cookie)
    BY <1>1, RefreshIsSomething DEF SessionInv, NothingSpent
  <1>4. ASSUME NEW r \in Tokens \cup {0}
        PROVE  d(r) \in Refreshes /\ d(r).token = i /\ d(r).result = r /\ d(r) # None
    BY <1>2, RefreshIsSomething DEF Refreshes
  <1> HIDE DEF d
  <1>5. ASSUME NEW r, refreshing' = [refreshing EXCEPT ![t] = d(r)] PROVE \A s \in Tabs : refreshing'[s] = d(r)
    BY <1>5 DEF OneTab, SessionInv, SessionTyped
  \* nothing rotated: the refresh is refused
  <1>6. ASSUME refreshing' = [refreshing EXCEPT ![t] = d(0)], ~ answerLost => "rotated" \notin alarm',
               tokens' \in Seq(Sessions), Len(tokens') = Len(tokens), DOMAIN tokens' = DOMAIN tokens,
               \A j \in DOMAIN tokens : tokens'[j].state = "rotated" <=> tokens[j].state = "rotated",
               ~ answerLost /\ ~ signedOut => NothingRevoked'
        PROVE  SessionInv'
    <2>1. d(0) \in Refreshes /\ d(0).token = i /\ d(0).result = 0 /\ \A s \in Tabs : refreshing'[s] = d(0)
      BY <1>4, <1>5, <1>6
    <2>2. SessionTyped'
      <3>1. refreshing' \in [Tabs -> {None} \cup Refreshes]
        BY <1>6, <2>1 DEF SessionInv, SessionTyped
      <3> QED
        BY <1>1, <1>2, <1>6, <2>1, <3>1, RefreshIsSomething DEF SessionInv, SessionTyped, Issued
    <2>3. \A j \in Issued : Spent(j)' <=> Spent(j)
      BY <1>6 DEF Spent, Issued
    <2>4. ~ answerLost => ~ Spent(cookie)'
      BY <1>1, <1>2, <1>3, <2>3
    <2>5. ~ answerLost => NothingSpent'
      BY <1>1, <1>3, <1>6, <2>1, <2>4, RefreshIsSomething DEF NothingSpent
    <2> QED
      BY <1>1, <1>6, <2>2, <2>5 DEF SessionInv
  <1>7. CASE i = 0
    <2>1. refreshing' = [refreshing EXCEPT ![t] = d(0)] /\ UNCHANGED <<tokens, alarm>>
      BY <1>7 DEF RefreshHandled, d
    <2>2. ~ answerLost /\ ~ signedOut => NothingRevoked'
      BY <2>1 DEF SessionInv, NothingRevoked
    <2> QED
      BY <1>2, <1>3, <1>6, <2>1, <2>2
  <1>8. CASE i # 0 /\ tokens[i].state # "live"
    <2>1. /\ refreshing' = [refreshing EXCEPT ![t] = d(0)] /\ tokens' = Revoked(tokens[i].user)
          /\ alarm' = alarm \cup {tokens[i].state}
      BY <1>8 DEF RefreshHandled, Presented, d
    <2>2. tokens[i].state \in {"rotated", "revoked"} /\ i \in DOMAIN tokens
      <3>1. i \in DOMAIN tokens
        BY <1>2, <1>8 DEF Issued
      <3>2. tokens[i] \in Sessions
        BY <1>2, <3>1
      <3> QED
        BY <1>8, <3>1, <3>2 DEF Sessions
    <2>3. ~ answerLost => "rotated" \notin alarm'
      BY <1>3, <1>8, <2>1 DEF Spent
    <2>4. answerLost \/ signedOut
      BY <1>3, <1>8, <2>2 DEF SessionInv, NothingRevoked, Spent
    <2> QED
      BY <1>2, <1>6, <2>1, <2>3, <2>4, RevokedKeeps
  <1>9. CASE i # 0 /\ tokens[i].state = "live"
    <2> DEFINE o == [tokens[i] EXCEPT !.state = "rotated"]
               ts == [tokens EXCEPT ![i] = o]
               new == [user |-> tokens[i].user, state |-> "live"]
    <2>1. /\ Len(tokens) < MaxTokens /\ tokens' = Append(ts, new) /\ UNCHANGED alarm
          /\ refreshing' = [refreshing EXCEPT ![t] = d(n)]
      BY <1>9 DEF RefreshHandled, Presented, Rotated, d
    <2>2. i \in DOMAIN tokens /\ tokens[i] \in Sessions
      BY <1>2, <1>9 DEF Issued
    <2>3. o \in Sessions /\ o.state = "rotated" /\ new \in Sessions /\ new.state = "live"
      BY <2>2 DEF Sessions
    <2> HIDE DEF o, new
    <2>4. /\ ts \in Seq(Sessions) /\ Len(ts) = Len(tokens) /\ DOMAIN ts = DOMAIN tokens /\ ts[i] = o
          /\ \A j \in DOMAIN tokens \ {i} : ts[j] = tokens[j]
      BY <1>2, <2>2, <2>3, Changed
    <2> HIDE DEF ts
    <2>5. /\ tokens' \in Seq(Sessions) /\ Len(tokens') = n /\ DOMAIN tokens' = DOMAIN tokens \cup {n}
          /\ tokens'[n] = new /\ \A j \in DOMAIN tokens : tokens'[j] = ts[j]
      BY <2>1, <2>3, <2>4, Longer
    <2>6. n \in Tokens /\ n <= MaxTokens
      BY <1>2, <2>1, SessionAssumption DEF Tokens
    <2>7. /\ d(n) \in Refreshes /\ d(n).token = i /\ d(n).result = n /\ d(n) # None
          /\ \A s \in Tabs : refreshing'[s] = d(n)
      BY <1>4, <1>5, <2>1, <2>6
    <2>8. SessionTyped'
      <3>1. refreshing' \in [Tabs -> {None} \cup Refreshes]
        BY <2>1, <2>7 DEF SessionInv, SessionTyped
      <3> HIDE DEF n
      <3> QED
        BY <1>1, <1>2, <2>1, <2>5, <2>6, <2>7, <3>1 DEF SessionInv, SessionTyped, Issued
    <2>9. tokens'[n].state # "rotated"
      BY <2>3, <2>5
    <2>10. ~ answerLost => NothingSpent'
      <3> HIDE DEF n
      <3> QED
        BY <1>1, <1>3, <2>1, <2>6, <2>7, <2>9, RefreshIsSomething DEF NothingSpent, Spent
    <2>11. ~ answerLost /\ ~ signedOut => NothingRevoked'
      <3> HIDE DEF n
      <3>1. \A j \in DOMAIN tokens' : tokens'[j].state = "revoked" => j \in DOMAIN tokens /\ tokens[j].state = "revoked"
        BY <2>3, <2>4, <2>5
      <3> QED
        BY <2>1, <3>1 DEF SessionInv, NothingRevoked
    <2> QED
      BY <1>1, <2>8, <2>10, <2>11 DEF SessionInv
  <1> QED
    BY <1>7, <1>8, <1>9

\* A request that was given up is handled after all.
LEMMA StrayHandledKeeps ==
    ASSUME SessionInv, NEW i \in strays, StrayHandled(i)
    PROVE  SessionInv'
  <1> USE DEF browser
  <1>1. answerLost /\ UNCHANGED <<answerLost, signedOut, cookie, refreshing>> /\ strays' = strays \ {i}
    BY DEF StrayHandled, SessionInv, NothingSpent
  <1>2. tokens \in Seq(Sessions) /\ Len(tokens) \in Nat /\ Len(tokens) <= MaxTokens /\ i \in DOMAIN tokens
    BY DEF SessionInv, SessionTyped
  <1>3. tokens' \in Seq(Sessions) /\ Len(tokens') <= MaxTokens /\ DOMAIN tokens \subseteq DOMAIN tokens'
    <2>1. CASE tokens' = Revoked(tokens[i].user)
      BY <1>2, <2>1, RevokedKeeps
    <2>2. CASE Len(tokens) < MaxTokens /\ tokens' = Rotated(i)
      <3> DEFINE o == [tokens[i] EXCEPT !.state = "rotated"]
                 ts == [tokens EXCEPT ![i] = o]
                 new == [user |-> tokens[i].user, state |-> "live"]
      <3>1. tokens' = Append(ts, new)
        BY <2>2 DEF Rotated
      <3>2. tokens[i] \in Sessions
        BY <1>2
      <3>3. o \in Sessions /\ new \in Sessions
        BY <3>2 DEF Sessions
      <3> HIDE DEF o, new
      <3>4. ts \in Seq(Sessions) /\ Len(ts) = Len(tokens) /\ DOMAIN ts = DOMAIN tokens
        BY <1>2, <3>3, Changed
      <3> HIDE DEF ts
      <3>5. /\ tokens' \in Seq(Sessions) /\ Len(tokens') = Len(tokens) + 1
            /\ DOMAIN tokens \subseteq DOMAIN tokens'
        BY <3>1, <3>3, <3>4, Longer
      <3> QED
        BY <1>2, <2>2, <3>5, SessionAssumption
    <2> QED
      BY <2>1, <2>2 DEF StrayHandled, Presented
  <1>4. SessionTyped'
    BY <1>1, <1>3 DEF SessionInv, SessionTyped, Issued
  <1> QED
    BY <1>1, <1>4 DEF SessionInv

\* A refresh is answered, refused or given up.
LEMMA RefreshOverKeeps ==
    ASSUME SessionInv, OneTab, NEW t \in Tabs,
           Refreshed(t) \/ RefreshRefused(t) \/ RefreshLost(t) \/ ReloadTab(t)
    PROVE  SessionInv'
  <1> USE DEF sessionServer, browser
  <1>1. UNCHANGED <<tokens, alarm, signedOut>> /\ refreshing' = [refreshing EXCEPT ![t] = None]
    BY DEF Refreshed, RefreshRefused, RefreshLost, GivenUp, ReloadTab
  <1>2. answerLost \in BOOLEAN /\ cookie \in Issued /\ strays \subseteq DOMAIN tokens
    BY DEF SessionInv, SessionTyped
  <1>3. CASE Refreshed(t)
    <2>1. cookie' = refreshing[t].result /\ UNCHANGED <<answerLost, strays>>
          /\ refreshing[t] # None /\ refreshing[t].result \in Tokens
      BY <1>3 DEF Refreshed, Stored
    <2>2. cookie' \in Issued /\ (~ answerLost => ~ Spent(cookie'))
      BY <2>1 DEF SessionInv, SessionTyped, NothingSpent, Issued
    <2> QED
      BY <1>1, <1>2, <2>1, <2>2, RefreshEnds
  <1>4. CASE RefreshRefused(t)
    <2>1. UNCHANGED <<cookie, answerLost, strays>> /\ refreshing[t].result = 0
      BY <1>4 DEF RefreshRefused
    <2>2. ~ answerLost => ~ Spent(cookie)
      BY <2>1, RefreshIsSomething DEF SessionInv, NothingSpent
    <2> QED
      BY <1>1, <1>2, <2>1, <2>2, RefreshEnds
  <1>5. CASE RefreshLost(t) \/ ReloadTab(t)
    <2>1. /\ UNCHANGED cookie
          /\ answerLost' = (answerLost \/ (refreshing[t] # None /\ refreshing[t].result # 0))
          /\ \/ UNCHANGED strays
             \/ /\ refreshing[t] # None /\ refreshing[t].result = Sent /\ refreshing[t].token # 0
                /\ strays' = strays \cup {refreshing[t].token}
      BY <1>5 DEF RefreshLost, ReloadTab, GivenUp
    <2>2. answerLost' \in BOOLEAN
      BY <2>1
    <2>3. strays' \subseteq DOMAIN tokens
      BY <1>2, <2>1 DEF SessionInv, SessionTyped, Issued
    <2>4. ~ answerLost' => ~ answerLost /\ ~ Spent(cookie) /\ strays' = strays
      BY <2>1, RefreshIsSomething DEF SessionInv, NothingSpent
    <2> QED
      BY <1>1, <1>2, <2>1, <2>2, <2>3, <2>4, RefreshEnds
  <1> QED
    BY <1>3, <1>4, <1>5

LEMMA SessionSteps ==
    ASSUME SessionInv, OneTab, [SessionNext]_sessionVars
    PROVE  SessionInv'
  <1> USE DEF sessionServer, browser
  <1>1. CASE \/ PreviewInvite \/ RequestCode \/ UseDifferentNumber \/ UNCHANGED sessionVars
             \/ \E t \in Tabs : \/ AccessExpires(t) \/ SignOutFails(t)
                                \/ \E k \in Kinds : Send(t, k) \/ Answer(t, k)
    <2>1. UNCHANGED <<tokens, alarm, strays, answerLost, signedOut, cookie, refreshing>>
      BY <1>1 DEF PreviewInvite, RequestCode, UseDifferentNumber, sessionVars, AccessExpires, Send, Answer,
                  SignOutFails
    <2> QED
      BY <2>1, SessionRests
  <1>2. ASSUME NEW t \in Tabs, SignOutHandled(t) PROVE SessionInv'
    <2>1. UNCHANGED <<alarm, strays, answerLost, refreshing, cookie>> /\ signedOut' = TRUE
          /\ tokens' = Revoked(access[t].user)
      BY <1>2 DEF SignOutHandled
    <2> QED
      BY <2>1, ClosedKeeps
  <1>3. ASSUME NEW i \in DOMAIN tokens, ClosedElsewhere(i) PROVE SessionInv'
    <2>1. /\ UNCHANGED <<alarm, strays, answerLost, refreshing, cookie>> /\ signedOut' = TRUE
          /\ tokens[i].state = "live"
          /\ tokens' \in {Revoked(tokens[i].user), [tokens EXCEPT ![i].state = "revoked"]}
      BY <1>3 DEF ClosedElsewhere
    <2> QED
      BY <2>1, ClosedKeeps
  <1> QED
    BY <1>1, <1>2, <1>3, SubmitCodeKeeps, SignOutAnsweredKeeps, UnauthorizedKeeps, RefreshHandledKeeps,
       StrayHandledKeeps, RefreshOverKeeps DEF SessionNext, TabNext

-----------------------------------------------------------------------------
(* Audio: the parts of an upload that is not under way are somebody's to     *)
(* discard no more, and none of them is on its way, unless it is said so.    *)

Uploads == [state : {"open", "completed", "aborted"}, stored : SUBSET Nat, assembled : SUBSET Nat,
            left : BOOLEAN]
Going == {"uploading", "assembling", "transcoding"}
Phases == {None, "creating", "ready", "failed"} \cup Going

Collected(d) == ~ d.left /\ d.state = "completed" => d.stored = {}
Discarded(i, d, parts) ==
    ~ d.left => d.stored = {} /\ (d.state = "open" => \A a \in parts : a[1] # i)

AudioTyped ==
    /\ uploads \in Seq(Uploads) /\ phase \in Phases
    /\ sentParts \subseteq Nat /\ IsFiniteSet(sentParts)
    /\ put \in Nat \cup {None}
    /\ air \subseteq Nat \X Nat /\ \A a \in air : a[1] \in DOMAIN uploads

AudioInv ==
    /\ AudioTyped
    /\ phase \in Going => upload \in DOMAIN uploads
    /\ phase = "transcoding" => uploads[upload].state = "completed"
    /\ \A i \in DOMAIN uploads :
          /\ Collected(uploads[i])
          /\ ~ UnderWay(i) => Discarded(i, uploads[i], air)

LEMMA AudioStarts == AudioInit => AudioInv
  <1> SUFFICES ASSUME AudioInit PROVE AudioInv
    OBVIOUS
  <1>1. uploads = <<>> /\ phase = None /\ sentParts = {} /\ put = None /\ air = {}
    BY DEF AudioInit
  <1>2. uploads \in Seq(Uploads) /\ DOMAIN uploads = {}
    BY <1>1
  <1>3. IsFiniteSet(sentParts) /\ sentParts \subseteq Nat
    BY <1>1, FS_EmptySet
  <1>4. phase \notin Going /\ phase # "transcoding"
    BY <1>1, AudioAssumption DEF Going
  <1> QED
    BY <1>1, <1>2, <1>3, <1>4 DEF AudioInv, AudioTyped, Phases

\* One upload becomes another record.
LEMMA UploadBecomes ==
    ASSUME AudioInv, NEW i \in DOMAIN uploads, NEW d \in Uploads, uploads' = [uploads EXCEPT ![i] = d],
           phase' \in Phases, phase' = phase \/ (phase' \notin Going /\ i = upload),
           sentParts' \subseteq Nat, IsFiniteSet(sentParts'), put' \in Nat \cup {None}, air' \subseteq air,
           phase' = "transcoding" /\ i = upload => d.state = "completed",
           Collected(d),
           ~ (i = upload /\ phase' \in Going) => Discarded(i, d, air')
    PROVE  AudioInv'
  <1>1. uploads \in Seq(Uploads)
    BY DEF AudioInv, AudioTyped
  <1>2. /\ uploads' \in Seq(Uploads) /\ upload' = upload /\ DOMAIN uploads' = DOMAIN uploads
        /\ uploads'[i] = d /\ \A j \in DOMAIN uploads \ {i} : uploads'[j] = uploads[j]
    BY <1>1, Changed DEF upload
  <1>3. AudioTyped'
    BY <1>2 DEF AudioInv, AudioTyped
  <1>4. /\ phase' \in Going => upload \in DOMAIN uploads
        /\ phase' = "transcoding" => uploads'[upload].state = "completed"
    BY <1>2 DEF AudioInv, Going
  <1>5. ASSUME NEW j \in DOMAIN uploads
        PROVE  Collected(uploads'[j]) /\ (~ UnderWay(j)' => Discarded(j, uploads'[j], air'))
    <2>1. UnderWay(j)' <=> j = upload /\ phase' \in Going
      BY <1>2 DEF UnderWay, Going
    <2>2. CASE j = i
      BY <1>2, <2>1, <2>2
    <2>3. CASE j # i
      <3>1. Collected(uploads[j]) /\ (~ UnderWay(j) => Discarded(j, uploads[j], air))
        BY DEF AudioInv
      <3>2. ~ UnderWay(j)' => ~ UnderWay(j)
        BY <2>1, <2>3 DEF UnderWay, Going
      <3> QED
        BY <1>2, <2>3, <3>1, <3>2 DEF Discarded
    <2> QED
      BY <2>2, <2>3
  <1> QED
    BY <1>2, <1>3, <1>4, <1>5 DEF AudioInv, Collected, Discarded

\* The uploads stay: only the one under way may be let go of, and assembled.
LEMMA UploadsRest ==
    ASSUME AudioInv, uploads' = uploads, phase' \in Phases,
           phase' \in Going => phase \in Going,
           phase \in Going /\ phase' \notin Going => phase = "transcoding",
           phase' = "transcoding" => uploads[upload].state = "completed",
           sentParts' \subseteq Nat, IsFiniteSet(sentParts'), put' \in Nat \cup {None},
           air' \subseteq Nat \X Nat,
           \A a \in air' : a \in air \/ (phase' \in Going /\ a[1] = upload)
    PROVE  AudioInv'
  <1>1. upload' = upload
    BY DEF upload
  <1>2. \A a \in air' : a[1] \in DOMAIN uploads
    BY DEF AudioInv, AudioTyped
  <1>3. AudioTyped'
    BY <1>2 DEF AudioInv, AudioTyped
  <1>4. ASSUME NEW j \in DOMAIN uploads, ~ UnderWay(j)' PROVE Discarded(j, uploads[j], air')
    <2>1. ~ (j = upload /\ phase' \in Going)
      BY <1>1, <1>4 DEF UnderWay, Going
    <2>2. CASE UnderWay(j)
      <3>1. j = upload /\ phase = "transcoding" /\ phase' \notin Going
        BY <2>1, <2>2 DEF UnderWay, Going
      <3> QED
        BY <3>1 DEF AudioInv, Collected, Discarded
    <2>3. CASE ~ UnderWay(j)
      BY <2>1, <2>3 DEF AudioInv, Discarded
    <2> QED
      BY <2>2, <2>3
  <1> QED
    BY <1>1, <1>3, <1>4 DEF AudioInv, Collected, Discarded

\* An upload is created, and the form may know of it.
LEMMA CreatedKeeps ==
    ASSUME AudioInv, phase = "creating", TrackCreated, phase' \in {None, "uploading", "failed"},
           UNCHANGED <<sentParts, put, air>>
    PROVE  AudioInv'
  <1> DEFINE d == [state |-> "open", stored |-> {}, assembled |-> {}, left |-> FALSE]
             n == Len(uploads) + 1
  <1>1. d \in Uploads /\ d.state = "open" /\ d.stored = {}
    BY DEF Uploads
  <1>2. uploads' = Append(uploads, d) /\ uploads \in Seq(Uploads)
    BY DEF TrackCreated, AudioInv, AudioTyped
  <1> HIDE DEF d
  <1>3. /\ uploads' \in Seq(Uploads) /\ Len(uploads') = n
        /\ DOMAIN uploads' = DOMAIN uploads \cup {n} /\ uploads'[n] = d /\ n \notin DOMAIN uploads
        /\ \A i \in DOMAIN uploads : uploads'[i] = uploads[i]
    BY <1>1, <1>2, Longer
  <1>4. upload' = n
    BY <1>3 DEF upload
  <1> HIDE DEF n
  <1>5. phase' # "transcoding" /\ phase' \in Phases /\ phase \notin Going
    BY AudioAssumption DEF Phases, Going
  <1>6. AudioTyped'
    BY <1>3, <1>5 DEF AudioInv, AudioTyped
  <1>7. \A a \in air' : a[1] # n
    BY <1>3 DEF AudioInv, AudioTyped
  <1>8. ASSUME NEW i \in DOMAIN uploads'
        PROVE  Collected(uploads'[i]) /\ Discarded(i, uploads'[i], air')
    <2>1. CASE i = n
      BY <1>1, <1>3, <1>7, <2>1 DEF Collected, Discarded
    <2>2. CASE i \in DOMAIN uploads
      <3>1. ~ UnderWay(i)
        BY <1>5 DEF UnderWay, Going
      <3> QED
        BY <1>3, <2>2, <3>1 DEF AudioInv
    <2> QED
      BY <1>3, <2>1, <2>2
  <1> QED
    BY <1>3, <1>4, <1>5, <1>6, <1>8 DEF AudioInv, Collected, Discarded

\* What is under way stops: its parts are discarded, or it is said that they were not.
LEMMA StopKeeps ==
    ASSUME AudioInv, PartFails \/ AssembleFails
    PROVE  AudioInv'
  <1> DEFINE u == uploads[upload]
  <1>1. /\ phase \in {"uploading", "assembling"} /\ Abandon /\ UNCHANGED <<sentParts, air>>
        /\ phase' \in {None, "failed"} /\ put' = None
    BY DEF PartFails, AssembleFails, Stopped
  <1>2. phase' \in Phases /\ phase' \notin Going /\ phase' # "transcoding"
    BY <1>1, AudioAssumption DEF Phases, Going
  <1>3. /\ upload \in DOMAIN uploads /\ u \in Uploads /\ Collected(u)
        /\ sentParts \subseteq Nat /\ IsFiniteSet(sentParts)
    BY <1>1 DEF AudioInv, AudioTyped, Going
  <1>4. PICK d \in Uploads : uploads' = [uploads EXCEPT ![upload] = d] /\ (d.left \/ (d.stored = {} /\ d.state # "open"))
    <2>1. CASE uploads' = AbortedUploads
      <3> DEFINE s == IF u.state = "open" THEN {} ELSE u.stored
                 l == u.left \/ u.state # "open"
                 d == [u EXCEPT !.state = "aborted", !.stored = s, !.left = l]
      <3>1. uploads' = [uploads EXCEPT ![upload] = d]
        BY <2>1 DEF AbortedUploads
      <3>2. s \in SUBSET Nat /\ l \in BOOLEAN /\ (l \/ s = {})
        BY <1>3 DEF Uploads
      <3> HIDE DEF s, l, u
      <3>3. d \in Uploads /\ d.left = l /\ d.stored = s /\ d.state = "aborted"
        BY <1>3, <3>2 DEF Uploads
      <3> QED
        BY <3>1, <3>2, <3>3
    <2>2. CASE uploads' = [uploads EXCEPT ![upload].left = TRUE]
      <3> DEFINE d == [u EXCEPT !.left = TRUE]
      <3>1. d \in Uploads /\ d.left
        BY <1>3 DEF Uploads
      <3> QED
        BY <2>2, <3>1
    <2> QED
      BY <1>1, <2>1, <2>2 DEF Abandon
  <1>5. Collected(d) /\ Discarded(upload, d, air')
    BY <1>4 DEF Collected, Discarded
  <1> QED
    BY <1>1, <1>2, <1>3, <1>4, <1>5, UploadBecomes

LEMMA PartArrivesKeeps ==
    ASSUME AudioInv, NEW a \in air, PartArrives(a[1], a[2])
    PROVE  AudioInv'
  <1> DEFINE i == a[1]
             n == a[2]
             u == uploads[i]
             s == u.stored \cup {n}
             l == u.left \/ u.state # "open"
             d == [u EXCEPT !.stored = s, !.left = l]
  <1>1. /\ uploads' = [uploads EXCEPT ![i] = d] /\ air' \subseteq air
        /\ UNCHANGED <<phase, sentParts, put>>
    BY DEF PartArrives, uploadForm
  <1>2. i \in DOMAIN uploads /\ n \in Nat /\ u \in Uploads
    BY DEF AudioInv, AudioTyped
  <1>3. s \in SUBSET Nat /\ l \in BOOLEAN
    BY <1>2 DEF Uploads
  <1>4. a \in air /\ a[1] = i
    OBVIOUS
  <1>5. ~ UnderWay(i) => u.left \/ u.state # "open"
    BY <1>2, <1>4 DEF AudioInv, Discarded
  <1>6. ~ UnderWay(i) => l
    BY <1>5
  <1>7. l \/ u.state = "open"
    OBVIOUS
  <1>8. phase = "transcoding" /\ i = upload => u.state = "completed"
    BY DEF AudioInv
  <1> HIDE DEF s, l, u
  <1>9. d \in Uploads /\ d.left = l /\ d.state = u.state
    BY <1>2, <1>3 DEF Uploads
  <1>10. Collected(d)
    BY <1>7, <1>9 DEF Collected
  <1>11. ~ (i = upload /\ phase \in Going) => Discarded(i, d, air')
    BY <1>6, <1>9 DEF UnderWay, Going, Discarded
  <1> HIDE DEF d, i
  <1> QED
    BY <1>1, <1>2, <1>8, <1>9, <1>10, <1>11, UploadBecomes DEF AudioInv, AudioTyped

LEMMA AssembleKeeps == ASSUME AudioInv, Assemble PROVE AudioInv'
  <1> DEFINE u == uploads[upload]
             d == [u EXCEPT !.state = "completed", !.assembled = u.stored, !.stored = {}]
  <1>1. /\ phase = "assembling" /\ uploads' = [uploads EXCEPT ![upload] = d]
        /\ UNCHANGED <<phase, sentParts, put, air>>
    BY DEF Assemble, Complete, uploadForm
  <1>2. upload \in DOMAIN uploads /\ u \in Uploads
    BY <1>1 DEF AudioInv, AudioTyped, Going
  <1>3. d \in Uploads /\ d.stored = {} /\ d.state = "completed"
    BY <1>2 DEF Uploads
  <1> HIDE DEF d
  <1> QED
    BY <1>1, <1>2, <1>3, UploadBecomes DEF AudioInv, AudioTyped, Collected, Discarded

LEMMA LeaveAudioKeeps == ASSUME AudioInv, LeaveAudio PROVE AudioInv'
  <1>1. /\ phase' = None /\ sentParts' = {} /\ put' = None /\ UNCHANGED air
        /\ uploads' = IF UnderWay(upload) THEN [uploads EXCEPT ![upload].left = TRUE] ELSE uploads
    BY DEF LeaveAudio
  <1>2. /\ phase' \in Phases /\ phase' \notin Going /\ phase' # "transcoding"
        /\ sentParts' \subseteq Nat /\ IsFiniteSet(sentParts') /\ put' \in Nat \cup {None}
    BY <1>1, AudioAssumption, FS_EmptySet DEF Phases, Going
  <1>3. CASE UnderWay(upload)
    <2> DEFINE u == uploads[upload]
               d == [u EXCEPT !.left = TRUE]
    <2>1. upload \in DOMAIN uploads /\ u \in Uploads
      BY <1>3 DEF AudioInv, AudioTyped, UnderWay, Going
    <2>2. d \in Uploads /\ d.left /\ uploads' = [uploads EXCEPT ![upload] = d]
      BY <1>1, <1>3, <2>1 DEF Uploads
    <2>3. Collected(d) /\ Discarded(upload, d, air')
      BY <2>2 DEF Collected, Discarded
    <2> HIDE DEF d
    <2> QED
      BY <1>1, <1>2, <2>1, <2>2, <2>3, UploadBecomes
  <1>4. CASE ~ UnderWay(upload)
    <2>1. phase \notin Going /\ uploads' = uploads
      BY <1>1, <1>4 DEF UnderWay, Going
    <2> QED
      BY <1>1, <1>2, <2>1, UploadsRest DEF AudioInv, AudioTyped
  <1> QED
    BY <1>3, <1>4

LEMMA SweepUploadsKeeps == ASSUME AudioInv, SweepUploads PROVE AudioInv'
  <1> USE DEF uploadForm
  <1>1. PICK i \in DOMAIN uploads :
           uploads[i].state = "open" /\ uploads' = [uploads EXCEPT ![i].state = "aborted"]
    BY DEF SweepUploads
  <1> DEFINE u == uploads[i]
             d == [u EXCEPT !.state = "aborted"]
  <1>2. u \in Uploads
    BY DEF AudioInv, AudioTyped
  <1>3. d \in Uploads /\ d.left = u.left /\ d.stored = u.stored /\ d.state = "aborted"
    BY <1>2 DEF Uploads
  <1>4. Collected(d) /\ uploads' = [uploads EXCEPT ![i] = d]
    BY <1>1, <1>3 DEF Collected
  <1>5. ~ (i = upload /\ phase \in Going) => Discarded(i, d, air)
    BY <1>3 DEF AudioInv, UnderWay, Going, Discarded
  <1>6. ~ (phase = "transcoding" /\ i = upload)
    BY <1>1 DEF AudioInv
  <1>7. UNCHANGED <<phase, sentParts, put, air>>
    BY DEF SweepUploads
  <1> HIDE DEF d
  <1> QED
    BY <1>3, <1>4, <1>5, <1>6, <1>7, UploadBecomes DEF AudioInv, AudioTyped

\* A part is sent, or answered.
LEMMA PartsKeep == ASSUME AudioInv, SendPart \/ PartAnswered PROVE AudioInv'
  <1>1. phase = "uploading" /\ uploads' = uploads /\ phase \in Going /\ "uploading" \in Phases
    BY DEF SendPart, PartAnswered, audioServer, Going, Phases
  <1>2. /\ upload \in DOMAIN uploads /\ sentParts \subseteq Nat /\ IsFiniteSet(sentParts)
        /\ air \subseteq Nat \X Nat /\ put \in Nat \cup {None} /\ Len(uploads) \in Nat
    BY <1>1 DEF AudioInv, AudioTyped
  <1>3. CASE SendPart
    <2> DEFINE n == Cardinality(sentParts) + 1
    <2>1. put' = n /\ air' = air \cup {<<upload, n>>} /\ UNCHANGED <<phase, sentParts>>
      BY <1>3 DEF SendPart
    <2>2. n \in Nat
      BY <1>2, FS_CardinalityType
    <2> HIDE DEF n
    <2>3. <<upload, n>> \in Nat \X Nat
      BY <1>2, <2>2 DEF upload
    <2> QED
      BY <1>1, <1>2, <2>1, <2>2, <2>3, UploadsRest
  <1>4. CASE PartAnswered
    <2>1. /\ put # None /\ sentParts' = sentParts \cup {put} /\ put' = None /\ UNCHANGED air
          /\ phase' \in {"uploading", "assembling"}
      BY <1>1, <1>4 DEF PartAnswered, audioServer
    <2>2. sentParts' \subseteq Nat /\ IsFiniteSet(sentParts')
      BY <1>2, <2>1, FS_AddElement
    <2>3. phase' \in Phases /\ phase' # "transcoding" /\ phase' \in Going
      BY <2>1 DEF Phases, Going
    <2> QED
      BY <1>1, <1>2, <2>1, <2>2, <2>3, UploadsRest DEF AudioInv, AudioTyped
  <1> QED
    BY <1>3, <1>4

LEMMA AudioSteps ==
    ASSUME AudioInv, [AudioNext]_audioVars
    PROVE  AudioInv'
  <1> USE DEF audioServer, uploadForm
  <1>0. /\ AudioTyped
        /\ {None, "creating", "failed", "ready"} \cap Going = {}
    BY FS_EmptySet, AudioAssumption DEF AudioInv, Going
  <1>1. ASSUME UNCHANGED <<uploads, phase, sentParts, put>>, air' \subseteq air PROVE AudioInv'
    BY <1>1, UploadsRest DEF AudioInv, AudioTyped
  <1>2. CASE \/ Ingest \/ CancelUpload \/ TracksLoaded \/ PasteTranscript \/ SaveTranscript
             \/ RequestLink \/ LinkAges \/ ClosePlayer \/ UNCHANGED audioVars
    BY <1>1, <1>2
       DEF Ingest, CancelUpload, TracksLoaded, PasteTranscript, SaveTranscript, RequestLink, LinkAges,
           ClosePlayer, audioVars
  <1>3. ASSUME NEW a \in air, PartLost(a[1], a[2]) PROVE AudioInv'
    BY <1>1, <1>3 DEF PartLost
  <1>4. CASE StartUpload
    <2>1. /\ phase \in {None, "ready", "failed"} /\ phase' = "creating" /\ UNCHANGED <<uploads, air>>
          /\ sentParts' = {} /\ put' = None
      BY <1>4 DEF StartUpload, Busy
    <2>2. phase \notin Going /\ phase' \notin Going /\ phase' \in Phases /\ phase' # "transcoding"
      BY <1>0, <2>1 DEF Phases, Going
    <2> QED
      BY <1>0, <2>1, <2>2, UploadsRest, FS_EmptySet DEF AudioTyped
  <1>5. CASE UploadRefused
    <2>1. phase \in {None, "ready", "failed"} /\ phase' = "failed" /\ UNCHANGED <<uploads, air, put, sentParts>>
      BY <1>5 DEF UploadRefused, Busy
    <2>2. phase \notin Going /\ phase' \notin Going /\ phase' \in Phases /\ phase' # "transcoding"
      BY <1>0, <2>1 DEF Phases, Going
    <2> QED
      BY <1>0, <2>1, <2>2, UploadsRest DEF AudioTyped
  <1>6. CASE UploadCreated
    BY <1>6, CreatedKeeps DEF UploadCreated
  <1>7. CASE UploadCreateFails
    <2>1. phase = "creating" /\ phase' \in {None, "failed"} /\ UNCHANGED <<air, put, sentParts>>
      BY <1>7 DEF UploadCreateFails
    <2>2. CASE TrackCreated
      BY <2>1, <2>2, CreatedKeeps
    <2>3. CASE uploads' = uploads
      <3>1. phase \notin Going /\ phase' \notin Going /\ phase' \in Phases /\ phase' # "transcoding"
        BY <1>0, <2>1 DEF Phases, Going
      <3> QED
        BY <1>0, <2>1, <2>3, <3>1, UploadsRest DEF AudioTyped
    <2> QED
      BY <1>7, <2>2, <2>3 DEF UploadCreateFails
  <1>8. CASE Assembled
    BY <1>0, <1>8, UploadsRest DEF Assembled, AudioTyped, Phases, Going
  <1>9. CASE AwaitTrack
    <2>1. phase = "transcoding" /\ phase' \in {None, "ready", "failed"} /\ UNCHANGED <<uploads, air, put, sentParts>>
      BY <1>9 DEF AwaitTrack
    <2>2. phase \in Going /\ phase' \notin Going /\ phase' \in Phases /\ phase' # "transcoding"
      BY <1>0, <2>1 DEF Phases, Going
    <2> QED
      BY <1>0, <2>1, <2>2, UploadsRest DEF AudioTyped
  <1> QED
    BY <1>2, <1>3, <1>4, <1>5, <1>6, <1>7, <1>8, <1>9, PartsKeep, StopKeeps, AssembleKeeps,
       LeaveAudioKeeps, SweepUploadsKeeps, PartArrivesKeeps DEF AudioNext

-----------------------------------------------------------------------------
(* Speaking: the matcher, round by round, whoever is in the pool.          *)

LEMMA LeastNumber ==
    ASSUME NEW T, T \subseteq Nat, T # {}
    PROVE  \E k \in T : \A l \in T : k <= l
  <1>1. PICK k \in T : \A l \in T : <<l, k>> \notin OpToRel(<, Nat)
    BY NatLessThanWellFounded, WFMin
  <1>2. \A l \in T : ~ (l < k)
    BY <1>1 DEF OpToRel
  <1> QED
    BY <1>2

LEMMA Counting ==
    ASSUME NEW N \in Nat, NEW S, 0 \in S, \A n \in 1 .. N : n - 1 \in S => n \in S
    PROVE  \A n \in 0 .. N : n \in S
  <1> SUFFICES ASSUME NEW n \in 0 .. N, n \notin S PROVE FALSE
    OBVIOUS
  <1> DEFINE Out == {k \in 0 .. N : k \notin S}
  <1>1. PICK k \in Out : \A l \in Out : k <= l
    <2>1. /\ Out \subseteq Nat
          /\ n \in Out
      OBVIOUS
    <2> HIDE DEF Out
    <2> QED
      BY <2>1, LeastNumber
  <1>2. k \in 1 .. N /\ k - 1 \in 0 .. N /\ ~ (k <= k - 1)
    BY <1>1
  <1> QED
    BY <1>1, <1>2

\* What the loop of match has made after each of its rounds.
Rounds(made, pool, minors) ==
    made = [n \in 0 .. Len(pool) |->
              IF n = 0 THEN {} ELSE Chosen(made[n - 1], pool[n], pool, minors)]

LEMMA RoundsExist ==
    ASSUME NEW P, NEW pool \in Seq(P), NEW minors
    PROVE  \E made : Rounds(made, pool, minors)
  <1> DEFINE N == Len(pool)
             Next1(m, n) == Chosen(m, pool[n], pool, minors)
             UpTo(f, k) == f = [n \in 0 .. k |-> IF n = 0 THEN {} ELSE Next1(f[n - 1], n)]
             S == {k \in 0 .. N : \E f : UpTo(f, k)}
  <1>1. N \in Nat
    OBVIOUS
  <1> HIDE DEF N, Next1
  <1>2. 0 \in S
    <2> DEFINE f == [n \in 0 .. 0 |-> {}]
    <2>1. f = [n \in 0 .. 0 |-> IF n = 0 THEN {} ELSE Next1(f[n - 1], n)]
      OBVIOUS
    <2> HIDE DEF f
    <2>2. UpTo(f, 0)
      BY <2>1
    <2> QED
      BY <1>1, <2>2
  <1>3. ASSUME NEW k \in 1 .. N, k - 1 \in S PROVE k \in S
    <2>1. PICK f : UpTo(f, k - 1)
      BY <1>3
    <2> DEFINE g == [n \in 0 .. k |-> IF n = k THEN Next1(f[k - 1], k) ELSE f[n]]
    <2>2. \A n \in 0 .. k - 1 : f[n] = IF n = 0 THEN {} ELSE Next1(f[n - 1], n)
      BY <2>1
    <2>3. \A n \in 0 .. k - 1 : g[n] = f[n]
      BY <1>1
    <2>4. g[k] = Next1(f[k - 1], k) /\ k \in 0 .. k /\ k # 0
      BY <1>1
    <2> HIDE DEF g
    <2>5. ASSUME NEW n \in 0 .. k PROVE g[n] = IF n = 0 THEN {} ELSE Next1(g[n - 1], n)
      <3>1. CASE n = k
        <4>1. k - 1 \in 0 .. k - 1
          BY <1>1
        <4> QED
          BY <2>3, <2>4, <3>1, <4>1
      <3>2. CASE n = 0
        <4>1. 0 \in 0 .. k - 1
          BY <1>1
        <4> QED
          BY <2>2, <2>3, <3>2, <4>1
      <3>3. CASE n \in 1 .. k - 1
        <4>1. n \in 0 .. k - 1 /\ n - 1 \in 0 .. k - 1 /\ n # 0
          BY <1>1, <3>3
        <4> QED
          BY <2>2, <2>3, <4>1
      <3> QED
        BY <1>1, <3>1, <3>2, <3>3
    <2>6. g = [n \in 0 .. k |-> g[n]]
      BY DEF g
    <2>7. UpTo(g, k)
      BY <2>5, <2>6
    <2> QED
      BY <1>1, <2>7
  <1>4. N \in S
    <2>1. \A k \in 1 .. N : k - 1 \in S => k \in S
      BY <1>3
    <2> HIDE DEF S
    <2>2. \A k \in 0 .. N : k \in S
      BY <1>1, <1>2, <2>1, Counting
    <2> QED
      BY <1>1, <2>2
  <1> QED
    BY <1>4 DEF Rounds, N, Next1

LEMMA MatchIsItsLastRound ==
    ASSUME NEW P, NEW pool \in Seq(P), NEW minors
    PROVE  \E made : Rounds(made, pool, minors) /\ match(pool, minors) = made[Len(pool)]
  BY RoundsExist DEF match, Rounds

\* A pair the matcher may make: two of the pool who suit each other.
Suits(m, pool, minors) ==
    \E p, q \in ToSet(pool) : p # q /\ m = {p, q} /\ _compatible(p, q, minors)

LEMMA FirstIsOfThem ==
    ASSUME NEW pool, NEW S, S \subseteq Nat
    PROVE  /\ \A q \in First(pool, S) : \E i \in S : q = pool[i]
           /\ S # {} => First(pool, S) # {}
  BY LeastNumber DEF First

LEMMA PartnerSuits ==
    ASSUME NEW P, NEW pool \in Seq(P), NEW p, NEW taken, NEW minors
    PROVE  /\ \A q \in _best_partner(p, pool, taken, minors) :
                  q \in ToSet(pool) /\ q # p /\ _compatible(p, q, minors)
           /\ _best_partner(p, pool, taken, minors) = {} =>
                  \A q \in ToSet(pool) : q \in taken \/ q = p \/ ~ _compatible(p, q, minors)
  <1> DEFINE fit == Fits(p, pool, taken, minors)
             fresh == {i \in fit : pool[i] \notin _recent_partners(p)}
             S == IF fresh # {} THEN fresh ELSE fit
  <1>1. /\ fit \subseteq DOMAIN pool /\ fresh \subseteq fit /\ DOMAIN pool \subseteq Nat
        /\ \A i \in fit : pool[i] # p /\ _compatible(p, pool[i], minors)
        /\ \A i \in DOMAIN pool \ fit :
              pool[i] \in taken \/ pool[i] = p \/ ~ _compatible(p, pool[i], minors)
    BY DEF Fits
  <1>2. _best_partner(p, pool, taken, minors) = First(pool, S)
    BY DEF _best_partner
  <1> HIDE DEF fit, fresh
  <1>3. S \subseteq fit /\ S \subseteq Nat /\ (S = {} => fit = {})
    BY <1>1
  <1> HIDE DEF S
  <1>4. /\ \A q \in First(pool, S) : \E i \in S : q = pool[i]
        /\ S # {} => First(pool, S) # {}
    BY <1>3, FirstIsOfThem
  <1>5. ToSet(pool) = {pool[i] : i \in DOMAIN pool}
    BY DEF ToSet
  <1>6. ASSUME NEW q \in First(pool, S) PROVE q \in ToSet(pool) /\ q # p /\ _compatible(p, q, minors)
    <2>1. PICK i \in S : q = pool[i]
      BY <1>4
    <2>2. i \in fit /\ i \in DOMAIN pool
      BY <1>1, <1>3
    <2> QED
      BY <1>1, <1>5, <2>1, <2>2
  <1>7. ASSUME First(pool, S) = {}, NEW q \in ToSet(pool)
        PROVE  q \in taken \/ q = p \/ ~ _compatible(p, q, minors)
    <2>1. PICK i \in DOMAIN pool : q = pool[i]
      BY <1>5
    <2>2. i \notin fit
      BY <1>3, <1>4, <1>7
    <2> QED
      BY <1>1, <2>1, <2>2
  <1> QED
    BY <1>2, <1>6, <1>7

LEMMA ChosenAdds ==
    ASSUME NEW made, NEW p, NEW pool, NEW minors
    PROVE  /\ made \subseteq Chosen(made, p, pool, minors)
           /\ \A m \in Chosen(made, p, pool, minors) \ made :
                 \E q \in _best_partner(p, pool, UNION made, minors) : m = {p, q}
           /\ p \notin UNION made =>
                 \A q \in _best_partner(p, pool, UNION made, minors) :
                     {p, q} \in Chosen(made, p, pool, minors)
  BY Zenon DEF Chosen

LEMMA MatchSuits ==
    ASSUME NEW P, NEW pool \in Seq(P), NEW minors
    PROVE  /\ \A m \in match(pool, minors) : Suits(m, pool, minors)
           /\ \A p, q \in ToSet(pool) :
                 (p # q /\ p \notin UNION match(pool, minors) /\ q \notin UNION match(pool, minors))
                 => ~ _compatible(p, q, minors)
  <1> DEFINE N == Len(pool)
  <1>1. PICK made : Rounds(made, pool, minors) /\ match(pool, minors) = made[N]
    BY MatchIsItsLastRound
  <1>2. N \in Nat /\ DOMAIN pool = 1 .. N
    OBVIOUS
  <1> HIDE DEF N
  <1>3. made[0] = {}
    BY <1>1, <1>2 DEF Rounds, N
  <1>4. ASSUME NEW n \in 1 .. N PROVE made[n] = Chosen(made[n - 1], pool[n], pool, minors)
    <2>1. \A k \in 0 .. N :
             made[k] = IF k = 0 THEN {} ELSE Chosen(made[k - 1], pool[k], pool, minors)
      BY Zenon, <1>1 DEF Rounds, N
    <2>2. n \in 0 .. N /\ n # 0
      BY <1>2
    <2> QED
      BY <2>1, <2>2
  <1>5. ASSUME NEW n \in 1 .. N, NEW m \in made[n], m \notin made[n - 1]
        PROVE  Suits(m, pool, minors)
    <2>0. made[n] = Chosen(made[n - 1], pool[n], pool, minors)
      BY <1>4
    <2>1. PICK q \in _best_partner(pool[n], pool, UNION made[n - 1], minors) : m = {pool[n], q}
      <3> DEFINE before == made[n - 1]
                 pp == pool[n]
      <3>1. made[n] = Chosen(before, pp, pool, minors) /\ m \in made[n] /\ m \notin before
        BY <2>0, <1>5
      <3> HIDE DEF before, pp
      <3>2. \E q \in _best_partner(pp, pool, UNION before, minors) : m = {pp, q}
        BY <3>1, ChosenAdds
      <3> QED
        BY <3>2 DEF before, pp
    <2>2. q \in ToSet(pool) /\ q # pool[n] /\ _compatible(pool[n], q, minors)
      BY <2>1, PartnerSuits
    <2>3. pool[n] \in ToSet(pool)
      BY <1>2 DEF ToSet
    <2> QED
      BY <2>1, <2>2, <2>3 DEF Suits
  <1>6. ASSUME NEW n \in 1 .. N PROVE made[n - 1] \subseteq made[n]
    <2>1. made[n] = Chosen(made[n - 1], pool[n], pool, minors)
      BY <1>4
    <2> DEFINE before == made[n - 1]
               pp == pool[n]
    <2>2. made[n] = Chosen(before, pp, pool, minors)
      BY <2>1
    <2> HIDE DEF before, pp
    <2>3. before \subseteq Chosen(before, pp, pool, minors)
      BY ChosenAdds
    <2> QED
      BY <2>2, <2>3 DEF before
  <1>7. \A n \in 0 .. N : \A m \in made[n] : Suits(m, pool, minors)
    <2> DEFINE S == {n \in 0 .. N : \A m \in made[n] : Suits(m, pool, minors)}
    <2>1. 0 \in S
      BY <1>2, <1>3
    <2>2. ASSUME NEW n \in 1 .. N, n - 1 \in S PROVE n \in S
      BY <1>2, <1>5, <2>2
    <2> HIDE DEF S
    <2>3. \A n \in 0 .. N : n \in S
      BY <1>2, <2>1, <2>2, Counting
    <2> QED
      BY <2>3 DEF S
  <1>8. ASSUME NEW i \in 0 .. N PROVE \A n \in i .. N : made[i] \subseteq made[n]
    <2> DEFINE S == {k \in 0 .. N - i : made[i] \subseteq made[i + k]}
    <2>1. 0 \in S /\ N - i \in Nat
      BY <1>2
    <2>2. ASSUME NEW k \in 1 .. N - i, k - 1 \in S PROVE k \in S
      <3>1. i + k \in 1 .. N /\ (i + k) - 1 = i + (k - 1) /\ k \in 0 .. N - i
        BY <1>2
      <3>2. made[i] \subseteq made[i + (k - 1)]
        BY <2>2
      <3> QED
        BY <1>6, <3>1, <3>2
    <2> HIDE DEF S
    <2>3. \A k \in 0 .. N - i : k \in S
      BY <2>1, <2>2, Counting
    <2>4. ASSUME NEW n \in i .. N PROVE made[i] \subseteq made[n]
      <3>1. n - i \in 0 .. N - i /\ i + (n - i) = n
        BY <1>2
      <3> QED
        BY <2>3, <3>1 DEF S
    <2> QED
      BY <2>4
  <1>9. ASSUME NEW p \in ToSet(pool), NEW q \in ToSet(pool),
               p # q, p \notin UNION made[N], q \notin UNION made[N]
        PROVE  ~ _compatible(p, q, minors)
    <2>1. PICK i \in 1 .. N : p = pool[i]
      BY <1>2 DEF ToSet
    <2>2. /\ i \in 0 .. N /\ i - 1 \in 0 .. N /\ N \in i .. N /\ N \in i - 1 .. N
      BY <1>2
    <2>3. p \notin UNION made[i] /\ p \notin UNION made[i - 1] /\ q \notin UNION made[i - 1]
      BY <1>8, <1>9, <2>2
    <2>4. _best_partner(p, pool, UNION made[i - 1], minors) = {}
      <3> SUFFICES ASSUME NEW r \in _best_partner(p, pool, UNION made[i - 1], minors) PROVE FALSE
        OBVIOUS
      <3>1. {p, r} \in made[i]
        BY <1>4, <2>1, <2>3, ChosenAdds
      <3> QED
        BY <2>3, <3>1
    <2> QED
      BY <1>9, <2>3, <2>4, PartnerSuits
  <1>10. N \in 0 .. N
    BY <1>2
  <1> QED
    BY <1>1, <1>7, <1>9, <1>10

-----------------------------------------------------------------------------
(* Speaking: what the matcher has read stays true of what it writes.       *)

Entries == [user : Students, status : {"waiting", "cancelled", "matched"}]
Made    == [users : SUBSET Students, origin : {"slot_batch", "live_queue"}]

\* A pair is safe, and two people do not suit, by ages and blocks of some instant.
Safe(m, asOf, blocked) ==
    /\ m \subseteq Students
    /\ m \subseteq asOf \/ m \cap asOf = {}
    /\ \A p, q \in m : <<p, q>> \notin blocked
Unsuited(p, q, asOf, blocked) ==
    \/ (p \in asOf) # (q \in asOf)
    \/ {<<p, q>>, <<q, p>>} \cap blocked # {}

\* Nobody blocks themselves; blocks are only added while the matcher works.
SpeakingInv ==
    /\ queueEntries \in Seq(Entries) /\ pairs \in Seq(Made)
    /\ \A p \in Students : <<p, p>> \notin blocks
    /\ reading # None =>
          /\ reading.blocks \subseteq blocks /\ reading.pool \in Seq(Students)
          /\ \A m \in reading.pairs : Safe(m, reading.asOf, reading.blocks)
          /\ \A p, q \in ToSet(reading.pool) :
                (p # q /\ p \notin UNION reading.pairs /\ q \notin UNION reading.pairs)
                => Unsuited(p, q, reading.asOf, reading.blocks)

SafeStep == \A m \in New : Safe(m, reading.asOf, reading.blocks)
PoolStep == \A p, q \in noPartner' \ noPartner : p # q => Unsuited(p, q, reading.asOf, reading.blocks)

LEMMA SpeakingStarts == SpeakingInit => SpeakingInv
  <1> SUFFICES ASSUME SpeakingInit PROVE SpeakingInv
    OBVIOUS
  <1>1. queueEntries = <<>> /\ pairs = <<>> /\ blocks = {} /\ reading = None
    BY DEF SpeakingInit
  <1>2. <<>> \in Seq(Entries) /\ <<>> \in Seq(Made)
    OBVIOUS
  <1> QED
    BY <1>1, <1>2 DEF SpeakingInv

LEMMA MatchIsSafe ==
    ASSUME NEW pool \in Seq(Students), NEW asOf, \A p \in Students : <<p, p>> \notin blocks
    PROVE  /\ \A m \in match(pool, minorsAtMatch(asOf)) : Safe(m, asOf, blocks)
           /\ \A p, q \in ToSet(pool) :
                 (/\ p # q
                  /\ p \notin UNION match(pool, minorsAtMatch(asOf))
                  /\ q \notin UNION match(pool, minorsAtMatch(asOf)))
                 => Unsuited(p, q, asOf, blocks)
  <1> DEFINE minors == minorsAtMatch(asOf)
  <1>1. ToSet(pool) \subseteq Students
    BY DEF ToSet
  <1>2. \A p \in Students : p \in minors <=> p \notin asOf
    BY DEF minorsAtMatch
  <1>3. \A p, q \in Students : _compatible(p, q, minors) <=>
            /\ p \in minors <=> q \in minors
            /\ <<p, q>> \notin blocks /\ <<q, p>> \notin blocks
    BY DEF _compatible, _blocked
  <1>4. /\ \A m \in match(pool, minors) : Suits(m, pool, minors)
        /\ \A p, q \in ToSet(pool) :
              (p # q /\ p \notin UNION match(pool, minors) /\ q \notin UNION match(pool, minors))
              => ~ _compatible(p, q, minors)
    BY MatchSuits
  <1> HIDE DEF minors
  <1>5. ASSUME NEW m, Suits(m, pool, minors) PROVE Safe(m, asOf, blocks)
    <2>1. PICK p, q \in Students : m = {p, q} /\ _compatible(p, q, minors)
      BY <1>1, <1>5 DEF Suits
    <2> QED
      BY <1>2, <1>3, <2>1 DEF Safe
  <1>6. ASSUME NEW p \in Students, NEW q \in Students, ~ _compatible(p, q, minors)
        PROVE  Unsuited(p, q, asOf, blocks)
    <2>1. CASE ~ (p \in asOf <=> q \in asOf)
      BY <2>1 DEF Unsuited
    <2>2. CASE p \in asOf <=> q \in asOf
      <3>1. p \in minors <=> q \in minors
        BY Zenon, <1>2, <2>2
      <3>2. <<p, q>> \in blocks \/ <<q, p>> \in blocks
        BY Zenon, <1>3, <1>6, <3>1
      <3> QED
        BY <3>2 DEF Unsuited
    <2> QED
      BY <2>1, <2>2
  <1> QED
    BY <1>1, <1>4, <1>5, <1>6 DEF minors

\* In a line of people everybody is one of those who form it.
LEMMA LinesAreSequences ==
    ASSUME NEW S, IsFiniteSet(S), NEW line \in [1 .. Cardinality(S) -> S]
    PROVE  line \in Seq(S)
  BY FS_CardinalityType

LEMMA NewPairsAreOfTheMade ==
    ASSUME NEW made, made \subseteq SUBSET Students, NEW origin
    PROVE  NewPairs(made, origin) \in Seq([users : made, origin : {origin}])
  <1>1. IsFiniteSet(made)
    BY SpeakingAssumption, FS_SUBSET, FS_Subset
  <1>2. \E f \in [1 .. Cardinality(made) -> made] : IsInjective(f)
    BY <1>1, FS_CardinalityType DEF ExistsBijection, Bijection, Injection, IsInjective
  <1>3. SetToSeq(made) \in [1 .. Cardinality(made) -> made]
    BY <1>2 DEF SetToSeq
  <1>4. SetToSeq(made) \in Seq(made)
    BY <1>1, <1>3, LinesAreSequences
  <1> DEFINE line == SetToSeq(made)
  <1>5. NewPairs(made, origin) = [i \in 1 .. Len(line) |-> [users |-> line[i], origin |-> origin]]
    BY <1>4 DEF NewPairs
  <1> HIDE DEF line
  <1>6. \A i \in 1 .. Len(line) : [users |-> line[i], origin |-> origin] \in [users : made, origin : {origin}]
    BY <1>4 DEF line
  <1>7. Len(line) \in Nat
    BY <1>4 DEF line
  <1> QED
    BY <1>5, <1>6, <1>7

LEMMA SeqOfMore ==
    ASSUME NEW S, NEW T, S \subseteq T, NEW s \in Seq(S)
    PROVE  s \in Seq(T)
  OBVIOUS

LEMMA Joined ==
    ASSUME NEW A, NEW B, NEW C, NEW a \in Seq(A), NEW b \in Seq(B), NEW c \in Seq(C),
           NEW i \in DOMAIN (a \o b \o c) \ DOMAIN a
    PROVE  (a \o b \o c)[i] \in B \cup C
  OBVIOUS

LEMMA TickReadsKeeps == ASSUME SpeakingInv, TickReads PROVE SpeakingInv'
  <1>1. PICK line \in IF Due THEN ByArrival ELSE {<<>>} :
           reading' = [slot |-> Due, asOf |-> adults, blocks |-> blocks, pool |-> line,
                       pairs |-> match(line, minorsAtMatch(adults))]
    BY DEF TickReads
  <1>2. line \in Seq(Students)
    <2>1. CASE Due
      <3>1. IsFiniteSet(CheckedIn) /\ CheckedIn \subseteq Students
        BY SpeakingAssumption, FS_Subset DEF CheckedIn
      <3>2. line \in [1 .. Cardinality(CheckedIn) -> CheckedIn]
        BY <1>1, <2>1 DEF ByArrival
      <3>3. line \in Seq(CheckedIn)
        BY <3>1, <3>2, LinesAreSequences
      <3> QED
        BY <3>1, <3>3
    <2>2. CASE ~ Due
      BY <1>1, <2>2
    <2> QED
      BY <2>1, <2>2
  <1>3. UNCHANGED <<queueEntries, pairs, blocks>> /\ \A p \in Students : <<p, p>> \notin blocks
    BY DEF TickReads, SpeakingInv
  <1> DEFINE made == match(line, minorsAtMatch(adults))
  <1>4. /\ \A m \in made : Safe(m, adults, blocks)
        /\ \A p, q \in ToSet(line) :
              (p # q /\ p \notin UNION made /\ q \notin UNION made) => Unsuited(p, q, adults, blocks)
    BY <1>2, <1>3, MatchIsSafe
  <1>5. /\ reading'.asOf = adults /\ reading'.blocks = blocks
        /\ reading'.pool = line /\ reading'.pairs = made
    BY <1>1
  <1> HIDE DEF made
  <1> QED
    BY <1>2, <1>3, <1>4, <1>5 DEF SpeakingInv

LEMMA TickCommitsKeeps ==
    ASSUME SpeakingInv, TickCommits
    PROVE  SpeakingInv' /\ SafeStep /\ PoolStep
  <1>1. PICK line \in ByEntry :
          /\ pairs' = pairs \o NewPairs(reading.pairs, "slot_batch")
                            \o NewPairs(queuePairs(line), "live_queue")
          /\ queueEntries' = [i \in DOMAIN queueEntries |->
               IF \E m \in queuePairs(line) : \E p \in m : i = entryOf(p)
               THEN [queueEntries[i] EXCEPT !.status = "matched"] ELSE queueEntries[i]]
    BY DEF TickCommits
  <1> DEFINE made == queuePairs(line)
             pool == queuePool(line)
             A == NewPairs(reading.pairs, "slot_batch")
             B == NewPairs(made, "live_queue")
  <1>2. reading # None /\ reading' = None /\ blocks' = blocks
    BY DEF TickCommits
  <1>3. queueEntries \in Seq(Entries) /\ pairs \in Seq(Made) /\ \A p \in Students : <<p, p>> \notin blocks
    BY DEF SpeakingInv
  <1>4. /\ reading.blocks \subseteq blocks
        /\ \A m \in reading.pairs : Safe(m, reading.asOf, reading.blocks)
    BY <1>2 DEF SpeakingInv
  <1>5. pool \in Seq(Students)
    <2>1. DOMAIN queueEntries = 1 .. Len(queueEntries) /\ Len(queueEntries) \in Nat
      BY <1>3
    <2>2. IsFiniteSet(Waiting) /\ Waiting \subseteq DOMAIN queueEntries
      <3>1. Waiting \subseteq 1 .. Len(queueEntries)
        BY <2>1 DEF Waiting
      <3>2. IsFiniteSet(1 .. Len(queueEntries))
        BY <2>1, FS_Interval
      <3> QED
        BY <2>1, <3>1, <3>2, FS_Subset
    <2>3. line \in Seq(Waiting)
      BY <1>1, <2>2, LinesAreSequences DEF ByEntry
    <2>4. ASSUME NEW i \in 1 .. Len(line) PROVE queueEntries[line[i]].user \in Students
      <3>1. line[i] \in DOMAIN queueEntries
        BY <2>2, <2>3
      <3>2. queueEntries[line[i]] \in Entries
        BY <1>3, <3>1
      <3> QED
        BY <3>2 DEF Entries
    <2>5. pool = [i \in 1 .. Len(line) |-> queueEntries[line[i]].user] /\ Len(line) \in Nat
      BY <2>3 DEF queuePool
    <2> QED
      BY <2>4, <2>5
  <1>6. \A m \in made : Safe(m, reading.asOf, blocks)
    BY <1>3, <1>5, MatchIsSafe DEF queuePairs
  <1> HIDE DEF made, pool, A, B
  <1>7. /\ reading.pairs \subseteq SUBSET Students /\ made \subseteq SUBSET Students
        /\ \A m \in made \cup reading.pairs : Safe(m, reading.asOf, reading.blocks)
    BY <1>4, <1>6 DEF Safe
  <1>8. /\ A \in Seq([users : reading.pairs, origin : {"slot_batch"}])
        /\ B \in Seq([users : made, origin : {"live_queue"}])
    BY <1>7, NewPairsAreOfTheMade DEF A, B
  <1>9. pairs' = pairs \o A \o B
    BY <1>1 DEF A, B, made
  <1>10. pairs' \in Seq(Made)
    <2>1. A \in Seq(Made) /\ B \in Seq(Made)
      <3>1. /\ [users : reading.pairs, origin : {"slot_batch"}] \subseteq Made
            /\ [users : made, origin : {"live_queue"}] \subseteq Made
        BY <1>7 DEF Made
      <3> QED
        BY <1>8, <3>1, SeqOfMore
    <2> QED
      BY <1>3, <1>9, <2>1
  <1>11. SafeStep
    <2> SUFFICES ASSUME NEW i \in DOMAIN pairs' \ DOMAIN pairs
                 PROVE  Safe(pairs'[i].users, reading.asOf, reading.blocks)
      BY DEF SafeStep, New
    <2> DEFINE RA == [users : reading.pairs, origin : {"slot_batch"}]
               RB == [users : made, origin : {"live_queue"}]
    <2>1. pairs'[i] \in RA \cup RB
      <3>1. A \in Seq(RA) /\ B \in Seq(RB) /\ i \in DOMAIN (pairs \o A \o B) \ DOMAIN pairs
        BY <1>8, <1>9
      <3> HIDE DEF RA, RB
      <3>2. (pairs \o A \o B)[i] \in RA \cup RB
        BY <1>3, <3>1, Joined
      <3> QED
        BY <1>9, <3>2
    <2>2. pairs'[i].users \in made \cup reading.pairs
      BY <2>1
    <2> QED
      BY <1>7, <2>2
  <1>12. PoolStep
    <2> SUFFICES ASSUME NEW p \in noPartner' \ noPartner, NEW q \in noPartner' \ noPartner, p # q
                 PROVE  Unsuited(p, q, reading.asOf, reading.blocks)
      BY DEF PoolStep
    <2>1. reading.slot /\ SlotWritten
      BY DEF TickCommits
    <2>2. noPartner' = {r \in ToSet(reading.pool) : \A m \in reading.pairs : r \notin m}
      BY <2>1 DEF SlotWritten
    <2> QED
      BY <1>2, <2>2 DEF SpeakingInv
  <1>13. queueEntries' \in Seq(Entries)
    <2> DEFINE after(i) == IF \E m \in made : \E p \in m : i = entryOf(p)
                           THEN [queueEntries[i] EXCEPT !.status = "matched"] ELSE queueEntries[i]
    <2>1. ASSUME NEW i \in 1 .. Len(queueEntries) PROVE after(i) \in Entries
      <3>1. queueEntries[i] \in Entries
        BY <1>3
      <3>2. [queueEntries[i] EXCEPT !.status = "matched"] \in Entries
        BY <3>1 DEF Entries
      <3> QED
        BY <3>1, <3>2
    <2>2. queueEntries' = [i \in 1 .. Len(queueEntries) |-> after(i)] /\ Len(queueEntries) \in Nat
      BY <1>1, <1>3 DEF made
    <2> HIDE DEF after
    <2> QED
      BY <2>1, <2>2
  <1> QED
    BY <1>2, <1>3, <1>10, <1>11, <1>12, <1>13 DEF SpeakingInv

LEMMA LeavingIsEntries ==
    ASSUME NEW p, queueEntries \in Seq(Entries)
    PROVE  Leaving(p) \in Seq(Entries)
  <1> DEFINE after(i) == IF queueEntries[i].user = p /\ queueEntries[i].status = "waiting"
                         THEN [queueEntries[i] EXCEPT !.status = "cancelled"] ELSE queueEntries[i]
  <1>1. ASSUME NEW i \in 1 .. Len(queueEntries) PROVE after(i) \in Entries
    <2>1. queueEntries[i] \in Entries
      OBVIOUS
    <2>2. [queueEntries[i] EXCEPT !.status = "cancelled"] \in Entries
      BY <2>1 DEF Entries
    <2> QED
      BY <2>1, <2>2
  <1>2. Leaving(p) = [i \in 1 .. Len(queueEntries) |-> after(i)] /\ Len(queueEntries) \in Nat
    BY DEF Leaving
  <1> HIDE DEF after
  <1> QED
    BY <1>1, <1>2

LEMMA SpeakingSteps ==
    ASSUME SpeakingInv, [SpeakingNext]_speakingVars
    PROVE  /\ SpeakingInv'
           /\ pairs' # pairs => SafeStep
           /\ noPartner' # noPartner => PoolStep
  <1>1. ASSUME UNCHANGED <<blocks, queueEntries, pairs, reading, noPartner>>
        PROVE  SpeakingInv' /\ UNCHANGED <<pairs, noPartner>>
    BY <1>1 DEF SpeakingInv
  <1>2. ASSUME NEW p, NEW q, BlockUser(p, q) PROVE SpeakingInv' /\ UNCHANGED <<pairs, noPartner>>
    <2>1. /\ blocks' = blocks \cup {<<p, q>>} /\ p # q
          /\ UNCHANGED <<queueEntries, pairs, reading, noPartner>>
      BY <1>2 DEF BlockUser
    <2> QED
      BY <2>1 DEF SpeakingInv
  <1>3. ASSUME NEW p \in Students, join_queue(p) \/ leave_queue(p)
        PROVE  SpeakingInv' /\ UNCHANGED <<pairs, noPartner>>
    <2>1. Leaving(p) \in Seq(Entries)
      BY LeavingIsEntries DEF SpeakingInv
    <2>2. [user |-> p, status |-> "waiting"] \in Entries
      BY DEF Entries
    <2>3. /\ queueEntries' \in {Leaving(p), Append(Leaving(p), [user |-> p, status |-> "waiting"])}
          /\ UNCHANGED <<blocks, pairs, reading, noPartner>>
      BY <1>3 DEF join_queue, leave_queue
    <2>4. queueEntries' \in Seq(Entries)
      BY <2>1, <2>2, <2>3
    <2> QED
      BY <2>3, <2>4 DEF SpeakingInv
  <1>4. CASE TickDies
    BY <1>4 DEF TickDies, SpeakingInv
  <1>5. CASE TickReads
    BY <1>5, TickReadsKeeps DEF TickReads
  <1>6. CASE TickCommits
    BY <1>6, TickCommitsKeeps
  <1>7. CASE \/ SlotTime \/ UNCHANGED speakingVars
             \/ \E p \in Students : \/ Birthday(p) \/ BookCounts(p) \/ book_slot(p)
                                    \/ cancel_booking(p) \/ check_in(p)
    <2>1. UNCHANGED <<blocks, queueEntries, pairs, reading, noPartner>>
      BY <1>7 DEF SlotTime, speakingVars, Birthday, BookCounts, book_slot, cancel_booking, check_in
    <2> QED
      BY <1>1, <2>1
  <1> QED
    BY <1>2, <1>3, <1>4, <1>5, <1>6, <1>7 DEF SpeakingNext

-----------------------------------------------------------------------------
(* The screens together                                                    *)

ScreensInv ==
    /\ AudioInv /\ BillingInv /\ SpeakingInv /\ ModerationInv /\ AsksOfARow

LEMMA OneScreen ==
    ASSUME [Next]_allVars
    PROVE  /\ [AudioNext]_audioVars /\ [PaneNext]_paneVars /\ [SessionNext]_sessionVars
           /\ [BillingNext]_billingVars
           /\ [SpeakingNext]_speakingVars /\ [ModerationNext]_moderationVars
  BY DEF Next, allVars

LEMMA ScreensStart == Init => ScreensInv
  BY AudioStarts, BillingStarts, SpeakingStarts, ModerationStarts DEF Init, ScreensInv

LEMMA ScreensStep == ScreensInv /\ [Next]_allVars => ScreensInv'
  BY OneScreen, AudioSteps, BillingSteps, SpeakingSteps, ModerationSteps, AskingSteps DEF ScreensInv

THEOREM ScreensInvariance == Spec => []ScreensInv
  BY ScreensStart, ScreensStep, PTL DEF Spec

(* StoppedIsDiscarded: for files of any number of parts and any number of      *)
(* uploads, in whatever order parts, aborts and the sweeper reach the store,   *)
(* one that stopped leaves nothing in it but what StoppedIsDiscarded excepts   *)
(* (upload.ts, storage.py).                                                    *)
THEOREM NoPartIsLeftBehind == Spec => []StoppedIsDiscarded
  <1>1. ScreensInv => StoppedIsDiscarded
    BY DEF ScreensInv, AudioInv, Discarded, StoppedIsDiscarded
  <1> QED
    BY <1>1, ScreensInvariance, PTL

(* OneUnseenOrder: a second press is a retry until the first order is on the   *)
(* screen, for any prices, quantities and centres (Billing.tsx, keys).         *)
THEOREM APressIsARetry == Spec => []OneUnseenOrder
  <1>1. ScreensInv => OneUnseenOrder
    BY UnseenIsOne DEF ScreensInv
  <1> QED
    BY <1>1, ScreensInvariance, PTL

(* ActsOnItsSubject: an action taken from a row falls on the person of the     *)
(* report it is recorded against (ActionForm's key).                           *)
THEOREM RowsNameTheirPerson == Spec => []ActsOnItsSubject
  <1>1. ScreensInv => ActsOnItsSubject
    BY DEF ScreensInv, ModerationInv
  <1> QED
    BY <1>1, ScreensInvariance, PTL

(* PairsAreSafe: whoever is in the pool, however long it is and whatever       *)
(* happens while the matcher works, each pair that a tick writes is of minors  *)
(* or of adults alone, and of no two people of whom one blocked the other      *)
(* (match, _compatible, _blocked).                                             *)
THEOREM NoUnsafePair == Spec => PairsAreSafe
  <1>1. ScreensInv /\ [Next]_allVars => [SafeStep]_pairs
    BY OneScreen, SpeakingSteps DEF ScreensInv
  <1>2. [SafeStep]_pairs =>
          [\A m \in New :
             /\ m \subseteq reading.asOf \/ m \cap reading.asOf = {}
             /\ \A p, q \in m : <<p, q>> \notin reading.blocks]_pairs
    BY DEF SafeStep, Safe
  <1> QED
    BY <1>1, <1>2, ScreensInvariance, PTL DEF Spec, PairsAreSafe

(* LeftOverIsThePool: no two of those a tick tells that there was nobody for   *)
(* them would have suited each other: the greedy rounds of the matcher leave   *)
(* no pair unmade (match, _best_partner).                                      *)
THEOREM NoPairIsLeftUnmade == Spec => LeftOverIsThePool
  <1>1. ScreensInv /\ [Next]_allVars => [PoolStep]_noPartner
    BY OneScreen, SpeakingSteps DEF ScreensInv
  <1>2. [PoolStep]_noPartner =>
          [\A p, q \in noPartner' \ noPartner :
             p # q => \/ (p \in reading.asOf) # (q \in reading.asOf)
                      \/ {<<p, q>>, <<q, p>>} \cap reading.blocks # {}]_noPartner
    BY DEF PoolStep, Unsuited
  <1> QED
    BY <1>1, <1>2, ScreensInvariance, PTL DEF Spec, LeftOverIsThePool

(* OnlyALossLooksLikeTheft: where one page is open, however many requests are  *)
(* refused at once, a rotated token is taken for a stolen one only after a     *)
(* refresh was given up, a revoked one only after that or a sign-out           *)
(* (session.ts, refreshing).                                                   *)
THEOREM OnePageIsNoThief ==
    ASSUME OneTab PROVE Spec => []OnlyALossLooksLikeTheft
  <1>1. Init => SessionInv
    BY SessionStarts DEF Init
  <1>2. SessionInv /\ [Next]_allVars => SessionInv'
    BY OneScreen, SessionSteps
  <1>3. SessionInv => OnlyALossLooksLikeTheft
    BY DEF SessionInv, NothingSpent, NothingRevoked, OnlyALossLooksLikeTheft
  <1> QED
    BY <1>1, <1>2, <1>3, PTL DEF Spec

(* HighlightsAreMarks: on its screen among the others, the reading pane marks  *)
(* the characters of Highlighter.                                              *)
THEOREM PaneOnItsScreen == Spec => HighlightsAreMarks
  <1>1. Init => PaneInit
    BY DEF Init
  <1>2. [Next]_allVars => [PaneNext]_paneVars
    BY OneScreen
  <1>3. Spec => PaneSpec
    BY <1>1, <1>2, PTL DEF Spec, PaneSpec
  <1> QED
    BY <1>3, PaneImplementsHighlighter

=============================================================================
