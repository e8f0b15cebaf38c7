--------------------------- MODULE PaymentsProofs ---------------------------
(***************************************************************************)
(* An order is granted once, with its money, in the step that captures it, *)
(* and a cancelled transaction stays cancelled: for any number of orders,  *)
(* transactions and threads.                                               *)
(***************************************************************************)
EXTENDS Payments, TLAPS

\* What a call in the middle of its transaction knows, kept true by its locks.
PayLock == \A c, d \in Calls :
    HoldsPayment(c) /\ HoldsPayment(d) /\ call[c].txn = call[d].txn => c = d

OrderLock == \A c, d \in Calls :
    HoldsOrder(c) /\ HoldsOrder(d) /\ Ord(c) = Ord(d) => c = d

CallsOwn == \A c \in Calls : call[c] # Idle =>
    /\ call[c].method \in Phases <=> call[c].txn \in ClickTxns
    /\ call[c].at \in {"order", "grant"} => Captures(c)

\* The payment row a call has locked is still as the call found it.
RowKept == \A c \in Calls : HoldsPayment(c) =>
    /\ call[c].method = "create"  => pay[call[c].txn] = "none"
    /\ call[c].method = "perform" => pay[call[c].txn] \in {"authorized", "captured"}

ClickNotCancelled == \A t \in ClickTxns : pay[t] # "cancelled"

\* What NOT EXISTS found still holds when the call commits.
GrantKnown == \A c \in Calls : call[c].at = "commit" /\ Captures(c) =>
    /\ call[c].grants => live[Ord(c)] = 0
    /\ ~ call[c].grants /\ Ord(c) \in Granting => live[Ord(c)] + revoked[Ord(c)] >= 1

IInv ==
    /\ TypeOK /\ PayLock /\ OrderLock /\ CallsOwn /\ RowKept /\ ClickNotCancelled
    /\ GrantKnown /\ GrantedOnce /\ PaidIsGranted /\ GrantHasMoney

-----------------------------------------------------------------------------
(* The initial states satisfy the inductive invariant. *)
LEMMA InitInv == Init => IInv
  <1> SUFFICES ASSUME Init PROVE IInv
    OBVIOUS
  <1>1. TypeOK
    BY PaymentsAssumption DEF Init, TypeOK, Txns
  <1>2. PaidIsGranted
    BY PaymentsAssumption DEF Init, PaidIsGranted
  <1> QED
    BY <1>1, <1>2 DEF Init, IInv, PayLock, OrderLock, CallsOwn, RowKept, ClickNotCancelled,
       GrantKnown, GrantedOnce, GrantHasMoney, HoldsPayment, HoldsOrder, Idle, Txns

(* The order of an open call is an order. *)
LEMMA OrdType ==
    ASSUME TypeOK, NEW c \in Calls, call[c] # Idle
    PROVE  call[c].txn \in Txns /\ Ord(c) \in Orders
  BY PaymentsAssumption DEF TypeOK, Ord

(* A call that opens holds nothing yet. *)
LEMMA OpenInv ==
    ASSUME IInv, NEW c \in Calls, NEW t \in Txns,
           NEW m \in Phases \cup {"create", "perform", "cancel"},
           m \in Phases <=> t \in ClickTxns, Open(c, m, t)
    PROVE  IInv'
  <1> DEFINE new == [at |-> "payment", method |-> m, txn |-> t, grants |-> FALSE]
  <1>1. /\ call' = [call EXCEPT ![c] = new]
        /\ UNCHANGED <<order, pay, captured, log, live, revoked>>
    BY DEF Open
  <1>2. TypeOK /\ TypeOK'
    BY <1>1 DEF IInv, TypeOK
  <1>3. \A d \in Calls : call'[d] = IF d = c THEN new ELSE call[d]
    BY <1>1, <1>2 DEF TypeOK
  <1>4. \A d \in Calls : HoldsPayment(d)' \/ HoldsOrder(d)' => d # c /\ call'[d] = call[d]
    BY <1>3 DEF HoldsPayment, HoldsOrder
  <1>5. PayLock' /\ OrderLock'
    BY <1>3, <1>4 DEF IInv, PayLock, OrderLock, HoldsPayment, HoldsOrder, Ord
  <1>6. CallsOwn'
    BY <1>3 DEF IInv, CallsOwn, Captures
  <1>7. RowKept' /\ ClickNotCancelled'
    BY <1>1, <1>3, <1>4 DEF IInv, RowKept, ClickNotCancelled, HoldsPayment
  <1>8. GrantKnown'
    BY <1>1, <1>3 DEF IInv, GrantKnown, Captures, Ord
  <1> QED
    BY <1>1, <1>2, <1>5, <1>6, <1>7, <1>8 DEF IInv, GrantedOnce, PaidIsGranted, GrantHasMoney

(* A call that ends without its commit leaves the tables alone. *)
LEMMA IdleInv ==
    ASSUME IInv, NEW c \in Calls, call' = [call EXCEPT ![c] = Idle],
           UNCHANGED <<order, pay, captured, log, live, revoked>>
    PROVE  IInv'
  <1>1. TypeOK /\ TypeOK'
    BY DEF IInv, TypeOK
  <1>2. \A d \in Calls : call'[d] = IF d = c THEN Idle ELSE call[d]
    BY <1>1 DEF TypeOK
  <1>3. \A d \in Calls : HoldsPayment(d)' \/ HoldsOrder(d)' => d # c /\ call'[d] = call[d]
    BY <1>2 DEF HoldsPayment, HoldsOrder, Idle
  <1>4. PayLock' /\ OrderLock'
    BY <1>2, <1>3 DEF IInv, PayLock, OrderLock, HoldsPayment, HoldsOrder, Ord
  <1>5. CallsOwn' /\ RowKept' /\ ClickNotCancelled'
    BY <1>2, <1>3 DEF IInv, CallsOwn, RowKept, ClickNotCancelled, HoldsPayment, Captures, Idle
  <1>6. GrantKnown'
    BY <1>2 DEF IInv, GrantKnown, Captures, Ord, Idle
  <1> QED
    BY <1>1, <1>4, <1>5, <1>6 DEF IInv, GrantedOnce, PaidIsGranted, GrantHasMoney

(* The statement on the payment row takes its lock where no other call holds *)
(* it, and finds the row as it needs it.                                     *)
LEMMA PaymentStepInv ==
    ASSUME IInv, NEW c \in Calls, PaymentStep(c)
    PROVE  IInv'
  <1>1. CASE ~ Writes(c)
    BY <1>1, IdleInv DEF PaymentStep
  <1>2. CASE Writes(c)
    <2> DEFINE to == IF Captures(c) THEN "order" ELSE "commit"
    <2>1. /\ call[c].at = "payment" /\ PaymentFree(c)
          /\ call' = [call EXCEPT ![c].at = to]
          /\ UNCHANGED <<order, pay, captured, log, live, revoked>>
      BY <1>2 DEF PaymentStep, Goes
    <2>2. TypeOK
      BY DEF IInv
    <2>3. call[c] # Idle
      BY <2>1 DEF Idle
    <2>4. TypeOK'
      BY <2>1, <2>2, <2>3 DEF TypeOK
    <2>5. /\ call'[c].at = to /\ call'[c].method = call[c].method
          /\ call'[c].txn = call[c].txn /\ call'[c] # Idle
          /\ \A d \in Calls \ {c} : call'[d] = call[d]
      BY <2>1, <2>2, <2>3 DEF TypeOK, Idle
    <2>6. PayLock'
      BY <2>5, <2>1 DEF IInv, PayLock, HoldsPayment, PaymentFree
    <2>7. \A d \in Calls : HoldsOrder(d)' => d # c /\ HoldsOrder(d)
      BY <2>5 DEF HoldsOrder, Captures
    <2>8. OrderLock'
      BY <2>5, <2>7 DEF IInv, OrderLock, Ord
    <2>9. CallsOwn'
      BY <2>3, <2>5 DEF IInv, CallsOwn, Captures
    <2>10. RowKept'
      <3>1. /\ call[c].method = "create"  => pay[call[c].txn] = "none"
            /\ call[c].method = "perform" => pay[call[c].txn] \in {"authorized", "captured"}
        BY <1>2 DEF Writes, Performable, Phases
      <3>2. \A d \in Calls \ {c} : HoldsPayment(d)' => HoldsPayment(d)
        BY <2>5 DEF HoldsPayment
      <3> QED
        BY <2>1, <2>5, <3>1, <3>2 DEF IInv, RowKept
    <2>11. GrantKnown'
      BY <2>1, <2>5 DEF IInv, GrantKnown, Captures, Ord
    <2> QED
      BY <2>1, <2>4, <2>6, <2>8, <2>9, <2>10, <2>11
         DEF IInv, ClickNotCancelled, GrantedOnce, PaidIsGranted, GrantHasMoney
  <1> QED
    BY <1>1, <1>2

(* The order row is locked where no other call holds it. *)
LEMMA OrderStepInv ==
    ASSUME IInv, NEW c \in Calls, OrderStep(c)
    PROVE  IInv'
  <1>1. /\ call[c].at = "order" /\ OrderFree(c)
        /\ call' = [call EXCEPT ![c].at = "grant"]
        /\ UNCHANGED <<order, pay, captured, log, live, revoked>>
    BY DEF OrderStep, Goes
  <1>2. TypeOK /\ call[c] # Idle
    BY <1>1 DEF IInv, Idle
  <1>3. TypeOK'
    BY <1>1, <1>2 DEF TypeOK
  <1>4. /\ call'[c].at = "grant" /\ call'[c].method = call[c].method
        /\ call'[c].txn = call[c].txn /\ call'[c] # Idle
        /\ \A d \in Calls \ {c} : call'[d] = call[d]
    BY <1>1, <1>2 DEF TypeOK, Idle
  <1>5. PayLock' /\ RowKept'
    BY <1>1, <1>4 DEF IInv, PayLock, RowKept, HoldsPayment
  <1>6. OrderLock'
    BY <1>1, <1>4 DEF IInv, OrderLock, HoldsOrder, OrderFree, Ord
  <1>7. CallsOwn' /\ GrantKnown'
    BY <1>1, <1>2, <1>4 DEF IInv, CallsOwn, GrantKnown, Captures, Ord
  <1> QED
    BY <1>1, <1>3, <1>5, <1>6, <1>7 DEF IInv, ClickNotCancelled, GrantedOnce, PaidIsGranted, GrantHasMoney

(* NOT EXISTS looks while the order's lock is held. *)
LEMMA GrantStepInv ==
    ASSUME IInv, NEW c \in Calls, GrantStep(c)
    PROVE  IInv'
  <1>1. PICK g \in BOOLEAN :
           /\ call' = [call EXCEPT ![c].at = "commit", ![c].grants = g]
           /\ g <=> Ungranted(Ord(c))
    BY Zenon DEF GrantStep, Ungranted
  <1>2. call[c].at = "grant" /\ UNCHANGED <<order, pay, captured, log, live, revoked>>
    BY DEF GrantStep
  <1>3. TypeOK /\ call[c] # Idle
    BY <1>2 DEF IInv, Idle
  <1>4. TypeOK'
    <2> DEFINE Open_ == [at : {"payment", "order", "grant", "commit"},
                         method : Phases \cup {"create", "perform", "cancel"},
                         txn : Txns, grants : BOOLEAN]
    <2>1. call[c] \in Open_
      BY <1>3 DEF TypeOK
    <2>2. [call[c] EXCEPT !.at = "commit", !.grants = g] \in Open_
      BY <2>1
    <2>3. call' = [call EXCEPT ![c] = [call[c] EXCEPT !.at = "commit", !.grants = g]]
      BY <1>1, <1>3 DEF TypeOK
    <2>4. call' \in [Calls -> {Idle} \cup Open_]
      <3> HIDE DEF Open_
      <3>1. call \in [Calls -> {Idle} \cup Open_]
        BY <1>3 DEF TypeOK, Open_
      <3> QED
        BY <2>2, <2>3, <3>1
    <2> QED
      BY <1>2, <1>3, <2>4 DEF TypeOK
  <1>5. /\ call'[c].at = "commit" /\ call'[c].method = call[c].method
        /\ call'[c].txn = call[c].txn /\ call'[c] # Idle
        /\ \A d \in Calls \ {c} : call'[d] = call[d]
    BY <1>1, <1>3 DEF TypeOK, Idle
  <1>6. call'[c].grants = g
    BY <1>1, <1>3 DEF TypeOK
  <1>7. PayLock' /\ RowKept'
    BY <1>2, <1>5 DEF IInv, PayLock, RowKept, HoldsPayment
  <1>8. Captures(c)
    BY <1>2, <1>3 DEF IInv, CallsOwn
  <1>9. \A d \in Calls : HoldsOrder(d)' => HoldsOrder(d)
    BY <1>2, <1>5, <1>8 DEF HoldsOrder, Captures
  <1>10. OrderLock'
    BY <1>5, <1>9 DEF IInv, OrderLock, Ord
  <1>11. CallsOwn'
    BY <1>3, <1>5 DEF IInv, CallsOwn, Captures
  <1>12. Ord(c) \in Orders /\ live[Ord(c)] \in Nat /\ revoked[Ord(c)] \in Nat
    BY <1>3, OrdType DEF TypeOK
  <1>13. Ord(c)' = Ord(c)
    BY <1>5 DEF Ord
  <1>14. /\ g => live'[Ord(c)'] = 0
         /\ ~ g /\ Ord(c)' \in Granting => live'[Ord(c)'] + revoked'[Ord(c)'] >= 1
    BY <1>1, <1>2, <1>12, <1>13 DEF Ungranted
  <1>15. GrantKnown'
    <2> SUFFICES ASSUME NEW d \in Calls, call'[d].at = "commit", Captures(d)'
                 PROVE  /\ call'[d].grants => live'[Ord(d)'] = 0
                        /\ ~ call'[d].grants /\ Ord(d)' \in Granting => live'[Ord(d)'] + revoked'[Ord(d)'] >= 1
      BY DEF GrantKnown
    <2>1. CASE d = c
      BY <2>1, <1>6, <1>14
    <2>2. CASE d # c
      BY <2>2, <1>2, <1>5 DEF IInv, GrantKnown, Captures, Ord
    <2> QED
      BY <2>1, <2>2
  <1> QED
    BY <1>2, <1>4, <1>7, <1>10, <1>11, <1>15
       DEF IInv, ClickNotCancelled, GrantedOnce, PaidIsGranted, GrantHasMoney

(* A commit publishes what the call wrote; its locks kept the rest true. *)
LEMMA CommitInv ==
    ASSUME IInv, NEW c \in Calls, Commit(c)
    PROVE  IInv'
  <1> DEFINE t == call[c].txn
             o == Ord(c)
  <1>1. /\ call[c].at = "commit"
        /\ pay' = [pay EXCEPT ![t] = State(c)]
        /\ call' = [call EXCEPT ![c] = Idle]
        /\ revoked' = revoked
    BY DEF Commit
  <1>2. TypeOK /\ call[c] # Idle
    BY <1>1 DEF IInv, Idle
  <1>3. t \in Txns /\ o \in Orders /\ o = OrderOf[t]
    BY <1>2, OrdType DEF Ord
  <1>4. /\ ~ Captures(c) => UNCHANGED <<captured, order, live>>
        /\ Captures(c) => /\ captured' = [captured EXCEPT ![t] = TRUE]
                          /\ order' = [order EXCEPT ![o] = "paid"]
                          /\ live' = [live EXCEPT ![o] = IF call[c].grants THEN @ + 1 ELSE @]
    BY DEF Commit
  <1>5. \A d \in Calls : call'[d] = IF d = c THEN Idle ELSE call[d]
    BY <1>1, <1>2 DEF TypeOK
  <1>6. \A d \in Calls : HoldsPayment(d)' \/ HoldsOrder(d)' => d # c /\ call'[d] = call[d]
    BY <1>5 DEF HoldsPayment, HoldsOrder, Idle
  <1>7. PayLock' /\ OrderLock'
    BY <1>5, <1>6 DEF IInv, PayLock, OrderLock, HoldsPayment, HoldsOrder, Ord
  <1>8. CallsOwn'
    BY <1>5 DEF IInv, CallsOwn, Captures
  <1>9. \A d \in Calls : HoldsPayment(d)' => call[d].txn # t /\ pay'[call[d].txn] = pay[call[d].txn]
    BY <1>1, <1>2, <1>6 DEF IInv, PayLock, HoldsPayment, TypeOK
  <1>10. RowKept'
    BY <1>6, <1>9 DEF IInv, RowKept, HoldsPayment
  <1>11. State(c) \in {"authorized", "captured", "cancelled"}
    BY DEF State
  <1>12. t \in ClickTxns => State(c) # "cancelled"
    BY <1>2 DEF IInv, CallsOwn, State, Phases
  <1>13. ClickNotCancelled'
    BY <1>1, <1>2, <1>12 DEF IInv, ClickNotCancelled, TypeOK, Txns
  <1>14. /\ \A p \in Orders : live'[p] \in Nat /\ (p # o => live'[p] = live[p])
         /\ live'[o] = IF Captures(c) /\ call[c].grants THEN live[o] + 1 ELSE live[o]
    BY <1>2, <1>3, <1>4 DEF TypeOK
  <1>15. /\ \A p \in Orders \ {o} : order'[p] = order[p]
         /\ order'[o] = IF Captures(c) THEN "paid" ELSE order[o]
         /\ \A u \in Txns : captured[u] => captured'[u]
         /\ Captures(c) => captured'[t]
    BY <1>2, <1>3, <1>4 DEF TypeOK
  <1>16. live' \in [Orders -> Nat] /\ order' \in [Orders -> {"awaiting_payment", "paid"}]
         /\ captured' \in [Txns -> BOOLEAN]
    <2>1. CASE Captures(c)
      <3> DEFINE n == IF call[c].grants THEN live[o] + 1 ELSE live[o]
      <3>1. n \in Nat
        BY <1>2, <1>3 DEF TypeOK
      <3>2. live' = [live EXCEPT ![o] = n]
        BY <2>1, <1>4
      <3> HIDE DEF n
      <3>3. live' \in [Orders -> Nat]
        BY <1>2, <3>1, <3>2 DEF TypeOK
      <3>4. order' \in [Orders -> {"awaiting_payment", "paid"}]
        BY <2>1, <1>2, <1>4 DEF TypeOK
      <3>5. captured' \in [Txns -> BOOLEAN]
        BY <2>1, <1>2, <1>4 DEF TypeOK
      <3> QED
        BY <3>3, <3>4, <3>5
    <2>2. CASE ~ Captures(c)
      BY <2>2, <1>2, <1>4 DEF TypeOK
    <2> QED
      BY <2>1, <2>2
  <1>17. log' \subseteq Phases \X ClickTxns
    BY <1>2 DEF IInv, CallsOwn, Commit, TypeOK
  <1>18. TypeOK'
    BY <1>1, <1>2, <1>11, <1>16, <1>17 DEF TypeOK
  <1>19. Captures(c) /\ call[c].grants => live[o] = 0
    BY <1>1 DEF IInv, GrantKnown
  <1>20. Captures(c) /\ ~ call[c].grants /\ o \in Granting => live[o] + revoked[o] >= 1
    BY <1>1 DEF IInv, GrantKnown
  <1>21. GrantedOnce'
    BY <1>3, <1>14, <1>19 DEF IInv, GrantedOnce
  <1>22. PaidIsGranted'
    BY PaymentsAssumption, <1>1, <1>2, <1>3, <1>14, <1>15, <1>20 DEF IInv, PaidIsGranted, TypeOK
  <1>23. GrantHasMoney'
    <2> SUFFICES ASSUME NEW p \in Orders,
                        order'[p] = "paid" \/ live'[p] + revoked'[p] > 0
                 PROVE  \E u \in Txns : OrderOf[u] = p /\ captured'[u]
      BY DEF GrantHasMoney
    <2>1. CASE p = o /\ Captures(c)
      BY <2>1, <1>3, <1>15
    <2>2. CASE ~ (p = o /\ Captures(c))
      <3>1. order'[p] = order[p] /\ live'[p] = live[p]
        BY <2>2, <1>14, <1>15
      <3> QED
        BY <3>1, <1>1, <1>15 DEF IInv, GrantHasMoney
    <2> QED
      BY <2>1, <2>2
  <1>24. GrantKnown'
    <2> SUFFICES ASSUME NEW d \in Calls, call'[d].at = "commit", Captures(d)'
                 PROVE  /\ call'[d].grants => live'[Ord(d)'] = 0
                        /\ ~ call'[d].grants /\ Ord(d)' \in Granting => live'[Ord(d)'] + revoked'[Ord(d)'] >= 1
      BY DEF GrantKnown
    <2>1. d # c /\ call'[d] = call[d]
      BY <1>5 DEF Idle
    <2>2. call[d].at = "commit" /\ Captures(d) /\ Ord(d)' = Ord(d)
      BY <2>1 DEF Captures, Ord
    <2>3. HoldsOrder(d) /\ (Captures(c) => HoldsOrder(c))
      BY <2>2, <1>1 DEF HoldsOrder, Captures
    <2>4. Captures(c) => Ord(d) # o
      BY <2>1, <2>3 DEF IInv, OrderLock
    <2>5. Ord(d) \in Orders
      BY <2>2, <1>2, OrdType DEF Idle
    <2>6. live'[Ord(d)] = live[Ord(d)]
      BY <2>4, <2>5, <1>4, <1>14
    <2> QED
      BY <2>1, <2>2, <2>6, <1>1 DEF IInv, GrantKnown
  <1> QED
    BY <1>7, <1>8, <1>10, <1>13, <1>18, <1>21, <1>22, <1>23, <1>24 DEF IInv

(* An entitlement of an order that is revoked still was one. *)
LEMMA RevokeInv ==
    ASSUME IInv, NEW o \in Orders, Revoke(o)
    PROVE  IInv'
  <1>1. /\ live[o] > 0 /\ revoked[o] < MaxRevokes
        /\ live' = [live EXCEPT ![o] = live[o] - 1]
        /\ revoked' = [revoked EXCEPT ![o] = revoked[o] + 1]
        /\ UNCHANGED <<order, pay, captured, log, call>>
    BY DEF Revoke
  <1>2. TypeOK /\ GrantedOnce
    BY DEF IInv
  <1>3. live[o] = 1 /\ revoked[o] \in 0 .. MaxRevokes
    BY <1>1, <1>2 DEF TypeOK, GrantedOnce
  <1>4. TypeOK'
    BY <1>1, <1>2, <1>3, PaymentsAssumption DEF TypeOK
  <1>5. \A p \in Orders : /\ live'[p] + revoked'[p] = live[p] + revoked[p]
                          /\ live'[p] <= live[p] /\ live[p] \in Nat /\ live'[p] \in Nat
    BY <1>1, <1>2, <1>3 DEF TypeOK
  <1>6. PayLock' /\ OrderLock' /\ CallsOwn' /\ RowKept' /\ ClickNotCancelled'
    BY <1>1 DEF IInv, PayLock, OrderLock, CallsOwn, RowKept, ClickNotCancelled,
       HoldsPayment, HoldsOrder, Captures, Ord
  <1>7. \A c \in Calls : call[c].at = "commit" => Ord(c) \in Orders
    BY <1>2, OrdType DEF Idle
  <1>8. GrantKnown'
    <2> SUFFICES ASSUME NEW c \in Calls, call[c].at = "commit", Captures(c)
                 PROVE  /\ call[c].grants => live'[Ord(c)] = 0
                        /\ ~ call[c].grants /\ Ord(c) \in Granting => live'[Ord(c)] + revoked'[Ord(c)] >= 1
      BY <1>1 DEF GrantKnown, Captures, Ord
    <2> QED
      BY <1>5, <1>7 DEF IInv, GrantKnown
  <1>9. GrantedOnce'
    BY <1>2, <1>5 DEF GrantedOnce
  <1>10. PaidIsGranted' /\ GrantHasMoney'
    BY PaymentsAssumption, <1>1, <1>5 DEF IInv, PaidIsGranted, GrantHasMoney
  <1> QED
    BY <1>4, <1>6, <1>8, <1>9, <1>10 DEF IInv

(* The phase of a call names the provider of its transaction. *)
LEMMA CallsInv ==
    ASSUME IInv, NEW c \in Calls,
           \/ \E t \in ClickTxns, p \in Phases : ClickCall(c, t, p)
           \/ \E t \in PaymeTxns, m \in {"create", "perform", "cancel"} : PaymeCall(c, t, m)
    PROVE  IInv'
  <1>1. ASSUME NEW t \in ClickTxns, NEW p \in Phases, ClickCall(c, t, p) PROVE IInv'
    BY <1>1, OpenInv DEF ClickCall, Txns
  <1>2. ASSUME NEW t \in PaymeTxns, NEW m \in {"create", "perform", "cancel"}, PaymeCall(c, t, m)
        PROVE  IInv'
    <2>1. t \in Txns /\ t \notin ClickTxns /\ m \notin Phases
      BY PaymentsAssumption DEF Txns, Phases
    <2> QED
      BY <1>2, <2>1, OpenInv DEF PaymeCall
  <1> QED
    BY <1>1, <1>2

(* The invariant is inductive. *)
LEMMA NextInv == IInv /\ [Next]_vars => IInv'
  <1> SUFFICES ASSUME IInv, [Next]_vars PROVE IInv'
    OBVIOUS
  <1>1. ASSUME NEW c \in Calls, Step(c) PROVE IInv'
    BY <1>1, PaymentStepInv, OrderStepInv, GrantStepInv, CommitInv DEF Step
  <1>2. ASSUME NEW c \in Calls, Rollback(c) PROVE IInv'
    BY <1>2, IdleInv DEF Rollback
  <1>3. ASSUME NEW o \in Orders, Revoke(o) PROVE IInv'
    BY <1>3, RevokeInv
  <1>4. CASE UNCHANGED vars
    <2> USE <1>4 DEF vars
    <2>1. TypeOK' /\ GrantedOnce' /\ PaidIsGranted' /\ GrantHasMoney'
      BY DEF IInv, TypeOK, GrantedOnce, PaidIsGranted, GrantHasMoney
    <2>2. PayLock' /\ OrderLock' /\ CallsOwn' /\ RowKept' /\ ClickNotCancelled' /\ GrantKnown'
      BY DEF IInv, PayLock, OrderLock, CallsOwn, RowKept, ClickNotCancelled, GrantKnown,
         HoldsPayment, HoldsOrder, Captures, Ord
    <2> QED
      BY <2>1, <2>2 DEF IInv
  <1> QED
    BY <1>1, <1>2, <1>3, <1>4, CallsInv DEF Next

(* A row that reads cancelled is written again only as cancelled. *)
LEMMA CancelStep ==
    ASSUME IInv, [Next]_vars, NEW t \in Txns, pay[t] = "cancelled"
    PROVE  pay'[t] = "cancelled"
  <1>1. ASSUME NEW c \in Calls, Commit(c) PROVE pay'[t] = "cancelled"
    <2>1. /\ call[c].at = "commit" /\ HoldsPayment(c)
          /\ pay' = [pay EXCEPT ![call[c].txn] = State(c)]
      BY <1>1 DEF Commit, HoldsPayment
    <2>2. CASE call[c].txn = t
      <3>1. t \notin ClickTxns
        BY DEF IInv, ClickNotCancelled
      <3>2. call[c] # Idle /\ TypeOK
        BY <2>1 DEF Idle, IInv
      <3>3. call[c].method \notin Phases
        BY <2>2, <3>1, <3>2 DEF IInv, CallsOwn
      <3>4. call[c].method \in {"create", "perform", "cancel"}
        BY <3>2, <3>3 DEF TypeOK
      <3>5. call[c].method = "cancel"
        BY <2>1, <2>2, <3>4 DEF IInv, RowKept
      <3>6. State(c) = "cancelled"
        BY <3>5 DEF State
      <3> QED
        BY <2>1, <2>2, <3>2, <3>6 DEF TypeOK
    <2>3. CASE call[c].txn # t
      BY <2>1, <2>3 DEF IInv, TypeOK
    <2> QED
      BY <2>2, <2>3
  <1>2. CASE pay' = pay
    BY <1>2
  <1>3. pay' = pay \/ \E c \in Calls : Commit(c)
    BY DEF Next, vars, Step, PaymentStep, OrderStep, GrantStep, Rollback, ClickCall,
       PaymeCall, Open, Revoke
  <1> QED
    BY <1>1, <1>2, <1>3

-----------------------------------------------------------------------------
(* Every behaviour satisfies the inductive invariant. *)
LEMMA AlwaysIInv == Spec => []IInv
  BY InitInv, NextInv, PTL DEF Spec

(* Every variable stays within its type: the model of the billing tables is *)
(* well formed under any calls of the providers.                            *)
THEOREM TypeCorrect == Spec => []TypeOK
  <1>1. IInv => TypeOK
    BY DEF IInv
  <1> QED
    BY <1>1, AlwaysIInv, PTL

(* _grant_for_order grants an order once at a time, with no unique index,   *)
(* whatever overlaps: the lock on the order row is enough.                  *)
THEOREM GrantsOnce == Spec => []GrantedOnce
  <1>1. IInv => GrantedOnce
    BY DEF IInv
  <1> QED
    BY <1>1, AlwaysIInv, PTL

(* No crash of _click_phase or _payme_perform leaves an order paid that was *)
(* never granted, where _grant_for_order finds something to grant.          *)
THEOREM PaidGrants == Spec => []PaidIsGranted
  <1>1. IInv => PaidIsGranted
    BY DEF IInv
  <1> QED
    BY <1>1, AlwaysIInv, PTL

(* Neither provider's calls, in any order, make a grant without a payment   *)
(* that was captured.                                                       *)
THEOREM GrantsHaveMoney == Spec => []GrantHasMoney
  <1>1. IInv => GrantHasMoney
    BY DEF IInv
  <1> QED
    BY <1>1, AlwaysIInv, PTL

(* _payme_perform and _payme_cancel on one transaction: a cancelled one is  *)
(* never captured, however the two overlap.                                 *)
THEOREM CancelsForGood == Spec => CancelIsFinal
  <1>1. IInv /\ [Next]_vars =>
           [\A t \in Txns : pay[t] = "cancelled" => pay'[t] = "cancelled"]_vars
    BY CancelStep
  <1> QED
    BY <1>1, AlwaysIInv, PTL DEF Spec, CancelIsFinal
=============================================================================
