------------------------------ MODULE Payments ------------------------------
(***************************************************************************)
(* Orders, the calls of the two payment providers and the entitlements an  *)
(* order grants (app/api/routers/platform_ops.py).  Click calls Prepare    *)
(* and Complete, Payme CreateTransaction, PerformTransaction and           *)
(* CancelTransaction; a call may come twice, late or out of order.         *)
(*                                                                         *)
(* A call is one READ COMMITTED transaction.  Its steps are the statements *)
(* that wait for a row lock or read what others commit; its writes are     *)
(* visible from its Commit on, and its locks are held until then.          *)
(***************************************************************************)
EXTENDS Naturals, FiniteSets

CONSTANTS
    Orders,      \* orders awaiting payment
    ClickTxns,   \* transactions Click opens
    PaymeTxns,   \* transactions Payme opens
    OrderOf,     \* the order each transaction names
    Granting,    \* orders of a product that lists a feature to grant
    Calls,       \* request threads serving the providers
    MaxRevokes   \* bound on revocations by a platform admin

Txns   == ClickTxns \cup PaymeTxns
Phases == {"prepare", "complete"}

ASSUME PaymentsAssumption ==
    /\ OrderOf \in [Txns -> Orders]
    /\ ClickTxns \cap PaymeTxns = {}
    /\ Granting \subseteq Orders
    /\ MaxRevokes \in Nat

VARIABLES
    order,     \* orders.status
    pay,       \* payments.state, "none" when the transaction has no row
    captured,  \* payments.captured_at is set
    log,       \* payment_events: the Click calls with a stored response
    live,      \* how many entitlements of the order are in force
    revoked,   \* how many of them were revoked
    call       \* the open transaction of each thread

vars == <<order, pay, captured, log, live, revoked, call>>

Idle == [at |-> "idle", method |-> "none", txn |-> "none", grants |-> FALSE]

Init ==
    /\ order = [o \in Orders |-> "awaiting_payment"]
    /\ pay = [t \in Txns |-> "none"]
    /\ captured = [t \in Txns |-> FALSE]
    /\ log = {}
    /\ live = [o \in Orders |-> 0] /\ revoked = [o \in Orders |-> 0]
    /\ call = [c \in Calls |-> Idle]

-----------------------------------------------------------------------------
(* Locks and the steps a call takes                                        *)

\* The payment row is written first, then the order's.
HoldsPayment(c) == call[c].at \in {"order", "grant", "commit"}
HoldsOrder(c)   == call[c].at \in {"grant", "commit"} /\ call[c].method \in {"complete", "perform"}

Ord(c) == OrderOf[call[c].txn]

PaymentFree(c) ==
    \A d \in Calls \ {c} : HoldsPayment(d) => call[d].txn # call[c].txn
OrderFree_Unlocked(c) == TRUE
OrderFree(c) ==
    \A d \in Calls \ {c} : HoldsOrder(d) => Ord(d) # Ord(c)

Goes(c, to) == call' = [call EXCEPT ![c].at = to]

Open(c, m, t) ==
    /\ call[c] = Idle
    /\ call' = [call EXCEPT ![c] = [at |-> "payment", method |-> m, txn |-> t, grants |-> FALSE]]
    /\ UNCHANGED <<order, pay, captured, log, live, revoked>>

\* _click_phase answers a call it has a response for from payment_events.
ClickCall(c, t, phase) == <<phase, t>> \notin log /\ Open(c, phase, t)

PaymeCall(c, t, method) == Open(c, method, t)

\* The statement on the payment row: Click upserts it whatever its state,
\* Create inserts it or does nothing, Perform wants it authorized or captured,
\* Cancel takes it in any state.  A call that finds no row to write ends there.
Performable_Any(t) == TRUE
Performable(t) == pay[t] \in {"authorized", "captured"}

Writes(c) ==
    CASE call[c].method \in Phases   -> TRUE
      [] call[c].method = "create"   -> pay[call[c].txn] = "none"
      [] call[c].method = "perform"  -> Performable(call[c].txn)
      [] call[c].method = "cancel"   -> pay[call[c].txn] # "none"

Captures(c) == call[c].method \in {"complete", "perform"}

PaymentStep_Regardless(c) ==
    /\ call[c].at = "payment" /\ PaymentFree(c)
    /\ IF ~ Writes(c)
       THEN /\ call' = [call EXCEPT ![c] = Idle]
            /\ order' = [order EXCEPT ![Ord(c)] = IF Captures(c) THEN "paid" ELSE @]
       ELSE Goes(c, IF Captures(c) THEN "order" ELSE "commit") /\ UNCHANGED order
    /\ UNCHANGED <<pay, captured, log, live, revoked>>
PaymentStep(c) ==
    /\ call[c].at = "payment" /\ PaymentFree(c)
    /\ IF ~ Writes(c) THEN call' = [call EXCEPT ![c] = Idle]
       ELSE Goes(c, IF Captures(c) THEN "order" ELSE "commit")
    /\ UNCHANGED <<order, pay, captured, log, live, revoked>>

\* UPDATE orders SET status = 'paid'
OrderStep(c) ==
    /\ call[c].at = "order" /\ OrderFree(c)
    /\ Goes(c, "grant")
    /\ UNCHANGED <<order, pay, captured, log, live, revoked>>

\* _grant_for_order: nothing where the product lists no feature; else INSERT
\* ... WHERE NOT EXISTS a grant of this order that has not been revoked.
Ungranted(o) == o \in Granting /\ live[o] = 0

GrantStep_InTwo(c) ==
    /\ call[c].at = "grant"
    /\ order' = [order EXCEPT ![Ord(c)] = "paid"]
    /\ call' = [call EXCEPT ![c].at = "commit", ![c].grants = Ungranted(Ord(c))]
    /\ UNCHANGED <<pay, captured, log, live, revoked>>
GrantStep(c) ==
    /\ call[c].at = "grant"
    /\ call' = [call EXCEPT ![c].at = "commit", ![c].grants = Ungranted(Ord(c))]
    /\ UNCHANGED <<order, pay, captured, log, live, revoked>>

State(c) ==
    CASE call[c].method \in {"prepare", "create"} -> "authorized"
      [] call[c].method = "cancel"                -> "cancelled"
      [] OTHER                                    -> "captured"

\* _record_click is part of the transaction it answers for.
Commit(c) ==
    /\ call[c].at = "commit"
    /\ pay' = [pay EXCEPT ![call[c].txn] = State(c)]
    /\ IF Captures(c)
       THEN /\ captured' = [captured EXCEPT ![call[c].txn] = TRUE]
            /\ order' = [order EXCEPT ![Ord(c)] = "paid"]
            /\ live' = [live EXCEPT ![Ord(c)] = IF call[c].grants THEN @ + 1 ELSE @]
       ELSE UNCHANGED <<captured, order, live>>
    /\ log' = IF call[c].method \in Phases THEN log \cup {<<call[c].method, call[c].txn>>} ELSE log
    /\ call' = [call EXCEPT ![c] = Idle]
    /\ UNCHANGED revoked

\* An exception or a dead process rolls the whole call back; the provider
\* calls again.
Rollback(c) ==
    /\ call[c] # Idle
    /\ call' = [call EXCEPT ![c] = Idle]
    /\ UNCHANGED <<order, pay, captured, log, live, revoked>>

\* revoke_entitlement: a refund, a chargeback, a mistaken grant.
Revoke(o) ==
    /\ live[o] > 0 /\ revoked[o] < MaxRevokes
    /\ live' = [live EXCEPT ![o] = @ - 1]
    /\ revoked' = [revoked EXCEPT ![o] = @ + 1]
    /\ UNCHANGED <<order, pay, captured, log, call>>

Step(c) == PaymentStep(c) \/ OrderStep(c) \/ GrantStep(c) \/ Commit(c)

Next ==
    \/ \E c \in Calls : Step(c) \/ Rollback(c)
    \/ \E c \in Calls, t \in ClickTxns, p \in Phases : ClickCall(c, t, p)
    \/ \E c \in Calls, t \in PaymeTxns, m \in {"create", "perform", "cancel"} : PaymeCall(c, t, m)
    \/ \E o \in Orders : Revoke(o)

Spec == Init /\ [][Next]_vars

-----------------------------------------------------------------------------
(* Properties                                                              *)

\* Every variable stays within its type.
TypeOK ==
    /\ order \in [Orders -> {"awaiting_payment", "paid"}]
    /\ pay \in [Txns -> {"none", "authorized", "captured", "cancelled"}]
    /\ captured \in [Txns -> BOOLEAN]
    /\ log \subseteq Phases \X ClickTxns
    /\ live \in [Orders -> Nat] /\ revoked \in [Orders -> 0 .. MaxRevokes]
    /\ call \in [Calls -> {Idle} \cup
          [at : {"payment", "order", "grant", "commit"},
           method : Phases \cup {"create", "perform", "cancel"},
           txn : Txns, grants : BOOLEAN]]

\* However often, and through however many transactions, the money for an
\* order is confirmed, the order is granted once at a time: no constraint of
\* the database stands behind NOT EXISTS, only the lock on the order row.
GrantedOnce == \A o \in Orders : live[o] <= 1

\* "A grant committed separately could be lost while the order still read
\* paid": no crash leaves an order paid that was never granted, if its product
\* lists anything to grant.  One that lists nothing is paid all the same.
PaidIsGranted == \A o \in Granting : order[o] = "paid" => live[o] + revoked[o] >= 1

\* An order is paid, and its grant exists, only with a payment row that was
\* captured to account for it.
GrantHasMoney ==
    \A o \in Orders :
        order[o] = "paid" \/ live[o] + revoked[o] > 0 =>
            \E t \in Txns : OrderOf[t] = o /\ captured[t]

\* A transaction Payme cancelled stays cancelled, whatever is called next or
\* was on its way: it can no longer be performed.
CancelIsFinal ==
    [][\A t \in Txns : pay[t] = "cancelled" => pay'[t] = "cancelled"]_vars
=============================================================================
