------------------------------ MODULE Billing ------------------------------
(***************************************************************************)
(* Buying for a centre: the catalogue, the order form with its idempotency *)
(* keys, the orders it has placed, the order it follows, and what the      *)
(* centre holds.  The payment itself, from the provider's callback to the  *)
(* grant, is module Payments; here it is one step.  A key a page has       *)
(* minted is one of its own: a reload forgets them.                        *)
(***************************************************************************)
EXTENDS ConsoleBase

CONSTANTS
    Prices,           \* what is on sale
    Quantities,       \* what may be typed; 0 stands for all that is no count
    Centres,          \* the organizations of the buyer
    MaxOrders, MaxVisits    \* bounds: orders on the server, times the page is opened

ASSUME BillingAssumption ==
    1 \in Quantities /\ Quantities \subseteq Nat /\ Centres # {}

VARIABLES
    orders,           \* sequence of [body, key, visit, paid] (the server)
    granted,          \* orders whose entitlement exists (the server)
    visit,            \* how often the page has been opened
    billedTo,         \* orgXid: None until the centres are loaded
    chosen, quantityText,
    keys,             \* body -> the key it holds, or 0; keys are numbered by the page
    minted,           \* keys minted by this page
    buy,              \* the pending request [body, key, answer], or None
    placed,           \* orders shown as placed
    tracking,         \* the order followed, 0 for none, and as last read
    heldShown         \* the entitlements last fetched

billingServer == <<orders, granted>>
orderForm == <<billedTo, chosen, quantityText, keys, minted>>
billingVars == <<billingServer, visit, orderForm, buy, placed, tracking, heldShown>>

parseQuantity(typed) == IF typed >= 1 THEN typed ELSE None
Bodies == [price : Prices, quantity : Quantities \ {0}, org : Centres]

Untracked == [order |-> 0, paid |-> FALSE]

BillingInit ==
    /\ orders = <<>> /\ granted = {} /\ visit = 1
    /\ billedTo = None /\ chosen = None /\ quantityText = 1
    /\ keys = [b \in Bodies |-> 0] /\ minted = 0
    /\ buy = None /\ placed = {} /\ tracking = Untracked /\ heldShown = {}

\* The first centre is the default; another is chosen in the form.
OrgsLoaded ==
    /\ billedTo = None
    /\ billedTo' = CHOOSE c \in Centres : TRUE
    /\ UNCHANGED <<billingServer, visit, chosen, quantityText, keys, minted, buy, placed,
                   tracking, heldShown>>

ChoosePrice(p) ==
    /\ chosen # p /\ chosen' = p
    /\ UNCHANGED <<billingServer, visit, billedTo, quantityText, keys, minted, buy, placed,
                   tracking, heldShown>>

\* The fields stay enabled while the order is being placed.
EditOrder ==
    /\ chosen # None
    /\ \/ \E q \in Quantities \ {quantityText} : quantityText' = q /\ UNCHANGED billedTo
       \/ \E c \in Centres \ {billedTo} : billedTo' = c /\ UNCHANGED quantityText
    /\ UNCHANGED <<billingServer, visit, chosen, keys, minted, buy, placed, tracking, heldShown>>

Orderable == chosen # None /\ parseQuantity(quantityText) # None /\ billedTo # None

\* One key per distinct order, held until that order exists.
KeyFor_PerClick(b) == minted + 1
KeyFor(b) == IF keys[b] = 0 THEN minted + 1 ELSE keys[b]

PlaceOrder ==
    /\ Orderable /\ buy = None
    /\ LET b == [price |-> chosen, quantity |-> parseQuantity(quantityText), org |-> billedTo] IN
         /\ keys' = [keys EXCEPT ![b] = KeyFor(b)]
         /\ minted' = Max({minted, KeyFor(b)})
         /\ buy' = [body |-> b, key |-> KeyFor(b), answer |-> 0]
    /\ UNCHANGED <<billingServer, visit, billedTo, chosen, quantityText, placed, tracking, heldShown>>

\* create_order: a key met before answers what it answered then.
Replay == {i \in DOMAIN orders : orders[i].visit = visit /\ orders[i].key = buy.key}
OrderCreated ==
    /\ buy # None /\ buy.answer = 0
    /\ IF Replay # {} THEN buy' = [buy EXCEPT !.answer = Max(Replay)] /\ UNCHANGED orders
       ELSE /\ Len(orders) < MaxOrders
            /\ orders' = Append(orders, [body |-> buy.body, key |-> buy.key, visit |-> visit,
                                         paid |-> FALSE])
            /\ buy' = [buy EXCEPT !.answer = Len(orders) + 1]
    /\ UNCHANGED <<granted, visit, orderForm, placed, tracking, heldShown>>

\* The key is dropped once the order is known to exist, and the order followed.
OrderPlaced ==
    /\ buy # None /\ buy.answer # 0
    /\ keys' = [keys EXCEPT ![buy.body] = 0]
    /\ placed' = placed \cup {buy.answer}
    /\ tracking' = [order |-> buy.answer, paid |-> FALSE]
    /\ buy' = None
    /\ UNCHANGED <<billingServer, visit, billedTo, chosen, quantityText, minted, heldShown>>

\* Refused, or the request or its answer was lost: the key stays.
OrderFails ==
    /\ buy # None
    /\ buy' = None
    /\ UNCHANGED <<billingServer, visit, orderForm, placed, tracking, heldShown>>

\* Check the status of a placed order, or of an id typed in.
Track(i) ==
    /\ tracking.order # i
    /\ tracking' = [order |-> i, paid |-> FALSE]
    /\ UNCHANGED <<billingServer, visit, orderForm, buy, placed, heldShown>>

\* Read when it is first followed, and whenever the window regains focus.
NotHeard == tracking.order # 0 /\ ~tracking.paid
OrderRead ==
    /\ NotHeard /\ orders[tracking.order].paid
    /\ tracking' = [tracking EXCEPT !.paid = TRUE]
    /\ UNCHANGED <<billingServer, visit, orderForm, buy, placed, heldShown>>

\* A paid order and a licence in the table are two records.
Unlisted == granted \ heldShown
EntitlementsLoaded ==
    /\ Unlisted # {}
    /\ heldShown' = granted
    /\ UNCHANGED <<billingServer, visit, orderForm, buy, placed, tracking>>

\* The provider's callback; the grant is a second step (module Payments).
ProviderPays(i) ==
    /\ ~orders[i].paid
    /\ orders' = [orders EXCEPT ![i].paid = TRUE]
    /\ UNCHANGED <<granted, visit, orderForm, buy, placed, tracking, heldShown>>
Grant(i) ==
    /\ orders[i].paid /\ i \notin granted
    /\ granted' = granted \cup {i}
    /\ UNCHANGED <<orders, visit, orderForm, buy, placed, tracking, heldShown>>

\* Closing the console forgets the keys and the orders it placed.
ReopenBilling ==
    /\ visit < MaxVisits
    /\ visit' = visit + 1
    /\ billedTo' = None /\ chosen' = None /\ quantityText' = 1
    /\ keys' = [b \in Bodies |-> 0] /\ minted' = 0
    /\ buy' = None /\ placed' = {} /\ tracking' = Untracked /\ heldShown' = {}
    /\ UNCHANGED billingServer

BillingNext ==
    \/ OrgsLoaded \/ EditOrder \/ PlaceOrder \/ OrderCreated \/ OrderPlaced \/ OrderFails
    \/ \E p \in Prices : ChoosePrice(p)
    \/ \E i \in DOMAIN orders : Track(i) \/ ProviderPays(i) \/ Grant(i)
    \/ OrderRead \/ EntitlementsLoaded \/ ReopenBilling

-----------------------------------------------------------------------------
\* However often the button is pressed and whatever is lost, a page leaves at
\* most one order for one body that its buyer was not shown: a second press is
\* a retry until the first order is on the screen (Billing.tsx, keys).
OneUnseenOrder ==
    \A b \in Bodies :
        Cardinality({i \in DOMAIN orders :
                       orders[i].visit = visit /\ orders[i].body = b /\ i \notin placed}) <= 1
=============================================================================
