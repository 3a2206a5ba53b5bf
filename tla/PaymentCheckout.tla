--------------------------- MODULE PaymentCheckout ---------------------------
(***************************************************************************)
(* From the basket to the order: a consumer starts a Stripe Checkout       *)
(* session and pays; Stripe reports the payment to the webhook, again and  *)
(* again until it is answered with success; the consumer's page posts the  *)
(* order, again when it hears no answer.                                   *)
(*                                                                         *)
(* Neither side remembers the session: create_order (one transaction, see  *)
(* OrderPlacement for its insides) makes an order each time it is called   *)
(* with lines it accepts.                                                  *)
(***************************************************************************)
EXTENDS Integers, FiniteSets

CONSTANTS
    Items,           \* items of one published menu
    Carts,           \* baskets: sets of items, one of each
    Sessions,        \* checkout sessions at Stripe
    InitStock,       \* stock of every item at the start
    Withdrawals,     \* items the console may take off the menu
    MaxDeliveries,   \* how often Stripe delivers an event before it gives up
    MaxPosts,        \* bound: how often a page posts the order of a session
    NoId             \* a line item whose metadata name no menu item

\* Stripe makes no session for an empty basket; a random id is no item's.
ASSUME CartsAssumption == /\ Carts \subseteq (SUBSET Items) \ {{}}
                          /\ NoId \notin Items

ASSUME BoundsAssumption == {InitStock, MaxDeliveries, MaxPosts} \subseteq Nat

VARIABLES
    offered,     \* items that are available
    left,        \* their stock
    payment,     \* the state of each session at Stripe
    cartOf,      \* what the page has in its basket
    lineItems,   \* what Stripe keeps of it: item -> menu_item_id of the line
    delivered,   \* deliveries of the session's event
    acked,       \* sessions whose event was answered with success
    posts,       \* POST /orders/ of the page
    settled,     \* pages that have their answer
    orders       \* orders made for each session

shop == <<offered, left, orders>>
stripe == <<payment, cartOf, lineItems>>
event == <<delivered, acked>>
page == <<posts, settled>>
CheckoutVars == <<shop, stripe, event, page>>

CheckoutInit ==
    /\ offered = Items
    /\ left = [i \in Items |-> InitStock]
    /\ payment = [s \in Sessions |-> "none"]
    /\ cartOf = [s \in Sessions |-> {}]
    /\ lineItems = [s \in Sessions |-> [i \in {} |-> NoId]]
    /\ delivered = [s \in Sessions |-> 0]
    /\ acked = {}
    /\ posts = [s \in Sessions |-> 0]
    /\ settled = {}
    /\ orders = [s \in Sessions |-> 0]

-----------------------------------------------------------------------------
\* What create_checkout hands to Stripe of each line is its name, price and
\* quantity.
line_items(cart) == [i \in cart |-> NoId]

\* Stock and availability are not looked at.
create_checkout(s, cart) ==
    /\ payment[s] = "none" /\ payment' = [payment EXCEPT ![s] = "open"]
    /\ cartOf' = [cartOf EXCEPT ![s] = cart]
    /\ lineItems' = [lineItems EXCEPT ![s] = line_items(cart)]
    /\ UNCHANGED <<shop, event, page>>

\* The consumer pays, or the session ends unpaid.
complete(s) ==
    /\ payment[s] = "open"
    /\ \E end \in {"paid", "expired"} : payment' = [payment EXCEPT ![s] = end]
    /\ UNCHANGED <<shop, cartOf, lineItems, event, page>>

\* create_order accepts the lines, named by item ids.
Accepted(ids) == ids \subseteq {i \in offered : left[i] > 0}

\* The order is placed; an item whose stock is used up is hidden.
create_order(s, ids) ==
    /\ orders' = [orders EXCEPT ![s] = @ + 1]
    /\ left' = [i \in Items |-> IF i \in ids THEN left[i] - 1 ELSE left[i]]
    /\ offered' = {i \in offered : left'[i] > 0}

\* The order_items of the webhook: a line without an id gets a random one,
\* which is no menu item's.
order_items(lines) == {lines[i] : i \in DOMAIN lines}

\* checkout.session.completed.  create_order refuses (400 or 404, rollback), or
\* the order is committed and success is answered, in time or too late.
stripe_webhook(s) ==
    /\ payment[s] = "paid" /\ s \notin acked
    /\ delivered[s] < MaxDeliveries
    /\ delivered' = [delivered EXCEPT ![s] = @ + 1]
    /\ IF Accepted(order_items(lineItems[s]))
       THEN /\ create_order(s, order_items(lineItems[s]))
            /\ \E inTime \in BOOLEAN : acked' = IF inTime THEN acked \cup {s} ELSE acked
       ELSE UNCHANGED <<shop, acked>>
    /\ UNCHANGED <<stripe, page>>

\* POST /orders/ with the item ids of the basket, once the payment is confirmed;
\* again if the answer was lost.
post_order(s) ==
    /\ payment[s] = "paid" /\ s \notin settled
    /\ posts[s] < MaxPosts /\ posts' = [posts EXCEPT ![s] = @ + 1]
    /\ IF Accepted(cartOf[s]) THEN create_order(s, cartOf[s]) ELSE UNCHANGED shop
    /\ settled' \in {settled, settled \cup {s}}
    /\ UNCHANGED <<stripe, event>>

\* The console hides or deletes an item.
withdraw(i) ==
    /\ i \in Withdrawals \cap offered /\ offered' = offered \ {i}
    /\ UNCHANGED <<left, orders, stripe, event, page>>

CheckoutNext ==
    \/ \E s \in Sessions : \/ \E cart \in Carts : create_checkout(s, cart)
                           \/ complete(s) \/ stripe_webhook(s) \/ post_order(s)
    \/ \E i \in Items : withdraw(i)

CheckoutSpec == CheckoutInit /\ [][CheckoutNext]_CheckoutVars

-----------------------------------------------------------------------------
\* Sessions, counters and stock are what their columns and bounds allow.
CheckoutTypeOK ==
    /\ offered \subseteq Items
    /\ left \in [Items -> 0..InitStock]
    /\ payment \in [Sessions -> {"none", "open", "paid", "expired"}]
    /\ \A s \in Sessions : /\ cartOf[s] \in Carts \cup {{}}
                           /\ DOMAIN lineItems[s] = cartOf[s]
                           /\ delivered[s] \in 0..MaxDeliveries
                           /\ posts[s] \in 0..MaxPosts
                           /\ orders[s] \in Nat
    /\ acked \cup settled \subseteq Sessions

\* webhooks.py:32, "Stripe sends checkout.session.completed when payment
\* succeeds. We extract order metadata and create the order.": when Stripe has
\* stopped delivering the event of a payment, the payment has its order.
ConfirmedIsOrdered ==
    \A s \in Sessions :
        s \in acked \/ delivered[s] = MaxDeliveries => orders[s] > 0
=============================================================================
