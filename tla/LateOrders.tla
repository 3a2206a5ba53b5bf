----------------------------- MODULE LateOrders -----------------------------
(***************************************************************************)
(* What the menu and order endpoints keep however their requests overlap:  *)
(* two indivisible steps a request.  It decides on the committed tables,   *)
(* and some time later, when they may have changed, what it decided is     *)
(* carried out as a whole or not at all.  There are no statements, flushes *)
(* or locks here.  (This is what the service does, not all that its        *)
(* documents ask for: the checks of an order are made when it decides, and *)
(* a view of the public page removes the items it does not show.)          *)
(***************************************************************************)
EXTENDS Integers, FiniteSets

CONSTANTS N, Phones, OrderReqs, EditReqs, DropReqs, ViewReqs, Carts, Patches,
          InitStock, Null, Keep

Items == 1..N
Requests == OrderReqs \cup EditReqs \cup DropReqs \cup ViewReqs
Deleters == DropReqs \cup ViewReqs
NoCart == [i \in {} |-> 0]
NoChange == [stock |-> Keep, avail |-> Keep]
NoWrites == [i \in Items |-> NoChange]

VARIABLES
    published, live, stock, avail,   \* the menu and its items
    customers, total,                \* the customers and how much they ordered
    stage,     \* "idle", "admitted", "decided", "done" or "failed"
    rows,      \* the items a request has decided to write or to delete
    writes,    \* what it has decided to write to them
    cart, phone,                     \* what an order has decided to sell, to whom
    cust       \* the customer an order is placed for

menu == <<published, live, stock, avail>>
people == <<customers, total>>
plans == <<rows, writes, cart, phone>>
vars == <<menu, people, stage, plans, cust>>

Init ==
    /\ published = TRUE
    /\ live = Items
    /\ stock = InitStock
    /\ avail = [i \in Items |-> InitStock[i] # 0]
    /\ customers \in SUBSET Phones
    /\ total = [c \in Phones \cup OrderReqs |-> 0]
    /\ stage = [r \in Requests |-> "idle"]
    /\ rows = [r \in Requests |-> {}]
    /\ writes = [r \in Requests |-> NoWrites]
    /\ cart = [r \in OrderReqs |-> NoCart]
    /\ phone = [r \in OrderReqs |-> Null]
    /\ cust = [r \in OrderReqs |-> Null]

-----------------------------------------------------------------------------
Moves(r, from, to) == stage[r] = from /\ stage' = [stage EXCEPT ![r] = to]

\* Orders and views ask for a published menu.
Admit(r) ==
    /\ r \in OrderReqs \cup ViewReqs
    /\ published
    /\ Moves(r, "idle", "admitted")
    /\ UNCHANGED <<menu, people, plans, cust>>

\* The request decides to write w.
Plan(r, w) ==
    /\ writes' = [writes EXCEPT ![r] = w]
    /\ rows' = [rows EXCEPT ![r] = {i \in Items : w[i] # NoChange}]

\* A column that is to become what it is need not be written.
Set(old, value) == IF value = old THEN Keep ELSE value

\* The whole cart is on the menu and in stock; what is taken out of a counted
\* item, and hides it if that leaves none, is decided here.
DecideOrder(r, c, p) ==
    /\ r \in OrderReqs /\ Moves(r, "admitted", "decided")
    /\ \A i \in DOMAIN c : i \in live /\ avail[i]
    /\ \A i \in DOMAIN c : stock[i] # Null => \A n \in c[i].sums : stock[i] >= n
    /\ Plan(r, [i \in Items |->
                   IF i \in DOMAIN c /\ stock[i] # Null
                   THEN [stock |-> Set(stock[i], stock[i] - c[i].qty),
                         avail |-> IF stock[i] \in c[i].sums THEN FALSE ELSE Keep]
                   ELSE NoChange])
    /\ cart' = [cart EXCEPT ![r] = c]
    /\ phone' = [phone EXCEPT ![r] = p]
    /\ UNCHANGED <<menu, people, cust>>

DecideEdit(r, i, patch) ==
    /\ r \in EditReqs /\ Moves(r, "idle", "decided")
    /\ i \in live
    /\ Plan(r, [NoWrites EXCEPT ![i] = [stock |-> Set(stock[i], patch.stock),
                                        avail |-> Set(avail[i], patch.avail)]])
    /\ UNCHANGED <<menu, people, cart, phone, cust>>

\* One item is to go, or every hidden one.
DecideDrop(r, gone) ==
    /\ \/ \E i \in live : /\ r \in DropReqs /\ Moves(r, "idle", "decided")
                          /\ gone = {i}
       \/ /\ r \in ViewReqs /\ Moves(r, "admitted", "decided")
          /\ gone = {i \in live : ~avail[i]}
    /\ rows' = [rows EXCEPT ![r] = gone]
    /\ UNCHANGED <<menu, people, writes, cart, phone, cust>>

\* Meanwhile another request has deleted one of the items: it is passed over.
Miss(r, i) ==
    /\ stage[r] = "decided" /\ i \in rows[r] \ live
    /\ rows' = [rows EXCEPT ![r] = @ \ {i}]
    /\ UNCHANGED <<menu, people, stage, writes, cart, phone, cust>>

\* A row of a menu item with the columns w written to it.
After(old, w) == IF w = Keep THEN old ELSE w

PhoneOf(c) == IF c \in Phones THEN c ELSE phone[c]

OrdersOf(c) == {r \in OrderReqs : cust[r] = c}

\* The order goes to a customer with its phone number, a new one or one there
\* is, and counts as the next after some orders of that customer: perhaps not
\* all of them, never more.
PlaceOrder(r) ==
    \E c \in {r} \cup {k \in customers : PhoneOf(k) = phone[r]} :
        /\ cust' = [cust EXCEPT ![r] = c]
        /\ customers' = customers \cup {c}
        /\ \E n \in 0..Cardinality(OrdersOf(c)) :
              total' = [total EXCEPT ![c] = n + 1]

\* Everything that was decided is done at once, to items that are all there.
Carry(r) ==
    /\ Moves(r, "decided", "done")
    /\ rows[r] \subseteq live
    /\ live' = IF r \in Deleters THEN live \ rows[r] ELSE live
    /\ stock' = [i \in Items |->
                    IF i \in rows[r] THEN After(stock[i], writes[r][i].stock) ELSE stock[i]]
    /\ avail' = [i \in Items |->
                    IF i \in rows[r] THEN After(avail[i], writes[r][i].avail) ELSE avail[i]]
    /\ rows' = [rows EXCEPT ![r] = {}]
    /\ writes' = [writes EXCEPT ![r] = NoWrites]
    /\ IF r \in OrderReqs THEN PlaceOrder(r) ELSE UNCHANGED <<people, cust>>
    /\ UNCHANGED <<published, cart, phone>>

\* The request ends with an error: nothing of what it decided is done.
Fail(r) ==
    /\ \E s \in {"idle", "admitted", "decided"} : Moves(r, s, "failed")
    /\ rows' = [rows EXCEPT ![r] = {}]
    /\ writes' = [writes EXCEPT ![r] = NoWrites]
    /\ cart' = [q \in OrderReqs |-> IF q = r THEN NoCart ELSE cart[q]]
    /\ phone' = [q \in OrderReqs |-> IF q = r THEN Null ELSE phone[q]]
    /\ UNCHANGED <<menu, people, cust>>

SetStatus ==
    /\ published' = ~published
    /\ UNCHANGED <<live, stock, avail, people, stage, plans, cust>>

Next ==
    \/ \E r \in Requests :
          \/ Admit(r)
          \/ \E c \in Carts, p \in Phones : DecideOrder(r, c, p)
          \/ \E i \in Items, patch \in Patches : DecideEdit(r, i, patch)
          \/ \E gone \in SUBSET Items : DecideDrop(r, gone)
          \/ \E i \in Items : Miss(r, i)
          \/ Carry(r)
          \/ Fail(r)
    \/ SetStatus

Spec == Init /\ [][Next]_vars
=============================================================================
