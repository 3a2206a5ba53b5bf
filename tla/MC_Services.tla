----------------------------- MODULE MC_Services -----------------------------
(* Accounts, catalogue, checkout, web socket hub and event bus.  They share no *)
(* state, so a behaviour of the run is one of a single component: the others   *)
(* stay as they began.                                                         *)
EXTENDS KitchenAccounts, MenuCatalog, PaymentCheckout, WebSocketHub, EventBus

CONSTANTS k1, m1, i1

\* One kitchen has a menu of one item at the start, the others have none.
OneMenu == {[kitchen |-> k1, no |-> m1]}
OneItem == {[menu |-> [kitchen |-> k1, no |-> m1], no |-> i1]}

Baskets == (SUBSET Items) \ {{}}

Init == AccountsInit /\ CatalogInit /\ CheckoutInit /\ HubInit /\ BusInit

\* The component that leaves its initial state first is the one that goes on.
Next ==
    LET accounts == AccountsInit /\ UNCHANGED AccountsVars
        catalog  == CatalogInit /\ UNCHANGED CatalogVars
        checkout == CheckoutInit /\ UNCHANGED CheckoutVars
        hub      == HubInit /\ UNCHANGED HubVars
        bus      == BusInit /\ UNCHANGED BusVars
    IN
    \/ AccountsNext /\ catalog /\ checkout /\ hub /\ bus
    \/ CatalogNext /\ accounts /\ checkout /\ hub /\ bus
    \/ CheckoutNext /\ accounts /\ catalog /\ hub /\ bus
    \/ HubNext /\ accounts /\ catalog /\ checkout /\ bus
    \/ BusNext /\ accounts /\ catalog /\ checkout /\ hub

vars == <<AccountsVars, CatalogVars, CheckoutVars, HubVars, BusVars>>

\* The rows, jobs, counters, sets and lists of the five components are what their
\* columns and their code allow.
TypesOK == AccountsTypeOK /\ CatalogTypeOK /\ CheckoutTypeOK /\ HubTypeOK /\ BusTypeOK

Spec == Init /\ [][Next]_vars /\ AccountsFairness /\ BusFairness
=============================================================================
