--------------------------- MODULE Services_proofs ---------------------------
(***************************************************************************)
(* Theorems about KitchenAccounts, PaymentCheckout, WebSocketHub and       *)
(* EventBus, each for its own specification and any constants, and about   *)
(* MC_Services, which puts them beside MenuCatalog.                        *)
(***************************************************************************)
EXTENDS MC_Services, MenuCatalog_proofs, SequenceTheorems, TLAPS

-----------------------------------------------------------------------------
(* Accounts *)

\* A registration that has begun has an e-mail; one that has inserted its row is
\* the only one with that e-mail, and no committed row has it.
EmailHeld ==
    \A r \in RegisterReqs :
       /\ signup[r] # "idle" => email[r] \in Emails
       /\ signup[r] = "inserted" =>
             /\ \A k \in kitchens : k.email # email[r]
             /\ \A q \in RegisterReqs : signup[q] = "inserted" /\ email[q] = email[r] => q = r

AccountsInv == AccountsTypeOK /\ UniqueEmail /\ TokensNameKitchens /\ EmailHeld

LEMMA AccountsInitInv == AccountsInit => AccountsInv
  BY DEF AccountsInit, AccountsInv, AccountsTypeOK, UniqueEmail, TokensNameKitchens, EmailHeld,
         get_current_kitchen

\* Tokens are issued to kitchens that exist.
LEMMA IssueTokens ==
    ASSUME NEW id \in RegisterReqs, tokens \subseteq Token, Issue(id)
    PROVE  /\ tokens' \subseteq Token
           /\ \A t \in tokens' : t \in tokens \/ t.sub = id
  BY DEF Issue, Token

LEMMA AccountsNextInv == AccountsInv /\ [AccountsNext]_AccountsVars => AccountsInv'
<1> SUFFICES ASSUME AccountsInv, [AccountsNext]_AccountsVars PROVE AccountsInv'
  OBVIOUS
<1> USE DEF AccountsInv, AccountsTypeOK, UniqueEmail, TokensNameKitchens, EmailHeld,
            get_current_kitchen, Signup
<1>1. ASSUME NEW r \in RegisterReqs, NEW e \in Emails, register(r, e) PROVE AccountsInv'
  BY <1>1 DEF register
<1>2. ASSUME NEW r \in RegisterReqs, insert_kitchen(r) PROVE AccountsInv'
  BY <1>2 DEF insert_kitchen
<1>3. ASSUME NEW r \in RegisterReqs, register_commit(r) PROVE AccountsInv'
  <2>1. tokens' \subseteq Token /\ \A t \in tokens' : t \in tokens \/ t.sub = r
    BY <1>3, IssueTokens DEF register_commit
  <2>2. AccountsTypeOK'
    BY <1>3, <2>1 DEF register_commit
  <2>3. UniqueEmail'
    BY <1>3 DEF register_commit
  <2>4. TokensNameKitchens'
    <3>1. [id |-> r, email |-> email[r]] \in kitchens' /\ kitchens \subseteq kitchens'
      BY <1>3 DEF register_commit
    <3> QED BY <2>1, <3>1
  <2>5. EmailHeld'
    BY <1>3 DEF register_commit
  <2> QED BY <2>2, <2>3, <2>4, <2>5
<1>4. ASSUME NEW r \in RegisterReqs, register_rollback(r) PROVE AccountsInv'
  BY <1>4 DEF register_rollback
<1>5. ASSUME NEW e \in Emails, login(e) PROVE AccountsInv'
  <2>1. PICK k \in kitchens : Issue(k.id)
    BY <1>5 DEF login
  <2>2. tokens' \subseteq Token /\ \A t \in tokens' : t \in tokens \/ t.sub = k.id
    BY <2>1, IssueTokens
  <2> QED BY <1>5, <2>2 DEF login
<1>6. ASSUME NEW t \in tokens, refresh_token(t) PROVE AccountsInv'
  <2>1. t.sub \in RegisterReqs
    BY DEF Token
  <2>2. tokens' \subseteq Token /\ \A u \in tokens' : u \in tokens \/ u.sub = t.sub
    BY <1>6, <2>1, IssueTokens DEF refresh_token
  <2> QED BY <1>6, <2>2 DEF refresh_token
<1>7. ASSUME NEW t \in tokens, expire(t) PROVE AccountsInv'
  BY <1>7 DEF expire
<1>8. ASSUME NEW k \in kitchens, deactivate(k) PROVE AccountsInv'
  BY <1>8 DEF deactivate
<1>9. CASE UNCHANGED AccountsVars
  BY <1>9 DEF AccountsVars
<1> QED BY <1>1, <1>2, <1>3, <1>4, <1>5, <1>6, <1>7, <1>8, <1>9 DEF AccountsNext

\* However registrations of one e-mail overlap, one kitchen has it (auth.py:21).
THEOREM OneKitchenPerEmail == AccountsSpec => []UniqueEmail
<1>1. AccountsInv => UniqueEmail
  BY DEF AccountsInv
<1> QED BY <1>1, AccountsInitInv, AccountsNextInv, PTL DEF AccountsSpec

\* Tokens are signed before the commit, but never outlive a rollback (auth.py:38).
THEOREM TokensOfKitchens == AccountsSpec => []TokensNameKitchens
<1>1. AccountsInv => TokensNameKitchens
  BY DEF AccountsInv
<1> QED BY <1>1, AccountsInitInv, AccountsNextInv, PTL DEF AccountsSpec

-----------------------------------------------------------------------------
(* Checkout *)

\* A session that was opened has a basket, and Stripe has no item id of it: the
\* webhook orders nothing.
LinesUnnamed ==
    \A s \in Sessions : payment[s] # "none" =>
       /\ DOMAIN lineItems[s] # {}
       /\ \A i \in DOMAIN lineItems[s] : lineItems[s][i] = NoId

OrdersTyped ==
    /\ offered \subseteq Items
    /\ payment \in [Sessions -> {"none", "open", "paid", "expired"}]
    /\ orders \in [Sessions -> Nat] /\ DOMAIN lineItems = Sessions

CheckoutInv == OrdersTyped /\ LinesUnnamed

\* A webhook's order names a random item, which create_order refuses.
LEMMA WebhookRefused ==
    ASSUME CheckoutInv, NEW s \in Sessions, payment[s] = "paid"
    PROVE  ~Accepted(order_items(lineItems[s]))
<1>1. NoId \in order_items(lineItems[s])
  BY DEF CheckoutInv, LinesUnnamed, order_items
<1>2. NoId \notin offered
  BY CartsAssumption DEF CheckoutInv, OrdersTyped
<1> QED BY <1>1, <1>2 DEF Accepted

LEMMA CheckoutNextInv == CheckoutInv /\ [CheckoutNext]_CheckoutVars => CheckoutInv'
<1> SUFFICES ASSUME CheckoutInv, [CheckoutNext]_CheckoutVars PROVE CheckoutInv'
  OBVIOUS
<1> USE DEF CheckoutInv, OrdersTyped, LinesUnnamed, shop, stripe, event, page
<1>1. ASSUME NEW s \in Sessions, NEW cart \in Carts, create_checkout(s, cart)
      PROVE  CheckoutInv'
  <2>1. cart # {}
    BY CartsAssumption
  <2> QED BY <1>1, <2>1 DEF create_checkout, line_items
<1>2. ASSUME NEW s \in Sessions, complete(s) PROVE CheckoutInv'
  BY <1>2 DEF complete
<1>3. ASSUME NEW s \in Sessions, stripe_webhook(s) PROVE CheckoutInv'
  BY <1>3, WebhookRefused DEF stripe_webhook
<1>4. ASSUME NEW s \in Sessions, post_order(s) PROVE CheckoutInv'
  <2>1. UNCHANGED <<payment, lineItems>>
    BY <1>4 DEF post_order
  <2>2. offered' \subseteq Items /\ orders' \in [Sessions -> Nat]
    BY <1>4 DEF post_order, create_order
  <2> QED BY <2>1, <2>2
<1>5. ASSUME NEW i \in Items, withdraw(i) PROVE CheckoutInv'
  BY <1>5 DEF withdraw
<1>6. CASE UNCHANGED CheckoutVars
  BY <1>6 DEF CheckoutVars
<1> QED BY <1>1, <1>2, <1>3, <1>4, <1>5, <1>6 DEF CheckoutNext

\* The types, and the domains of what is only looked up.
CheckoutTypeInv ==
    /\ CheckoutTypeOK
    /\ DOMAIN cartOf = Sessions /\ DOMAIN delivered = Sessions /\ DOMAIN posts = Sessions

\* An order takes one of each item, of which there is one.
LEMMA AcceptedTakes ==
    ASSUME CheckoutTypeOK, NEW s \in Sessions, NEW ids, Accepted(ids), create_order(s, ids)
    PROVE  left' \in [Items -> 0..InitStock] /\ offered' \subseteq Items
<1>1. InitStock \in Nat /\ left \in [Items -> 0..InitStock]
  BY BoundsAssumption DEF CheckoutTypeOK
<1>2. \A i \in Items : i \in ids => left[i] > 0
  BY DEF Accepted
<1>3. \A i \in Items : (IF i \in ids THEN left[i] - 1 ELSE left[i]) \in 0..InitStock
  BY <1>1, <1>2
<1> QED BY <1>1, <1>3 DEF create_order, CheckoutTypeOK

LEMMA CheckoutNextType ==
    CheckoutInv /\ CheckoutTypeInv /\ [CheckoutNext]_CheckoutVars => CheckoutTypeInv'
<1> SUFFICES ASSUME CheckoutInv, CheckoutTypeInv, [CheckoutNext]_CheckoutVars
             PROVE  CheckoutTypeInv'
  OBVIOUS
<1>0. {InitStock, MaxDeliveries, MaxPosts} \subseteq Nat
  BY BoundsAssumption
<1> USE DEF CheckoutTypeInv, CheckoutTypeOK, shop, stripe, event, page
<1>1. ASSUME NEW s \in Sessions, NEW cart \in Carts, create_checkout(s, cart)
      PROVE  CheckoutTypeInv'
  BY <1>1 DEF create_checkout, line_items, CheckoutInv, OrdersTyped
<1>2. ASSUME NEW s \in Sessions, complete(s) PROVE CheckoutTypeInv'
  BY <1>2 DEF complete
<1>3. ASSUME NEW s \in Sessions, stripe_webhook(s) PROVE CheckoutTypeInv'
  <2>1. /\ delivered[s] < MaxDeliveries /\ delivered' = [delivered EXCEPT ![s] = @ + 1]
        /\ UNCHANGED <<shop, acked, stripe, page>>
    BY <1>3, WebhookRefused DEF stripe_webhook
  <2>2. \A t \in Sessions : delivered'[t] \in 0..MaxDeliveries
    BY <1>0, <2>1
  <2> QED BY <2>1, <2>2
<1>4. ASSUME NEW s \in Sessions, post_order(s) PROVE CheckoutTypeInv'
  <2>1. /\ posts[s] < MaxPosts /\ posts' = [posts EXCEPT ![s] = @ + 1]
        /\ UNCHANGED <<payment, cartOf, lineItems, delivered, acked>>
        /\ settled' \subseteq Sessions
    BY <1>4 DEF post_order
  <2>2. left' \in [Items -> 0..InitStock] /\ offered' \subseteq Items
    BY <1>4, AcceptedTakes DEF post_order
  <2>3. \A t \in Sessions : orders'[t] \in Nat
    BY <1>4 DEF post_order, create_order, CheckoutInv, OrdersTyped
  <2>4. \A t \in Sessions : posts'[t] \in 0..MaxPosts
    BY <1>0, <2>1
  <2> QED BY <2>1, <2>2, <2>3, <2>4
<1>5. ASSUME NEW i \in Items, withdraw(i) PROVE CheckoutTypeInv'
  BY <1>5 DEF withdraw
<1>6. CASE UNCHANGED CheckoutVars
  BY <1>6 DEF CheckoutVars
<1> QED BY <1>1, <1>2, <1>3, <1>4, <1>5, <1>6 DEF CheckoutNext

LEMMA CheckoutInitType == CheckoutInit => CheckoutInv /\ CheckoutTypeInv
  BY BoundsAssumption
     DEF CheckoutInit, CheckoutInv, OrdersTyped, LinesUnnamed,
         CheckoutTypeInv, CheckoutTypeOK

-----------------------------------------------------------------------------
(* Web socket hub *)

IterType == [start : SUBSET Sockets, seen : SUBSET Sockets,
             at : Sockets \cup {NoSocket}, changed : BOOLEAN]

\* Types; a broadcast sends to a socket that was added; one that has not
\* returned has removed nothing.
HubInv ==
    /\ HubTypeOK /\ RegisteredUnlessFailed /\ FailedForgotten
    /\ DOMAIN iter = Casts /\ DOMAIN dead = Casts
    /\ \A b \in Casts : cast[b] = "sending" => iter[b].at \in Added

LEMMA NoIterType == NoIter \in IterType
  BY DEF NoIter, IterType

LEMMA SetConnsStep ==
    ASSUME HubInv, NEW s, NEW over, SetConns(s, over)
    PROVE  /\ conns' = s /\ DOMAIN iter' = Casts
           /\ \A b \in Casts : iter'[b] \in IterType
           /\ \A b \in Casts \ over : cast[b] = "sending" => iter'[b].at = iter[b].at
<1>1. ASSUME NEW b \in Casts
      PROVE  /\ [iter[b] EXCEPT !.changed = @ \/ s # conns] \in IterType
             /\ [iter[b] EXCEPT !.changed = @ \/ s # conns].at = iter[b].at
  BY DEF HubInv, HubTypeOK, IterType
<1> QED BY <1>1, NoIterType DEF SetConns

LEMMA TurnStep ==
    ASSUME HubInv, UNCHANGED <<endpoint, gone>>, NEW b \in Casts, cast[b] # "returned",
           NEW start, start \subseteq Sockets, NEW seen, seen \subseteq Sockets,
           NEW changed, changed \in BOOLEAN, NEW failed, failed \in SUBSET Added,
           Turn(b, start, seen, changed, failed)
    PROVE  HubInv'
<1> USE DEF HubInv, HubTypeOK, RegisteredUnlessFailed, FailedForgotten, Added
<1>1. CASE cast' = [cast EXCEPT ![b] = "raised"] /\ iter' = [iter EXCEPT ![b] = NoIter]
           /\ dead' = [dead EXCEPT ![b] = {}] /\ UNCHANGED conns
  BY <1>1, NoIterType DEF IterType
<1>2. ASSUME NEW w \in conns,
             cast' = [cast EXCEPT ![b] = "sending"],
             iter' = [iter EXCEPT ![b] = [start |-> start, seen |-> seen \cup {w},
                                          at |-> w, changed |-> changed]],
             dead' = [dead EXCEPT ![b] = failed],
             UNCHANGED conns
      PROVE  HubInv'
  <2>1. [start |-> start, seen |-> seen \cup {w}, at |-> w, changed |-> changed] \in IterType
    BY DEF IterType
  <2> QED BY <1>2, <2>1 DEF IterType
<1>3. CASE /\ SetConns(conns \ failed, {b})
           /\ cast' = [cast EXCEPT ![b] = "returned"]
           /\ dead' = [dead EXCEPT ![b] = failed]
  <2>1. /\ conns' = conns \ failed /\ DOMAIN iter' = Casts
        /\ \A c \in Casts : iter'[c] \in IterType
        /\ \A c \in Casts \ {b} : cast[c] = "sending" => iter'[c].at = iter[c].at
    BY <1>3, SetConnsStep
  <2>2. HubTypeOK'
    BY <1>3, <2>1 DEF IterType
  <2>3. RegisteredUnlessFailed'
    BY <1>3, <2>1
  <2>4. FailedForgotten'
    BY <1>3, <2>1
  <2> QED BY <1>3, <2>1, <2>2, <2>3, <2>4
<1> QED BY <1>1, <1>2, <1>3 DEF Turn, Remaining

LEMMA HubNextInv == HubInv /\ [HubNext]_HubVars => HubInv'
<1> SUFFICES ASSUME HubInv, [HubNext]_HubVars PROVE HubInv'
  OBVIOUS
<1> USE DEF HubInv, HubTypeOK, RegisteredUnlessFailed, FailedForgotten, Added, Endpoint
<1>1. ASSUME NEW w \in Sockets, accept(w) \/ endpoint_error(w) \/ leave(w) PROVE HubInv'
  BY <1>1 DEF accept, endpoint_error, leave
<1>2. ASSUME NEW w \in Sockets, connect_kitchen(w) PROVE HubInv'
  <2>1. /\ conns' = conns \cup {w} /\ DOMAIN iter' = Casts
        /\ \A b \in Casts : iter'[b] \in IterType
        /\ \A b \in Casts : cast[b] = "sending" => iter'[b].at = iter[b].at
    BY <1>2, SetConnsStep DEF connect_kitchen
  <2>2. \A b \in Casts : w \notin dead[b]
    BY <1>2 DEF connect_kitchen
  <2> QED BY <1>2, <2>1, <2>2 DEF connect_kitchen, IterType
<1>3. ASSUME NEW w \in Sockets, disconnect_kitchen(w) PROVE HubInv'
  <2>1. /\ conns' = conns \ {w} /\ DOMAIN iter' = Casts
        /\ \A b \in Casts : iter'[b] \in IterType
        /\ \A b \in Casts : cast[b] = "sending" => iter'[b].at = iter[b].at
    BY <1>3, SetConnsStep DEF disconnect_kitchen
  <2> QED BY <1>3, <2>1 DEF disconnect_kitchen, IterType
<1>4. ASSUME NEW b \in Casts, broadcast_to_kitchen(b) PROVE HubInv'
  <2>1. /\ conns \subseteq Sockets /\ {} \subseteq Sockets /\ FALSE \in BOOLEAN
        /\ {} \in SUBSET Added /\ cast[b] # "returned"
    BY <1>4 DEF broadcast_to_kitchen
  <2>2. UNCHANGED <<endpoint, gone>> /\ Turn(b, conns, {}, FALSE, {})
    BY <1>4 DEF broadcast_to_kitchen
  <2> HIDE DEF HubInv
  <2> QED BY <2>1, <2>2, TurnStep, Zenon
<1>5. ASSUME NEW b \in Casts, sent(b) PROVE HubInv'
  <2>1. PICK failed \in SUBSET {iter[b].at} :
            Turn(b, iter[b].start, iter[b].seen, iter[b].changed, dead[b] \cup failed)
    BY <1>5 DEF sent
  <2>2. /\ iter[b].start \subseteq Sockets /\ iter[b].seen \subseteq Sockets
        /\ iter[b].changed \in BOOLEAN /\ dead[b] \cup failed \in SUBSET Added
        /\ cast[b] # "returned" /\ UNCHANGED <<endpoint, gone>>
    BY <1>5 DEF sent
  <2> HIDE DEF HubInv
  <2> QED BY <2>1, <2>2, TurnStep
<1>6. CASE UNCHANGED HubVars
  BY <1>6 DEF HubVars
<1> QED BY <1>1, <1>2, <1>3, <1>4, <1>5, <1>6 DEF HubNext

LEMMA HubInitInv == HubInit => HubInv
  BY NoIterType
     DEF HubInit, HubInv, HubTypeOK, RegisteredUnlessFailed, FailedForgotten, IterType

\* A broadcast that ends takes out of the set only connections its own sends
\* failed on, whoever came or went while it was sending (websocket.py:51).
THEOREM OnlyFailedRemoved == HubSpec => []RegisteredUnlessFailed
<1>1. HubInv => RegisteredUnlessFailed
  BY DEF HubInv
<1> QED BY <1>1, HubInitInv, HubNextInv, PTL DEF HubSpec

\* What a broadcast could not send to is gone from the set when it returns, and
\* stays so (websocket.py:46, ws.py:20).
THEOREM FailedStayForgotten == HubSpec => []FailedForgotten
<1>1. HubInv => FailedForgotten
  BY DEF HubInv
<1> QED BY <1>1, HubInitInv, HubNextInv, PTL DEF HubSpec

-----------------------------------------------------------------------------
(* Event bus *)

\* s is the beginning of list.
Begins(s, list) ==
    /\ s \in Seq(Handlers) /\ Len(s) <= Len(list)
    /\ \A i \in 1..Len(s) : s[i] = list[i]

\* An emission has run the beginning of the list, up to the handler it awaits;
\* one that has returned got at least as far as the list went when it began.
LoopInv(m) ==
    IF emission[m] = NoEvent THEN next[m] = 0 /\ ran[m] = <<>>
    ELSE /\ Begins(known[m], registry[emission[m]])
         /\ Begins(ran[m], registry[emission[m]])
         /\ next[m] > 0 => next[m] = Len(ran[m]) + 1 /\ next[m] <= Len(registry[emission[m]])
         /\ next[m] = 0 => Len(known[m]) <= Len(ran[m])

BusInv ==
    /\ registry \in [Events -> Seq(Handlers)]
    /\ emission \in [Emissions -> Events \cup {NoEvent}]
    /\ next \in [Emissions -> Nat]
    /\ DOMAIN known = Emissions /\ DOMAIN ran = Emissions
    /\ \A m \in Emissions : LoopInv(m)

LEMMA BeginsAppend ==
    ASSUME NEW list \in Seq(Handlers), NEW s, Begins(s, list), NEW h \in Handlers
    PROVE  Begins(s, Append(list, h)) /\ Len(Append(list, h)) = Len(list) + 1
  BY DEF Begins

LEMMA BusNextInv == BusInv /\ [BusNext]_BusVars => BusInv'
<1> SUFFICES ASSUME BusInv, [BusNext]_BusVars PROVE BusInv'
  OBVIOUS
<1> USE DEF BusInv
<1>1. ASSUME NEW e \in Events, NEW h \in Handlers, on(e, h) PROVE BusInv'
  <2>1. /\ registry' = [registry EXCEPT ![e] = Append(@, h)]
        /\ UNCHANGED <<emission, next, known, ran>>
    BY <1>1 DEF on
  <2>2. registry' \in [Events -> Seq(Handlers)]
    BY <2>1
  <2>3. ASSUME NEW m \in Emissions PROVE LoopInv(m)'
    <3>1. LoopInv(m)
      OBVIOUS
    <3>2. CASE emission[m] = e
      <4>1. registry'[e] = Append(registry[e], h) /\ registry[e] \in Seq(Handlers)
        BY <2>1
      <4> QED BY <2>1, <3>1, <3>2, <4>1, BeginsAppend DEF LoopInv
    <3>3. CASE emission[m] # e
      <4>1. emission[m] \in Events => registry'[emission[m]] = registry[emission[m]]
        BY <2>1, <3>3
      <4> QED BY <2>1, <3>1, <4>1 DEF LoopInv
    <3> QED BY <3>2, <3>3
  <2> QED BY <2>1, <2>2, <2>3
<1>2. ASSUME NEW e \in Events, NEW m \in Emissions, emit(m, e) PROVE BusInv'
  <2>1. /\ emission[m] = NoEvent
        /\ emission' = [emission EXCEPT ![m] = e]
        /\ known' = [known EXCEPT ![m] = registry[e]]
        /\ next' = [next EXCEPT ![m] = IF registry[e] = <<>> THEN 0 ELSE 1]
        /\ UNCHANGED <<registry, ran>>
    BY <1>2 DEF emit
  <2>2. ASSUME NEW n \in Emissions PROVE LoopInv(n)'
    <3>1. LoopInv(n) /\ LoopInv(m)
      OBVIOUS
    <3>2. CASE n = m
      <4>1. ran'[m] = <<>> /\ emission'[m] = e /\ e # NoEvent /\ known'[m] = registry[e]
            /\ registry'[e] = registry[e] /\ registry[e] \in Seq(Handlers)
        BY <2>1, <3>1, EventsAssumption DEF LoopInv
      <4>2. Begins(registry[e], registry[e]) /\ Begins(<<>>, registry[e])
        BY <4>1 DEF Begins
      <4>3. IF registry[e] = <<>> THEN next'[m] = 0 /\ Len(registry[e]) = 0
            ELSE next'[m] = 1 /\ Len(registry[e]) >= 1
        BY <2>1, <4>1
      <4> QED BY <3>2, <4>1, <4>2, <4>3 DEF LoopInv
    <3>3. CASE n # m
      BY <2>1, <3>1, <3>3 DEF LoopInv
    <3> QED BY <3>2, <3>3
  <2> QED BY <2>1, <2>2
<1>3. ASSUME NEW m \in Emissions, handled(m) PROVE BusInv'
  <2> DEFINE list == registry[emission[m]]
  <2>1. /\ next[m] > 0
        /\ next' = [next EXCEPT ![m] = After(m, @)]
        /\ ran' = [ran EXCEPT ![m] = Append(@, list[next[m]])]
        /\ UNCHANGED <<registry, emission, known>>
    BY <1>3 DEF handled
  <2>2. /\ emission[m] \in Events /\ emission[m] # NoEvent /\ list \in Seq(Handlers)
        /\ Begins(known[m], list) /\ Begins(ran[m], list)
        /\ next[m] = Len(ran[m]) + 1 /\ next[m] <= Len(list)
    BY <2>1 DEF LoopInv
  <2>3. next'[m] = IF next[m] < Len(list) THEN next[m] + 1 ELSE 0
    BY <2>1 DEF After
  <2>4. /\ ran'[m] \in Seq(Handlers) /\ Len(ran'[m]) = next[m]
        /\ \A i \in 1..Len(ran'[m]) : ran'[m][i] = list[i]
    <3>1. list[next[m]] \in Handlers /\ ran'[m] = Append(ran[m], list[next[m]])
      BY <2>1, <2>2 DEF Begins
    <3> QED BY <2>2, <3>1 DEF Begins
  <2>5. next' \in [Emissions -> Nat]
    BY <2>1, <2>2 DEF After
  <2>6. ASSUME NEW n \in Emissions PROVE LoopInv(n)'
    <3>1. LoopInv(n)
      OBVIOUS
    <3>2. CASE n = m
      <4>1. Begins(ran'[m], list)
        BY <2>2, <2>4 DEF Begins
      <4>2. /\ next'[m] > 0 => next'[m] = Len(ran'[m]) + 1 /\ next'[m] <= Len(list)
            /\ next'[m] = 0 => Len(known[m]) <= Len(ran'[m])
        BY <2>2, <2>3, <2>4 DEF Begins
      <4> QED BY <2>1, <2>2, <3>2, <4>1, <4>2 DEF LoopInv
    <3>3. CASE n # m
      BY <2>1, <3>1, <3>3 DEF LoopInv
    <3> QED BY <3>2, <3>3
  <2> QED BY <2>1, <2>5, <2>6
<1>4. CASE UNCHANGED BusVars
  BY <1>4 DEF BusVars, LoopInv
<1> QED BY <1>1, <1>2, <1>3, <1>4 DEF BusNext

\* Whatever raises and whatever is registered meanwhile, an emission that has
\* returned ran the handlers it began with (event_bus.py:33).
THEOREM HandlersRun == BusSpec => []EveryHandlerRan
<1>1. BusInit => BusInv
  BY DEF BusInit, BusInv, LoopInv
<1>2. BusInv => EveryHandlerRan
  <2> SUFFICES ASSUME BusInv, NEW m \in Emissions, emission[m] # NoEvent, next[m] = 0
               PROVE  IsPrefix(known[m], ran[m])
    BY DEF EveryHandlerRan
  <2>1. /\ known[m] \in Seq(Handlers) /\ ran[m] \in Seq(Handlers)
        /\ Len(known[m]) <= Len(ran[m])
        /\ \A i \in 1..Len(known[m]) : known[m][i] = ran[m][i]
    BY DEF BusInv, LoopInv, Begins
  <2> QED BY <2>1 DEF IsPrefix
<1> QED BY <1>1, <1>2, BusNextInv, PTL DEF BusSpec

LEMMA BusTypes == BusInv => BusTypeOK
<1> SUFFICES ASSUME BusInv PROVE BusTypeOK
  OBVIOUS
<1>1. ASSUME NEW m \in Emissions, next[m] > 0
      PROVE  next[m] \in DOMAIN registry[emission[m]]
  <2>1. emission[m] \in Events /\ next[m] \in Nat /\ next[m] <= Len(registry[emission[m]])
    BY <1>1 DEF BusInv, LoopInv
  <2> QED BY <1>1, <2>1 DEF BusInv
<1>2. ASSUME NEW m \in Emissions
      PROVE  IsPrefix(ran[m], IF emission[m] = NoEvent THEN <<>> ELSE registry[emission[m]])
  <2>1. CASE emission[m] = NoEvent
    BY <2>1 DEF BusInv, LoopInv, IsPrefix
  <2>2. CASE emission[m] # NoEvent
    <3>1. /\ ran[m] \in Seq(Handlers) /\ registry[emission[m]] \in Seq(Handlers)
          /\ Len(ran[m]) <= Len(registry[emission[m]])
          /\ \A i \in 1..Len(ran[m]) : ran[m][i] = registry[emission[m]][i]
      BY <2>2 DEF BusInv, LoopInv, Begins
    <3> QED BY <2>2, <3>1 DEF IsPrefix
  <2> QED BY <2>1, <2>2
<1> QED BY <1>1, <1>2 DEF BusInv, BusTypeOK

-----------------------------------------------------------------------------
(* The five components side by side *)

ServicesInv ==
    /\ AccountsInv
    /\ Inv /\ CatalogTypeOK
    /\ CheckoutInv /\ CheckoutTypeInv
    /\ HubInv
    /\ BusInv

LEMMA BusInitInv == BusInit => BusInv
  BY DEF BusInit, BusInv, LoopInv

\* A step of the five is a step of each, or leaves it alone.
LEMMA ComponentSteps ==
    [Next]_vars => /\ [AccountsNext]_AccountsVars /\ [CatalogNext]_CatalogVars
                   /\ [CheckoutNext]_CheckoutVars /\ [HubNext]_HubVars /\ [BusNext]_BusVars
  BY DEF Next, vars

\* The rows, jobs, counters, sets and lists of all five are well-typed, whatever
\* the requests, connections and deliveries.
THEOREM TypesHold == Spec => []TypesOK
<1>1. Init => ServicesInv
  BY AccountsInitInv, InitTables, InitCatalogType, CheckoutInitType, HubInitInv, BusInitInv
     DEF Init, ServicesInv, Inv
<1>2. ServicesInv /\ [Next]_vars => ServicesInv'
  BY ComponentSteps, AccountsNextInv, NextInv, NextCatalogType, CheckoutNextInv,
     CheckoutNextType, HubNextInv, BusNextInv
     DEF ServicesInv
<1>3. ServicesInv => TypesOK
  BY BusTypes DEF ServicesInv, TypesOK, AccountsInv, CheckoutTypeInv, HubInv
<1> QED BY <1>1, <1>2, <1>3, PTL DEF Spec
=============================================================================
