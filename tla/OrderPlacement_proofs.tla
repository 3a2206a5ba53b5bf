------------------------ MODULE OrderPlacement_proofs ------------------------
(***************************************************************************)
(* What holds of order placement for every menu, cart, patch, number of    *)
(* concurrent requests and size of the connection pool.                    *)
(***************************************************************************)
EXTENDS OrderPlacement, FiniteSetTheorems, WellFoundedInduction, TLAPS

-----------------------------------------------------------------------------
(* Types *)

LEMMA NoChangeType == NoChange \in Columns
  BY DEF NoChange, Columns

LEMMA NoWritesType == [i \in Items |-> NoChange] \in [Items -> Columns]
  BY NoChangeType

\* The columns an order sets are well-typed: the quantities are integers and
\* only tracked items are decremented.
LEMMA OrderWritesType ==
    ASSUME TypeOK, NEW c \in Carts, NEW rows \in SUBSET DOMAIN c
    PROVE  OrderWrites(c, rows) \in [Items -> Columns]
<1> SUFFICES ASSUME NEW i \in Items
             PROVE  OrderWrites(c, rows)[i] \in Columns
  BY DEF OrderWrites
<1>1. CASE i \in rows /\ stock[i] # Null
  <2>1. stock[i] \in Int /\ c[i].qty \in Int
    BY <1>1, PayloadsAssumption DEF TypeOK, TablesOK, StockValues, Lines
  <2>2. stock[i] - c[i].qty \in Int
    BY <2>1
  <2> QED BY <1>1, <2>2 DEF OrderWrites, Columns, Net, StockValues
<1>2. CASE ~(i \in rows /\ stock[i] # Null)
  BY <1>2, NoChangeType DEF OrderWrites
<1> QED BY <1>1, <1>2

\* The columns a console sets are well-typed.
LEMMA PatchWritesType ==
    ASSUME TypeOK, NEW patch \in Patches, NEW i \in Items
    PROVE  [k \in Items |-> IF k = i THEN [stock |-> Net(stock[i], patch.stock),
                                           avail |-> Net(avail[i], patch.avail)]
                                     ELSE NoChange] \in [Items -> Columns]
<1>1. patch.stock \in StockValues \cup {Keep} /\ patch.avail \in BOOLEAN \cup {Keep}
  BY PayloadsAssumption DEF Columns
<1>2. [stock |-> Net(stock[i], patch.stock), avail |-> Net(avail[i], patch.avail)] \in Columns
  BY <1>1 DEF Net, Columns
<1> QED BY <1>2, NoChangeType

LEMMA InitType == Init => TypeOK
<1> SUFFICES ASSUME Init PROVE TypeOK
  OBVIOUS
<1>1. customers \subseteq CustIds
  BY DEF Init, CustIds
<1>2. new \in [Requests -> [Items -> Columns]]
  BY NoWritesType DEF Init
<1>3. stock \in [Items -> StockValues] /\ avail \in [Items -> BOOLEAN]
  BY PayloadsAssumption DEF Init
<1>4. pc \in [Requests -> Phases]
  BY DEF Init, Phases
<1>5. \A r \in OrderReqs : pc[r] = "idle"
  BY DEF Init, Requests
<1>6. TablesOK /\ SessionsOK /\ OrderRowsOK
  BY <1>1, <1>2, <1>3, <1>4 DEF Init, TablesOK, SessionsOK, OrderRowsOK
<1>7. Filled
  BY <1>5 DEF Filled
<1> QED BY <1>6, <1>7 DEF TypeOK

LEMMA RollbackType ==
    ASSUME TypeOK, NEW r \in Requests, Rollback(r)
    PROVE  TypeOK'
<1>1. /\ pc' = [pc EXCEPT ![r] = "failed"]
      /\ UNCHANGED <<published, live, stock, avail, customers, total>>
      /\ todo' = [todo EXCEPT ![r] = {}]
      /\ held' = [held EXCEPT ![r] = {}]
      /\ new' = [new EXCEPT ![r] = [i \in Items |-> NoChange]]
  BY DEF Rollback, Goto, EndSession, menuTable, custTable
<1>2. TablesOK'
  BY <1>1 DEF TypeOK, TablesOK
<1>3. SessionsOK'
  <2>1. pc' \in [Requests -> Phases]
    BY <1>1 DEF TypeOK, SessionsOK, Phases
  <2> QED BY <1>1, <2>1, NoWritesType DEF TypeOK, SessionsOK
<1>4. OrderRowsOK'
  <2>1. CASE r \in OrderReqs
    BY <2>1 DEF Rollback, TypeOK, OrderRowsOK
  <2>2. CASE r \notin OrderReqs
    BY <2>2 DEF Rollback, orderRow, TypeOK, OrderRowsOK
  <2> QED BY <2>1, <2>2
<1>5. Filled'
  <2> SUFFICES ASSUME NEW q \in OrderReqs
               PROVE  /\ pc'[q] \in {"insert", "commit", "done"} => cust'[q] \in CustIds
                      /\ pc'[q] \in {"flush", "insert", "commit", "done"} => phone'[q] \in Phones
    BY DEF Filled
  <2>1. q \in Requests
    BY DEF Requests
  <2>2. CASE q = r
    BY <1>1, <2>1, <2>2 DEF TypeOK, SessionsOK
  <2>3. CASE q # r
    <3>1. pc'[q] = pc[q]
      BY <1>1, <2>1, <2>3 DEF TypeOK, SessionsOK
    <3>2. cust'[q] = cust[q] /\ phone'[q] = phone[q]
      BY <2>3 DEF Rollback, orderRow, TypeOK, OrderRowsOK
    <3> QED BY <3>1, <3>2 DEF TypeOK, Filled
  <2> QED BY <2>2, <2>3
<1> QED BY <1>2, <1>3, <1>4, <1>5 DEF TypeOK

\* A step that moves one request on and leaves the order rows alone keeps them
\* filled in if the request's own row is filled in for its new phase.
LEMMA GotoFilled ==
    ASSUME TypeOK, NEW r \in Requests, NEW s \in Phases, Goto(r, s), UNCHANGED orderRow,
           r \in OrderReqs /\ s \in {"insert", "commit", "done"} => cust[r] \in CustIds,
           r \in OrderReqs /\ s \in {"flush", "insert", "commit", "done"}
              => phone[r] \in Phones
    PROVE  Filled' /\ OrderRowsOK' /\ pc' \in [Requests -> Phases]
<1>1. pc' = [pc EXCEPT ![r] = s]
  BY DEF Goto
<1>2. pc' \in [Requests -> Phases] /\ OrderRowsOK'
  BY <1>1 DEF TypeOK, SessionsOK, OrderRowsOK, orderRow
<1>3. ASSUME NEW q \in OrderReqs
      PROVE  /\ pc'[q] \in {"insert", "commit", "done"} => cust'[q] \in CustIds
             /\ pc'[q] \in {"flush", "insert", "commit", "done"} => phone'[q] \in Phones
  <2>1. q \in Requests
    BY DEF Requests
  <2>2. CASE q = r
    BY <1>1, <2>1, <2>2 DEF TypeOK, SessionsOK, orderRow
  <2>3. CASE q # r
    BY <1>1, <2>1, <2>3 DEF TypeOK, SessionsOK, Filled, orderRow
  <2> QED BY <2>2, <2>3
<1> QED BY <1>2, <1>3 DEF Filled

LEMMA LoadMenuType ==
    ASSUME TypeOK, NEW r \in Requests, load_menu(r)
    PROVE  TypeOK'
<1>1. Goto(r, "items") \/ Goto(r, "failed")
  BY DEF load_menu
<1>2. UNCHANGED <<published, menuTable, custTable, session, orderRow>>
  BY DEF load_menu
<1>3. Filled' /\ OrderRowsOK' /\ pc' \in [Requests -> Phases]
  BY <1>1, <1>2, GotoFilled DEF Phases
<1> QED BY <1>2, <1>3
        DEF TypeOK, TablesOK, SessionsOK, menuTable, custTable, session

LEMMA CreateOrderType ==
    ASSUME TypeOK, NEW r \in Requests, NEW c \in Carts, NEW p \in Phones,
           create_order(r, c, p)
    PROVE  TypeOK'
<1>0. r \in OrderReqs /\ UNCHANGED <<published, menuTable, custTable>>
  BY DEF create_order
<1>1. TablesOK'
  BY <1>0 DEF TypeOK, TablesOK, menuTable, custTable
<1>2. CASE Acceptable(c)
  <2>1. /\ pc' = [pc EXCEPT ![r] = "flush"]
        /\ new' = [new EXCEPT ![r] = OrderWrites(c, DOMAIN c)]
        /\ todo' = [todo EXCEPT ![r] = {i \in Items : OrderWrites(c, DOMAIN c)[i] # NoChange}]
        /\ held' = held
        /\ cart' = [cart EXCEPT ![r] = c]
        /\ phone' = [phone EXCEPT ![r] = p]
        /\ cust' = cust /\ seen' = seen
    BY <1>2 DEF create_order, Goto, Dirty
  <2>2. SessionsOK'
    BY <2>1, OrderWritesType DEF TypeOK, SessionsOK, Phases
  <2>3. OrderRowsOK'
    BY <2>1 DEF TypeOK, OrderRowsOK
  <2>4. ASSUME NEW q \in OrderReqs
        PROVE  /\ pc'[q] \in {"insert", "commit", "done"} => cust'[q] \in CustIds
               /\ pc'[q] \in {"flush", "insert", "commit", "done"} => phone'[q] \in Phones
    <3>1. q \in Requests
      BY DEF Requests
    <3>2. CASE q = r
      BY <2>1, <3>1, <3>2 DEF TypeOK, SessionsOK, OrderRowsOK
    <3>3. CASE q # r
      BY <2>1, <3>1, <3>3 DEF TypeOK, SessionsOK, OrderRowsOK, Filled
    <3> QED BY <3>2, <3>3
  <2> QED BY <1>1, <2>2, <2>3, <2>4 DEF TypeOK, Filled
<1>3. CASE ~Acceptable(c)
  <2>1. PICK rows \in SUBSET DOMAIN c : Dirty(r, OrderWrites(c, rows))
    BY <1>3 DEF create_order
  <2>2. Goto(r, "raised") /\ UNCHANGED orderRow
    BY <1>3 DEF create_order
  <2>3. Filled' /\ OrderRowsOK' /\ pc' \in [Requests -> Phases]
    BY <2>2, GotoFilled DEF Phases
  <2>4. /\ new' = [new EXCEPT ![r] = OrderWrites(c, rows)]
        /\ todo' = [todo EXCEPT ![r] = {i \in Items : OrderWrites(c, rows)[i] # NoChange}]
        /\ held' = held
    BY <2>1 DEF Dirty
  <2>5. SessionsOK'
    BY <2>3, <2>4, OrderWritesType DEF TypeOK, SessionsOK
  <2> QED BY <1>1, <2>3, <2>5 DEF TypeOK
<1> QED BY <1>2, <1>3

LEMMA UpdateItemType ==
    ASSUME TypeOK, NEW r \in Requests, NEW i \in Items, NEW patch \in Patches,
           update_menu_item(r, i, patch)
    PROVE  TypeOK'
<1>0. r \notin OrderReqs /\ UNCHANGED <<published, menuTable, custTable, orderRow>>
  BY RequestsAssumption DEF update_menu_item
<1>1. TablesOK'
  BY <1>0 DEF TypeOK, TablesOK, menuTable, custTable
<1>2. Filled' /\ OrderRowsOK' /\ pc' \in [Requests -> Phases]
  <2>1. Goto(r, "flush") \/ Goto(r, "failed")
    BY DEF update_menu_item
  <2> QED BY <1>0, <2>1, GotoFilled DEF Phases
<1>3. SessionsOK'
  <2>1. CASE i \in live
    <3> DEFINE w == [k \in Items |-> IF k = i THEN [stock |-> Net(stock[i], patch.stock),
                                                   avail |-> Net(avail[i], patch.avail)]
                                             ELSE NoChange]
    <3>1. /\ new' = [new EXCEPT ![r] = w]
          /\ todo' = [todo EXCEPT ![r] = {k \in Items : w[k] # NoChange}]
          /\ held' = held
      BY <2>1 DEF update_menu_item, Dirty
    <3>2. w \in [Items -> Columns]
      BY PatchWritesType
    <3> HIDE DEF w
    <3> QED BY <1>2, <3>1, <3>2 DEF TypeOK, SessionsOK
  <2>2. CASE i \notin live
    BY <1>2, <2>2 DEF update_menu_item, TypeOK, SessionsOK, session
  <2> QED BY <2>1, <2>2
<1> QED BY <1>1, <1>2, <1>3 DEF TypeOK

LEMMA DeleteItemType ==
    ASSUME TypeOK, NEW r \in Requests, NEW i \in Items, delete_menu_item(r, i)
    PROVE  TypeOK'
<1>0. /\ r \notin OrderReqs
      /\ UNCHANGED <<published, menuTable, custTable, held, new, orderRow>>
  BY RequestsAssumption DEF delete_menu_item, Deleters
<1>1. Filled' /\ OrderRowsOK' /\ pc' \in [Requests -> Phases]
  <2>1. Goto(r, "flush") \/ Goto(r, "failed")
    BY DEF delete_menu_item
  <2> QED BY <1>0, <2>1, GotoFilled DEF Phases
<1>2. todo' \in [Requests -> SUBSET Items]
  BY DEF delete_menu_item, TypeOK, SessionsOK
<1> QED BY <1>0, <1>1, <1>2
        DEF TypeOK, TablesOK, SessionsOK, menuTable, custTable

LEMMA PublicMenuType ==
    ASSUME TypeOK, NEW r \in Requests, get_public_menu(r)
    PROVE  TypeOK'
<1>0. /\ r \notin OrderReqs /\ Goto(r, "flush")
      /\ todo' = [todo EXCEPT ![r] = {i \in live : ~avail[i]}]
      /\ UNCHANGED <<published, menuTable, custTable, held, new, orderRow>>
  BY RequestsAssumption DEF get_public_menu, Deleters
<1>1. Filled' /\ OrderRowsOK' /\ pc' \in [Requests -> Phases]
  BY <1>0, GotoFilled DEF Phases
<1>2. todo' \in [Requests -> SUBSET Items]
  BY <1>0 DEF TypeOK, SessionsOK, TablesOK
<1> QED BY <1>0, <1>1, <1>2
        DEF TypeOK, TablesOK, SessionsOK, menuTable, custTable

LEMMA FlushRowType ==
    ASSUME TypeOK, NEW r \in Requests, NEW i \in Items, flush_row(r, i) \/ stale_row(r, i)
    PROVE  TypeOK'
<1>1. CASE Rollback(r)
  BY <1>1, RollbackType
<1>2. CASE ~Rollback(r)
  <2>1. /\ todo' = [todo EXCEPT ![r] = @ \ {i}]
        /\ held' = [held EXCEPT ![r] = @ \cup {i}] \/ held' = held
        /\ UNCHANGED <<published, menuTable, custTable, pc, new, orderRow>>
    BY <1>2 DEF flush_row, stale_row
  <2>2. SessionsOK'
    BY <2>1 DEF TypeOK, SessionsOK
  <2> QED BY <2>1, <2>2
          DEF TypeOK, TablesOK, OrderRowsOK, Filled, menuTable, custTable, orderRow
<1> QED BY <1>1, <1>2

LEMMA FindCustomerType ==
    ASSUME TypeOK, NEW r \in Requests, find_or_create_by_phone(r)
    PROVE  TypeOK'
<1>0. r \in OrderReqs /\ pc[r] = "flush"
  BY DEF find_or_create_by_phone
<1>1. CASE Rollback(r)
  BY <1>1, RollbackType
<1>2. ASSUME NEW c \in CustIds, NEW n \in Nat,
             /\ Goto(r, "insert")
             /\ cust' = [cust EXCEPT ![r] = c]
             /\ seen' = [seen EXCEPT ![r] = n]
             /\ UNCHANGED <<published, menuTable, custTable, session, cart, phone>>
      PROVE  TypeOK'
  <2>1. pc' = [pc EXCEPT ![r] = "insert"]
    BY <1>2 DEF Goto
  <2>2. SessionsOK'
    BY <1>2, <2>1 DEF TypeOK, SessionsOK, Phases, session
  <2>3. TablesOK' /\ OrderRowsOK'
    BY <1>2 DEF TypeOK, TablesOK, OrderRowsOK, menuTable, custTable
  <2>4. ASSUME NEW q \in OrderReqs
        PROVE  /\ pc'[q] \in {"insert", "commit", "done"} => cust'[q] \in CustIds
               /\ pc'[q] \in {"flush", "insert", "commit", "done"} => phone'[q] \in Phones
    <3>1. q \in Requests
      BY DEF Requests
    <3>2. CASE q = r
      BY <1>0, <1>2, <2>1, <3>1, <3>2 DEF TypeOK, SessionsOK, OrderRowsOK, Filled
    <3>3. CASE q # r
      BY <1>2, <2>1, <3>1, <3>3 DEF TypeOK, SessionsOK, OrderRowsOK, Filled
    <3> QED BY <3>2, <3>3
  <2> QED BY <2>2, <2>3, <2>4 DEF TypeOK, Filled
<1>3. CASE /\ Goto(r, "insert")
           /\ cust' = [cust EXCEPT ![r] = r]
           /\ UNCHANGED <<published, menuTable, custTable, session, cart, phone, seen>>
  <2>1. seen' = [seen EXCEPT ![r] = seen[r]] /\ seen[r] \in Nat
    BY <1>0, <1>3 DEF TypeOK, OrderRowsOK
  <2>2. r \in CustIds
    BY <1>0 DEF CustIds
  <2> QED BY <1>2, <1>3, <2>1, <2>2
<1>4. ASSUME NEW c \in Matching(phone[r]),
             /\ Goto(r, "insert")
             /\ cust' = [cust EXCEPT ![r] = c]
             /\ seen' = [seen EXCEPT ![r] = total[c]]
             /\ UNCHANGED <<published, menuTable, custTable, session, cart, phone>>
      PROVE  TypeOK'
  <2>1. c \in CustIds /\ total[c] \in Nat
    BY DEF Matching, TypeOK, TablesOK
  <2> QED BY <1>2, <1>4, <2>1
<1> QED BY <1>1, <1>3, <1>4 DEF find_or_create_by_phone

LEMMA InsertOrderType ==
    ASSUME TypeOK, NEW r \in Requests, insert_order(r)
    PROVE  TypeOK'
<1>1. /\ r \in OrderReqs /\ pc[r] = "insert" /\ Goto(r, "commit")
      /\ UNCHANGED <<published, menuTable, custTable, session, orderRow>>
  BY DEF insert_order
<1>2. Filled' /\ OrderRowsOK' /\ pc' \in [Requests -> Phases]
  BY <1>1, GotoFilled DEF Phases, TypeOK, Filled
<1> QED BY <1>1, <1>2
        DEF TypeOK, TablesOK, SessionsOK, menuTable, custTable, session

LEMMA CommitType ==
    ASSUME TypeOK, NEW r \in Requests, get_db_commit(r)
    PROVE  TypeOK'
<1>1. /\ Goto(r, "done") /\ EndSession(r) /\ UNCHANGED <<published, orderRow>>
      /\ r \in OrderReqs => pc[r] = "commit"
  BY DEF get_db_commit, ReadyToCommit
<1>2. Filled' /\ OrderRowsOK' /\ pc' \in [Requests -> Phases]
  BY <1>1, GotoFilled DEF Phases, TypeOK, Filled
<1>3. SessionsOK'
  BY <1>1, <1>2, NoWritesType DEF TypeOK, SessionsOK, EndSession
<1>4. \A i \in Items : /\ Apply(stock[i], new[r][i].stock) \in StockValues
                       /\ Apply(avail[i], new[r][i].avail) \in BOOLEAN
  BY DEF TypeOK, TablesOK, SessionsOK, Columns, Apply
<1>5. live' \subseteq Items /\ stock' \in [Items -> StockValues] /\ avail' \in [Items -> BOOLEAN]
  BY <1>4 DEF get_db_commit, TypeOK, TablesOK
<1>6. customers' \subseteq CustIds /\ total' \in [CustIds -> Nat]
  <2>1. CASE r \in OrderReqs
    <3>1. cust[r] \in CustIds /\ seen[r] + 1 \in Nat
      BY <1>1, <2>1 DEF TypeOK, Filled, OrderRowsOK
    <3> QED BY <2>1, <3>1 DEF get_db_commit, TypeOK, TablesOK
  <2>2. CASE r \notin OrderReqs
    BY <2>2 DEF get_db_commit, custTable, TypeOK, TablesOK
  <2> QED BY <2>1, <2>2
<1> QED BY <1>1, <1>2, <1>3, <1>5, <1>6 DEF TypeOK, TablesOK

LEMMA NextType == TypeOK /\ [Next]_vars => TypeOK'
<1> SUFFICES ASSUME TypeOK, [Next]_vars PROVE TypeOK'
  OBVIOUS
<1>1. CASE UNCHANGED vars
  BY <1>1 DEF vars, menuTable, custTable, session, orderRow,
              TypeOK, TablesOK, SessionsOK, OrderRowsOK, Filled
<1>2. CASE update_menu
  BY <1>2 DEF update_menu, menuTable, custTable, session, orderRow,
              TypeOK, TablesOK, SessionsOK, OrderRowsOK, Filled
<1>3. ASSUME NEW r \in Requests, Start(r) PROVE TypeOK'
  BY <1>3, LoadMenuType, UpdateItemType, DeleteItemType DEF Start
<1>4. ASSUME NEW r \in Requests, Progress(r) PROVE TypeOK'
  BY <1>4, CreateOrderType, PublicMenuType, FlushRowType, FindCustomerType,
     InsertOrderType, CommitType, RollbackType DEF Progress, get_db_except
<1>5. ASSUME NEW r \in Requests, get_db_rollback(r) PROVE TypeOK'
  BY <1>5, RollbackType DEF get_db_rollback
<1>6. ASSUME NEW r \in Requests, pool_timeout(r) PROVE TypeOK'
  <2>1. /\ Goto(r, "failed")
        /\ UNCHANGED <<published, menuTable, custTable, session, orderRow>>
    BY <1>6 DEF pool_timeout
  <2>2. Filled' /\ OrderRowsOK' /\ pc' \in [Requests -> Phases]
    BY <2>1, GotoFilled DEF Phases
  <2> QED BY <2>1, <2>2
          DEF TypeOK, TablesOK, SessionsOK, menuTable, custTable, session
<1> QED BY <1>1, <1>2, <1>3, <1>4, <1>5, <1>6 DEF Next

\* Whatever the menu, the carts, the patches and the requests in flight, tables
\* and sessions are well-typed and an order has its phone number and customer
\* by the time they are used.
THEOREM TypeCorrect == Spec => []TypeOK
  BY InitType, NextType, PTL DEF Spec
=============================================================================
