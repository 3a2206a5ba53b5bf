--------------------------- MODULE OrderPlacement ---------------------------
(***************************************************************************)
(* Placing orders on one menu while the console edits it and the public    *)
(* page is viewed.                                                         *)
(*                                                                         *)
(* Every request has a session of its own (get_db): a transaction that     *)
(* commits when the handler returns and rolls back when it raises.         *)
(* PostgreSQL runs at READ COMMITTED, so a SELECT sees what is committed   *)
(* when it starts.  SQLAlchemy keeps the loaded rows, lets the handler     *)
(* assign to them, and flushes later (before the next SELECT, or at the    *)
(* commit): one UPDATE or DELETE per row, in primary key order, naming the *)
(* row by its key only and setting the columns whose value changed to the  *)
(* value computed in Python.  An UPDATE locks its row until the            *)
(* transaction ends and waits for a row that another one has locked.       *)
(*                                                                         *)
(* The steps of a request are therefore its SELECTs, each with the Python  *)
(* code up to the next database call, its row writes, and its commit.      *)
(***************************************************************************)
EXTENDS Integers, FiniteSets, FiniteSetsExt

CONSTANTS
    N,           \* rows of menu_items on the menu, numbered in primary key order
    Phones,      \* phone numbers of the customers
    OrderReqs,   \* POST /orders/             (create_order)
    EditReqs,    \* PATCH /menus/items/{id}   (update_menu_item)
    DropReqs,    \* DELETE /menus/items/{id}  (delete_menu_item)
    ViewReqs,    \* GET /public/menu/{id}     (get_public_menu)
    Carts,       \* the order lines a consumer may send, collected by item
    Patches,     \* the fields a console may send
    InitStock,   \* stock_quantity of the items when the menu is published
    PoolSize,    \* connections the engine hands out (pool_size + max_overflow)
    Null,        \* SQL NULL: the stock of the item is not tracked
    Keep         \* a column that a payload or an UPDATE leaves alone

Items == 1..N
Requests == OrderReqs \cup EditReqs \cup DropReqs \cup ViewReqs
Deleters == DropReqs \cup ViewReqs

StockValues == Int \cup {Null}
Columns == [stock : StockValues \cup {Keep}, avail : BOOLEAN \cup {Keep}]
NoChange == [stock |-> Keep, avail |-> Keep]
NoCart == [i \in {} |-> 0]

\* The lines of a payload that name one item: their running totals, line by
\* line, and the last of them, which is the quantity ordered.  (Three and then
\* three less of an item run through 3 and 0 and order nothing of it.)
Lines == [sums : SUBSET Int, qty : Int]

ASSUME SizesAssumption == N \in Nat /\ PoolSize \in Nat \ {0}

ASSUME RequestsAssumption ==
    /\ IsFiniteSet(Requests)
    /\ OrderReqs \cap (EditReqs \cup Deleters) = {}
    /\ EditReqs \cap Deleters = {}
    /\ Phones \cap OrderReqs = {}

\* Payloads: a patch sets stock_quantity and is_available or leaves them alone.
ASSUME PayloadsAssumption ==
    /\ \A c \in Carts : /\ DOMAIN c \subseteq Items
                        /\ c \in [DOMAIN c -> Lines]
                        /\ \A i \in DOMAIN c : c[i].qty \in c[i].sums
    /\ Patches \subseteq Columns
    /\ InitStock \in [Items -> StockValues]

ASSUME MarkersAssumption ==
    /\ Null \notin Int \cup Phones \cup OrderReqs
    /\ Keep \notin Int \cup BOOLEAN \cup {Null}

\* A customer row is named by the phone number it was imported for, or by the
\* order request that inserted it.
CustIds == Phones \cup OrderReqs

VARIABLES
    published,   \* the menu's status is PUBLISHED
    live,        \* the menu_items rows that exist
    stock,       \* menu_items.stock_quantity, as committed
    avail,       \* menu_items.is_available, as committed
    customers,   \* the customers rows that exist
    total,       \* customers.total_orders, as committed
    pc,          \* how far each request is
    todo,        \* menu_items rows a session has yet to write
    held,        \* menu_items rows it has written, and locked
    new,         \* the columns its writes set
    cart,        \* order_items of the order, once "done"; of the payload before
    phone,       \* orders.customer_phone, likewise
    cust,        \* orders.customer_id, likewise
    seen         \* total_orders of the customer row the session loaded

menuTable == <<live, stock, avail>>
custTable == <<customers, total>>
session == <<todo, held, new>>
orderRow == <<cart, phone, cust, seen>>
vars == <<published, menuTable, custTable, pc, session, orderRow>>

Init ==
    /\ published = TRUE
    /\ live = Items
    /\ stock = InitStock
    /\ avail = [i \in Items |-> InitStock[i] # 0]
    /\ customers \in SUBSET Phones
    /\ total = [c \in CustIds |-> 0]
    /\ pc = [r \in Requests |-> "idle"]
    /\ todo = [r \in Requests |-> {}]
    /\ held = [r \in Requests |-> {}]
    /\ new = [r \in Requests |-> [i \in Items |-> NoChange]]
    /\ cart = [r \in OrderReqs |-> NoCart]
    /\ phone = [r \in OrderReqs |-> Null]
    /\ cust = [r \in OrderReqs |-> Null]
    /\ seen = [r \in OrderReqs |-> 0]

-----------------------------------------------------------------------------
Active == {r \in Requests : pc[r] \notin {"idle", "done", "failed"}}

Goto(r, s) == pc' = [pc EXCEPT ![r] = s]

\* The column of the UPDATE for a value assigned to a loaded attribute: none
\* when the value is the loaded one.
Net(loaded, value) == IF value = loaded THEN Keep ELSE value

\* Mutation of Apply: fields the payload leaves unset are written too.
ApplyUnset(old, set) == set

\* A column after an UPDATE.
Apply(old, set) == IF set = Keep THEN old ELSE set

\* The handler has assigned the columns w to the rows it loaded; rows with a
\* changed column are dirty.
Dirty(r, w) ==
    /\ new' = [new EXCEPT ![r] = w]
    /\ todo' = [todo EXCEPT ![r] = {i \in Items : w[i] # NoChange}]
    /\ UNCHANGED held

\* The session checks a connection out of the pool for its first statement.
Connect(r) == pc[r] = "idle" /\ Cardinality(Active) < PoolSize

\* End of a transaction: its locks are released and its objects forgotten.
EndSession(r) ==
    /\ todo' = [todo EXCEPT ![r] = {}]
    /\ held' = [held EXCEPT ![r] = {}]
    /\ new' = [new EXCEPT ![r] = [i \in Items |-> NoChange]]

\* ROLLBACK: nothing of the request remains.
Rollback(r) ==
    /\ Goto(r, "failed")
    /\ EndSession(r)
    /\ IF r \in OrderReqs
       THEN /\ cart' = [cart EXCEPT ![r] = NoCart]
            /\ phone' = [phone EXCEPT ![r] = Null]
            /\ cust' = [cust EXCEPT ![r] = Null]
            /\ seen' = [seen EXCEPT ![r] = 0]
       ELSE UNCHANGED orderRow
    /\ UNCHANGED <<published, menuTable, custTable>>

-----------------------------------------------------------------------------
\* SELECT the menu, as create_order and get_public_menu do; 404 unless it is
\* published.  Its items are a SELECT of their own (selectinload).
load_menu(r) ==
    /\ r \in OrderReqs \cup ViewReqs
    /\ Connect(r)
    /\ Goto(r, IF published THEN "items" ELSE "failed")
    /\ UNCHANGED <<published, menuTable, custTable, session, orderRow>>

\* Mutation of InStock: no stock check.
InStockUnchecked(i, lines) == i \in live /\ avail[i]

\* Every line of item i names a loaded, available item with enough stock left
\* by the lines before it.  (The lookup of available items is built before the
\* first line: one that sells the item out does not hide it from the next.)
InStock(i, lines) ==
    /\ i \in live
    /\ avail[i]
    /\ stock[i] # Null => \A n \in lines.sums : stock[i] >= n

Acceptable(c) == \A i \in DOMAIN c : InStock(i, c[i])

\* Mutations of OrderWrites: sold-out items stay on the menu; stock is left for
\* a later step to decrement.
WritesWithoutHiding(c, rows) ==
    [i \in Items |->
        IF i \in rows /\ stock[i] # Null
        THEN [stock |-> Net(stock[i], stock[i] - c[i].qty), avail |-> Keep]
        ELSE NoChange]
WritesNoStock(c, rows) == [i \in Items |-> NoChange]

\* The columns create_order assigns to the rows it has dealt with: the stock of
\* a tracked item, line by line, and is_available off when nothing is left
\* after one of them.
OrderWrites(c, rows) ==
    [i \in Items |->
        IF i \in rows /\ stock[i] # Null
        THEN [stock |-> Net(stock[i], stock[i] - c[i].qty),
              avail |-> IF stock[i] \in c[i].sums THEN FALSE ELSE Keep]
        ELSE NoChange]

\* Mutation of create_order: a line that fails is skipped, not refused.
OrderTheRest(r, c, p) ==
    LET good == {i \in DOMAIN c : InStock(i, c[i])} IN
    /\ r \in OrderReqs /\ pc[r] = "items"
    /\ Goto(r, "flush")
    /\ Dirty(r, OrderWrites(c, good))
    /\ cart' = [cart EXCEPT ![r] = c]
    /\ phone' = [phone EXCEPT ![r] = p]
    /\ UNCHANGED <<published, menuTable, custTable, cust, seen>>

\* SELECT the items; validate the lines and compute the new stock in Python,
\* line by line.  The first line that fails raises (400): the rows of the lines
\* before it are then dirty.
create_order(r, c, p) ==
    /\ r \in OrderReqs /\ pc[r] = "items"
    /\ IF Acceptable(c)
       THEN /\ Goto(r, "flush")
            /\ Dirty(r, OrderWrites(c, DOMAIN c))
            /\ cart' = [cart EXCEPT ![r] = c]
            /\ phone' = [phone EXCEPT ![r] = p]
            /\ UNCHANGED <<cust, seen>>
       ELSE /\ Goto(r, "raised")
            /\ \E rows \in SUBSET {i \in DOMAIN c : InStock(i, c[i])} :
                  Dirty(r, OrderWrites(c, rows))
            /\ UNCHANGED orderRow
    /\ UNCHANGED <<published, menuTable, custTable>>

\* The except branch of get_db: what create_order left dirty is not flushed.
get_db_except(r) == pc[r] = "raised" /\ Rollback(r)

\* SELECT the item (404 when it is gone) and assign the fields of the payload.
update_menu_item(r, i, patch) ==
    /\ r \in EditReqs /\ Connect(r)
    /\ IF i \in live
       THEN /\ Goto(r, "flush")
            /\ Dirty(r, [k \in Items |->
                          IF k = i THEN [stock |-> Net(stock[i], patch.stock),
                                         avail |-> Net(avail[i], patch.avail)]
                                   ELSE NoChange])
       ELSE Goto(r, "failed") /\ UNCHANGED session
    /\ UNCHANGED <<published, menuTable, custTable, orderRow>>

\* SELECT the item (404 when it is gone) and mark it for deletion.
delete_menu_item(r, i) ==
    /\ r \in DropReqs /\ Connect(r)
    /\ IF i \in live
       THEN Goto(r, "flush") /\ todo' = [todo EXCEPT ![r] = {i}]
       ELSE Goto(r, "failed") /\ UNCHANGED todo
    /\ UNCHANGED <<published, menuTable, custTable, held, new, orderRow>>

\* SELECT the items and assign the available ones to menu.items.  The
\* relationship cascades "delete-orphan", so the items left out are marked for
\* deletion, and the commit that ends every request flushes that.
get_public_menu(r) ==
    /\ r \in ViewReqs /\ pc[r] = "items"
    /\ Goto(r, "flush")
    /\ todo' = [todo EXCEPT ![r] = {i \in live : ~avail[i]}]
    /\ UNCHANGED <<published, menuTable, custTable, held, new, orderRow>>

\* Mutation of IsNext: rows are written in the order of the cart.
InAnyOrder(r, i) == i \in todo[r]

\* The row a session writes next: dirty rows are flushed in primary key order.
IsNext(r, i) == i \in todo[r] /\ \A k \in todo[r] : i <= k

\* UPDATE or DELETE one row, once no other transaction has it locked.
flush_row(r, i) ==
    /\ pc[r] = "flush" /\ IsNext(r, i)
    /\ i \in live
    /\ \A q \in Requests \ {r} : i \notin held[q]
    /\ todo' = [todo EXCEPT ![r] = @ \ {i}]
    /\ held' = [held EXCEPT ![r] = @ \cup {i}]
    /\ UNCHANGED <<published, menuTable, custTable, pc, new, orderRow>>

\* Two writes of a flush that set the same columns travel as one executemany.
SameColumns(a, b) ==
    /\ (a.stock = Keep) <=> (b.stock = Keep)
    /\ (a.avail = Keep) <=> (b.avail = Keep)

Batched(r, i) ==
    \E j \in Items \ {i} :
        /\ new[r][j] # NoChange
        /\ \A k \in (i..j) \cup (j..i) :
              new[r][k] = NoChange \/ SameColumns(new[r][k], new[r][i])

\* The row has been deleted since it was loaded.  A DELETE passes over it.  An
\* UPDATE alone in its batch raises StaleDataError; the driver reports no row
\* counts for a larger batch, so there the missing row goes unnoticed.
stale_row(r, i) ==
    /\ pc[r] = "flush" /\ IsNext(r, i)
    /\ i \notin live
    /\ IF r \in Deleters \/ Batched(r, i)
       THEN /\ todo' = [todo EXCEPT ![r] = @ \ {i}]
            /\ UNCHANGED <<published, menuTable, custTable, pc, held, new, orderRow>>
       ELSE Rollback(r)

PhoneOf(c) == IF c \in Phones THEN c ELSE phone[c]

\* The customer rows with phone number p.
Matching(p) == {c \in customers : PhoneOf(c) = p}

\* The items are flushed before this SELECT.  No row: INSERT one; one row: use
\* it; more: scalar_one_or_none raises MultipleResultsFound.
find_or_create_by_phone(r) ==
    /\ r \in OrderReqs /\ pc[r] = "flush" /\ todo[r] = {}
    /\ LET found == Matching(phone[r]) IN
       \/ /\ found = {}
          /\ Goto(r, "insert")
          /\ cust' = [cust EXCEPT ![r] = r]
          /\ UNCHANGED <<published, menuTable, custTable, session, cart, phone, seen>>
       \/ \E c \in found :
             /\ found = {c}
             /\ Goto(r, "insert")
             /\ cust' = [cust EXCEPT ![r] = c]
             /\ seen' = [seen EXCEPT ![r] = total[c]]
             /\ UNCHANGED <<published, menuTable, custTable, session, cart, phone>>
       \/ /\ \E c, d \in found : c # d
          /\ Rollback(r)

\* total_orders += 1, flush: UPDATE the customer row (locking it), INSERT the
\* order and its lines.
insert_order(r) ==
    /\ r \in OrderReqs /\ pc[r] = "insert"
    /\ \A q \in OrderReqs : ~(pc[q] = "commit" /\ cust[q] = cust[r])
    /\ Goto(r, "commit")
    /\ UNCHANGED <<published, menuTable, custTable, session, orderRow>>

ReadyToCommit(r) ==
    IF r \in OrderReqs THEN pc[r] = "commit" ELSE pc[r] = "flush" /\ todo[r] = {}

\* COMMIT: the writes become visible and the locks are released.
get_db_commit(r) ==
    /\ ReadyToCommit(r)
    /\ Goto(r, "done")
    /\ EndSession(r)
    /\ live' = IF r \in Deleters THEN live \ held[r] ELSE live
    /\ stock' = [i \in Items |->
                    IF i \in held[r] THEN Apply(stock[i], new[r][i].stock) ELSE stock[i]]
    /\ avail' = [i \in Items |->
                    IF i \in held[r] THEN Apply(avail[i], new[r][i].avail) ELSE avail[i]]
    /\ IF r \in OrderReqs
       THEN /\ customers' = customers \cup {cust[r]}
            /\ total' = [total EXCEPT ![cust[r]] = seen[r] + 1]
       ELSE UNCHANGED custTable
    /\ UNCHANGED <<published, orderRow>>

\* The handler raises, or the connection is lost, before the commit.
get_db_rollback(r) == r \in Active /\ Rollback(r)

\* No connection comes free within the pool's timeout.
pool_timeout(r) ==
    /\ pc[r] = "idle" /\ Cardinality(Active) >= PoolSize
    /\ Goto(r, "failed")
    /\ UNCHANGED <<published, menuTable, custTable, session, orderRow>>

\* PATCH /menus/{id} sets the status; one row, one transaction.
update_menu ==
    /\ Cardinality(Active) < PoolSize
    /\ published' = ~published
    /\ UNCHANGED <<menuTable, custTable, pc, session, orderRow>>

-----------------------------------------------------------------------------
\* A request on its way to the first write.
Start(r) ==
    \/ load_menu(r)
    \/ \E i \in Items, patch \in Patches : update_menu_item(r, i, patch)
    \/ \E i \in Items : delete_menu_item(r, i)

\* The rest of a request that nothing interrupts.
Progress(r) ==
    \/ \E c \in Carts, p \in Phones : create_order(r, c, p)
    \/ get_db_except(r)
    \/ get_public_menu(r)
    \/ \E i \in Items : flush_row(r, i) \/ stale_row(r, i)
    \/ find_or_create_by_phone(r)
    \/ insert_order(r)
    \/ get_db_commit(r)

Next ==
    \/ \E r \in Requests :
          Start(r) \/ Progress(r) \/ get_db_rollback(r) \/ pool_timeout(r)
    \/ update_menu

Spec == Init /\ [][Next]_vars

\* The event loop resumes every handler whose database call has returned.
FairSpec == Spec /\ \A r \in Requests : WF_vars(Progress(r))

-----------------------------------------------------------------------------
Phases == {"idle", "items", "raised", "flush", "insert", "commit", "done", "failed"}

TablesOK ==
    /\ published \in BOOLEAN
    /\ live \subseteq Items
    /\ stock \in [Items -> StockValues]
    /\ avail \in [Items -> BOOLEAN]
    /\ customers \subseteq CustIds
    /\ total \in [CustIds -> Nat]

SessionsOK ==
    /\ pc \in [Requests -> Phases]
    /\ todo \in [Requests -> SUBSET Items]
    /\ held \in [Requests -> SUBSET Items]
    /\ new \in [Requests -> [Items -> Columns]]

OrderRowsOK ==
    /\ cart \in [OrderReqs -> Carts \cup {NoCart}]
    /\ phone \in [OrderReqs -> Phones \cup {Null}]
    /\ cust \in [OrderReqs -> CustIds \cup {Null}]
    /\ seen \in [OrderReqs -> Nat]

\* An order past its customer lookup has its customer, one past its validation
\* its phone number.
Filled ==
    \A r \in OrderReqs :
        /\ pc[r] \in {"insert", "commit", "done"} => cust[r] \in CustIds
        /\ pc[r] \in {"flush", "insert", "commit", "done"} => phone[r] \in Phones

\* Tables, sessions and order rows hold values of their types, and an order's
\* columns are set by the time they are used.
TypeOK == TablesOK /\ SessionsOK /\ OrderRowsOK /\ Filled

\* However orders, edits, deletions and views interleave, no item is sold
\* below zero: a writer that computed its new stock from a stale row still
\* writes a value that was checked.  (For consoles that send no negative
\* stock.)
StockNonNegative == \A i \in live : stock[i] # Null => stock[i] >= 0

\* README.md:196, "Items auto-hide when stock hits zero": an item whose
\* tracked stock is used up is not offered.
AutoHide == \A i \in live : stock[i] = 0 => ~avail[i]

\* The part of it that the sales keep, whatever consoles send and whatever was
\* committed since the order loaded its rows: the commit of an order neither
\* leaves an item it took stock of sold out and on the menu, nor puts one back.
SaleHides ==
    [][\A r \in OrderReqs :
          pc[r] = "commit" /\ pc'[r] = "done" =>
             \A i \in held[r] : avail'[i] => avail[i] /\ stock'[i] # 0]_vars

\* menu_service.py:159, "only returns published menus with available items",
\* and :172, "filter to available items only": a view of the public page
\* leaves the menu as it is.
ViewOnlyReads ==
    [][\A r \in ViewReqs :
          pc[r] # "done" /\ pc'[r] = "done" => UNCHANGED menuTable]_vars

\* The request q holds the lock that r's next statement waits for.
WaitsFor(r, q) ==
    /\ q # r
    /\ \/ /\ pc[r] = "flush"
          /\ \E i \in held[q] : IsNext(r, i)
       \/ /\ {r, q} \subseteq OrderReqs
          /\ pc[r] = "insert" /\ pc[q] = "commit" /\ cust[q] = cust[r]

\* Sessions hold several row locks while they wait for another, yet no set of
\* requests ever waits for itself: carts that share items, deletions and views
\* cannot deadlock.
NoDeadlock ==
    \A S \in (SUBSET Requests) \ {{}} : \E r \in S : \A q \in S : ~WaitsFor(r, q)

\* A request under way is answered, with success or with an error.
Finished == \A r \in Requests : r \in Active ~> pc[r] \in {"done", "failed"}

Placed == {r \in OrderReqs : pc[r] = "done"}

\* Quantity of item i in a cart.
Quantity(c, i) == IF i \in DOMAIN c THEN c[i].qty ELSE 0

Sold(i) == MapThenSumSet(LAMBDA r : Quantity(cart[r], i), Placed)

\* README.md:196, "Stock is checked and decremented atomically during order
\* creation": what is left and what was sold add up.
AtomicDecrement ==
    \A i \in live : InitStock[i] # Null => stock[i] + Sold(i) = InitStock[i]

\* models/customer.py:45, "A phone number is unique per kitchen".
UniquePhone == \A c, d \in customers : PhoneOf(c) = PhoneOf(d) => c = d

\* order_service.py:121, "Increment customer order count": total_orders of a
\* customer is the number of the orders placed in that customer's name.
TotalsExact ==
    \A c \in customers : total[c] = Cardinality({r \in Placed : cust[r] = c})

\* Two orders with one phone number are both between the customer lookup and
\* the commit: the first does not see the customer, or the count, of the second.
LookupsRace ==
    \E r, q \in OrderReqs :
        /\ r # q /\ phone[r] = phone[q]
        /\ {pc[r], pc[q]} \subseteq {"insert", "commit"}

-----------------------------------------------------------------------------
\* What LateOrders calls the phase s of a request.
StageOf(s) ==
    CASE s = "items" -> "admitted"
      [] s \in {"flush", "insert", "commit"} -> "decided"
      [] s = "raised" -> "failed"
      [] OTHER -> s

stages == [r \in Requests |-> StageOf(pc[r])]

\* A decided request plans the rows it has yet to write and those it has locked.
plannedRows ==
    [r \in Requests |-> IF stages[r] = "decided" THEN todo[r] \cup held[r] ELSE {}]
plannedWrites ==
    [r \in Requests |-> IF stages[r] = "decided" THEN new[r] ELSE [i \in Items |-> NoChange]]

\* An order names its customer once it is placed.
placedFor == [r \in OrderReqs |-> IF r \in Placed THEN cust[r] ELSE Null]

Late == INSTANCE LateOrders WITH
    stage <- stages, rows <- plannedRows, writes <- plannedWrites, cust <- placedFor

\* However the requests overlap, each of them decides on tables as they were
\* committed at one moment and is later carried out as a whole or not at all.
LateSpec == Late!Spec
=============================================================================
