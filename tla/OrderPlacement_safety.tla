------------------------ MODULE OrderPlacement_safety ------------------------
(***************************************************************************)
(* For every menu, cart, patch, number of concurrent requests and size of  *)
(* the connection pool: stock never falls below zero, row locks never form *)
(* a cycle, a sale leaves no item sold out and on the menu, customers are  *)
(* unique and counted exactly until two lookups of one phone number race,  *)
(* and each request is carried out as a whole or not at all.               *)
(***************************************************************************)
EXTENDS OrderPlacement_proofs

\* The columns update_menu_item assigns to the row it loaded.
PatchWrites(i, patch) ==
    [k \in Items |-> IF k = i THEN [stock |-> Net(stock[i], patch.stock),
                                    avail |-> Net(avail[i], patch.avail)]
                              ELSE NoChange]

\* A session replaces its pending writes; the committed rows stay.
Assigns(r) ==
    /\ UNCHANGED <<stock, avail>>
    /\ \/ new' = [new EXCEPT ![r] = [k \in Items |-> NoChange]]
       \/ \E c \in Carts, done \in SUBSET Items :
             /\ done \subseteq {i \in DOMAIN c : InStock(i, c[i])}
             /\ new' = [new EXCEPT ![r] = OrderWrites(c, done)]
       \/ \E i \in Items, patch \in Patches :
             new' = [new EXCEPT ![r] = PatchWrites(i, patch)]

\* What a step can do to the committed stock and to the pending writes: leave
\* both alone, replace one session's writes, or commit one session.
StockStep ==
    \/ UNCHANGED <<stock, avail, new>>
    \/ \E r \in Requests : Assigns(r) \/ get_db_commit(r)

LEMMA NextStockStep == [Next]_vars => StockStep
<1> SUFFICES ASSUME [Next]_vars PROVE StockStep
  OBVIOUS
<1> USE DEF menuTable, session
<1>1. CASE UNCHANGED vars \/ update_menu
  BY <1>1 DEF vars, update_menu, StockStep
<1>2. ASSUME NEW r \in Requests, Rollback(r) PROVE StockStep
  BY <1>2 DEF Rollback, EndSession, StockStep, Assigns
<1>3. ASSUME NEW r \in Requests, NEW i \in Items, NEW patch \in Patches,
             update_menu_item(r, i, patch)
      PROVE  StockStep
  <2>1. new' = [new EXCEPT ![r] = PatchWrites(i, patch)] \/ UNCHANGED new
    BY <1>3 DEF update_menu_item, Dirty, PatchWrites
  <2>2. UNCHANGED <<stock, avail>>
    BY <1>3 DEF update_menu_item
  <2> QED BY <2>1, <2>2 DEF StockStep, Assigns
<1>4. ASSUME NEW r \in Requests, NEW c \in Carts, NEW p \in Phones, create_order(r, c, p)
      PROVE  StockStep
  <2>1. PICK done \in SUBSET {i \in DOMAIN c : InStock(i, c[i])} :
           new' = [new EXCEPT ![r] = OrderWrites(c, done)]
    <3>1. Acceptable(c) => DOMAIN c \in SUBSET {i \in DOMAIN c : InStock(i, c[i])}
      BY DEF Acceptable
    <3> QED BY <1>4, <3>1 DEF create_order, Dirty
  <2>2. UNCHANGED <<stock, avail>>
    BY <1>4 DEF create_order
  <2>3. done \in SUBSET Items
    BY PayloadsAssumption
  <2> QED BY <2>1, <2>2, <2>3 DEF StockStep, Assigns
<1>5. ASSUME NEW r \in Requests, load_menu(r) PROVE StockStep
  BY <1>5 DEF load_menu, StockStep
<1>6. ASSUME NEW r \in Requests, NEW i \in Items, delete_menu_item(r, i) PROVE StockStep
  BY <1>6 DEF delete_menu_item, StockStep
<1>7. ASSUME NEW r \in Requests, get_public_menu(r) \/ insert_order(r) PROVE StockStep
  BY <1>7 DEF get_public_menu, insert_order, StockStep
<1>8. ASSUME NEW r \in Requests, NEW i \in Items, flush_row(r, i) \/ stale_row(r, i)
      PROVE  StockStep
  BY <1>2, <1>8 DEF flush_row, stale_row, StockStep
<1>9. ASSUME NEW r \in Requests, find_or_create_by_phone(r) PROVE StockStep
  <2>1. Rollback(r) \/ UNCHANGED <<menuTable, session>>
    BY <1>9 DEF find_or_create_by_phone
  <2> QED BY <1>2, <2>1 DEF StockStep
<1>10. ASSUME NEW r \in Requests, get_db_commit(r) PROVE StockStep
  BY <1>10 DEF StockStep
<1>11. ASSUME NEW r \in Requests, get_db_rollback(r) \/ pool_timeout(r) PROVE StockStep
  BY <1>2, <1>11 DEF get_db_rollback, pool_timeout, StockStep
<1> QED BY <1>1, <1>2, <1>3, <1>4, <1>5, <1>6, <1>7, <1>8, <1>9, <1>10, <1>11
        DEF Next, Start, Progress, get_db_except

-----------------------------------------------------------------------------
(* Stock never falls below zero *)

\* Consoles do not set a negative stock.
NonNegativeInput ==
    /\ \A i \in Items : InitStock[i] \in Nat \cup {Null}
    /\ \A patch \in Patches : patch.stock \in Nat \cup {Null, Keep}

\* Committed stock is not negative, and neither is the stock any session is
\* about to write.  The second part is what makes the first inductive: a write
\* lands whatever the row has become since it was loaded.
StockInv ==
    /\ \A i \in Items : stock[i] \in Nat \cup {Null}
    /\ \A r \in Requests, i \in Items : new[r][i].stock \in Nat \cup {Null, Keep}

\* An order writes back the stock it loaded less a quantity that was in stock.
LEMMA OrderWritesNat ==
    ASSUME TypeOK, StockInv, NEW c \in Carts,
           NEW done \in SUBSET {i \in DOMAIN c : InStock(i, c[i])}, NEW i \in Items
    PROVE  OrderWrites(c, done)[i].stock \in Nat \cup {Null, Keep}
<1>1. CASE i \in done /\ stock[i] # Null
  <2>1. stock[i] \in Nat /\ c[i].qty \in Int /\ stock[i] >= c[i].qty
    BY <1>1, PayloadsAssumption DEF StockInv, InStock, Lines
  <2>2. stock[i] - c[i].qty \in Nat
    BY <2>1
  <2> QED BY <1>1, <2>2 DEF OrderWrites, Net
<1>2. CASE ~(i \in done /\ stock[i] # Null)
  BY <1>2 DEF OrderWrites, NoChange
<1> QED BY <1>1, <1>2

LEMMA InitStockInv == NonNegativeInput /\ Init => StockInv
  BY DEF NonNegativeInput, Init, StockInv, NoChange

LEMMA NextStockInv ==
    ASSUME NonNegativeInput, TypeOK, StockInv, StockStep
    PROVE  StockInv'
<1>1. CASE UNCHANGED <<stock, avail, new>>
  BY <1>1 DEF StockInv
<1>2. ASSUME NEW r \in Requests, Assigns(r) PROVE StockInv'
  <2>1. ASSUME NEW w, new' = [new EXCEPT ![r] = w],
               \A i \in Items : w[i].stock \in Nat \cup {Null, Keep}
        PROVE  StockInv'
    <3>1. \A q \in Requests : new'[q] = IF q = r THEN w ELSE new[q]
      BY <2>1 DEF TypeOK, SessionsOK
    <3>2. \A q \in Requests, i \in Items : new'[q][i].stock \in Nat \cup {Null, Keep}
      BY <2>1, <3>1 DEF StockInv
    <3> QED BY <1>2, <3>2 DEF Assigns, StockInv
  <2>2. CASE new' = [new EXCEPT ![r] = [k \in Items |-> NoChange]]
    <3> DEFINE w == [k \in Items |-> NoChange]
    <3>1. \A i \in Items : w[i].stock \in Nat \cup {Null, Keep}
      BY DEF NoChange
    <3> QED BY <2>1, <2>2, <3>1
  <2>3. ASSUME NEW c \in Carts, NEW done \in SUBSET {i \in DOMAIN c : InStock(i, c[i])},
               new' = [new EXCEPT ![r] = OrderWrites(c, done)]
        PROVE  StockInv'
    BY <2>1, <2>3, OrderWritesNat
  <2>4. ASSUME NEW i \in Items, NEW patch \in Patches,
               new' = [new EXCEPT ![r] = PatchWrites(i, patch)]
        PROVE  StockInv'
    <3>1. \A k \in Items : PatchWrites(i, patch)[k].stock \in Nat \cup {Null, Keep}
      BY DEF PatchWrites, Net, NoChange, NonNegativeInput
    <3> QED BY <2>1, <2>4, <3>1
  <2> QED BY <1>2, <2>2, <2>3, <2>4 DEF Assigns
<1>3. ASSUME NEW r \in Requests, get_db_commit(r) PROVE StockInv'
  <2>1. \A i \in Items : stock'[i] \in {stock[i], new[r][i].stock} \ {Keep}
    BY <1>3, MarkersAssumption DEF get_db_commit, Apply, StockInv
  <2>2. new' = [new EXCEPT ![r] = [k \in Items |-> NoChange]]
    BY <1>3 DEF get_db_commit, EndSession
  <2>3. \A q \in Requests, i \in Items : new'[q][i].stock \in Nat \cup {Null, Keep}
    BY <2>2 DEF StockInv, TypeOK, SessionsOK, NoChange
  <2> QED BY <2>1, <2>3 DEF StockInv
<1> QED BY <1>1, <1>2, <1>3 DEF StockStep

\* However many orders, edits, deletions and views overlap, no item's stock is
\* ever negative, as long as no console sets a negative stock.
THEOREM NeverNegative == NonNegativeInput => (Spec => []StockNonNegative)
<1>1. StockInv /\ TypeOK => StockNonNegative
  BY DEF StockInv, StockNonNegative, TypeOK, TablesOK
<1>2. NonNegativeInput /\ Init => TypeOK /\ StockInv
  BY InitType, InitStockInv
<1>3. NonNegativeInput /\ TypeOK /\ StockInv /\ [Next]_vars => (TypeOK /\ StockInv)'
  BY NextType, NextStockStep, NextStockInv
<1> SUFFICES ASSUME NonNegativeInput PROVE Spec => []StockNonNegative
  OBVIOUS
<1> QED BY <1>1, <1>2, <1>3, PTL DEF Spec

-----------------------------------------------------------------------------
(* Row locks never form a cycle *)

\* A session locks rows in primary key order, has no lock before its first
\* flush, and has written all its rows by the time it leaves the flush (unless
\* its handler raised before it).
LockInv ==
    \A r \in Requests :
        /\ \A i \in held[r], k \in todo[r] : i < k
        /\ pc[r] \in {"idle", "items", "raised", "done", "failed"} => held[r] = {}
        /\ pc[r] \notin {"flush", "raised"} => todo[r] = {}

\* A session that has loaded its rows makes some of them dirty, with nothing
\* locked.
BeginsFlush(r) ==
    /\ pc[r] \in {"idle", "items"} /\ (Goto(r, "flush") \/ Goto(r, "raised"))
    /\ UNCHANGED held
    /\ \E rows \in SUBSET Items : todo' = [todo EXCEPT ![r] = rows]

\* What a step can do to one session's phase and rows.
LockStep ==
    \/ UNCHANGED <<pc, todo, held>>
    \/ \E r \in Requests :
          \/ BeginsFlush(r)
          \/ /\ pc[r] = "idle" /\ (Goto(r, "items") \/ Goto(r, "failed"))
             /\ UNCHANGED <<todo, held>>
          \/ /\ \E i \in Items : IsNext(r, i) /\ todo' = [todo EXCEPT ![r] = @ \ {i}]
                                 /\ held' = [held EXCEPT ![r] = @ \cup {i}]
             /\ pc[r] = "flush" /\ UNCHANGED pc
          \/ /\ \E i \in Items : todo' = [todo EXCEPT ![r] = @ \ {i}]
             /\ UNCHANGED <<pc, held>>
          \/ /\ todo[r] = {} /\ (Goto(r, "insert") \/ Goto(r, "commit"))
             /\ UNCHANGED <<todo, held>>
          \/ (Goto(r, "done") \/ Goto(r, "failed")) /\ EndSession(r)

LEMMA NextLockStep == TypeOK /\ LockInv /\ [Next]_vars => LockStep
<1> SUFFICES ASSUME TypeOK, LockInv, [Next]_vars PROVE LockStep
  OBVIOUS
<1> USE DEF session
<1>1. CASE UNCHANGED vars \/ update_menu
  BY <1>1 DEF vars, update_menu, LockStep
<1>2. ASSUME NEW r \in Requests, Rollback(r) PROVE LockStep
  BY <1>2 DEF Rollback, LockStep
<1>3. ASSUME NEW r \in Requests, load_menu(r) PROVE LockStep
  BY <1>3 DEF load_menu, Connect, LockStep
<1>4. ASSUME NEW r \in Requests, NEW w, Dirty(r, w), pc[r] \in {"idle", "items"},
             Goto(r, "flush") \/ Goto(r, "raised")
      PROVE  LockStep
  <2>1. {i \in Items : w[i] # NoChange} \in SUBSET Items
    OBVIOUS
  <2> QED BY <1>4, <2>1 DEF Dirty, BeginsFlush, LockStep
<1>5. ASSUME NEW r \in Requests, NEW i \in Items, NEW patch \in Patches,
             update_menu_item(r, i, patch)
      PROVE  LockStep
  BY <1>4, <1>5 DEF update_menu_item, Connect, LockStep
<1>6. ASSUME NEW r \in Requests, NEW i \in Items, delete_menu_item(r, i) PROVE LockStep
  <2>1. {i} \in SUBSET Items
    OBVIOUS
  <2> QED BY <1>6, <2>1 DEF delete_menu_item, Connect, BeginsFlush, LockStep
<1>7. ASSUME NEW r \in Requests, NEW c \in Carts, NEW p \in Phones, create_order(r, c, p)
      PROVE  LockStep
  BY <1>4, <1>7 DEF create_order
<1>8. ASSUME NEW r \in Requests, get_public_menu(r) PROVE LockStep
  <2>1. {i \in live : ~avail[i]} \in SUBSET Items
    BY DEF TypeOK, TablesOK
  <2> QED BY <1>8, <2>1 DEF get_public_menu, BeginsFlush, LockStep
<1>9. ASSUME NEW r \in Requests, NEW i \in Items, flush_row(r, i) PROVE LockStep
  BY <1>9 DEF flush_row, LockStep
<1>10. ASSUME NEW r \in Requests, NEW i \in Items, stale_row(r, i) PROVE LockStep
  BY <1>2, <1>10 DEF stale_row, LockStep
<1>11. ASSUME NEW r \in Requests, find_or_create_by_phone(r) PROVE LockStep
  BY <1>2, <1>11 DEF find_or_create_by_phone, LockStep
<1>12. ASSUME NEW r \in Requests, insert_order(r) PROVE LockStep
  BY <1>12 DEF insert_order, LockInv, LockStep
<1>13. ASSUME NEW r \in Requests, get_db_commit(r) PROVE LockStep
  BY <1>13 DEF get_db_commit, LockStep
<1>14. ASSUME NEW r \in Requests, get_db_rollback(r) PROVE LockStep
  BY <1>2, <1>14 DEF get_db_rollback
<1>15. ASSUME NEW r \in Requests, pool_timeout(r) PROVE LockStep
  BY <1>15 DEF pool_timeout, LockStep
<1> QED BY <1>1, <1>2, <1>3, <1>5, <1>6, <1>7, <1>8, <1>9, <1>10, <1>11, <1>12, <1>13,
           <1>14, <1>15
        DEF Next, Start, Progress, get_db_except

LEMMA NextLockInv ==
    ASSUME TypeOK, LockInv, LockStep
    PROVE  LockInv'
<1> USE DEF TypeOK, SessionsOK, Goto
<1>1. CASE UNCHANGED <<pc, todo, held>>
  BY <1>1 DEF LockInv
<1>2. ASSUME NEW r \in Requests, BeginsFlush(r) PROVE LockInv'
  BY <1>2 DEF LockInv, BeginsFlush
<1>3. ASSUME NEW r \in Requests, pc[r] = "idle", Goto(r, "items") \/ Goto(r, "failed"),
             UNCHANGED <<todo, held>>
      PROVE  LockInv'
  BY <1>3 DEF LockInv
<1>5. ASSUME NEW r \in Requests, NEW i \in Items, pc[r] = "flush", IsNext(r, i), UNCHANGED pc,
             todo' = [todo EXCEPT ![r] = @ \ {i}],
             held' = [held EXCEPT ![r] = @ \cup {i}]
      PROVE  LockInv'
  <2> SUFFICES ASSUME NEW q \in Requests
               PROVE  /\ \A j \in held'[q], k \in todo'[q] : j < k
                      /\ pc'[q] \in {"idle", "items", "raised", "done", "failed"}
                            => held'[q] = {}
                      /\ pc'[q] \notin {"flush", "raised"} => todo'[q] = {}
    BY DEF LockInv
  <2>1. CASE q # r
    BY <1>5, <2>1 DEF LockInv
  <2>2. CASE q = r
    <3>1. pc[r] = "flush" /\ pc'[r] = "flush"
      BY <1>5
    <3>2. \A k \in todo[r] \ {i} : i < k
      BY <1>5 DEF IsNext, Items
    <3>3. held'[r] = held[r] \cup {i} /\ todo'[r] = todo[r] \ {i}
      BY <1>5
    <3> QED BY <2>2, <3>1, <3>2, <3>3 DEF LockInv
  <2> QED BY <2>1, <2>2
<1>6. ASSUME NEW r \in Requests, NEW i \in Items, UNCHANGED <<pc, held>>,
             todo' = [todo EXCEPT ![r] = @ \ {i}]
      PROVE  LockInv'
  BY <1>6 DEF LockInv
<1>7. ASSUME NEW r \in Requests, todo[r] = {}, Goto(r, "insert") \/ Goto(r, "commit"),
             UNCHANGED <<todo, held>>
      PROVE  LockInv'
  BY <1>7 DEF LockInv
<1>8. ASSUME NEW r \in Requests, Goto(r, "done") \/ Goto(r, "failed"), EndSession(r)
      PROVE  LockInv'
  BY <1>8 DEF LockInv, EndSession
<1> QED BY <1>1, <1>2, <1>3, <1>5, <1>6, <1>7, <1>8 DEF LockStep

LEMMA InitLockInv == Init => LockInv
  BY DEF Init, LockInv

\* The rows that requests wait for grow along a chain of waiting requests, so
\* a finite set of requests has one that waits for none of the others.
LEMMA NoCycle ==
    ASSUME TypeOK, LockInv
    PROVE  NoDeadlock
<1> SUFFICES ASSUME NEW S \in SUBSET Requests, S # {},
                    \A r \in S : \E q \in S : WaitsFor(r, q)
             PROVE  FALSE
  BY DEF NoDeadlock
<1>1. \A r \in S : pc[r] = "flush"
  \* one that waits at its INSERT waits for a request about to commit, which
  \* itself waits for nothing
  BY DEF WaitsFor
<1>2. ASSUME NEW r \in S
      PROVE  \E q \in S : \E i \in held[q] : IsNext(r, i)
  BY <1>1, <1>2 DEF WaitsFor
<1> DEFINE row(r) == CHOOSE i \in Items : IsNext(r, i)
           Above(r) == {q \in S : row(r) < row(q)}
<1>3. ASSUME NEW r \in S
      PROVE  row(r) \in Items /\ IsNext(r, row(r)) /\ \A i \in Items : IsNext(r, i) => i = row(r)
  <2>1. \E i \in Items : IsNext(r, i)
    BY <1>2, <1>3 DEF IsNext, TypeOK, SessionsOK
  <2>2. row(r) \in Items /\ IsNext(r, row(r))
    BY <2>1
  <2> HIDE DEF row
  <2>3. \A i \in Items : IsNext(r, i) => i = row(r)
    BY <2>2 DEF IsNext, Items
  <2> QED BY <2>2, <2>3
<1> HIDE DEF row
<1>4. ASSUME NEW r \in S
      PROVE  \E q \in S : row(r) < row(q)
  <2>1. PICK q \in S : row(r) \in held[q]
    BY <1>2, <1>3, <1>4 DEF TypeOK, SessionsOK
  <2>2. row(q) \in todo[q]
    BY <1>3, <2>1 DEF IsNext
  <2> QED BY <2>1, <2>2 DEF LockInv
<1>5. IsFiniteSet(S)
  BY RequestsAssumption, FS_Subset
<1>6. IsWellFoundedOn(StrictSubsetOrdering(S), SUBSET S)
  BY <1>5, FS_StrictSubsetOrderingWellFounded, FS_FiniteSubsetsOfFinite
<1> DEFINE T == {Above(r) : r \in S}
<1>7. T \subseteq SUBSET S /\ T # {}
  OBVIOUS
<1>8. PICK r \in S : \A q \in S : ~(<<Above(q), Above(r)>> \in StrictSubsetOrdering(S))
  <2> HIDE DEF T
  <2>1. \E x \in T : \A y \in T : ~(<<y, x>> \in StrictSubsetOrdering(S))
    BY <1>6, <1>7, WFMin
  <2> QED BY <2>1 DEF T
<1>9. PICK q \in S : row(r) < row(q)
  BY <1>4
<1>10. Above(q) \subseteq Above(r) /\ q \in Above(r) /\ q \notin Above(q)
  BY <1>3, <1>9 DEF Items
<1>11. <<Above(q), Above(r)>> \in StrictSubsetOrdering(S)
  BY <1>10 DEF StrictSubsetOrdering
<1> QED BY <1>8, <1>11

\* However many requests run and whatever rows they share, no set of them waits
\* for each other's row locks.
THEOREM DeadlockFree == Spec => []NoDeadlock
<1>1. Init => TypeOK /\ LockInv
  BY InitType, InitLockInv
<1>2. TypeOK /\ LockInv /\ [Next]_vars => (TypeOK /\ LockInv)'
  BY NextType, NextLockStep, NextLockInv
<1>3. TypeOK /\ LockInv => NoDeadlock
  BY NoCycle
<1> QED BY <1>1, <1>2, <1>3, PTL DEF Spec

-----------------------------------------------------------------------------
(* A sale hides what it sells out *)

\* Writing the columns w hides the row if it sells it out, and never shows it.
Hides(w) == /\ w.stock = 0 => w.avail = FALSE
            /\ w.avail \in {FALSE, Keep}

\* What the session of an order is about to write hides what it sells out.
HideInv == \A r \in OrderReqs, i \in Items : Hides(new[r][i])

\* The rows a session has written are rows it changed.
HeldInv == \A r \in OrderReqs : \A i \in todo[r] \cup held[r] : new[r][i] # NoChange

LEMMA OrderIsRequest == OrderReqs \subseteq Requests
  BY DEF Requests

LEMMA KeepDistinct == Keep # 0 /\ Keep # FALSE
<1>1. Keep # 0
  BY MarkersAssumption
<1>2. Keep # FALSE
  BY MarkersAssumption, Zenon
<1> QED BY <1>1, <1>2

LEMMA NoChangeHides == Hides(NoChange)
  BY KeepDistinct DEF Hides, NoChange

LEMMA OrderHides ==
    ASSUME TypeOK, NEW c \in Carts, NEW done \in SUBSET DOMAIN c, NEW i \in Items
    PROVE  Hides(OrderWrites(c, done)[i])
<1>1. CASE i \in done /\ stock[i] # Null
  <2>1. stock[i] \in Int /\ c[i].qty \in Int /\ c[i].qty \in c[i].sums
    BY <1>1, PayloadsAssumption DEF TypeOK, TablesOK, StockValues, Lines
  <2>2. Net(stock[i], stock[i] - c[i].qty) = 0 => stock[i] = c[i].qty
    BY <2>1, KeepDistinct DEF Net
  <2>3. OrderWrites(c, done)[i] =
           [stock |-> Net(stock[i], stock[i] - c[i].qty),
            avail |-> IF stock[i] \in c[i].sums THEN FALSE ELSE Keep]
    BY <1>1 DEF OrderWrites
  <2>4. CASE stock[i] \in c[i].sums
    <3>1. OrderWrites(c, done)[i].avail = FALSE
      BY <2>3, <2>4
    <3> QED BY <3>1, Zenon DEF Hides
  <2>5. CASE stock[i] \notin c[i].sums
    <3>1. OrderWrites(c, done)[i].avail = Keep
      BY <2>3, <2>5
    <3>2. OrderWrites(c, done)[i].stock # 0
      BY <2>1, <2>2, <2>3, <2>5
    <3> QED BY <3>1, <3>2, Zenon DEF Hides
  <2> QED BY <2>4, <2>5
<1>2. CASE ~(i \in done /\ stock[i] # Null)
  BY <1>2, NoChangeHides DEF OrderWrites
<1> QED BY <1>1, <1>2

\* What a step does to the pending writes of the orders: it leaves them alone
\* (dirty rows get written, or passed over), forgets those of one request, or
\* assigns an order the columns of its cart.
Writes(r) == todo[r] \cup held[r]

OrderStep ==
    \/ \A r \in OrderReqs : new'[r] = new[r] /\ Writes(r)' \subseteq Writes(r)
    \/ \E r \in Requests : EndSession(r)
    \/ \E r \in OrderReqs, c \in Carts, done \in SUBSET Items :
          /\ done \subseteq DOMAIN c
          /\ held[r] = {}
          /\ Dirty(r, OrderWrites(c, done))

LEMMA NextOrderStep == TypeOK /\ LockInv /\ [Next]_vars => OrderStep
<1> SUFFICES ASSUME TypeOK, LockInv, [Next]_vars PROVE OrderStep
  OBVIOUS
<1> USE OrderIsRequest DEF session
<1>1. UNCHANGED session => OrderStep
  BY DEF OrderStep, Writes
<1>2. ASSUME NEW r \in Requests, Rollback(r) PROVE OrderStep
  BY <1>2 DEF Rollback, OrderStep
<1>3. ASSUME NEW r \in Requests, r \notin OrderReqs, UNCHANGED held,
             NEW R, todo' = [todo EXCEPT ![r] = R],
             (\E w : new' = [new EXCEPT ![r] = w]) \/ UNCHANGED new
      PROVE  OrderStep
  BY <1>3 DEF OrderStep, Writes, TypeOK, SessionsOK
<1>4. ASSUME NEW r \in Requests, NEW i \in Items, NEW patch \in Patches,
             update_menu_item(r, i, patch)
      PROVE  OrderStep
  <2>1. r \notin OrderReqs
    BY <1>4, RequestsAssumption DEF update_menu_item
  <2> QED BY <1>1, <1>3, <1>4, <2>1 DEF update_menu_item, Dirty
<1>5. ASSUME NEW r \in Requests, NEW i \in Items, delete_menu_item(r, i) PROVE OrderStep
  <2>1. r \notin OrderReqs
    BY <1>5, RequestsAssumption DEF delete_menu_item, Deleters
  <2> QED BY <1>1, <1>3, <1>5, <2>1 DEF delete_menu_item
<1>6. ASSUME NEW r \in Requests, get_public_menu(r) PROVE OrderStep
  <2>1. r \notin OrderReqs
    BY <1>6, RequestsAssumption DEF get_public_menu, Deleters
  <2> QED BY <1>3, <1>6, <2>1 DEF get_public_menu
<1>7. ASSUME NEW r \in Requests, NEW c \in Carts, NEW p \in Phones, create_order(r, c, p)
      PROVE  OrderStep
  <2>1. PICK done \in SUBSET (DOMAIN c) : Dirty(r, OrderWrites(c, done))
    <3>1. DOMAIN c \in SUBSET (DOMAIN c)
      OBVIOUS
    <3> QED BY <1>7, <3>1 DEF create_order
  <2>2. r \in OrderReqs /\ held[r] = {} /\ done \in SUBSET Items
    BY <1>7, PayloadsAssumption DEF create_order, LockInv
  <2> QED BY <2>1, <2>2 DEF OrderStep
<1>8. ASSUME NEW r \in Requests, NEW i \in Items, flush_row(r, i) \/ stale_row(r, i)
      PROVE  OrderStep
  <2>1. CASE Rollback(r)
    BY <1>2, <2>1
  <2>2. CASE UNCHANGED new
    BY <1>8, <2>2 DEF flush_row, stale_row, IsNext, Rollback, EndSession, OrderStep, Writes,
                      TypeOK, SessionsOK
  <2> QED BY <1>8, <2>1, <2>2 DEF flush_row, stale_row
<1>9. ASSUME NEW r \in Requests, find_or_create_by_phone(r) PROVE OrderStep
  BY <1>1, <1>2, <1>9 DEF find_or_create_by_phone
<1>10. ASSUME NEW r \in Requests, get_db_commit(r) PROVE OrderStep
  BY <1>10 DEF get_db_commit, OrderStep
<1> QED BY <1>1, <1>2, <1>4, <1>5, <1>6, <1>7, <1>8, <1>9, <1>10
        DEF Next, Start, Progress, get_db_except, get_db_rollback, load_menu, insert_order,
            pool_timeout, update_menu, vars

LEMMA InitHideInv == Init => HideInv /\ HeldInv
  BY OrderIsRequest, NoChangeHides DEF Init, HideInv, HeldInv

LEMMA NextHideInv ==
    ASSUME TypeOK, HideInv, HeldInv, OrderStep
    PROVE  HideInv' /\ HeldInv'
<1>1. CASE \A r \in OrderReqs : new'[r] = new[r] /\ Writes(r)' \subseteq Writes(r)
  BY <1>1 DEF HideInv, HeldInv, Writes
<1>2. ASSUME NEW r \in Requests, EndSession(r) PROVE HideInv' /\ HeldInv'
  <2>1. \A q \in OrderReqs : \/ /\ new'[q] = new[q] /\ todo'[q] = todo[q]
                                /\ held'[q] = held[q]
                             \/ /\ new'[q] = [i \in Items |-> NoChange]
                                /\ todo'[q] = {} /\ held'[q] = {}
    BY <1>2, OrderIsRequest DEF EndSession, TypeOK, SessionsOK
  <2> QED BY <2>1, NoChangeHides DEF HideInv, HeldInv
<1>3. ASSUME NEW r \in OrderReqs, NEW c \in Carts, NEW done \in SUBSET (DOMAIN c),
             held[r] = {}, Dirty(r, OrderWrites(c, done))
      PROVE  HideInv' /\ HeldInv'
  <2> DEFINE w == OrderWrites(c, done)
  <2>1. \A i \in Items : Hides(w[i])
    BY OrderHides
  <2> HIDE DEF w
  <2>2. /\ new'[r] = w /\ todo'[r] = {i \in Items : w[i] # NoChange} /\ held'[r] = {}
        /\ \A q \in OrderReqs \ {r} : /\ new'[q] = new[q] /\ todo'[q] = todo[q]
                                      /\ held'[q] = held[q]
    BY <1>3, OrderIsRequest DEF Dirty, TypeOK, SessionsOK, w
  <2> QED BY <2>1, <2>2 DEF HideInv, HeldInv
<1> QED BY <1>1, <1>2, <1>3 DEF OrderStep

\* The commit of an order that has written the columns w of an item neither
\* leaves it sold out and on the menu nor puts it back.
LEMMA CommitHides ==
    ASSUME TypeOK, HideInv, HeldInv, NEW r \in OrderReqs, get_db_commit(r),
           NEW i \in held[r], avail'[i]
    PROVE  avail[i] /\ stock'[i] # 0
<1> DEFINE w == new[r][i]
<1>1. i \in Items /\ r \in Requests
  BY OrderIsRequest DEF TypeOK, SessionsOK
<1>2. /\ stock'[i] = Apply(stock[i], w.stock)
      /\ avail'[i] = Apply(avail[i], w.avail)
      /\ w \in Columns /\ Hides(w) /\ w # NoChange
  BY <1>1 DEF get_db_commit, HideInv, HeldInv, TypeOK, SessionsOK
<1> HIDE DEF w
<1>3. w.avail # FALSE
  BY <1>2, KeepDistinct DEF Apply
<1>4. w.avail = Keep
  BY <1>2, <1>3, Zenon DEF Hides
<1>5. avail'[i] = avail[i]
  BY <1>2, <1>4 DEF Apply
<1>6. w.stock # Keep
  BY <1>2, <1>4 DEF Columns, NoChange
<1>7. w.stock # 0
  BY <1>2, <1>3, Zenon DEF Hides
<1> QED BY <1>2, <1>5, <1>6, <1>7 DEF Apply

\* Only its own commit takes a request to "done".
LEMMA CommitOnly ==
    ASSUME TypeOK, [Next]_vars, NEW r \in Requests, pc[r] # "done", pc'[r] = "done"
    PROVE  get_db_commit(r)
<1>1. ASSUME NEW q \in Requests, NEW s, s # "done", Goto(q, s) PROVE FALSE
  BY <1>1 DEF Goto, TypeOK, SessionsOK
<1>2. ASSUME NEW q \in Requests, Rollback(q) PROVE FALSE
  BY <1>1, <1>2 DEF Rollback
<1>3. pc' # pc
  OBVIOUS
<1>4. ASSUME NEW q \in Requests, Start(q) PROVE FALSE
  BY <1>1, <1>4 DEF Start, load_menu, update_menu_item, delete_menu_item
<1>5. ASSUME NEW q \in Requests, Progress(q), ~get_db_commit(q) PROVE FALSE
  BY <1>1, <1>2, <1>3, <1>5
     DEF Progress, create_order, get_db_except, get_public_menu, flush_row, stale_row,
         find_or_create_by_phone, insert_order
<1>6. ASSUME NEW q \in Requests, get_db_commit(q), q # r PROVE FALSE
  BY <1>6 DEF get_db_commit, Goto, TypeOK, SessionsOK
<1> QED BY <1>1, <1>2, <1>3, <1>4, <1>5, <1>6
        DEF Next, get_db_rollback, pool_timeout, update_menu, vars

\* Whatever consoles send and however requests overlap, no order leaves an item
\* it sold out on the menu, and none puts an item back on it.
THEOREM SalesHide == Spec => SaleHides
<1> DEFINE Inv == TypeOK /\ LockInv /\ HideInv /\ HeldInv
           Hid == \A r \in OrderReqs :
                     pc[r] = "commit" /\ pc'[r] = "done" =>
                        \A i \in held[r] : avail'[i] => avail[i] /\ stock'[i] # 0
<1>1. Init => Inv
  BY InitType, InitLockInv, InitHideInv
<1>2. Inv /\ [Next]_vars => Inv'
  BY NextType, NextLockStep, NextLockInv, NextOrderStep, NextHideInv
<1>3. Inv /\ [Next]_vars => Hid
  <2> SUFFICES ASSUME Inv, [Next]_vars, NEW r \in OrderReqs, pc[r] = "commit", pc'[r] = "done"
               PROVE  \A i \in held[r] : avail'[i] => avail[i] /\ stock'[i] # 0
    OBVIOUS
  <2>1. get_db_commit(r)
    BY CommitOnly, OrderIsRequest
  <2> QED BY <2>1, CommitHides
<1> HIDE DEF Hid
<1>4. Spec => [][Hid]_vars
  BY <1>1, <1>2, <1>3, PTL DEF Spec
<1> QED BY <1>4 DEF SaleHides, Hid

-----------------------------------------------------------------------------
(* One customer per phone number, counted exactly *)

\* A request moves on, and no other one does.
LEMMA GotoMoves ==
    ASSUME TypeOK, NEW r \in Requests, NEW s, Goto(r, s)
    PROVE  \A q \in Requests : pc'[q] = IF q = r THEN s ELSE pc[q]
  BY DEF TypeOK, SessionsOK, Goto

\* The steps that neither write the customers table nor change an order's
\* phone number or customer.
Quiet ==
    /\ UNCHANGED <<custTable, phone, cust, seen>>
    /\ \A r \in OrderReqs :
          \/ pc'[r] = pc[r]
          \/ pc[r] \in {"idle", "items"} /\ pc'[r] \in {"items", "raised", "failed"}
          \/ pc[r] = "insert" /\ pc'[r] = "commit"

\* An order has passed its validation.
Validates(r) ==
    /\ pc[r] = "items" /\ Goto(r, "flush")
    /\ UNCHANGED <<custTable, cust, seen>>
    /\ \E p \in Phones : phone' = [phone EXCEPT ![r] = p]

\* An order has taken a new customer row, or the one row it found.
Finds(r) ==
    /\ pc[r] = "flush" /\ Goto(r, "insert")
    /\ UNCHANGED <<custTable, phone>>
    /\ \/ /\ Matching(phone[r]) = {}
          /\ cust' = [cust EXCEPT ![r] = r] /\ UNCHANGED seen
       \/ \E c \in Matching(phone[r]) :
             cust' = [cust EXCEPT ![r] = c] /\ seen' = [seen EXCEPT ![r] = total[c]]

\* An order is placed in the name of its customer.
Places(r) ==
    /\ pc[r] = "commit" /\ Goto(r, "done")
    /\ customers' = customers \cup {cust[r]}
    /\ total' = [total EXCEPT ![cust[r]] = seen[r] + 1]
    /\ UNCHANGED <<phone, cust, seen>>

\* What a step can do to the customers and to the orders' customer columns.
CustStep ==
    \/ Quiet
    \/ \E r \in OrderReqs :
          Validates(r) \/ Finds(r) \/ Places(r) \/ (r \in Active /\ Rollback(r))

LEMMA NextCustStep == TypeOK /\ [Next]_vars => CustStep
<1> SUFFICES ASSUME TypeOK, [Next]_vars PROVE CustStep
  OBVIOUS
<1> USE DEF custTable, orderRow
<1>1. CASE UNCHANGED vars \/ update_menu
  BY <1>1 DEF vars, update_menu, CustStep, Quiet
<1>2. ASSUME NEW r \in Requests, NEW s, Goto(r, s), UNCHANGED <<custTable, phone, cust, seen>>,
             r \in OrderReqs =>
                \/ s = pc[r]
                \/ pc[r] \in {"idle", "items"} /\ s \in {"items", "raised", "failed"}
                \/ pc[r] = "insert" /\ s = "commit"
      PROVE  CustStep
  <2>1. \A q \in OrderReqs : q \in Requests
    BY DEF Requests
  <2> QED BY <1>2, <2>1, GotoMoves DEF CustStep, Quiet
<1>3. ASSUME NEW r \in Requests, r \in Active, Rollback(r) PROVE CustStep
  <2>1. CASE r \in OrderReqs
    BY <1>3, <2>1 DEF CustStep
  <2>2. CASE r \notin OrderReqs
    BY <1>2, <1>3, <2>2 DEF Rollback
  <2> QED BY <2>1, <2>2
<1>4. ASSUME NEW r \in Requests, load_menu(r) PROVE CustStep
  <2>1. pc[r] = "idle" /\ (Goto(r, "items") \/ Goto(r, "failed"))
    BY <1>4 DEF load_menu, Connect
  <2> QED BY <1>2, <1>4, <2>1 DEF load_menu
<1>5. ASSUME NEW r \in Requests, NEW i \in Items, NEW patch \in Patches,
             update_menu_item(r, i, patch)
      PROVE  CustStep
  <2>1. r \notin OrderReqs /\ (Goto(r, "flush") \/ Goto(r, "failed"))
    BY <1>5, RequestsAssumption DEF update_menu_item
  <2> QED BY <1>2, <1>5, <2>1 DEF update_menu_item
<1>6. ASSUME NEW r \in Requests, NEW i \in Items, delete_menu_item(r, i) PROVE CustStep
  <2>1. r \notin OrderReqs /\ (Goto(r, "flush") \/ Goto(r, "failed"))
    BY <1>6, RequestsAssumption DEF delete_menu_item, Deleters
  <2> QED BY <1>2, <1>6, <2>1 DEF delete_menu_item
<1>7. ASSUME NEW r \in Requests, get_public_menu(r) PROVE CustStep
  <2>1. r \notin OrderReqs /\ Goto(r, "flush")
    BY <1>7, RequestsAssumption DEF get_public_menu, Deleters
  <2> QED BY <1>2, <1>7, <2>1 DEF get_public_menu
<1>8. ASSUME NEW r \in Requests, NEW c \in Carts, NEW p \in Phones, create_order(r, c, p)
      PROVE  CustStep
  <2>1. r \in OrderReqs /\ pc[r] = "items" /\ UNCHANGED custTable
    BY <1>8 DEF create_order
  <2>2. CASE Acceptable(c)
    <3>1. Validates(r)
      BY <1>8, <2>1, <2>2 DEF create_order, Validates
    <3> QED BY <2>1, <3>1 DEF CustStep
  <2>3. CASE ~Acceptable(c)
    BY <1>2, <1>8, <2>1, <2>3 DEF create_order
  <2> QED BY <2>2, <2>3
<1>9. ASSUME NEW r \in Requests, NEW i \in Items, flush_row(r, i) \/ stale_row(r, i)
      PROVE  CustStep
  <2>1. r \in Active
    BY <1>9 DEF flush_row, stale_row, Active
  <2>2. Rollback(r) \/ UNCHANGED <<pc, custTable, phone, cust, seen>>
    BY <1>9 DEF flush_row, stale_row
  <2>3. CASE UNCHANGED <<pc, custTable, phone, cust, seen>>
    BY <2>3 DEF CustStep, Quiet
  <2> QED BY <1>3, <2>1, <2>2, <2>3
<1>10. ASSUME NEW r \in Requests, find_or_create_by_phone(r) PROVE CustStep
  <2>1. r \in Active /\ r \in OrderReqs
    BY <1>10 DEF find_or_create_by_phone, Active
  <2>2. Rollback(r) \/ Finds(r)
    BY <1>10 DEF find_or_create_by_phone, Finds
  <2> QED BY <1>3, <2>1, <2>2 DEF CustStep
<1>11. ASSUME NEW r \in Requests, insert_order(r) PROVE CustStep
  BY <1>2, <1>11 DEF insert_order
<1>12. ASSUME NEW r \in Requests, get_db_commit(r) PROVE CustStep
  <2>1. CASE r \in OrderReqs
    <3>1. Places(r)
      BY <1>12, <2>1 DEF get_db_commit, ReadyToCommit, Places
    <3> QED BY <2>1, <3>1 DEF CustStep
  <2>2. CASE r \notin OrderReqs
    BY <1>2, <1>12, <2>2 DEF get_db_commit
  <2> QED BY <2>1, <2>2
<1>13. ASSUME NEW r \in Requests, get_db_rollback(r) PROVE CustStep
  BY <1>3, <1>13 DEF get_db_rollback
<1>14. ASSUME NEW r \in Requests, pool_timeout(r) PROVE CustStep
  BY <1>2, <1>14 DEF pool_timeout
<1>15. ASSUME NEW r \in Requests, get_db_except(r) PROVE CustStep
  BY <1>3, <1>15 DEF get_db_except, Active
<1> QED BY <1>1, <1>4, <1>5, <1>6, <1>7, <1>8, <1>9, <1>10, <1>11, <1>12, <1>13, <1>14,
           <1>15
        DEF Next, Start, Progress

OrdersOf(c) == {r \in Placed : cust[r] = c}

\* What the session of an order knows of its customer is still so: there is
\* none with this phone number, or it is the one found, with the total loaded.
Current(r) ==
    \/ cust[r] = r /\ Matching(phone[r]) = {} /\ seen[r] = 0
    \/ cust[r] \in Matching(phone[r]) /\ seen[r] = total[cust[r]]

\* A customer was imported or inserted by an order that has been placed, a
\* placed order has a customer, what an order loaded is current, and totals are
\* the numbers of orders placed.
CustInv ==
    /\ UniquePhone
    /\ \A c \in customers \ Phones : pc[c] = "done"
    /\ \A r \in OrderReqs :
          /\ pc[r] = "done" => cust[r] \in customers
          /\ pc[r] \in {"insert", "commit"} => Current(r)
          /\ pc[r] \in {"idle", "items", "flush"} => seen[r] = 0
    /\ \A c \in CustIds : total[c] = Cardinality(OrdersOf(c))

LEMMA InitCustInv == Init => CustInv
<1> SUFFICES ASSUME Init PROVE CustInv
  OBVIOUS
<1>1. \A r \in OrderReqs : pc[r] = "idle" /\ seen[r] = 0
  BY OrderIsRequest DEF Init
<1>2. customers \subseteq Phones
  BY DEF Init
<1>3. UniquePhone
  BY <1>2 DEF UniquePhone, PhoneOf
<1>4. \A c \in CustIds : total[c] = Cardinality(OrdersOf(c))
  <2>1. Placed = {}
    BY <1>1 DEF Placed
  <2>2. \A c \in CustIds : OrdersOf(c) = {}
    BY <2>1 DEF OrdersOf
  <2> QED BY <2>2, FS_EmptySet DEF Init, CustIds
<1> QED BY <1>1, <1>2, <1>3, <1>4 DEF CustInv

\* The customers keep their phone numbers when no placed order loses its own.
LEMMA KeepsPhones ==
    ASSUME TypeOK, \A c \in customers \ Phones : pc[c] = "done", UNCHANGED customers,
           \A q \in OrderReqs : pc[q] = "done" => phone'[q] = phone[q]
    PROVE  /\ \A c \in customers : PhoneOf(c)' = PhoneOf(c)
           /\ \A p : Matching(p)' = Matching(p)
<1>1. ASSUME NEW c \in customers PROVE PhoneOf(c)' = PhoneOf(c)
  <2>1. c \in Phones \/ (c \in OrderReqs /\ pc[c] = "done")
    BY DEF TypeOK, TablesOK, CustIds
  <2> QED BY <2>1 DEF PhoneOf
<1> QED BY <1>1 DEF Matching

\* The row of order q stays as it is.
RowKept(q) == pc'[q] = pc[q] /\ phone'[q] = phone[q] /\ cust'[q] = cust[q] /\ seen'[q] = seen[q]

\* The row of order q, not placed, changes to one that is current.
RowMoves(q) ==
    /\ pc[q] # "done" /\ pc'[q] # "done"
    /\ pc'[q] \in {"insert", "commit"} => Current(q)'
    /\ pc'[q] \in {"idle", "items", "flush"} => seen'[q] = 0

LEMMA RowsCust ==
    ASSUME TypeOK, TypeOK', CustInv, UNCHANGED custTable,
           \A q \in OrderReqs : RowKept(q) \/ RowMoves(q)
    PROVE  CustInv'
<1> USE DEF custTable
<1>1. \A q \in OrderReqs :
         /\ (pc[q] = "done") <=> (pc'[q] = "done")
         /\ pc[q] = "done" => phone'[q] = phone[q] /\ cust'[q] = cust[q]
  BY DEF RowKept, RowMoves
<1>2. /\ \A c \in customers : PhoneOf(c)' = PhoneOf(c)
      /\ \A p : Matching(p)' = Matching(p)
  BY <1>1, KeepsPhones DEF CustInv
<1>3. UniquePhone'
  BY <1>2 DEF CustInv, UniquePhone
<1>4. \A c \in customers' \ Phones : pc'[c] = "done"
  BY <1>1 DEF CustInv, TypeOK, TablesOK, CustIds
<1>5. ASSUME NEW q \in OrderReqs
      PROVE  /\ pc'[q] = "done" => cust'[q] \in customers'
             /\ pc'[q] \in {"insert", "commit"} => Current(q)'
             /\ pc'[q] \in {"idle", "items", "flush"} => seen'[q] = 0
  <2>1. CASE RowKept(q)
    <3>1. pc[q] \in {"insert", "commit"} => Current(q)'
      BY <1>2, <2>1 DEF RowKept, CustInv, Current
    <3> QED BY <2>1, <3>1 DEF RowKept, CustInv
  <2>2. CASE RowMoves(q)
    BY <2>2 DEF RowMoves
  <2> QED BY <2>1, <2>2
<1>6. \A c \in CustIds : total'[c] = Cardinality(OrdersOf(c)')
  <2>1. \A c : OrdersOf(c)' = OrdersOf(c)
    BY <1>1 DEF OrdersOf, Placed
  <2> QED BY <2>1 DEF CustInv
<1> QED BY <1>3, <1>4, <1>5, <1>6 DEF CustInv

\* The total an order loaded, or zero for a customer it inserts, is the total
\* of its customer when it commits.
LEMMA SeenIsTotal ==
    ASSUME TypeOK, CustInv, NEW r \in OrderReqs, pc[r] = "commit"
    PROVE  seen[r] = total[cust[r]]
<1>1. Current(r) /\ r \notin customers /\ r \in CustIds
  BY RequestsAssumption DEF CustInv, CustIds
<1>2. CASE cust[r] = r /\ seen[r] = 0
  <2>1. OrdersOf(r) = {}
    BY <1>1 DEF OrdersOf, Placed, CustInv
  <2> QED BY <1>1, <1>2, <2>1, FS_EmptySet DEF CustInv
<1> QED BY <1>1, <1>2 DEF Current

LEMMA PlacesCust ==
    ASSUME TypeOK, TypeOK', ~LookupsRace, CustInv, NEW r \in OrderReqs, Places(r)
    PROVE  CustInv'
<1> DEFINE k == cust[r]
<1>0. /\ pc[r] = "commit"
      /\ \A q \in OrderReqs : pc'[q] = IF q = r THEN "done" ELSE pc[q]
      /\ UNCHANGED <<phone, cust, seen>>
      /\ customers' = customers \cup {k}
      /\ total' = [total EXCEPT ![k] = seen[r] + 1]
  BY GotoMoves, OrderIsRequest DEF Places
<1>1. k \in CustIds /\ Current(r)
  BY <1>0 DEF TypeOK, Filled, CustInv
<1>2. \A c \in CustIds : PhoneOf(c)' = PhoneOf(c)
  BY <1>0 DEF PhoneOf
<1>3. customers \subseteq CustIds
  BY DEF TypeOK, TablesOK
<1>4. k \in customers \/ k = r
  BY <1>1 DEF Current, Matching
<1>5. r \notin customers
  BY <1>0, RequestsAssumption DEF CustInv
<1>6. UniquePhone'
  <2>1. CASE k \in customers
    <3>1. customers' = customers
      BY <1>0, <2>1
    <3> QED BY <1>2, <1>3, <3>1 DEF CustInv, UniquePhone
  <2>2. CASE k \notin customers
    <3>1. k = r /\ Matching(phone[r]) = {}
      BY <1>1, <2>2 DEF Current, Matching
    <3>2. PhoneOf(r) = phone[r]
      BY RequestsAssumption DEF PhoneOf
    <3>3. \A c \in customers : PhoneOf(c) # PhoneOf(k)
      BY <3>1, <3>2 DEF Matching
    <3> QED BY <1>0, <1>1, <1>2, <1>3, <3>3 DEF CustInv, UniquePhone
  <2> QED BY <2>1, <2>2
<1>7. \A c \in customers' \ Phones : pc'[c] = "done"
  <2> SUFFICES ASSUME NEW c \in customers' \ Phones PROVE pc'[c] = "done"
    OBVIOUS
  <2>1. c \in OrderReqs
    BY <1>0, <1>1, <1>3 DEF CustIds
  <2>2. c = r \/ pc[c] = "done"
    BY <1>0, <1>4 DEF CustInv
  <2> QED BY <1>0, <2>1, <2>2
<1>8. ASSUME NEW q \in OrderReqs
      PROVE  /\ pc'[q] = "done" => cust'[q] \in customers'
             /\ pc'[q] \in {"insert", "commit"} => Current(q)'
             /\ pc'[q] \in {"idle", "items", "flush"} => seen'[q] = 0
  <2>1. CASE pc[q] \in {"insert", "commit"} /\ q # r
    \* the customer placed for has another phone number than q's
    <3>1. phone[q] # phone[r] /\ Current(q)
      BY <1>0, <2>1 DEF LookupsRace, CustInv
    <3>2. PhoneOf(k) = phone[r]
      BY <1>1, RequestsAssumption DEF Current, Matching, PhoneOf
    <3>3. Matching(phone[q])' = Matching(phone[q]) /\ k \notin Matching(phone[q])
      BY <1>0, <1>1, <1>2, <1>3, <3>1, <3>2 DEF Matching
    <3>4. \A c \in CustIds : c # k => total'[c] = total[c]
      BY <1>0 DEF TypeOK, TablesOK
    <3>5. Current(q)'
      BY <1>0, <1>3, <3>1, <3>3, <3>4 DEF Current, Matching
    <3> QED BY <1>0, <2>1, <3>5
  <2>2. CASE pc[q] \notin {"insert", "commit"} \/ q = r
    BY <1>0, <2>2 DEF CustInv
  <2> QED BY <2>1, <2>2
<1>9. ASSUME NEW c \in CustIds PROVE total'[c] = Cardinality(OrdersOf(c)')
  <2>1. r \notin OrdersOf(c) /\ IsFiniteSet(OrdersOf(c))
    <3>1. OrdersOf(c) \subseteq Requests /\ r \notin OrdersOf(c)
      BY <1>0, OrderIsRequest DEF OrdersOf, Placed
    <3> QED BY <3>1, RequestsAssumption, FS_Subset
  <2>2. total[c] = Cardinality(OrdersOf(c))
    BY DEF CustInv
  <2>3. CASE c = k
    <3>1. OrdersOf(c)' = OrdersOf(c) \cup {r}
      BY <1>0, <2>3 DEF OrdersOf, Placed
    <3>2. Cardinality(OrdersOf(c)') = Cardinality(OrdersOf(c)) + 1
      BY <2>1, <3>1, FS_AddElement
    <3>3. seen[r] = total[c]
      BY <1>0, <2>3, SeenIsTotal
    <3>4. total'[c] = seen[r] + 1
      BY <1>0, <2>3 DEF TypeOK, TablesOK
    <3> QED BY <2>2, <3>2, <3>3, <3>4
  <2>4. CASE c # k
    <3>1. OrdersOf(c)' = OrdersOf(c)
      BY <1>0, <2>4 DEF OrdersOf, Placed
    <3>2. total'[c] = total[c]
      BY <1>0, <2>4 DEF TypeOK, TablesOK
    <3> QED BY <2>2, <3>1, <3>2
  <2> QED BY <2>3, <2>4
<1> QED BY <1>6, <1>7, <1>8, <1>9 DEF CustInv

LEMMA NextCustInv ==
    ASSUME TypeOK, TypeOK', ~LookupsRace, CustInv, CustStep
    PROVE  CustInv'
<1>1. CASE Quiet
  <2>1. ASSUME NEW q \in OrderReqs PROVE RowKept(q) \/ RowMoves(q)
    <3>1. phone'[q] = phone[q] /\ cust'[q] = cust[q] /\ seen'[q] = seen[q]
      BY <1>1 DEF Quiet
    <3>2. CASE pc'[q] = pc[q]
      BY <3>1, <3>2 DEF RowKept
    <3>3. CASE pc[q] \in {"idle", "items"} /\ pc'[q] \in {"items", "raised", "failed"}
      BY <3>1, <3>3 DEF RowMoves, CustInv
    <3>4. CASE pc[q] = "insert" /\ pc'[q] = "commit"
      <4>1. UNCHANGED <<customers, total, phone, cust, seen>> /\ Current(q)
        BY <1>1, <3>4 DEF Quiet, custTable, CustInv
      <4>2. Current(q)'
        BY <4>1 DEF Current, Matching, PhoneOf
      <4> QED BY <3>4, <4>2 DEF RowMoves
    <3> QED BY <1>1, <3>2, <3>3, <3>4 DEF Quiet
  <2> QED BY <1>1, <2>1, RowsCust DEF Quiet
<1>2. ASSUME NEW r \in OrderReqs, Validates(r) PROVE CustInv'
  <2>1. /\ pc[r] = "items" /\ seen[r] = 0
        /\ \A q \in OrderReqs : pc'[q] = IF q = r THEN "flush" ELSE pc[q]
        /\ UNCHANGED <<custTable, cust, seen>>
        /\ \A q \in OrderReqs \ {r} : phone'[q] = phone[q]
    BY <1>2, GotoMoves, OrderIsRequest DEF Validates, CustInv, TypeOK, OrderRowsOK
  <2>2. \A q \in OrderReqs : RowKept(q) \/ RowMoves(q)
    BY <2>1 DEF RowKept, RowMoves
  <2> QED BY <2>1, <2>2, RowsCust
<1>3. ASSUME NEW r \in OrderReqs, Finds(r) PROVE CustInv'
  <2>1. /\ pc[r] = "flush" /\ seen[r] = 0
        /\ \A q \in OrderReqs : pc'[q] = IF q = r THEN "insert" ELSE pc[q]
        /\ UNCHANGED <<customers, total, phone>>
        /\ \A q \in OrderReqs \ {r} : cust'[q] = cust[q] /\ seen'[q] = seen[q]
    BY <1>3, GotoMoves, OrderIsRequest
       DEF Finds, CustInv, TypeOK, OrderRowsOK, custTable
  <2>2. Current(r)'
    <3>1. \A p : Matching(p)' = Matching(p)
      BY <2>1, KeepsPhones DEF CustInv
    <3>2. CASE Matching(phone[r]) = {} /\ cust' = [cust EXCEPT ![r] = r] /\ UNCHANGED seen
      BY <2>1, <3>1, <3>2 DEF Current, TypeOK, OrderRowsOK
    <3>3. ASSUME NEW c \in Matching(phone[r]), cust' = [cust EXCEPT ![r] = c],
                 seen' = [seen EXCEPT ![r] = total[c]]
          PROVE  Current(r)'
      BY <2>1, <3>1, <3>3 DEF Current, TypeOK, OrderRowsOK
    <3> QED BY <1>3, <3>2, <3>3 DEF Finds
  <2>3. \A q \in OrderReqs : RowKept(q) \/ RowMoves(q)
    BY <2>1, <2>2 DEF RowKept, RowMoves
  <2> QED BY <2>1, <2>3, RowsCust DEF custTable
<1>4. ASSUME NEW r \in OrderReqs, Places(r) PROVE CustInv'
  BY <1>4, PlacesCust
<1>5. ASSUME NEW r \in OrderReqs, r \in Active, Rollback(r) PROVE CustInv'
  <2>1. /\ pc[r] # "done"
        /\ \A q \in OrderReqs : pc'[q] = IF q = r THEN "failed" ELSE pc[q]
        /\ UNCHANGED custTable
        /\ \A q \in OrderReqs \ {r} :
              phone'[q] = phone[q] /\ cust'[q] = cust[q] /\ seen'[q] = seen[q]
    BY <1>5, GotoMoves, OrderIsRequest DEF Rollback, Active, TypeOK, OrderRowsOK
  <2>2. \A q \in OrderReqs : RowKept(q) \/ RowMoves(q)
    BY <2>1 DEF RowKept, RowMoves
  <2> QED BY <2>1, <2>2, RowsCust
<1> QED BY <1>1, <1>2, <1>3, <1>4, <1>5 DEF CustStep

\* Every phone number has one customer (models/customer.py:45) and every total
\* is exact (order_service.py:121), whatever else overlaps, unless two orders
\* with one phone number are both between their customer lookup and commit.
THEOREM CountsUntilRace == Spec => [](UniquePhone /\ TotalsExact) \/ <>LookupsRace
<1> DEFINE Inv == TypeOK /\ CustInv
<1>1. Init => Inv
  BY InitType, InitCustInv
<1>2. Inv /\ ~LookupsRace /\ [Next]_vars => Inv'
  BY NextType, NextCustStep, NextCustInv
<1>3. Inv => UniquePhone /\ TotalsExact
  BY DEF CustInv, OrdersOf, TotalsExact, TypeOK, TablesOK
<1> QED BY <1>1, <1>2, <1>3, PTL DEF Spec

-----------------------------------------------------------------------------
(* Every request decides once and is carried out once *)

NoWrites == [i \in Items |-> NoChange]

\* A locked row exists and is locked by one session; deletions and views write
\* no columns; an order that has not been validated has no cart.
PlanInv ==
    /\ \A r \in Requests : held[r] \subseteq live
    /\ \A r, q \in Requests : r # q => held[r] \cap held[q] = {}
    /\ \A r \in Deleters : new[r] = NoWrites
    /\ \A r \in OrderReqs : pc[r] \in {"idle", "items", "raised"} =>
                               cart[r] = NoCart /\ phone[r] = Null

LEMMA InitPlanInv == Init => PlanInv
  BY OrderIsRequest DEF Init, PlanInv, NoWrites, Deleters, Requests

\* What a step that locks no row can do to the parts of PlanInv.
LEMMA PlanKept ==
    ASSUME TypeOK, PlanInv,
           \A r \in Requests : held'[r] \subseteq held[r] /\ held'[r] \subseteq live',
           \A r \in Deleters : new'[r] \in {new[r], NoWrites},
           \A r \in OrderReqs : pc'[r] \in {"idle", "items", "raised"} =>
                \/ /\ pc[r] \in {"idle", "items", "raised"}
                   /\ cart'[r] = cart[r] /\ phone'[r] = phone[r]
                \/ cart'[r] = NoCart /\ phone'[r] = Null
    PROVE  PlanInv'
<1>1. \A r, q \in Requests : r # q => held'[r] \cap held'[q] = {}
  BY DEF PlanInv
<1>2. \A r \in Deleters : new'[r] = NoWrites
  BY DEF PlanInv
<1>3. NoWrites' = NoWrites
  BY DEF NoWrites
<1> QED BY <1>1, <1>2, <1>3 DEF PlanInv

\* The same for a step that moves request r from phase to phase.
LEMMA MoveKeeps ==
    ASSUME TypeOK, PlanInv, NEW r \in Requests, NEW s, Goto(r, s), UNCHANGED live,
           held'[r] \in {held[r], {}}, \A q \in Requests \ {r} : held'[q] = held[q],
           \A q \in Deleters : new'[q] \in {new[q], NoWrites},
           \A q \in OrderReqs \ {r} : cart'[q] = cart[q] /\ phone'[q] = phone[q],
           r \in OrderReqs /\ s \in {"idle", "items", "raised"} =>
                /\ pc[r] \in {"idle", "items", "raised"}
                /\ cart'[r] = cart[r] /\ phone'[r] = phone[r]
    PROVE  PlanInv'
<1>1. \A q \in Requests : held'[q] \subseteq held[q] /\ held'[q] \subseteq live'
  BY DEF PlanInv
<1>2. \A q \in OrderReqs : pc'[q] \in {"idle", "items", "raised"} =>
         /\ pc[q] \in {"idle", "items", "raised"}
         /\ cart'[q] = cart[q] /\ phone'[q] = phone[q]
  BY GotoMoves, OrderIsRequest
<1> QED BY <1>1, <1>2, PlanKept

LEMMA RollbackPlan ==
    ASSUME TypeOK, PlanInv, NEW r \in Requests, Rollback(r)
    PROVE  PlanInv'
<1>1. /\ Goto(r, "failed") /\ EndSession(r) /\ UNCHANGED live
      /\ \A q \in OrderReqs \ {r} : cart'[q] = cart[q] /\ phone'[q] = phone[q]
  BY DEF Rollback, menuTable, orderRow, TypeOK, OrderRowsOK
<1>2. \A q \in Requests : /\ held'[q] = IF q = r THEN {} ELSE held[q]
                          /\ new'[q] = IF q = r THEN NoWrites ELSE new[q]
  BY <1>1 DEF EndSession, TypeOK, SessionsOK, NoWrites
<1>3. \A q \in Deleters : new'[q] \in {new[q], NoWrites}
  BY <1>2 DEF Deleters, Requests
<1> QED BY <1>1, <1>2, <1>3, MoveKeeps

LEMMA NextPlanInv == TypeOK /\ LockInv /\ PlanInv /\ [Next]_vars => PlanInv'
<1> SUFFICES ASSUME TypeOK, LockInv, PlanInv, [Next]_vars PROVE PlanInv'
  OBVIOUS
<1> USE OrderIsRequest DEF menuTable, session, orderRow
<1>1. CASE UNCHANGED vars \/ update_menu
  BY <1>1, PlanKept DEF vars, update_menu, PlanInv
<1>2. ASSUME NEW r \in Requests, Rollback(r) PROVE PlanInv'
  BY <1>2, RollbackPlan
<1>3. ASSUME NEW r \in Requests, load_menu(r) PROVE PlanInv'
  BY <1>3, MoveKeeps DEF load_menu, Connect
<1>4. ASSUME NEW r \in Requests, NEW i \in Items, NEW patch \in Patches,
             update_menu_item(r, i, patch)
      PROVE  PlanInv'
  <2>1. r \notin OrderReqs /\ r \notin Deleters /\ (Goto(r, "flush") \/ Goto(r, "failed"))
    BY <1>4, RequestsAssumption DEF update_menu_item
  <2>2. UNCHANGED <<live, held, cart, phone>> /\ \A q \in Deleters : new'[q] = new[q]
    BY <1>4, <2>1 DEF update_menu_item, Dirty, TypeOK, SessionsOK, Deleters, Requests
  <2> QED BY <2>1, <2>2, MoveKeeps
<1>5. ASSUME NEW r \in Requests, NEW i \in Items, delete_menu_item(r, i) PROVE PlanInv'
  <2>1. r \notin OrderReqs /\ (Goto(r, "flush") \/ Goto(r, "failed"))
    BY <1>5, RequestsAssumption DEF delete_menu_item, Deleters
  <2> QED BY <1>5, <2>1, MoveKeeps DEF delete_menu_item
<1>6. ASSUME NEW r \in Requests, get_public_menu(r) PROVE PlanInv'
  <2>1. r \notin OrderReqs /\ Goto(r, "flush")
    BY <1>6, RequestsAssumption DEF get_public_menu, Deleters
  <2> QED BY <1>6, <2>1, MoveKeeps DEF get_public_menu
<1>7. ASSUME NEW r \in Requests, NEW c \in Carts, NEW p \in Phones, create_order(r, c, p)
      PROVE  PlanInv'
  <2>1. /\ r \in OrderReqs /\ r \notin Deleters /\ pc[r] = "items"
        /\ UNCHANGED <<live, held>> /\ \A q \in Deleters : new'[q] = new[q]
    BY <1>7, RequestsAssumption
       DEF create_order, Dirty, TypeOK, SessionsOK, Deleters, Requests
  <2>2. CASE Acceptable(c)
    <3>1. /\ Goto(r, "flush")
          /\ \A q \in OrderReqs \ {r} : cart'[q] = cart[q] /\ phone'[q] = phone[q]
      BY <1>7, <2>2 DEF create_order, TypeOK, OrderRowsOK
    <3> QED BY <2>1, <3>1, MoveKeeps
  <2>3. CASE ~Acceptable(c)
    BY <1>7, <2>1, <2>3, MoveKeeps DEF create_order
  <2> QED BY <2>2, <2>3
<1>8. ASSUME NEW r \in Requests, NEW i \in Items, flush_row(r, i) PROVE PlanInv'
  <2>1. /\ UNCHANGED <<live, pc, new, cart, phone>> /\ i \in live
        /\ \A q \in Requests : held'[q] = IF q = r THEN held[r] \cup {i} ELSE held[q]
        /\ \A q \in Requests \ {r} : i \notin held[q]
    BY <1>8 DEF flush_row, TypeOK, SessionsOK
  <2>2. \A q, t \in Requests : q # t => held'[q] \cap held'[t] = {}
    BY <2>1 DEF PlanInv
  <2>3. \A q \in Requests : held'[q] \subseteq live'
    BY <2>1 DEF PlanInv
  <2> QED BY <2>1, <2>2, <2>3 DEF PlanInv, NoWrites
<1>9. ASSUME NEW r \in Requests, NEW i \in Items, stale_row(r, i) PROVE PlanInv'
  <2>1. CASE UNCHANGED <<live, pc, held, new, cart, phone>>
    BY <2>1 DEF PlanInv, NoWrites
  <2> QED BY <1>2, <1>9, <2>1 DEF stale_row
<1>10. ASSUME NEW r \in Requests, find_or_create_by_phone(r) PROVE PlanInv'
  <2>1. CASE Goto(r, "insert") /\ UNCHANGED <<live, held, new, cart, phone>>
    BY <2>1, MoveKeeps
  <2> QED BY <1>2, <1>10, <2>1 DEF find_or_create_by_phone
<1>11. ASSUME NEW r \in Requests, insert_order(r) PROVE PlanInv'
  BY <1>11, MoveKeeps DEF insert_order
<1>12. ASSUME NEW r \in Requests, get_db_commit(r) PROVE PlanInv'
  <2>1. /\ Goto(r, "done") /\ EndSession(r) /\ UNCHANGED <<cart, phone>>
        /\ live' \in {live, live \ held[r]}
    BY <1>12 DEF get_db_commit
  <2>2. \A q \in Requests : /\ held'[q] = IF q = r THEN {} ELSE held[q]
                            /\ new'[q] = IF q = r THEN NoWrites ELSE new[q]
                            /\ pc'[q] = IF q = r THEN "done" ELSE pc[q]
    BY <2>1, GotoMoves DEF EndSession, TypeOK, SessionsOK, NoWrites
  <2>3. \A q \in Requests : held'[q] \subseteq held[q] /\ held'[q] \subseteq live'
    BY <2>1, <2>2 DEF PlanInv
  <2>4. \A q \in Deleters : new'[q] \in {new[q], NoWrites}
    BY <2>2 DEF Deleters, Requests
  <2> QED BY <2>1, <2>2, <2>3, <2>4, PlanKept
<1>13. ASSUME NEW r \in Requests, pool_timeout(r) PROVE PlanInv'
  BY <1>13, MoveKeeps DEF pool_timeout
<1> QED BY <1>1, <1>2, <1>3, <1>4, <1>5, <1>6, <1>7, <1>8, <1>9, <1>10, <1>11, <1>12, <1>13
        DEF Next, Start, Progress, get_db_except, get_db_rollback
-----------------------------------------------------------------------------
(* The order rows of a request under way *)

\* An order under way goes to a new row or to one with its phone number, and
\* has loaded a total that leaves no more than the orders placed uncounted.
Named(r) ==
    /\ cust[r] = r \/ cust[r] \in Matching(phone[r])
    /\ seen[r] <= Cardinality(OrdersOf(cust[r]))

CountInv ==
    /\ \A c \in customers \ Phones : pc[c] = "done"
    /\ \A r \in OrderReqs :
          /\ pc[r] \in {"insert", "commit"} => Named(r)
          /\ pc[r] \in {"idle", "items", "flush"} => seen[r] = 0
    /\ \A c \in CustIds : total[c] <= Cardinality(OrdersOf(c))

LEMMA OrdersFinite ==
    ASSUME NEW c
    PROVE  IsFiniteSet(OrdersOf(c)) /\ Cardinality(OrdersOf(c)) \in Nat
<1>1. OrdersOf(c) \in SUBSET Requests
  BY OrderIsRequest DEF OrdersOf, Placed
<1>2. IsFiniteSet(OrdersOf(c))
  BY <1>1, RequestsAssumption, FS_Subset
<1> QED BY <1>2, FS_CardinalityType

LEMMA InitCountInv == Init => CountInv
<1> SUFFICES ASSUME Init PROVE CountInv
  OBVIOUS
<1>1. \A r \in OrderReqs : pc[r] = "idle" /\ seen[r] = 0
  BY OrderIsRequest DEF Init
<1>2. \A c \in CustIds : total[c] = 0
  BY DEF Init
<1>3. \A c \in CustIds : Cardinality(OrdersOf(c)) \in Nat
  BY OrdersFinite
<1>4. customers \subseteq Phones
  BY DEF Init
<1> QED BY <1>1, <1>2, <1>3, <1>4 DEF CountInv

\* No placed order is forgotten: customers keep their phone numbers, and no
\* customer loses one of its orders.
Keeps ==
    /\ customers \subseteq customers'
    /\ \A q \in OrderReqs : pc[q] = "done" =>
          pc'[q] = "done" /\ phone'[q] = phone[q] /\ cust'[q] = cust[q]

LEMMA KeepsOrders ==
    ASSUME TypeOK, TypeOK', CountInv, Keeps
    PROVE  /\ \A p : Matching(p) \subseteq Matching(p)'
           /\ \A c : OrdersOf(c) \subseteq OrdersOf(c)'
           /\ \A c : /\ {Cardinality(OrdersOf(c)), Cardinality(OrdersOf(c)')} \subseteq Nat
                     /\ Cardinality(OrdersOf(c)) <= Cardinality(OrdersOf(c)')
<1>1. ASSUME NEW c \in customers PROVE PhoneOf(c)' = PhoneOf(c)
  <2>1. c \in Phones \/ (c \in OrderReqs /\ pc[c] = "done")
    BY DEF CountInv, TypeOK, TablesOK, CustIds
  <2> QED BY <2>1 DEF PhoneOf, Keeps
<1>2. ASSUME NEW p PROVE Matching(p) \subseteq Matching(p)'
  BY <1>1 DEF Matching, Keeps
<1>3. ASSUME NEW c PROVE OrdersOf(c) \in SUBSET OrdersOf(c)'
  BY DEF OrdersOf, Placed, Keeps
<1>4. ASSUME NEW c PROVE IsFiniteSet(OrdersOf(c)')
  <2>1. OrdersOf(c)' \in SUBSET Requests
    BY OrderIsRequest DEF OrdersOf, Placed
  <2> QED BY <2>1, RequestsAssumption, FS_Subset
<1>5. ASSUME NEW c PROVE Cardinality(OrdersOf(c)) <= Cardinality(OrdersOf(c)')
  BY <1>3, <1>4, FS_Subset
<1>6. ASSUME NEW c
      PROVE  {Cardinality(OrdersOf(c)), Cardinality(OrdersOf(c)')} \subseteq Nat
  BY <1>4, OrdersFinite, FS_CardinalityType
<1> QED BY <1>2, <1>3, <1>5, <1>6

\* A row that stays keeps its good name.
LEMMA StaysNamed ==
    ASSUME TypeOK, TypeOK', CountInv, Keeps, NEW q \in OrderReqs, RowKept(q),
           pc[q] \in {"insert", "commit"}
    PROVE  Named(q)'
<1>1. /\ seen[q] \in Nat /\ Named(q)
      /\ cust'[q] = cust[q] /\ seen'[q] = seen[q] /\ phone'[q] = phone[q]
  BY DEF CountInv, RowKept, TypeOK, OrderRowsOK
<1>2. ASSUME NEW c, seen[q] <= Cardinality(OrdersOf(c))
      PROVE  seen[q] <= Cardinality(OrdersOf(c)')
  <2> DEFINE a == Cardinality(OrdersOf(c))
             b == Cardinality(OrdersOf(c)')
  <2>1. a \in Nat /\ b \in Nat /\ a <= b
    BY KeepsOrders
  <2>2. seen[q] \in Nat /\ seen[q] <= a
    BY <1>1, <1>2
  <2> HIDE DEF a, b
  <2>3. seen[q] <= b
    BY <2>1, <2>2
  <2> QED BY <2>3 DEF b
<1>3. seen[q] <= Cardinality(OrdersOf(cust[q])')
  BY <1>1, <1>2 DEF Named
<1>4. cust[q] = q \/ cust[q] \in Matching(phone[q])'
  BY <1>1, KeepsOrders DEF Named
<1> QED BY <1>1, <1>3, <1>4 DEF Named

\* A step that keeps the placed orders and changes only rows that are not
\* placed, to ones with a good name.
LEMMA RowsCount ==
    ASSUME TypeOK, TypeOK', CountInv, Keeps,
           \A c \in customers' \ Phones : pc'[c] = "done",
           \A c \in CustIds : total'[c] <= Cardinality(OrdersOf(c)'),
           \A q \in OrderReqs :
              \/ RowKept(q)
              \/ /\ pc'[q] \in {"insert", "commit"} => Named(q)'
                 /\ pc'[q] \in {"idle", "items", "flush"} => seen'[q] = 0
    PROVE  CountInv'
<1>1. ASSUME NEW q \in OrderReqs
      PROVE  /\ pc'[q] \in {"insert", "commit"} => Named(q)'
             /\ pc'[q] \in {"idle", "items", "flush"} => seen'[q] = 0
  <2>1. CASE RowKept(q)
    BY <2>1, StaysNamed DEF RowKept, CountInv
  <2> QED BY <2>1
<1> QED BY <1>1 DEF CountInv

\* The totals stay, or one more order is counted and placed.
LEMMA TotalsCount ==
    ASSUME TypeOK, TypeOK', CountInv, Keeps, UNCHANGED total
    PROVE  \A c \in CustIds : total'[c] <= Cardinality(OrdersOf(c)')
<1> SUFFICES ASSUME NEW c \in CustIds PROVE total[c] <= Cardinality(OrdersOf(c)')
  OBVIOUS
<1> DEFINE a == Cardinality(OrdersOf(c))
           b == Cardinality(OrdersOf(c)')
<1>1. a \in Nat /\ b \in Nat /\ a <= b
  BY KeepsOrders
<1>2. total[c] \in Nat /\ total[c] <= a
  BY DEF CountInv, TypeOK, TablesOK
<1> HIDE DEF a, b
<1>3. total[c] <= b
  BY <1>1, <1>2
<1> QED BY <1>3 DEF b

LEMMA PlacesCount ==
    ASSUME TypeOK, TypeOK', CountInv, NEW r \in OrderReqs, Places(r)
    PROVE  CountInv'
<1> DEFINE k == cust[r]
<1>0. /\ pc[r] = "commit"
      /\ \A q \in OrderReqs : pc'[q] = IF q = r THEN "done" ELSE pc[q]
      /\ UNCHANGED <<phone, cust, seen>>
      /\ customers' = customers \cup {k}
      /\ total' = [total EXCEPT ![k] = seen[r] + 1]
  BY GotoMoves, OrderIsRequest DEF Places
<1>1. k \in CustIds /\ Named(r)
  BY <1>0 DEF TypeOK, Filled, CountInv
<1>2. Keeps
  BY <1>0 DEF Keeps
<1>3. \A c \in customers' \ Phones : pc'[c] = "done"
  <2> SUFFICES ASSUME NEW c \in customers' \ Phones PROVE pc'[c] = "done"
    OBVIOUS
  <2>1. c \in OrderReqs
    BY <1>0, <1>1 DEF CustIds, TypeOK, TablesOK
  <2>2. c = r \/ pc[c] = "done"
    BY <1>0, <1>1 DEF Named, Matching, CountInv
  <2> QED BY <1>0, <2>1, <2>2
<1>4. ASSUME NEW c \in CustIds PROVE total'[c] <= Cardinality(OrdersOf(c)')
  <2> DEFINE a == Cardinality(OrdersOf(c))
             b == Cardinality(OrdersOf(c)')
  <2>1. a \in Nat /\ b \in Nat /\ a <= b
    BY <1>2, KeepsOrders
  <2>2. CASE c # k
    <3>1. total'[c] = total[c] /\ total[c] \in Nat /\ total[c] <= a
      BY <1>0, <2>2 DEF CountInv, TypeOK, TablesOK
    <3> HIDE DEF a, b
    <3>2. total'[c] <= b
      BY <2>1, <3>1
    <3> QED BY <3>2 DEF b
  <2>3. CASE c = k
    <3>1. OrdersOf(c)' = OrdersOf(c) \cup {r} /\ r \notin OrdersOf(c)
      BY <1>0, <2>3 DEF OrdersOf, Placed
    <3>2. b = a + 1
      BY <3>1, OrdersFinite, FS_AddElement
    <3>3. total'[c] = seen[r] + 1 /\ seen[r] \in Nat /\ seen[r] <= a
      BY <1>0, <1>1, <2>3 DEF Named, TypeOK, TablesOK, OrderRowsOK
    <3> HIDE DEF a, b
    <3>4. total'[c] <= b
      BY <2>1, <3>2, <3>3
    <3> QED BY <3>4 DEF b
  <2> QED BY <2>2, <2>3
<1>5. \A q \in OrderReqs : RowKept(q) \/ pc'[q] = "done"
  BY <1>0 DEF RowKept
<1> QED BY <1>2, <1>3, <1>4, <1>5, RowsCount

LEMMA NextCountInv ==
    ASSUME TypeOK, TypeOK', CountInv, CustStep
    PROVE  CountInv'
<1>0. ASSUME UNCHANGED custTable,
             \A q \in OrderReqs :
                \/ RowKept(q)
                \/ /\ pc[q] # "done"
                   /\ pc'[q] \in {"insert", "commit"} => Named(q)'
                   /\ pc'[q] \in {"idle", "items", "flush"} => seen'[q] = 0
      PROVE  CountInv'
  <2>1. Keeps
    BY <1>0 DEF Keeps, RowKept, custTable
  <2>2. \A c \in customers' \ Phones : pc'[c] = "done"
    BY <1>0, <2>1 DEF Keeps, CountInv, custTable, TypeOK, TablesOK, CustIds
  <2>3. \A c \in CustIds : total'[c] <= Cardinality(OrdersOf(c)')
    BY <1>0, <2>1, TotalsCount DEF custTable
  <2> QED BY <1>0, <2>1, <2>2, <2>3, RowsCount
<1>1. CASE Quiet
  <2>1. ASSUME NEW q \in OrderReqs, ~RowKept(q)
        PROVE  /\ pc[q] # "done"
               /\ pc'[q] \in {"insert", "commit"} => Named(q)'
               /\ pc'[q] \in {"idle", "items", "flush"} => seen'[q] = 0
    <3>1. phone'[q] = phone[q] /\ cust'[q] = cust[q] /\ seen'[q] = seen[q]
      BY <1>1 DEF Quiet
    <3>2. CASE pc[q] \in {"idle", "items"} /\ pc'[q] \in {"items", "raised", "failed"}
      BY <3>1, <3>2 DEF CountInv
    <3>3. CASE pc[q] = "insert" /\ pc'[q] = "commit"
      <4>1. UNCHANGED <<customers, phone, cust, seen>> /\ Named(q)
        BY <1>1, <3>3 DEF Quiet, custTable, CountInv
      <4>2. Placed' = Placed
        BY <1>1 DEF Quiet, Placed
      <4>3. Named(q)'
        BY <4>1, <4>2 DEF Named, Matching, PhoneOf, OrdersOf
      <4> QED BY <3>3, <4>3
    <3> QED BY <1>1, <2>1, <3>1, <3>2, <3>3 DEF Quiet, RowKept
  <2> QED BY <1>0, <1>1, <2>1 DEF Quiet
<1>2. ASSUME NEW r \in OrderReqs, Validates(r) PROVE CountInv'
  <2>1. /\ pc[r] = "items" /\ seen[r] = 0
        /\ \A q \in OrderReqs : pc'[q] = IF q = r THEN "flush" ELSE pc[q]
        /\ UNCHANGED <<custTable, cust, seen>>
        /\ \A q \in OrderReqs \ {r} : phone'[q] = phone[q]
    BY <1>2, GotoMoves, OrderIsRequest DEF Validates, CountInv, TypeOK, OrderRowsOK
  <2> QED BY <1>0, <2>1 DEF RowKept
<1>3. ASSUME NEW r \in OrderReqs, Finds(r) PROVE CountInv'
  <2>1. /\ pc[r] = "flush" /\ seen[r] = 0
        /\ \A q \in OrderReqs : pc'[q] = IF q = r THEN "insert" ELSE pc[q]
        /\ UNCHANGED <<customers, total, phone>>
        /\ \A q \in OrderReqs \ {r} : cust'[q] = cust[q] /\ seen'[q] = seen[q]
    BY <1>3, GotoMoves, OrderIsRequest
       DEF Finds, CountInv, TypeOK, OrderRowsOK, custTable
  <2>2. Keeps
    BY <2>1 DEF Keeps
  <2>6. \A c \in CustIds : total'[c] <= Cardinality(OrdersOf(c)')
    <3>1. UNCHANGED total
      BY <2>1
    <3> QED BY <2>2, <3>1, TotalsCount
  <2>3. ASSUME cust' = [cust EXCEPT ![r] = r], UNCHANGED seen
        PROVE  Named(r)'
    <3>1. cust'[r] = r /\ seen'[r] = 0
      BY <2>1, <2>3 DEF TypeOK, OrderRowsOK
    <3>2. OrdersOf(cust[r])' = OrdersOf(r)'
      BY <3>1 DEF OrdersOf
    <3>3. Cardinality(OrdersOf(cust[r])') \in Nat
      BY <2>2, <3>2, KeepsOrders
    <3> QED BY <3>1, <3>3 DEF Named
  <2>4. ASSUME NEW c \in Matching(phone[r]), cust' = [cust EXCEPT ![r] = c],
               seen' = [seen EXCEPT ![r] = total[c]]
        PROVE  Named(r)'
    <3>1. cust'[r] = c /\ seen'[r] = total[c] /\ phone'[r] = phone[r] /\ total' = total
      BY <2>1, <2>4 DEF TypeOK, OrderRowsOK
    <3>2. c \in CustIds
      BY <2>4 DEF Matching, TypeOK, TablesOK
    <3>3. total'[c] <= Cardinality(OrdersOf(c)')
      BY <2>2, <2>6, <3>2
    <3>4. c \in Matching(phone[r])'
      <4>1. PICK p : p = phone[r]
        OBVIOUS
      <4>2. Matching(p)' = Matching(phone[r])'
        BY <3>1, <4>1 DEF Matching
      <4> QED BY <2>2, <2>4, <4>1, <4>2, KeepsOrders
    <3>5. OrdersOf(cust[r])' = OrdersOf(c)'
      BY <3>1 DEF OrdersOf
    <3> QED BY <3>1, <3>3, <3>4, <3>5 DEF Named
  <2>5. Named(r)'
    BY <1>3, <2>3, <2>4 DEF Finds, Named
  <2> QED BY <1>0, <2>1, <2>5 DEF RowKept, custTable
<1>4. ASSUME NEW r \in OrderReqs, Places(r) PROVE CountInv'
  BY <1>4, PlacesCount
<1>5. ASSUME NEW r \in OrderReqs, r \in Active, Rollback(r) PROVE CountInv'
  <2>1. /\ pc[r] # "done"
        /\ \A q \in OrderReqs : pc'[q] = IF q = r THEN "failed" ELSE pc[q]
        /\ UNCHANGED custTable
        /\ \A q \in OrderReqs \ {r} :
              phone'[q] = phone[q] /\ cust'[q] = cust[q] /\ seen'[q] = seen[q]
    BY <1>5, GotoMoves, OrderIsRequest DEF Rollback, Active, TypeOK, OrderRowsOK
  <2> QED BY <1>0, <2>1 DEF RowKept
<1> QED BY <1>1, <1>2, <1>3, <1>4, <1>5 DEF CustStep

-----------------------------------------------------------------------------
(* Every request decides once and is later carried out as a whole or not at all *)

LEMMA LateInit == Init => Late!Init
<1> SUFFICES ASSUME Init PROVE Late!Init
  OBVIOUS
<1>1. \A r \in Requests : stages[r] = "idle"
  BY DEF Init, stages, StageOf
<1>2. Placed = {}
  BY OrderIsRequest DEF Init, Placed
<1>3. stages = [r \in Requests |-> "idle"]
  BY <1>1 DEF stages
<1>4. plannedRows = [r \in Requests |-> {}]
  BY <1>1 DEF plannedRows
<1>5. plannedWrites = [r \in Requests |-> NoWrites]
  BY <1>1 DEF plannedWrites, NoWrites
<1>6. placedFor = [r \in OrderReqs |-> Null]
  BY <1>2 DEF placedFor
<1> QED BY <1>3, <1>4, <1>5, <1>6
        DEF Init, Late!Init, Late!Items, Items, Late!Requests, Requests, Late!NoWrites,
            NoWrites, Late!NoChange, NoChange, Late!NoCart, NoCart, CustIds

\* How the abstract state moves when request r goes to phase s, short of "done".
LEMMA MapMoves ==
    ASSUME TypeOK, NEW r \in Requests, NEW s \in Phases \ {"done"}, pc[r] # "done", Goto(r, s),
           \A q \in Requests \ {r} :
              todo'[q] = todo[q] /\ held'[q] = held[q] /\ new'[q] = new[q],
           \A q \in OrderReqs \ {r} : cust'[q] = cust[q]
    PROVE  /\ stages' = [stages EXCEPT ![r] = StageOf(s)]
           /\ plannedRows' = [plannedRows EXCEPT ![r] =
                 IF StageOf(s) = "decided" THEN todo'[r] \cup held'[r] ELSE {}]
           /\ plannedWrites' = [plannedWrites EXCEPT ![r] =
                 IF StageOf(s) = "decided" THEN new'[r] ELSE NoWrites]
           /\ placedFor' = placedFor
<1>1. \A q \in Requests : pc'[q] = IF q = r THEN s ELSE pc[q]
  BY GotoMoves
<1>2. \A q \in Requests : stages'[q] = IF q = r THEN StageOf(s) ELSE stages[q]
  BY <1>1 DEF stages, StageOf
<1>3. stages' = [stages EXCEPT ![r] = StageOf(s)]
  BY <1>2 DEF stages
<1>4. plannedRows' = [plannedRows EXCEPT ![r] =
         IF StageOf(s) = "decided" THEN todo'[r] \cup held'[r] ELSE {}]
  <2>1. \A q \in Requests : plannedRows'[q] =
           IF q = r THEN IF StageOf(s) = "decided" THEN todo'[r] \cup held'[r] ELSE {}
           ELSE plannedRows[q]
    BY <1>2 DEF plannedRows
  <2> QED BY <2>1 DEF plannedRows
<1>5. plannedWrites' = [plannedWrites EXCEPT ![r] =
         IF StageOf(s) = "decided" THEN new'[r] ELSE NoWrites]
  <2>1. \A q \in Requests : plannedWrites'[q] =
           IF q = r THEN IF StageOf(s) = "decided" THEN new'[r] ELSE NoWrites
           ELSE plannedWrites[q]
    BY <1>2 DEF plannedWrites, NoWrites
  <2> QED BY <2>1 DEF plannedWrites
<1>6. \A q \in OrderReqs : /\ (q \in Placed') <=> (q \in Placed)
                           /\ q \in Placed => cust'[q] = cust[q]
  BY <1>1, OrderIsRequest DEF Placed
<1>7. placedFor' = placedFor
  BY <1>6 DEF placedFor
<1> QED BY <1>3, <1>4, <1>5, <1>7

\* A step that changes nothing the abstract specification sees.
LEMMA Unseen ==
    ASSUME TypeOK, NEW r \in Requests, NEW s \in Phases \ {"done"}, pc[r] # "done", Goto(r, s),
           StageOf(s) = StageOf(pc[r]),
           \A q \in Requests \ {r} :
              todo'[q] = todo[q] /\ held'[q] = held[q] /\ new'[q] = new[q],
           StageOf(s) = "decided" =>
              todo'[r] \cup held'[r] = todo[r] \cup held[r] /\ new'[r] = new[r],
           \A q \in OrderReqs \ {r} : cust'[q] = cust[q],
           UNCHANGED <<published, menuTable, custTable, cart, phone>>
    PROVE  UNCHANGED Late!vars
<1>1. stages[r] = StageOf(s)
  BY DEF stages
<1>2. stages' = stages
  <2>1. stages = [stages EXCEPT ![r] = stages[r]]
    BY DEF stages
  <2>2. stages' = [stages EXCEPT ![r] = StageOf(s)]
    BY MapMoves
  <2> QED BY <1>1, <2>1, <2>2, Zenon
<1>3. plannedRows' = plannedRows
  <2>1. plannedRows[r] = IF StageOf(s) = "decided" THEN todo'[r] \cup held'[r] ELSE {}
    BY <1>1 DEF plannedRows
  <2>2. plannedRows = [plannedRows EXCEPT ![r] = plannedRows[r]]
    BY DEF plannedRows
  <2>3. plannedRows' = [plannedRows EXCEPT ![r] =
           IF StageOf(s) = "decided" THEN todo'[r] \cup held'[r] ELSE {}]
    BY MapMoves
  <2> QED BY <2>1, <2>2, <2>3, Zenon
<1>4. plannedWrites' = plannedWrites
  <2>1. plannedWrites[r] = IF StageOf(s) = "decided" THEN new'[r] ELSE NoWrites
    BY <1>1 DEF plannedWrites, NoWrites
  <2>2. plannedWrites = [plannedWrites EXCEPT ![r] = plannedWrites[r]]
    BY DEF plannedWrites
  <2>3. plannedWrites' = [plannedWrites EXCEPT ![r] =
           IF StageOf(s) = "decided" THEN new'[r] ELSE NoWrites]
    BY MapMoves
  <2> QED BY <2>1, <2>2, <2>3, Zenon
<1>5. placedFor' = placedFor
  BY MapMoves
<1> QED BY <1>2, <1>3, <1>4, <1>5
        DEF Late!vars, Late!menu, Late!people, Late!plans, menuTable, custTable

\* The request fails, or is as good as failed.
LEMMA FailsLate ==
    ASSUME TypeOK, TypeOK', NEW r \in Requests, pc[r] \notin {"done", "failed", "raised"},
           NEW s \in {"failed", "raised"}, Goto(r, s),
           \A q \in Requests \ {r} :
              todo'[q] = todo[q] /\ held'[q] = held[q] /\ new'[q] = new[q],
           \A q \in OrderReqs \ {r} :
              cart'[q] = cart[q] /\ phone'[q] = phone[q] /\ cust'[q] = cust[q],
           r \in OrderReqs => cart'[r] = NoCart /\ phone'[r] = Null,
           UNCHANGED <<published, menuTable, custTable>>
    PROVE  Late!Fail(r)
<1>1. /\ s \in Phases \ {"done"} /\ StageOf(s) = "failed"
  BY DEF Phases, StageOf
<1>2. /\ stages' = [stages EXCEPT ![r] = "failed"]
      /\ plannedRows' = [plannedRows EXCEPT ![r] = {}]
      /\ plannedWrites' = [plannedWrites EXCEPT ![r] = NoWrites]
      /\ placedFor' = placedFor
  BY <1>1, MapMoves
<1>3. stages[r] \in {"idle", "admitted", "decided"}
  BY DEF stages, StageOf, TypeOK, SessionsOK, Phases
<1>4. cart' = [q \in OrderReqs |-> IF q = r THEN NoCart ELSE cart[q]]
  BY DEF TypeOK, OrderRowsOK
<1>5. phone' = [q \in OrderReqs |-> IF q = r THEN Null ELSE phone[q]]
  BY DEF TypeOK, OrderRowsOK
<1> QED BY <1>2, <1>3, <1>4, <1>5
        DEF Late!Fail, Late!Moves, Late!menu, Late!people, Late!NoWrites, NoWrites,
            Late!NoChange, NoChange, Late!NoCart, NoCart, Late!Items, Items, menuTable, custTable

LEMMA RollbackLate ==
    ASSUME TypeOK, TypeOK', PlanInv, NEW r \in Requests, r \in Active, Rollback(r)
    PROVE  Late!Fail(r) \/ UNCHANGED Late!vars
<1>1. /\ Goto(r, "failed") /\ UNCHANGED <<published, menuTable, custTable>>
      /\ pc[r] \notin {"idle", "done", "failed"}
      /\ \A q \in Requests \ {r} :
            todo'[q] = todo[q] /\ held'[q] = held[q] /\ new'[q] = new[q]
  BY DEF Rollback, EndSession, TypeOK, SessionsOK, Active
<1>2. /\ \A q \in OrderReqs \ {r} :
            cart'[q] = cart[q] /\ phone'[q] = phone[q] /\ cust'[q] = cust[q]
      /\ r \in OrderReqs => cart'[r] = NoCart /\ phone'[r] = Null
  BY DEF Rollback, TypeOK, OrderRowsOK, orderRow
<1>3. CASE pc[r] # "raised"
  BY <1>1, <1>2, <1>3, FailsLate
<1>4. CASE pc[r] = "raised"
  <2>1. "failed" \in Phases \ {"done"} /\ StageOf("failed") = "failed"
        /\ StageOf(pc[r]) = "failed"
    BY <1>4 DEF Phases, StageOf
  <2>2. \A q \in OrderReqs : cart'[q] = cart[q] /\ phone'[q] = phone[q]
    BY <1>2, <1>4 DEF PlanInv
  <2>3. cart' = cart /\ phone' = phone
    BY <2>2 DEF TypeOK, OrderRowsOK
  <2> QED BY <1>1, <1>2, <1>4, <2>1, <2>3, Unseen
<1> QED BY <1>3, <1>4

LEMMA LoadMenuLate ==
    ASSUME TypeOK, TypeOK', PlanInv, NEW r \in Requests, load_menu(r)
    PROVE  Late!Admit(r) \/ Late!Fail(r)
<1>1. /\ r \in OrderReqs \cup ViewReqs /\ pc[r] = "idle"
      /\ Goto(r, IF published THEN "items" ELSE "failed")
      /\ UNCHANGED <<published, menuTable, custTable, session, orderRow>>
  BY DEF load_menu, Connect
<1>2. UNCHANGED <<todo, held, new, cart, phone, cust, seen, live, stock, avail, customers, total>>
  BY <1>1 DEF session, orderRow, menuTable, custTable
<1>3. CASE published
  <2>1. "items" \in Phases \ {"done"} /\ StageOf("items") = "admitted"
    BY DEF Phases, StageOf
  <2>2. /\ stages' = [stages EXCEPT ![r] = "admitted"]
        /\ plannedRows' = [plannedRows EXCEPT ![r] = {}]
        /\ plannedWrites' = [plannedWrites EXCEPT ![r] = NoWrites]
        /\ placedFor' = placedFor
    BY <1>1, <1>2, <1>3, <2>1, MapMoves
  <2>3. stages[r] = "idle" /\ plannedRows[r] = {} /\ plannedWrites[r] = NoWrites
    BY <1>1 DEF stages, StageOf, plannedRows, plannedWrites, NoWrites
  <2>4. plannedRows' = plannedRows /\ plannedWrites' = plannedWrites
    BY <2>2, <2>3 DEF plannedRows, plannedWrites
  <2> QED BY <1>1, <1>2, <1>3, <2>2, <2>3, <2>4
          DEF Late!Admit, Late!Moves, Late!menu, Late!people, Late!plans
<1>4. CASE ~published
  <2>1. r \in OrderReqs => cart'[r] = NoCart /\ phone'[r] = Null
    BY <1>1, <1>2 DEF PlanInv
  <2> QED BY <1>1, <1>2, <1>4, <2>1, FailsLate
<1> QED BY <1>3, <1>4

\* A request that decides to write w.
LEMMA PlansLate ==
    ASSUME TypeOK, LockInv, NEW r \in Requests, pc[r] \in {"idle", "items"}, Goto(r, "flush"),
           NEW w, Dirty(r, w), \A q \in OrderReqs \ {r} : cust'[q] = cust[q]
    PROVE  /\ stages' = [stages EXCEPT ![r] = "decided"]
           /\ Late!Plan(r, w)
           /\ placedFor' = placedFor
<1>1. /\ held[r] = {} /\ held' = held
      /\ todo' = [todo EXCEPT ![r] = {i \in Items : w[i] # NoChange}]
      /\ new' = [new EXCEPT ![r] = w]
  BY DEF LockInv, Dirty
<1>2. "flush" \in Phases \ {"done"} /\ StageOf("flush") = "decided"
  BY DEF Phases, StageOf
<1>3. /\ \A q \in Requests \ {r} :
            todo'[q] = todo[q] /\ held'[q] = held[q] /\ new'[q] = new[q]
      /\ todo'[r] \cup held'[r] = {i \in Items : w[i] # NoChange}
      /\ new'[r] = w
  BY <1>1 DEF TypeOK, SessionsOK
<1>4. /\ stages' = [stages EXCEPT ![r] = "decided"]
      /\ plannedRows' = [plannedRows EXCEPT ![r] = todo'[r] \cup held'[r]]
      /\ plannedWrites' = [plannedWrites EXCEPT ![r] = new'[r]]
      /\ placedFor' = placedFor
  BY <1>2, <1>3, MapMoves
<1> QED BY <1>3, <1>4 DEF Late!Plan, Late!NoChange, NoChange, Late!Items, Items

LEMMA CreateOrderLate ==
    ASSUME TypeOK, TypeOK', LockInv, PlanInv, NEW r \in Requests,
           NEW c \in Carts, NEW p \in Phones, create_order(r, c, p)
    PROVE  Late!DecideOrder(r, c, p) \/ Late!Fail(r)
<1>1. /\ r \in OrderReqs /\ pc[r] = "items"
      /\ UNCHANGED <<published, live, stock, avail, customers, total, cust>>
  BY DEF create_order, menuTable, custTable, orderRow
<1>2. CASE Acceptable(c)
  <2> DEFINE w == [i \in Late!Items |->
                      IF i \in DOMAIN c /\ stock[i] # Null
                      THEN [stock |-> Late!Set(stock[i], stock[i] - c[i].qty),
                            avail |-> IF stock[i] \in c[i].sums THEN FALSE ELSE Keep]
                      ELSE Late!NoChange]
  <2>1. /\ Goto(r, "flush") /\ Dirty(r, OrderWrites(c, DOMAIN c))
        /\ cart' = [cart EXCEPT ![r] = c] /\ phone' = [phone EXCEPT ![r] = p]
    BY <1>2 DEF create_order
  <2>2. OrderWrites(c, DOMAIN c) = w
    BY DEF OrderWrites, Net, Late!Set, Late!NoChange, NoChange, Late!Items, Items
  <2>3. /\ stages' = [stages EXCEPT ![r] = "decided"]
        /\ Late!Plan(r, w)
        /\ placedFor' = placedFor
    BY <1>1, <2>1, <2>2, PlansLate
  <2>4. stages[r] = "admitted"
    BY <1>1 DEF stages, StageOf
  <2>5. /\ \A i \in DOMAIN c : i \in live /\ avail[i]
        /\ \A i \in DOMAIN c : stock[i] # Null => \A n \in c[i].sums : stock[i] >= n
    BY <1>2 DEF Acceptable, InStock
  <2> QED BY <1>1, <2>1, <2>3, <2>4, <2>5
          DEF Late!DecideOrder, Late!Moves, Late!menu, Late!people
<1>3. CASE ~Acceptable(c)
  <2>1. /\ Goto(r, "raised") /\ UNCHANGED <<cart, phone, held>>
        /\ \E rows : Dirty(r, OrderWrites(c, rows))
    BY <1>3 DEF create_order, orderRow, Dirty
  <2>2. \A q \in Requests \ {r} : todo'[q] = todo[q] /\ held'[q] = held[q] /\ new'[q] = new[q]
    BY <2>1 DEF Dirty, TypeOK, SessionsOK
  <2>3. cart'[r] = NoCart /\ phone'[r] = Null
    BY <1>1, <2>1 DEF PlanInv
  <2> QED BY <1>1, <2>1, <2>2, <2>3, FailsLate DEF menuTable, custTable
<1> QED BY <1>2, <1>3

\* A console's request that finds its item gone.
LEMMA GoneLate ==
    ASSUME TypeOK, TypeOK', NEW r \in Requests, pc[r] = "idle", r \notin OrderReqs,
           Goto(r, "failed"), UNCHANGED <<published, menuTable, custTable, session, orderRow>>
    PROVE  Late!Fail(r)
<1>1. UNCHANGED <<todo, held, new, cart, phone, cust>>
  BY DEF session, orderRow
<1> QED BY <1>1, FailsLate

LEMMA UpdateItemLate ==
    ASSUME TypeOK, TypeOK', LockInv, NEW r \in Requests, NEW i \in Items, NEW patch \in Patches,
           update_menu_item(r, i, patch)
    PROVE  Late!DecideEdit(r, i, patch) \/ Late!Fail(r)
<1>1. /\ r \in EditReqs /\ pc[r] = "idle" /\ r \notin OrderReqs
      /\ UNCHANGED <<published, live, stock, avail, customers, total, cart, phone, cust>>
  BY RequestsAssumption DEF update_menu_item, Connect, menuTable, custTable, orderRow
<1>2. CASE i \in live
  <2> DEFINE w == [Late!NoWrites EXCEPT ![i] = [stock |-> Late!Set(stock[i], patch.stock),
                                                avail |-> Late!Set(avail[i], patch.avail)]]
  <2>1. Goto(r, "flush") /\ Dirty(r, PatchWrites(i, patch))
    BY <1>2 DEF update_menu_item, PatchWrites
  <2>2. PatchWrites(i, patch) = w
    BY DEF PatchWrites, Net, Late!Set, Late!NoWrites, Late!NoChange, NoChange, Late!Items, Items
  <2>3. /\ stages' = [stages EXCEPT ![r] = "decided"]
        /\ Late!Plan(r, w)
        /\ placedFor' = placedFor
    BY <1>1, <2>1, <2>2, PlansLate
  <2>4. stages[r] = "idle"
    BY <1>1 DEF stages, StageOf
  <2> QED BY <1>1, <1>2, <2>3, <2>4 DEF Late!DecideEdit, Late!Moves, Late!menu, Late!people
<1>3. CASE i \notin live
  BY <1>1, <1>3, GoneLate DEF update_menu_item
<1> QED BY <1>2, <1>3

\* A deletion or a view that decides which rows are to go.
LEMMA DropsLate ==
    ASSUME TypeOK, LockInv, PlanInv, NEW r \in Deleters, pc[r] \in {"idle", "items"},
           Goto(r, "flush"), NEW gone, todo' = [todo EXCEPT ![r] = gone],
           UNCHANGED <<held, new, cust>>
    PROVE  /\ stages' = [stages EXCEPT ![r] = "decided"]
           /\ plannedRows' = [plannedRows EXCEPT ![r] = gone]
           /\ plannedWrites' = plannedWrites
           /\ placedFor' = placedFor
<1>1. /\ r \in Requests /\ held[r] = {} /\ new[r] = NoWrites /\ pc[r] # "done"
      /\ \A q \in OrderReqs \ {r} : cust'[q] = cust[q]
  BY DEF LockInv, PlanInv, Deleters, Requests
<1>2. "flush" \in Phases \ {"done"} /\ StageOf("flush") = "decided"
  BY DEF Phases, StageOf
<1>3. /\ \A q \in Requests \ {r} : todo'[q] = todo[q] /\ held'[q] = held[q] /\ new'[q] = new[q]
      /\ todo'[r] \cup held'[r] = gone /\ new'[r] = NoWrites
  BY <1>1 DEF TypeOK, SessionsOK
<1>4. /\ stages' = [stages EXCEPT ![r] = "decided"]
      /\ plannedRows' = [plannedRows EXCEPT ![r] = todo'[r] \cup held'[r]]
      /\ plannedWrites' = [plannedWrites EXCEPT ![r] = new'[r]]
      /\ placedFor' = placedFor
  BY <1>1, <1>2, <1>3, MapMoves
<1>5. plannedWrites[r] = NoWrites
  BY <1>1 DEF plannedWrites, stages, StageOf, NoWrites
<1>6. plannedWrites' = plannedWrites
  BY <1>3, <1>4, <1>5 DEF plannedWrites
<1> QED BY <1>3, <1>4, <1>6

LEMMA DeleteItemLate ==
    ASSUME TypeOK, TypeOK', LockInv, PlanInv, NEW r \in Requests, NEW i \in Items,
           delete_menu_item(r, i)
    PROVE  Late!DecideDrop(r, {i}) \/ Late!Fail(r)
<1>1. /\ r \in DropReqs /\ pc[r] = "idle" /\ r \notin OrderReqs /\ r \in Deleters
      /\ UNCHANGED <<published, live, stock, avail, customers, total, cart, phone, cust, held, new>>
  BY RequestsAssumption
     DEF delete_menu_item, Connect, menuTable, custTable, orderRow, Deleters
<1>2. CASE i \in live
  <2>1. Goto(r, "flush") /\ todo' = [todo EXCEPT ![r] = {i}]
    BY <1>2 DEF delete_menu_item
  <2>2. /\ stages' = [stages EXCEPT ![r] = "decided"]
        /\ plannedRows' = [plannedRows EXCEPT ![r] = {i}]
        /\ plannedWrites' = plannedWrites
        /\ placedFor' = placedFor
    BY <1>1, <2>1, DropsLate
  <2>3. stages[r] = "idle"
    BY <1>1 DEF stages, StageOf
  <2> QED BY <1>1, <1>2, <2>2, <2>3 DEF Late!DecideDrop, Late!Moves, Late!menu, Late!people
<1>3. CASE i \notin live
  BY <1>1, <1>3, GoneLate DEF delete_menu_item, session
<1> QED BY <1>2, <1>3

LEMMA PublicMenuLate ==
    ASSUME TypeOK, LockInv, PlanInv, NEW r \in Requests, get_public_menu(r)
    PROVE  Late!DecideDrop(r, {i \in live : ~avail[i]})
<1> DEFINE gone == {i \in live : ~avail[i]}
<1>1. /\ r \in ViewReqs /\ pc[r] = "items" /\ r \in Deleters
      /\ Goto(r, "flush") /\ todo' = [todo EXCEPT ![r] = gone]
      /\ UNCHANGED <<published, live, stock, avail, customers, total, cart, phone, cust, held, new>>
  BY DEF get_public_menu, menuTable, custTable, orderRow, Deleters
<1>2. /\ stages' = [stages EXCEPT ![r] = "decided"]
      /\ plannedRows' = [plannedRows EXCEPT ![r] = gone]
      /\ plannedWrites' = plannedWrites
      /\ placedFor' = placedFor
  BY <1>1, DropsLate
<1>3. stages[r] = "admitted"
  BY <1>1 DEF stages, StageOf
<1> QED BY <1>1, <1>2, <1>3 DEF Late!DecideDrop, Late!Moves, Late!menu, Late!people

LEMMA FlushRowLate ==
    ASSUME TypeOK, NEW r \in Requests, NEW i \in Items, flush_row(r, i)
    PROVE  UNCHANGED Late!vars
<1>1. /\ pc[r] = "flush" /\ i \in todo[r]
      /\ UNCHANGED <<published, menuTable, custTable, pc, new, cart, phone, cust>>
  BY DEF flush_row, IsNext, orderRow
<1>2. /\ \A q \in Requests \ {r} : todo'[q] = todo[q] /\ held'[q] = held[q] /\ new'[q] = new[q]
      /\ todo'[r] \cup held'[r] = todo[r] \cup held[r] /\ new'[r] = new[r]
  BY <1>1 DEF flush_row, TypeOK, SessionsOK
<1>3. "flush" \in Phases \ {"done"} /\ Goto(r, "flush")
  BY <1>1 DEF Phases, Goto, TypeOK, SessionsOK
<1> QED BY <1>1, <1>2, <1>3, Unseen

LEMMA StaleRowLate ==
    ASSUME TypeOK, TypeOK', PlanInv, NEW r \in Requests, NEW i \in Items, stale_row(r, i)
    PROVE  Late!Miss(r, i) \/ Late!Fail(r) \/ UNCHANGED Late!vars
<1>1. pc[r] = "flush" /\ i \in todo[r] /\ i \notin live
  BY DEF stale_row, IsNext
<1>2. CASE r \in Deleters \/ Batched(r, i)
  <2>1. /\ todo' = [todo EXCEPT ![r] = todo[r] \ {i}]
        /\ UNCHANGED <<published, menuTable, custTable, pc, held, new, cart, phone, cust>>
    BY <1>2 DEF stale_row, orderRow
  <2>2. i \notin held[r]
    BY <1>1 DEF PlanInv
  <2>3. stages' = stages /\ stages[r] = "decided"
    BY <1>1, <2>1 DEF stages, StageOf
  <2>4. plannedRows' = [plannedRows EXCEPT ![r] = plannedRows[r] \ {i}]
    <3>1. \A q \in Requests : todo'[q] = IF q = r THEN todo[r] \ {i} ELSE todo[q]
      BY <2>1 DEF TypeOK, SessionsOK
    <3>2. todo'[r] \cup held'[r] = (todo[r] \cup held[r]) \ {i}
      BY <2>1, <2>2, <3>1
    <3>3. plannedRows'[r] = plannedRows[r] \ {i}
      BY <2>3, <3>2 DEF plannedRows
    <3>4. \A q \in Requests \ {r} : plannedRows'[q] = plannedRows[q]
      BY <2>1, <2>3, <3>1 DEF plannedRows
    <3> QED BY <3>3, <3>4 DEF plannedRows
  <2>5. plannedWrites' = plannedWrites /\ placedFor' = placedFor
    BY <2>1, <2>3 DEF plannedWrites, placedFor, Placed
  <2>6. i \in plannedRows[r]
    BY <1>1, <2>3 DEF plannedRows
  <2> QED BY <1>1, <2>1, <2>3, <2>4, <2>5, <2>6
          DEF Late!Miss, Late!menu, Late!people, menuTable, custTable
<1>3. CASE ~(r \in Deleters \/ Batched(r, i))
  BY <1>1, <1>3, RollbackLate DEF stale_row, Active
<1> QED BY <1>2, <1>3

LEMMA CustomerLate ==
    ASSUME TypeOK, TypeOK', PlanInv, NEW r \in Requests,
           find_or_create_by_phone(r) \/ insert_order(r)
    PROVE  Late!Fail(r) \/ UNCHANGED Late!vars
<1>1. CASE find_or_create_by_phone(r) /\ ~Rollback(r)
  <2>1. /\ pc[r] = "flush" /\ Goto(r, "insert")
        /\ UNCHANGED <<published, menuTable, custTable, todo, held, new, cart, phone>>
        /\ \A q \in OrderReqs \ {r} : cust'[q] = cust[q]
    BY <1>1 DEF find_or_create_by_phone, session, TypeOK, OrderRowsOK
  <2>2. "insert" \in Phases \ {"done"} /\ StageOf("insert") = StageOf(pc[r])
    BY <2>1 DEF Phases, StageOf
  <2> QED BY <2>1, <2>2, Unseen
<1>2. CASE insert_order(r)
  <2>1. /\ pc[r] = "insert" /\ Goto(r, "commit")
        /\ UNCHANGED <<published, menuTable, custTable, todo, held, new, cart, phone, cust>>
    BY <1>2 DEF insert_order, session, orderRow
  <2>2. "commit" \in Phases \ {"done"} /\ StageOf("commit") = StageOf(pc[r])
    BY <2>1 DEF Phases, StageOf
  <2> QED BY <2>1, <2>2, Unseen
<1>3. CASE find_or_create_by_phone(r) /\ Rollback(r)
  BY <1>3, RollbackLate DEF find_or_create_by_phone, Active
<1> QED BY <1>1, <1>2, <1>3

LEMMA LateCardinality == \A S : Late!Cardinality(S) = Cardinality(S)
  BY DEF Late!Cardinality, Cardinality, Late!IsFiniteSet, IsFiniteSet

\* The commit of an order places it with a customer of its phone number.
LEMMA PlaceLate ==
    ASSUME TypeOK, CountInv, NEW r \in OrderReqs, get_db_commit(r)
    PROVE  Late!PlaceOrder(r)
<1> DEFINE k == cust[r]
           n == seen[r]
<1>1. /\ pc[r] = "commit" /\ Goto(r, "done") /\ UNCHANGED <<phone, cust>>
      /\ customers' = customers \cup {k} /\ total' = [total EXCEPT ![k] = n + 1]
  BY DEF get_db_commit, ReadyToCommit, orderRow
<1>2. k \in CustIds /\ Named(r)
  BY <1>1 DEF TypeOK, Filled, CountInv
<1>3. \A c : Late!PhoneOf(c) = PhoneOf(c)
  BY DEF Late!PhoneOf, PhoneOf
<1>4. k \in {r} \cup {c \in customers : Late!PhoneOf(c) = phone[r]}
  BY <1>2, <1>3 DEF Named, Matching
<1>5. placedFor' = [placedFor EXCEPT ![r] = k]
  <2>1. \A q \in OrderReqs : (q \in Placed') <=> (q = r \/ q \in Placed)
    BY <1>1, GotoMoves, OrderIsRequest DEF Placed
  <2>2. \A q \in OrderReqs : placedFor'[q] = IF q = r THEN k ELSE placedFor[q]
    BY <1>1, <2>1 DEF placedFor
  <2> QED BY <2>2 DEF placedFor
<1>6. Late!OrdersOf(k) = OrdersOf(k)
  BY <1>2, MarkersAssumption DEF Late!OrdersOf, OrdersOf, placedFor, Placed, CustIds
<1>7. n \in 0..Late!Cardinality(Late!OrdersOf(k))
  BY <1>2, <1>6, OrdersFinite, LateCardinality DEF Named, TypeOK, OrderRowsOK
<1>8. \E m \in 0..Late!Cardinality(Late!OrdersOf(k)) : total' = [total EXCEPT ![k] = m + 1]
  BY <1>1, <1>7
<1>9. customers' = customers \cup {k}
  BY <1>1
<1> HIDE DEF k
<1> QED BY <1>4, <1>5, <1>8, <1>9 DEF Late!PlaceOrder

LEMMA CommitLate ==
    ASSUME TypeOK, TypeOK', LockInv, PlanInv, CountInv, NEW r \in Requests, get_db_commit(r)
    PROVE  Late!Carry(r)
<1>1. /\ pc[r] \in {"flush", "commit"} /\ todo[r] = {}
      /\ Goto(r, "done") /\ EndSession(r) /\ UNCHANGED <<published, cart, phone, cust>>
  BY DEF get_db_commit, ReadyToCommit, LockInv, orderRow
<1>2. stages[r] = "decided" /\ plannedRows[r] = held[r] /\ plannedWrites[r] = new[r]
  BY <1>1 DEF stages, StageOf, plannedRows, plannedWrites
<1>3. \A q \in Requests : pc'[q] = IF q = r THEN "done" ELSE pc[q]
  BY <1>1, GotoMoves
<1>4. \A q \in Requests : stages'[q] = IF q = r THEN "done" ELSE stages[q]
  BY <1>3 DEF stages, StageOf
<1>5. stages' = [stages EXCEPT ![r] = "done"]
  BY <1>4 DEF stages
<1>6. \A q \in Requests \ {r} : todo'[q] = todo[q] /\ held'[q] = held[q] /\ new'[q] = new[q]
  BY <1>1 DEF EndSession, TypeOK, SessionsOK
<1>7. plannedRows' = [plannedRows EXCEPT ![r] = {}]
  <2>1. \A q \in Requests : plannedRows'[q] = IF q = r THEN {} ELSE plannedRows[q]
    BY <1>4, <1>6 DEF plannedRows
  <2> QED BY <2>1 DEF plannedRows
<1>8. plannedWrites' = [plannedWrites EXCEPT ![r] = NoWrites]
  <2>1. \A q \in Requests : plannedWrites'[q] = IF q = r THEN NoWrites ELSE plannedWrites[q]
    BY <1>4, <1>6 DEF plannedWrites, NoWrites
  <2> QED BY <2>1 DEF plannedWrites
<1>9. /\ plannedRows[r] \subseteq live
      /\ live' = IF r \in Late!Deleters THEN live \ plannedRows[r] ELSE live
  BY <1>2 DEF get_db_commit, PlanInv, Late!Deleters, Deleters
<1>10. /\ stock' = [i \in Late!Items |-> IF i \in plannedRows[r]
                                         THEN Late!After(stock[i], plannedWrites[r][i].stock)
                                         ELSE stock[i]]
       /\ avail' = [i \in Late!Items |-> IF i \in plannedRows[r]
                                         THEN Late!After(avail[i], plannedWrites[r][i].avail)
                                         ELSE avail[i]]
  BY <1>2 DEF get_db_commit, Apply, Late!After, Late!Items, Items
<1>11. IF r \in OrderReqs THEN Late!PlaceOrder(r) ELSE UNCHANGED <<customers, total, placedFor>>
  <2>1. CASE r \in OrderReqs
    BY <2>1, PlaceLate
  <2>2. CASE r \notin OrderReqs
    <3>1. Placed' = Placed
      BY <1>3, <2>2, OrderIsRequest DEF Placed
    <3> QED BY <1>1, <2>2, <3>1 DEF get_db_commit, custTable, placedFor
  <2> QED BY <2>1, <2>2
<1>12. Late!NoWrites = NoWrites
  BY DEF Late!NoWrites, NoWrites, Late!NoChange, NoChange, Late!Items, Items
<1> QED BY <1>1, <1>2, <1>5, <1>7, <1>8, <1>9, <1>10, <1>11, <1>12
        DEF Late!Carry, Late!Moves, Late!people

LEMMA LateNext ==
    ASSUME TypeOK, TypeOK', LockInv, PlanInv, CountInv, [Next]_vars
    PROVE  [Late!Next]_(Late!vars)
<1>0. Late!Requests = Requests /\ Late!Items = Items
  BY DEF Late!Requests, Requests, Late!Items, Items
<1>1. CASE UNCHANGED vars
  BY <1>1 DEF vars, menuTable, custTable, session, orderRow, Late!vars, Late!menu,
              Late!people, Late!plans, stages, plannedRows, plannedWrites, placedFor, Placed
<1>2. CASE update_menu
  <2>1. /\ published' = ~published
        /\ UNCHANGED <<live, stock, avail, customers, total, pc, todo, held, new>>
        /\ UNCHANGED <<cart, phone, cust>>
    BY <1>2 DEF update_menu, menuTable, custTable, session, orderRow
  <2>2. UNCHANGED <<stages, plannedRows, plannedWrites, placedFor>>
    BY <2>1 DEF stages, plannedRows, plannedWrites, placedFor, Placed
  <2> QED BY <2>1, <2>2 DEF Late!Next, Late!SetStatus, Late!people, Late!plans
<1>3. ASSUME NEW r \in Requests, load_menu(r) PROVE [Late!Next]_(Late!vars)
  BY <1>0, <1>3, LoadMenuLate DEF Late!Next
<1>4. ASSUME NEW r \in Requests, NEW i \in Items, NEW patch \in Patches,
             update_menu_item(r, i, patch)
      PROVE  [Late!Next]_(Late!vars)
  BY <1>0, <1>4, UpdateItemLate DEF Late!Next
<1>5. ASSUME NEW r \in Requests, NEW i \in Items, delete_menu_item(r, i)
      PROVE  [Late!Next]_(Late!vars)
  <2>1. {i} \in SUBSET Items
    OBVIOUS
  <2> QED BY <1>0, <1>5, <2>1, DeleteItemLate DEF Late!Next
<1>6. ASSUME NEW r \in Requests, NEW c \in Carts, NEW p \in Phones, create_order(r, c, p)
      PROVE  [Late!Next]_(Late!vars)
  BY <1>0, <1>6, CreateOrderLate DEF Late!Next
<1>7. ASSUME NEW r \in Requests, get_public_menu(r) PROVE [Late!Next]_(Late!vars)
  <2>1. {i \in live : ~avail[i]} \in SUBSET Items
    BY DEF TypeOK, TablesOK
  <2> QED BY <1>0, <1>7, <2>1, PublicMenuLate DEF Late!Next
<1>8. ASSUME NEW r \in Requests, NEW i \in Items, flush_row(r, i)
      PROVE  [Late!Next]_(Late!vars)
  BY <1>8, FlushRowLate
<1>9. ASSUME NEW r \in Requests, NEW i \in Items, stale_row(r, i)
      PROVE  [Late!Next]_(Late!vars)
  BY <1>0, <1>9, StaleRowLate DEF Late!Next
<1>10. ASSUME NEW r \in Requests, find_or_create_by_phone(r) \/ insert_order(r)
       PROVE  [Late!Next]_(Late!vars)
  BY <1>0, <1>10, CustomerLate DEF Late!Next
<1>11. ASSUME NEW r \in Requests, get_db_commit(r) PROVE [Late!Next]_(Late!vars)
  BY <1>0, <1>11, CommitLate DEF Late!Next
<1>12. ASSUME NEW r \in Requests, r \in Active, Rollback(r) PROVE [Late!Next]_(Late!vars)
  BY <1>0, <1>12, RollbackLate DEF Late!Next
<1>13. ASSUME NEW r \in Requests, get_db_except(r) \/ get_db_rollback(r)
       PROVE  [Late!Next]_(Late!vars)
  BY <1>12, <1>13 DEF get_db_except, get_db_rollback, Active
<1>14. ASSUME NEW r \in Requests, pool_timeout(r) PROVE [Late!Next]_(Late!vars)
  <2>1. /\ pc[r] = "idle" /\ Goto(r, "failed")
        /\ UNCHANGED <<published, menuTable, custTable, todo, held, new, cart, phone, cust>>
    BY <1>14 DEF pool_timeout, session, orderRow
  <2>2. r \in OrderReqs => cart'[r] = NoCart /\ phone'[r] = Null
    BY <2>1 DEF PlanInv
  <2>3. Late!Fail(r)
    BY <2>1, <2>2, FailsLate
  <2> QED BY <1>0, <2>3 DEF Late!Next
<1> QED BY <1>1, <1>2, <1>3, <1>4, <1>5, <1>6, <1>7, <1>8, <1>9, <1>10, <1>11, <1>13, <1>14
        DEF Next, Start, Progress

\* However orders, edits, deletions, views and a full pool of connections
\* interleave, each request decides on tables as they were committed at one
\* moment, and what it decided is later done as a whole or not at all: an order
\* never sells a part of its cart.
THEOREM ImplementsLateOrders == Spec => LateSpec
<1> DEFINE Inv == TypeOK /\ LockInv /\ PlanInv /\ CountInv
<1>1. Init => Inv
  BY InitType, InitLockInv, InitPlanInv, InitCountInv
<1>2. Inv /\ [Next]_vars => Inv'
  <2>1. TypeOK /\ [Next]_vars => TypeOK'
    BY NextType
  <2>2. TypeOK /\ LockInv /\ [Next]_vars => LockInv'
    BY NextLockStep, NextLockInv
  <2>3. TypeOK /\ LockInv /\ PlanInv /\ [Next]_vars => PlanInv'
    BY NextPlanInv
  <2>4. TypeOK /\ CountInv /\ [Next]_vars => CountInv'
    BY <2>1, NextCustStep, NextCountInv
  <2> QED BY <2>1, <2>2, <2>3, <2>4
<1>3. Inv /\ Inv' /\ [Next]_vars => [Late!Next]_(Late!vars)
  BY LateNext
<1>4. Init => Late!Init
  BY LateInit
<1> QED BY <1>1, <1>2, <1>3, <1>4, PTL DEF Spec, LateSpec, Late!Spec
=============================================================================
