# KitCo in TLA+

KitCo (`src/`) is a FastAPI service for cloud kitchens: a kitchen keeps customers and menus,
broadcasts a menu over WhatsApp or SMS, takes orders and moves them across a board. This
directory specifies its core in TLA+, model-checks it with TLC and proves some of it with TLAPS.

## Inventory

| Component | State | Operations | What is hard | Correct when |
|---|---|---|---|---|
| Order life cycle (`services/order_service.py`, `models/order.py`) | `orders.status`, four timestamps | create, update status, reads | two consoles update one order; the check uses the status that was loaded, the UPDATE names the primary key only | only listed transitions, closed orders stay closed (neither holds once two updates of an order overlap), SLA timestamps without holes |
| Order placement (`order_service.create_order`, `customer_service.find_or_create_by_phone`) | `menu_items.stock_quantity`, `is_available`, `customers.total_orders`, `orders` | place an order | stale reads, lost updates, row locks taken one by one, a line that fails after others were decremented | stock adds up and never negative, sold-out items hidden, one customer per number, no deadlock, all or nothing |
| Menu catalogue (`services/menu_service.py`) | `menus`, `menu_items` | create, publish, patch, delete, add and delete items, public view | edits race orders and deletions of the menu; the public view writes; PATCH bypasses the publish check | every item has its menu, a kitchen changes its own menus only, a menu that goes on offer has an item (the last does not hold) |
| Customer directory (`services/customer_service.py`) | `customers` | create, bulk import, opt in and out, find or create | check before insert with no unique index; a duplicate makes every later lookup raise | few rows per number; answered requests are in the directory; an opt-out stands |
| Broadcasts (`services/broadcast_service.py`, `worker.py`, `webhooks.py`) | `broadcasts` counters, `broadcast_recipients` | create, send (Celery), status callback (Twilio) | worker death, redelivery while running, callbacks early, repeated, concurrent | every recipient served, few duplicates, counters right |
| Payment (`services/payment_service.py`, `webhooks.py`, `public.py`) | Stripe sessions, orders | checkout, payment webhook | repeated events, lost answers, item ids lost on the way through Stripe, items withdrawn or sold out between checkout and payment | a paid session becomes an order (it does not) |
| Web socket hub (`core/websocket.py`) | connection sets | connect, disconnect, broadcast | the set changes across an await; whatever a send raises is a dead connection | a console is removed only after a send to it failed, and then for good |
| Event bus (`events/`) | handler registry | on, emit | a handler that raises, a list that grows during the loop | every handler runs once, in order |
| Database sessions (`core/database.py`) | pool, transactions | `get_db` | commit after the handler, rollback, pool exhaustion | nothing of a failed request remains |
| Authentication (`core/security.py`, `auth.py`) | `kitchens` | register, login, refresh | check before insert (an index backs it); tokens signed before the commit; tokens outlive a deactivation | one kitchen per e-mail, tokens of kitchens that exist, a deactivated kitchen runs out of them |
| Configuration, routing, migrations | - | - | - | - |

How they interact: endpoints call services in one database session per request. Orders and the
console share `menu_items` rows; orders, the import and the console share `customers`; broadcasts
snapshot `customers`, the worker and the Twilio webhook share `broadcast_recipients`; Stripe's
webhook calls `create_order`. The event bus and the web socket hub are in place but nothing emits or
pushes yet. Every console request finds its kitchen through its token. `tests/` is empty, so no test
says anything of the hazards in `PROJECT.json`.

## How requests are modelled

`get_db` gives a request a session and commits when its handler returns (before the response is
sent) or rolls back when it raises. The database is PostgreSQL at its default isolation, READ
COMMITTED. From SQLAlchemy the models take:

* a SELECT sees what is committed when it starts and rows of its own session; pending changes of
  the session are flushed before it; `selectinload` is a second SELECT;
* a handler assigns to loaded objects; the flush sends one UPDATE or DELETE per changed row, in
  primary key order, naming the primary key only, with the columns whose value differs from the
  loaded one (`Net`, `Written`) and with values computed in Python;
* an UPDATE locks its row until the transaction ends and waits for another's lock;
* a row that vanished: an UPDATE on its own raises `StaleDataError`; asyncpg reports no row counts
  for an executemany, so in a batch nobody notices; a DELETE passes over it;
* `menu.items = [...]` on a relationship with `delete-orphan` deletes the items left out.

A step of a request is a SELECT with the Python code that follows it, a row write, or the commit.
Between two steps anything else may happen. A request may be rolled back at any step.

## Modules

| Module | Role |
|---|---|
| `OrderBoard` | abstract: the order board of the README (`Spec`), and what is left of it when updates overlap (`LateSpec`) |
| `OrderLifecycle` | `update_order_status` as read-and-validate and `commit`, overlapping |
| `OrderLifecycle_proofs` | theorems of `OrderLifecycle` |
| `LateOrders` | abstract: a request decides in one step and is carried out, whole or not at all, in a later one |
| `OrderPlacement` | `create_order` against item edits, deletions, public views and the pool |
| `OrderPlacement_proofs`, `OrderPlacement_safety` | type correctness; stock, hiding, deadlock and customer theorems, `LateOrders` is implemented |
| `CustomerBook` | abstract: a bounded number of entries per number, each opted in or out |
| `CustomerDirectory` | `create_customer`, `bulk_import_customers`, `find_or_create_by_phone`, `update_customer` |
| `CustomerDirectory_proofs`, `CustomerDirectory_choices` | type correctness, the bound on duplicates; answered numbers are listed, answered choices stand, failed requests leave nothing, the customer book is implemented |
| `BroadcastDelivery` | `create_broadcast`, the Celery task, the Twilio callbacks |
| `BroadcastDelivery_proofs` | its theorems: types, SIDs, counters, nobody left out, what a worker's death costs |
| `KitchenAccounts` | `register`, `login`, `refresh_token`, expiry and deactivation |
| `MenuCatalog` | the menus and items of several kitchens under overlapping requests |
| `PaymentCheckout` | checkout sessions at Stripe, the payment webhook, the page that posts the order |
| `WebSocketHub` | endpoints and broadcasts on one set of connections |
| `EventBus` | handlers, registrations and overlapping emissions |
| `Services_proofs`, `MenuCatalog_proofs` | theorems about the five modules above |
| `MC_Services` | the five modules side by side |
| `MC_*` | payloads and symmetry for TLC |

Operators are named after the functions of the source; `PROJECT.json` "map" gives the lines of each.
Definitions headed "Mutation" are plausible bugs of the definition that follows. They are used in
no specification; put in its place, each makes one of the properties fail.

Correspondence, module by module:

* `OrderLifecycle`: `status` and `stamps` are the committed columns, `open` the updates between
  their SELECT and their COMMIT. A timestamp is set or not; its value is never read by the code.
  `raced` is a record of the orders two updates of which were in flight at once; no action reads it.
* `OrderBoard`: in `Spec` an arrow leaves the status the order is in, in `LateSpec` any status it has been in
  as far as its timestamps tell. The service keeps the second always, the first until updates race.
* `OrderPlacement`: `live`, `stock`, `avail`, `customers`, `total` are committed rows; `pc`, `todo`,
  `held`, `new` the sessions (rows to write, rows written and locked, columns they set); `cart`,
  `phone`, `cust`, `seen` what an order remembers. The lines of a payload are collected by item: the
  running totals of those that name it (`sums`) and their end (`qty`). Lines are checked one by one against
  the stock the lines before them left; as the schema has no lower bound for a quantity, an order of 3 and
  then of -3 of a stock of 3 passes, hides the item and takes nothing, and the model does the same.
  The status of the menu is reduced to `published`; the menu and its items are two SELECTs.
* `LateOrders`: `stage` is how far a request is, `rows` and `writes` what it has decided to do. It says what
  the service does, not what its documents ask for: the checks of an order hold when it decides, and a
  view deletes what it does not show (see the table of what is not kept).
* `CustomerDirectory`: a row is a record of the request that inserted it, its line and its number,
  so that duplicates are different rows. `added` are the rows of a session before its commit. `wish`
  is what an update was asked for and which updates were over by then; the code keeps nothing of
  the kind, and no action reads it. An update of other columns than `is_opted_in` is the choice
  `"other"`. `CustomerBook` counts entries, so that requests that overlap are its steps, too.
* `BroadcastDelivery`: a message is named by the execution and the recipient that made it, as the
  SID is unique. `phase`, `batch`, `sending`, `result` are the worker; `call` the callbacks in
  their sessions; `fate` what Twilio has reported. An execution ends `returned`,
  `lost` (it raised, or its pool process died: the worker's main process acknowledges the task, since
  `task_reject_on_worker_lost` is not set) or `dead` (the worker died as a whole, the broker delivers the
  task again). The re-read of a recipient (rows expire at
  every commit) and the call of Twilio are one step; the commit is another.
* `KitchenAccounts`: `kitchens` and `inactive` are committed rows, `signup` a registration between
  its statements. The unique index makes an INSERT wait for one of the same e-mail that is not
  committed. A token is its subject, its type and a time of issue; two times are told apart, so that
  a renewed token is another one. The endpoints other than `/auth/refresh` do not look at
  `is_active`: a deactivated kitchen goes on until its access token expires.
* `MenuCatalog`: a request is found (its menu), loaded (its items, a SELECT of their own, and
  decided), flushed (rows locked) and done. `job` is what it decided on what it saw: the status to
  write (`Keep` when it is the loaded one), items to insert, items to delete. The locks of
  PostgreSQL are `Excludes`: a deleted row against everything, an UPDATE against an UPDATE, and the
  key share lock an INSERT of an item takes on its menu against the deletion of it. Broadcasts that
  refer to a deleted menu get a null there and stay.
* `PaymentCheckout`: `payment`, `cartOf`, `lineItems` are Stripe's side of a session, `delivered` and
  `acked` its events, `posts` and `settled` the page's. `create_order` is one transaction
  and takes one of each item; what overlapping orders do to the stock is in `OrderPlacement`. The
  page posts an order when the payment is confirmed (`orders.py:60`); the server does not
  look at the payment, so this is an assumption about the page.
* `WebSocketHub`: the iterator of a broadcast (`iter`) remembers the size of the set, what it has
  yielded and whether the set has changed since. CPython compares sizes only; a set that changed and
  has its old size again may have been laid out anew, so the iterator may then yield any connection,
  or end. A send may fail on any connection, one that is alive included: `json.dumps(data)` is
  inside the `try`, so an event that cannot be encoded makes all of them dead. `failed` endpoints
  ended by an exception that `ws.py` does not catch (Starlette's `receive_text` raises `KeyError` on
  a binary frame).
* `EventBus`: `next` is the index of the list iterator; `known` the handlers at the start and
  `ran` those that ended, which no action reads.

## Runs

Passing runs:

| Run | Properties | What it shows | Bounds |
|---|---|---|---|
| `lifecycle_races` | `TypeOK`, `StatusStamped`, `StampChain`, `DroppedBeforePrep`, `LateBoardSpec`, `FollowsBoard` | timestamps have no holes and every commit follows an arrow from a status its order has been in, whatever overlaps; an order keeps to the board, and is not cooked for nothing, until two updates of that order overlap | 2 orders, 2 updates in flight, any number in all |
| `placement_races` | `TypeOK`, `StockNonNegative`, `NoDeadlock`, `SaleHides`, `LateSpec` | what survives all interleavings | 2 items with stock 3 and 1, carts that share them, one that takes 3 and gives them back, 2 orders, an edit (hide, sell out, restock and show), a deletion, a view; 3 connections for 5 requests |
| `placement_queue` | `UniquePhone`, `TotalsExact`, `Finished` | when all orders take one tracked item, its row lock protects the customers too; every request with a connection is answered | 3 orders that share 1 or 2 items and 1 number, an edit, 3 connections for 4 requests |
| `directory_races` | `TypeOK`, `DuplicatesBounded`, `AnsweredListed`, `NothingOfFailed`, `ChoiceStands`, `BookSpec` | a number gets at most one row per connection; answered numbers are listed; a request that fails leaves no row; an answered choice is undone by the opposite one only; overlapping requests implement the customer book | 2 creations, an import of 2 lines, an order, 2 updates, 2 numbers, 2 connections, so that requests follow the racing ones |
| `broadcast_races` | `TypeOK`, `SentMeansAccepted`, `NoOvercount`, `ReturnedMeansServed` | rows and counters claim no more than Twilio accepted and reported; an execution that returns leaves nobody queued | 1 recipient, 2 overlapping executions (one may die or lose the database), 2 callbacks at a time, 1 repetition |
| `broadcast_crashes` | `CrashResendsOne`, `CountsExact`, `TaskEnds` | the death of a worker costs at most one duplicate, callbacks handled one at a time count exactly, and the task is acknowledged in the end | 2 recipients, 2 executions of which the first may die or lose the database, 1 callback at a time, no repetition |
| `services` | accounts: `UniqueEmail`, `TokensNameKitchens`, `DeactivatedRunsOut` | overlapping registrations leave one kitchen per e-mail, no token names one that was rolled back, a deactivated kitchen runs out of tokens | 2 registrations, 2 e-mails, 2 times of issue |
| | catalogue: `NoOrphans`, `TenantIsolation` | items have their menu; a commit changes its own kitchen's rows only | 3 overlapping requests of any kind, 2 kitchens, a menu with an item at the start |
| | checkout: `TypesOK` | 2 sessions share the stock (what is wrong here is `checkout_unordered`) | 2 sessions, 2 items with a stock of 2, every basket, 3 deliveries, 2 posts, a withdrawal |
| | hub: `RegisteredUnlessFailed`, `FailedForgotten` | broadcasts remove no console but those their own sends failed on, and these for good | 2 connections, 2 overlapping broadcasts, any send may fail |
| | bus: `EveryHandlerRan`, `EmissionReturns` | handlers run once, in order, whichever raise | 2 events, 3 handlers, 2 emissions |
| | `TypesOK` | types of all five | |

`StockNonNegative` is for consoles that send no negative stock; the theorem carries the same
condition. `UniquePhone` and `TotalsExact` are checked where every order takes one tracked item, the
regime in which the code keeps them; the theorem says when they end in general: with the first two
orders of one number that are both between their customer lookup and their commit. In the same way
`CountsExact` is checked with one callback at a time and no repetition, and proved up to the first
event that breaks it. In `placement_races` two orders are interchangeable, as are the creations and
the updates in `directory_races`: symmetry is used there, in runs without liveness.

The five components of `services` share no state. The product of their behaviours would only multiply
the states, so a behaviour of the run is one of a single component, the one that leaves its initial
state first; a property of one component holds in it trivially while another one runs.

Runs that TLC finds violated, each a disagreement of the code with what the repository says of it:

| Run | Property | Statement | What happens |
|---|---|---|---|
| `lifecycle_jump` | `EveryChangeValid` | `README.md:186` | two updates of a pending order: accepted, then rejected |
| `placement_oversell` | `AtomicDecrement` | `README.md:196` | the last item is sold twice |
| `broadcast_early` | `EveryStatusRecorded` | `webhooks.py:84` | a callback before the worker's commit is answered with success and lost |
| `broadcast_lost` | `Drained` | `worker.py:37` | a task that raised, or whose process died, is acknowledged and has no `self.retry` (`max_retries=3` is never used): the rest of the recipients stay `QUEUED` |
| `checkout_unordered` | `ConfirmedIsOrdered` | `webhooks.py:32` | Stripe is never told the menu item ids, the webhook makes up random ones, and `create_order` refuses every delivery |

What else the code does not keep. These configurations are beside the runs; TLC refutes each of them
in seconds (`tlc -config <name>.cfg <module>`):

| Configuration | Module | Property | Statement | What happens |
|---|---|---|---|---|
| `lifecycle_reopen` | `OrderLifecycle` | `TerminalIsFinal` | `order_service.py:24` | an update that read the order before it was closed reopens it |
| `placement_shown` | `MC_OrderPlacement` | `AutoHide` | `README.md:196` | a PATCH restocks and shows a hidden item while an order sells it out: its stock is the one it loaded, so the UPDATE leaves the column out and only shows the item |
| `placement_zeroed` | `MC_OrderPlacement` | `AutoHide` | `README.md:196` | a PATCH of the stock to zero hides nothing |
| `placement_view` | `MC_OrderPlacement` | `ViewOnlyReads` | `menu_service.py:159`, `:172` | the assignment of `menu_service.py:173` deletes the items that are not available, and the commit keeps it so |
| `placement_twins` | `MC_OrderPlacement` | `UniquePhone` | `models/customer.py:45` | two orders of items without stock insert one number twice |
| `placement_totals` | `MC_OrderPlacement` | `TotalsExact` | `order_service.py:121` | ... or write the same `total_orders` |
| `broadcast_counts` | `MC_BroadcastDelivery` | `CountsExact` | `broadcast_service.py:162` | two callbacks at a time write the same counter |
| `catalog_patch` | `MC_Services` | `PublishedHasItems` | `menu_service.py:93` | a PATCH of the status publishes an empty menu |
| `catalog_publish` | `MC_Services` | `PublishChecked` | `menu_service.py:93` | the last item is deleted between the check and the commit of `publish_menu` |
| `hub_deaf` | `WebSocketHub` | `LiveRegistered` | `websocket.py:4` | an event that cannot be encoded removes every console that is there |
| `hub_untold` | `WebSocketHub` | `AllTold` | `websocket.py:44` | a console connects during the loop, `RuntimeError` ends it, the rest hear nothing |

Bounds in the modules: every request of `OrderPlacement` and `CustomerDirectory` runs once;
`MaxRepeats` bounds Twilio's repetitions, `Reports` the statuses a run lets it report, `Executions`
the deliveries of the task; `Issues` the times of issue that are told apart, `MaxDeliveries` how
often Stripe delivers an event, `MaxPosts` how often a page posts an order. Requests, sessions,
connections, broadcasts and emissions of the `services` run happen once each. The races found need
two actors; the runs have one more wherever the state space allows, to let a third actor see what
two have done. `PoolSize` is the pool of one server process; several processes add their pools up.
Where the system may stop (every order closed, every request answered, the broadcast over), the
configuration says `CHECK_DEADLOCK FALSE`; `OrderPlacement` never stops, since the console may
publish at any time.

Fairness: in `OrderPlacement` weak fairness of each request's own steps, since asyncio resumes every
coroutine whose call has returned. It is enough because the row locks cannot form a cycle. In
`BroadcastDelivery` weak fairness of each execution (the broker redelivers what was not acknowledged,
`task_acks_late`, and a worker goes on) and of each callback in its session. In `KitchenAccounts` every
token expires, as time passes. In `EventBus` weak fairness of an emission: the awaited handler ends, as
the two of `events/handlers.py` do, which only log. Crashes, rollbacks,
arrivals and console requests are never fair.

## Proofs

| Theorem | Says, for all constants |
|---|---|
| `OrderLifecycle_proofs!TypeCorrect`, `Stamped`, `Chained` | types; timestamps without holes for any number of orders and overlapping updates |
| `OrderLifecycle_proofs!ImplementsLateBoard` | any updates that overlap implement `OrderBoard!LateSpec` |
| `OrderLifecycle_proofs!AloneFollowsBoard` | each order does what the board of the README allows until two updates of that order overlap |
| `OrderLifecycle_proofs!ImplementsBoard` | `OrderLifecycle` implements `OrderBoard!Spec`, or two updates of an order overlap at some time |
| `OrderLifecycle_proofs!NeverCookedForNothing` | an order that is rejected was never accepted, and a cancelled one never in preparation, unless two of its updates overlapped |
| `OrderPlacement_proofs!TypeCorrect` | types, and an order's columns are set when they are used |
| `OrderPlacement_safety!NeverNegative` | stock is never negative if consoles send none that is (`NonNegativeInput`) |
| `OrderPlacement_safety!SalesHide` | the commit of an order leaves nothing it sold out on the menu and puts nothing back, whatever consoles send |
| `OrderPlacement_safety!DeadlockFree` | no set of requests waits for itself |
| `OrderPlacement_safety!CountsUntilRace` | one customer per number, with an exact total, until two orders of one number are between lookup and commit at once |
| `OrderPlacement_safety!ImplementsLateOrders` | `OrderPlacement` implements `LateOrders` |
| `CustomerDirectory_proofs!TypeCorrect` | types, for any requests and import payloads |
| `CustomerDirectory_proofs!FewDuplicates` | a number never gets more rows than the pool has connections |
| `CustomerDirectory_choices!AnswersListed` | the numbers of an answered request are in the directory |
| `CustomerDirectory_choices!NothingPartial` | a request that is not over, or failed, has no row in the directory |
| `CustomerDirectory_choices!ImplementsBook` | overlapping requests implement `CustomerBook` with as many copies as the pool has connections |
| `CustomerDirectory_choices!ChoicesStand` | an answered opt-out or opt-in is undone only by an answered update with the opposite choice that was not over when it began |
| `BroadcastDelivery_proofs!TypeCorrect` | types |
| `BroadcastDelivery_proofs!AcceptedWhenSent` | who is shown as sent to has the SID of an accepted message to them, whatever overlaps or dies |
| `BroadcastDelivery_proofs!NeverOvercounted` | counters never exceed the callbacks answered, repetitions included |
| `BroadcastDelivery_proofs!ReturnServesAll` | once an execution has returned, nobody is queued |
| `BroadcastDelivery_proofs!OneResendPerDeath` | the death of a worker costs one duplicate at most, or two executions run at once at some time |
| `BroadcastDelivery_proofs!CountedExactly` | counters are exact, or two callbacks raise one at once, Twilio repeats one, or two executions overlap at some time |
| `MenuCatalog_proofs!CatalogTypes` | types of the catalogue |
| `MenuCatalog_proofs!ItemsHaveMenus`, `KitchensApart` | items have menus; commits stay within their kitchen |
| `Services_proofs!OneKitchenPerEmail`, `TokensOfKitchens` | one kitchen per e-mail; tokens name committed kitchens |
| `Services_proofs!OnlyFailedRemoved`, `FailedStayForgotten` | an open console is removed only by a broadcast that failed to send to it; what failed is gone for good |
| `Services_proofs!HandlersRun` | an emission runs all its handlers in order |
| `Services_proofs!TypesHold` | types of all five components of `MC_Services` |

Theorems of the form "P, or E at some time" are about every behaviour: E is an event of the state
(`raced` is not empty, `LookupsRace`, `TasksOverlap`, `CountRace`, `Repeated`), nothing is assumed of it, and
what is proved is that P cannot fail before E has happened. The configurations above show that it does fail
after. No theorem assumes that requests do not overlap.

The arguments:

* `Stamped` and `Chained`: `IInv` adds `SeenStamped`, that the row of an update in flight carries the
  timestamps of the status the update *saw*. Timestamps are never removed, so this survives the
  writes of others, and it is what the commit needs to stamp the next stage without a hole.
* `ImplementsLateBoard`: the same `SeenStamped` says that the status an update saw is one its order
  has been in (`PassedBeen`), and `SeenPlaced` that the order exists.
* `AloneFollowsBoard`, `ImplementsBoard`: `AloneInv`, of an order that has not raced at most one update is in
  flight, and what it saw is still the status of the order. So its commit is an arrow of the board.
* `NeverCookedForNothing`: `DropInv`, on the board an order before acceptance has no timestamp and an accepted
  one only that; `Follows`, what a step may do to an order that has not raced, preserves it.
* `NeverNegative`: `StockInv` says of pending writes what the property says of rows. A write lands
  whatever the row has become, so the written value must be right by itself.
* `SalesHide`: `HideInv`, each pending write of an order hides the row if it sells it out and never
  shows it; `HeldInv`, a session holds only rows it changes. A hiding that was left out because the
  row was hidden when it was loaded cannot happen to an order, which loads available items only.
* `DeadlockFree`: `LockInv` says that a session has locked only rows before those it has yet to
  write. Along a chain of waiting sessions the rows then grow, so there is no cycle of them;
  the customer row comes last.
* `CountsUntilRace`: `CustInv`, a session between its customer lookup and its commit still has the
  truth (`Current`): no row has its number, or the row it found has the total it loaded. Another
  commit can only change that if it is of the same number, which is `LookupsRace`.
* `ImplementsLateOrders`: the refinement mapping takes what a session has yet to write and has locked together
  as what it has decided. `PlanInv`, locked rows exist, so what is carried out is carried out on rows
  that are there; `CountInv`, the total an order loaded is at most the number of orders placed for the
  customer. Flushes are stutters, a row that vanished is a `Miss`, the commit is `Carry`.
* `FewDuplicates`: `HeldInv` counts the rows of a number that exist together with those that sessions
  have added and not committed. While the number has no row, each of them belongs to another session
  with a connection (`SessionInv`); once it has one, no lookup misses it, so nothing is added and
  those under way only land or vanish.
* `NothingPartial`: `OwnedInv`, rows are named by the request that adds them, and only a commit adds any.
* `AnswersListed`: `Listed` extends the property to requests in flight: what they have looked up is
  committed or among the rows they will add.
* `ChoicesStand`: `WishInv` ties the pending write of an update to its wish and to the updates that were
  over when it began; `SettledInv` says that a wish is fulfilled, about to be written, or undone by
  an opposite one. An update that found the value it wanted writes nothing, so what
  protects it is that nobody who began later can have a different value in mind without the
  opposite wish.
* `ImplementsBook`: a commit adds at most one row of each number, as the session's lookups see its own rows,
  and `HeldInv` leaves room for them; `WishInv` says that an update writes at most one choice, and
  `OwnedInv` that updates add no rows.
* `AcceptedWhenSent`: `AcceptedInv`, a SID on a row is that of an accepted message to its recipient, and
  so is the SID an execution has got and not committed; a callback has found its row by a SID.
* `NeverOvercounted`: a callback adds one to what it read, so the number of answered callbacks alone does
  not bound a counter inductively. `CountInv` bounds it, and what each session has read of it, by a
  `Budget`: the different callbacks heard of, answered or in their session, plus the repetitions,
  minus those in their session. A callback's commit raises the budget by one, and nothing lowers it.
* `ReturnServesAll`: `ServeInv`, nobody is put back to queued (a session that found a recipient
  served writes a row that is served), and a running execution has every queued recipient before it
  or in its hands.
* `OneResendPerDeath`: `SerialInv`, one execution runs, and what it has loaded as queued still is, but for the
  one it is sending to. A message whose status is lost leaves an orphan: a customer who has been sent
  one and is queued, so will be again. `ResendInv` bounds the duplicates and the orphans together by
  the deaths; an execution that is lost leaves an orphan too, but nobody is sent anything after it.
* `CountedExactly`: `ExactInv`, what a callback has read of the counter it raises is current, and a timestamp
  belongs to an answered callback, so a first report always finds its timestamp missing.
* `ItemsHaveMenus`: `FlushedInv`, two flushed jobs never exclude one another and a flushed insert has its
  menu; so the commit of a deletion finds no insert that is past its flush.
* `OneKitchenPerEmail`: `EmailHeld`, an inserted row has its e-mail to itself, committed rows included.
* `OnlyFailedRemoved`, `FailedStayForgotten`: `HubInv`, a broadcast only ever was given sockets that
  had been added, and an endpoint adds its socket once, so what is removed does not come back.
* `HandlersRun`: `LoopInv`, what has run is the beginning of the list, and lists only grow.
* `TypesHold`: each component adds what its type needs: that the set of connections is finite, since its size
  is a number (`HubTypeInv`), that a job inserts rows of its own menu (`JobInv`), that Stripe has
  no item id, so no order of the webhook is accepted (`CheckoutInv`), and that what
  a page has posted is a number (`CheckoutTypeInv`).

The assumptions are those declared with the constants: finitely many requests, kinds of requests
disjoint, payloads of their types, a pool of at least one connection, `Null`, `Keep`, `NoId`, `NoEvent` and
`None` different from values, old rows of the catalogue well-formed and with numbers no new row has,
baskets that are not empty, bounds that are numbers. TLC evaluates them in every run.

Every invariant, action property and refinement of the passing runs is a theorem, `UniquePhone`,
`TotalsExact`, `CrashResendsOne` and `CountsExact` in the form "P, or E at some time". Only
model-checked are the four liveness properties, `Finished`, `TaskEnds`, `EmissionReturns` and
`DeactivatedRunsOut`: liveness under fairness is out of the prover's reach. So is what the violated
runs and configurations refute, which is false.

## Not modelled

* The conversion of a price to pence (`payment_service.py:32`): which prices lose a penny is a property of
  IEEE doubles, which TLC's integers do not have.
* Password hashing and the signatures of tokens: libraries. A wrong password or a forged token is refused and
  changes nothing.
* Names, addresses, texts, dates and totals: copied or formatted; nothing is decided upon them. Reads
  that only read (lists, counts, tracking) are left out with them.
* `send_order_notification` and the two event handlers: they format or log, and nothing calls them; nor
  does anything call `emit` and the two broadcasts of the hub, so `EventBus` and `WebSocketHub` take their
  callers as arbitrary.
* Configuration, routing and migrations: no behaviour of their own.
* The dispatch of the broadcast task is the environment's: `create_broadcast` names it in a comment only.
* A customer who opts out after the recipients of a broadcast were chosen is still messaged; no document or
  comment says what should happen, so no property does.
* An order that the page posts twice after a lost answer is placed twice. Nothing in the repository
  says that a repeated order must be recognised, so no property does.
* What a callback may put a recipient's status back to: callbacks out of order leave the status of the last to
  commit, and no document says otherwise.
* Task cancellation (a client that disconnects in the middle of a request): to the tables it is a
  rollback, which every model has.

## Plan

Done: types and safety of every component, the refinements of `OrderBoard`, `LateOrders` and
`CustomerBook`. Left:

1. A bound on the stock sold beyond what there was (`placement_oversell`), as `DuplicatesBounded` is one on
   the customers.
2. Types of the accounts, the checkout, the hub and the bus as theorems of their own specifications.
