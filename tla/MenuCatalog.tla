----------------------------- MODULE MenuCatalog -----------------------------
(***************************************************************************)
(* The menus of several kitchens: created, published, patched, deleted,    *)
(* filled and thinned out, while the public page is viewed.                *)
(*                                                                         *)
(* A request runs in a session of its own at READ COMMITTED: it looks its  *)
(* menu up, then the items of the menu (selectinload is a statement of its *)
(* own), or its item alone; it decides, flushes its writes, and commits. A *)
(* flushed UPDATE or DELETE holds its rows; an INSERT of an item holds the *)
(* menu it refers to against deletion (the key share lock of the foreign   *)
(* key).  The rows of a flush are locked in one step here; OrderPlacement  *)
(* has the order in which item rows are locked.  A refused request (404,   *)
(* 400) writes nothing and is not represented.                             *)
(***************************************************************************)
EXTENDS FiniteSets

CONSTANTS
    Kitchens,    \* kitchens, as get_current_kitchen returns them
    MenuReqs,    \* requests; a row is named by the request that inserted it
    OldMenus,    \* rows of menus at the start, as [kitchen, no]
    OldItems,    \* rows of menu_items at the start, as [menu, no]
    Keep         \* the status column is not written

ASSUME OldAssumption ==
    /\ OldMenus \subseteq [kitchen : Kitchens, no : {m.no : m \in OldMenus}]
    /\ OldItems \subseteq [menu : OldMenus, no : {i.no : i \in OldItems}]
    /\ \A m \in OldMenus : m.no \notin MenuReqs

MenuStatus == {"draft", "published", "archived"}

ASSUME KeepAssumption == Keep \notin MenuStatus

VARIABLES
    menuStatus,   \* menus.status, as committed; its domain are the rows of menus
    menuItems,    \* menu_items rows, as committed
    menuPc,       \* how far each request is
    job           \* what it has decided to do

CatalogVars == <<menuStatus, menuItems, menuPc, job>>

menus == DOMAIN menuStatus
ItemsOf(m) == {i \in menuItems : i.menu = m}

\* The request r of kitchen k acts on menu m.
Job(op, k, m, set, adds, gone) ==
    [op |-> op, kitchen |-> k, menu |-> m, set |-> set, adds |-> adds, gone |-> gone]
NoJob == Job("none", Keep, Keep, Keep, {}, {})

CatalogInit ==
    /\ menuItems = OldItems
    /\ menuStatus =
          [m \in OldMenus |-> IF ItemsOf(m) = {} THEN "draft" ELSE "published"]
    /\ menuPc = [r \in MenuReqs |-> "idle"]
    /\ job = [r \in MenuReqs |-> NoJob]

-----------------------------------------------------------------------------
\* The request r begins with the job j: "found" has the items yet to load.
Begin(r, s, j) ==
    /\ menuPc[r] = "idle"
    /\ menuPc' = [menuPc EXCEPT ![r] = s]
    /\ job' = [job EXCEPT ![r] = j]
    /\ UNCHANGED <<menuStatus, menuItems>>

\* An assigned status is written only when it differs from the loaded one.
Assigned(m, s) == IF s = menuStatus[m] THEN Keep ELSE s

\* Mutation of get_menu: the query is not scoped by the kitchen.
GetAnyMenu(k, m) == m \in menus

\* SELECT the menu of this kitchen.
get_menu(k, m) == m \in menus /\ m.kitchen = k

create_menu(r, k) ==
    LET m == [kitchen |-> k, no |-> r] IN
    \E adds \in SUBSET {[menu |-> m, no |-> r]} :
       Begin(r, "loaded", Job("create", k, m, "draft", adds, {}))

update_menu(r, k, m, s) ==
    get_menu(k, m) /\ Begin(r, "found", Job("update", k, m, Assigned(m, s), {}, {}))

publish_menu(r, k, m) ==
    get_menu(k, m) /\ Begin(r, "found", Job("publish", k, m, Assigned(m, "published"), {}, {}))

delete_menu(r, k, m) ==
    get_menu(k, m) /\ Begin(r, "found", Job("delete", k, m, Keep, {}, {}))

add_menu_item(r, k, m) ==
    get_menu(k, m) /\ Begin(r, "found", Job("add", k, m, Keep, {[menu |-> m, no |-> r]}, {}))

\* Only a published menu.
get_public_menu(r, k, m) ==
    /\ get_menu(k, m) /\ menuStatus[m] = "published"
    /\ Begin(r, "found", Job("view", k, m, Keep, {}, {}))

\* SELECT the item, joined with its menu for the kitchen.
delete_menu_item(r, k, i) ==
    /\ i \in menuItems /\ i.menu.kitchen = k
    /\ Begin(r, "loaded", Job("drop", k, i.menu, Keep, {}, {i}))

\* Mutation of Removed: a menu is deleted with the items of every menu.
RemovedEverywhere(j) ==
    CASE j.op = "delete" -> {menuItems}
      [] j.op = "view" -> SUBSET ItemsOf(j.menu)
      [] OTHER -> {{}}

\* What a job that has loaded its items may DELETE of them: all with the menu,
\* or those that are not available, which a view leaves out of menu.items.
Removed(j) ==
    CASE j.op = "delete" -> {ItemsOf(j.menu)}
      [] j.op = "view" -> SUBSET ItemsOf(j.menu)
      [] OTHER -> {{}}

\* SELECT the items of the menu; 400 when an empty one is to be published.
load_items(r) ==
    /\ menuPc[r] = "found"
    /\ IF job[r].op = "publish" /\ ItemsOf(job[r].menu) = {}
       THEN menuPc' = [menuPc EXCEPT ![r] = "failed"] /\ UNCHANGED job
       ELSE /\ menuPc' = [menuPc EXCEPT ![r] = "loaded"]
            /\ \E gone \in Removed(job[r]) : job' = [job EXCEPT ![r].gone = gone]
    /\ UNCHANGED <<menuStatus, menuItems>>

\* The lock a job takes on its row of menus.
MenuLock(j) ==
    CASE j.op = "delete" -> "delete"
      [] j.op \in {"update", "publish"} /\ j.set # Keep -> "update"
      [] j.op = "add" -> "share"
      [] OTHER -> "none"

\* Mutation of Excludes: the foreign key takes no lock on the menu.
ExcludesNoShare(a, b) ==
    \/ a.gone \cap b.gone # {}
    \/ a.menu = b.menu /\ {MenuLock(a), MenuLock(b)} = {"update"}

\* Two jobs that cannot both be flushed.  Deleting a menu locks its items, too.
Excludes(a, b) ==
    \/ a.gone \cap b.gone # {}
    \/ /\ a.menu = b.menu
       /\ \/ MenuLock(a) = "delete" /\ (MenuLock(b) # "none" \/ b.gone # {})
          \/ MenuLock(b) = "delete" /\ (MenuLock(a) # "none" \/ a.gone # {})
          \/ MenuLock(a) = "update" /\ MenuLock(b) = "update"

\* Without its menu an UPDATE raises StaleDataError and an INSERT of an item
\* violates the foreign key; a DELETE passes over it.
NeedsMenu(j) == MenuLock(j) \in {"update", "share"}

\* Flush: the rows are locked once nobody else has them.
flush_job(r) ==
    /\ menuPc[r] = "loaded"
    /\ \A q \in MenuReqs \ {r} : menuPc[q] = "flushed" => ~Excludes(job[r], job[q])
    /\ menuPc' = [menuPc EXCEPT ![r] =
           IF NeedsMenu(job[r]) /\ job[r].menu \notin menus THEN "failed" ELSE "flushed"]
    /\ UNCHANGED <<menuStatus, menuItems, job>>

\* COMMIT.  A deleted menu takes all its items along, those it did not load by
\* the ON DELETE CASCADE of the foreign key.
commit_job(r) ==
    /\ menuPc[r] = "flushed"
    /\ menuPc' = [menuPc EXCEPT ![r] = "done"]
    /\ LET j == job[r]
           rows == IF j.op = "delete" THEN menus \ {j.menu}
                   ELSE IF j.op = "create" THEN menus \cup {j.menu} ELSE menus
       IN
       /\ menuStatus' =
             [m \in rows |-> IF m = j.menu /\ j.set # Keep THEN j.set ELSE menuStatus[m]]
       /\ menuItems' = {i \in (menuItems \cup j.adds) \ j.gone :
                            j.op = "delete" => i.menu # j.menu}
    /\ UNCHANGED job

\* The session fails before its commit.
rollback_job(r) ==
    /\ menuPc[r] \in {"found", "loaded", "flushed"}
    /\ menuPc' = [menuPc EXCEPT ![r] = "failed"]
    /\ UNCHANGED <<menuStatus, menuItems, job>>

CatalogNext ==
    \E r \in MenuReqs :
       \/ \E k \in Kitchens :
             \/ create_menu(r, k)
             \/ \E m \in menus :
                   \/ \E s \in MenuStatus : update_menu(r, k, m, s)
                   \/ publish_menu(r, k, m) \/ delete_menu(r, k, m)
                   \/ add_menu_item(r, k, m) \/ get_public_menu(r, k, m)
             \/ \E i \in menuItems : delete_menu_item(r, k, i)
       \/ load_items(r) \/ flush_job(r) \/ commit_job(r) \/ rollback_job(r)

CatalogSpec == CatalogInit /\ [][CatalogNext]_CatalogVars

-----------------------------------------------------------------------------
Nos == MenuReqs \cup {m.no : m \in OldMenus} \cup {i.no : i \in OldItems}
Menu == [kitchen : Kitchens, no : Nos]
Item == [menu : Menu, no : Nos]
JobType ==
    [op : {"create", "update", "publish", "delete", "add", "drop", "view"},
     kitchen : Kitchens, menu : Menu, set : MenuStatus \cup {Keep},
     adds : SUBSET Item, gone : SUBSET Item]

\* Rows and jobs have the types of their columns, and a job adds and removes
\* items of its own menu only.
CatalogTypeOK ==
    /\ menus \subseteq Menu /\ menuStatus \in [menus -> MenuStatus]
    /\ menuItems \subseteq Item
    /\ menuPc \in [MenuReqs -> {"idle", "found", "loaded", "flushed", "done", "failed"}]
    /\ \A r \in MenuReqs :
          IF menuPc[r] = "idle" THEN job[r] = NoJob
          ELSE /\ job[r] \in JobType
               /\ \A i \in job[r].adds \cup job[r].gone : i.menu = job[r].menu

\* Every item is on a menu that exists: an item is added by a request that
\* looked its menu up some time ago, and the menu is deleted by one that did
\* not load the item.
NoOrphans == \A i \in menuItems : i.menu \in menus

\* The part of the catalogue that belongs to kitchen k.
Rows(k) == <<{<<m, menuStatus[m]>> : m \in {n \in menus : n.kitchen = k}},
             {i \in menuItems : i.menu.kitchen = k}>>

\* README.md:190, "Every query is scoped by the authenticated kitchen's ID": a
\* commit changes rows of its own kitchen only, those it deletes by a cascade
\* included.
TenantIsolation ==
    [][\A k \in Kitchens : Rows(k)' # Rows(k) =>
          \E r \in MenuReqs : menuPc'[r] = "done" /\ menuPc[r] # "done" /\ job[r].kitchen = k
      ]_CatalogVars

\* menu_service.py:93, "Cannot publish an empty menu. Add items first.": a menu
\* that goes on offer has an item at that moment.
PublishedHasItems ==
    [][\A m \in menus \cap menus' :
          menuStatus[m] # "published" /\ menuStatus'[m] = "published" => ItemsOf(m) # {}
      ]_CatalogVars

\* The same of POST /publish, which looks: what it saw of the items still holds
\* when it commits.
PublishChecked ==
    [][\A r \in MenuReqs :
          job[r].op = "publish" /\ menuPc[r] = "flushed" /\ menuPc'[r] = "done"
             => ItemsOf(job[r].menu) # {}
      ]_CatalogVars
=============================================================================
