-------------------------- MODULE MenuCatalog_proofs --------------------------
(***************************************************************************)
(* Theorems about MenuCatalog, for any kitchens, rows and requests.        *)
(***************************************************************************)
EXTENDS MenuCatalog, TLAPS

\* What a request has decided concerns one menu of its own kitchen.
JobInv ==
    \A r \in MenuReqs :
       LET j == job[r] IN
       /\ menuPc[r] = "idle" => j = NoJob
       /\ j = Job(j.op, j.kitchen, j.menu, j.set, j.adds, j.gone)
       /\ \A i \in j.adds \cup j.gone : i.menu = j.menu
       /\ menuPc[r] # "idle" => j.menu.kitchen = j.kitchen /\ j.op # "none"
       /\ j.op \in {"none", "create", "update", "publish", "delete", "add", "drop", "view"}
       /\ j.op = "create" => j.set = "draft" /\ j.menu.no = r
       /\ j.adds # {} => j.op \in {"create", "add"}
       /\ j.op = "publish" => j.set \in {Keep, "published"}
       /\ j.op \in {"delete", "add", "drop", "view"} => j.set = Keep

TablesInv ==
    /\ DOMAIN menuPc = MenuReqs /\ DOMAIN job = MenuReqs
    /\ JobInv

\* Locks: what is flushed has its menu, and nothing that excludes it is flushed.
FlushedInv ==
    \A r \in MenuReqs : menuPc[r] = "flushed" =>
       /\ NeedsMenu(job[r]) => job[r].menu \in menus
       /\ \A q \in MenuReqs \ {r} : menuPc[q] = "flushed" => ~Excludes(job[r], job[q])

LEMMA ExcludesSymmetric == ASSUME NEW a, NEW b PROVE Excludes(a, b) = Excludes(b, a)
  BY DEF Excludes

LEMMA InitTables == CatalogInit => TablesInv /\ FlushedInv /\ NoOrphans
<1> SUFFICES ASSUME CatalogInit PROVE TablesInv /\ FlushedInv /\ NoOrphans
  OBVIOUS
<1>1. /\ NoJob.op = "none" /\ NoJob.adds = {} /\ NoJob.gone = {}
      /\ NoJob = Job(NoJob.op, NoJob.kitchen, NoJob.menu, NoJob.set, NoJob.adds, NoJob.gone)
  BY DEF NoJob, Job
<1>2. \A r \in MenuReqs : menuPc[r] = "idle" /\ job[r] = NoJob
  BY DEF CatalogInit
<1>3. TablesInv
  BY <1>1, <1>2 DEF CatalogInit, TablesInv, JobInv
<1> QED BY <1>2, <1>3, OldAssumption DEF CatalogInit, FlushedInv, NoOrphans, menus

-----------------------------------------------------------------------------
(* Steps, by what they do to a request and to the tables *)

\* What a request decides at first.
Sound(r, j) ==
    /\ j = Job(j.op, j.kitchen, j.menu, j.set, j.adds, j.gone)
    /\ \A i \in j.adds \cup j.gone : i.menu = j.menu
    /\ j.menu.kitchen = j.kitchen
    /\ j.op \in {"create", "update", "publish", "delete", "add", "drop", "view"}
    /\ j.op = "create" => j.set = "draft" /\ j.menu.no = r
    /\ j.adds # {} => j.op \in {"create", "add"}
    /\ j.op = "publish" => j.set \in {Keep, "published"}
    /\ j.op \in {"delete", "add", "drop", "view"} => j.set = Keep

Operation(r) ==
    \E k \in Kitchens :
       \/ create_menu(r, k)
       \/ \E m \in menus :
             \/ \E s \in MenuStatus : update_menu(r, k, m, s)
             \/ publish_menu(r, k, m) \/ delete_menu(r, k, m)
             \/ add_menu_item(r, k, m) \/ get_public_menu(r, k, m)
       \/ \E i \in menuItems : delete_menu_item(r, k, i)

\* It has its menu, or all it loads.
Opens(r, j) == \E s \in {"found", "loaded"} : Begin(r, s, j)

LEMMA OperationSound ==
    ASSUME NEW r \in MenuReqs, Operation(r)
    PROVE  \E j : Sound(r, j) /\ Opens(r, j)
<1>1. PICK k \in Kitchens :
       \/ create_menu(r, k)
       \/ \E m \in menus :
             \/ \E s \in MenuStatus : update_menu(r, k, m, s)
             \/ publish_menu(r, k, m) \/ delete_menu(r, k, m)
             \/ add_menu_item(r, k, m) \/ get_public_menu(r, k, m)
       \/ \E i \in menuItems : delete_menu_item(r, k, i)
  BY DEF Operation
<1> USE DEF Sound, Job, Opens
<1>2. CASE create_menu(r, k)
  <2> DEFINE m == [kitchen |-> k, no |-> r]
  <2>1. PICK adds \in SUBSET {[menu |-> m, no |-> r]} :
            Begin(r, "loaded", Job("create", k, m, "draft", adds, {}))
    BY <1>2 DEF create_menu
  <2>2. Sound(r, Job("create", k, m, "draft", adds, {}))
    OBVIOUS
  <2> QED BY <2>1, <2>2
<1>3. ASSUME NEW m \in menus, NEW s \in MenuStatus, update_menu(r, k, m, s)
      PROVE  \E j : Sound(r, j) /\ Opens(r, j)
  <2>1. Sound(r, Job("update", k, m, Assigned(m, s), {}, {}))
    BY <1>3 DEF update_menu, get_menu
  <2> QED BY <1>3, <2>1 DEF update_menu
<1>4. ASSUME NEW m \in menus, publish_menu(r, k, m)
      PROVE  \E j : Sound(r, j) /\ Opens(r, j)
  <2>1. Sound(r, Job("publish", k, m, Assigned(m, "published"), {}, {}))
    BY <1>4 DEF publish_menu, get_menu, Assigned
  <2> QED BY <1>4, <2>1 DEF publish_menu
<1>5. ASSUME NEW m \in menus, delete_menu(r, k, m)
      PROVE  \E j : Sound(r, j) /\ Opens(r, j)
  <2>1. Sound(r, Job("delete", k, m, Keep, {}, {}))
    BY <1>5 DEF delete_menu, get_menu
  <2> QED BY <1>5, <2>1 DEF delete_menu
<1>6. ASSUME NEW m \in menus, add_menu_item(r, k, m)
      PROVE  \E j : Sound(r, j) /\ Opens(r, j)
  <2>1. Sound(r, Job("add", k, m, Keep, {[menu |-> m, no |-> r]}, {}))
    BY <1>6 DEF add_menu_item, get_menu
  <2> QED BY <1>6, <2>1 DEF add_menu_item
<1>7. ASSUME NEW m \in menus, get_public_menu(r, k, m)
      PROVE  \E j : Sound(r, j) /\ Opens(r, j)
  <2>1. Sound(r, Job("view", k, m, Keep, {}, {}))
    BY <1>7 DEF get_public_menu, get_menu
  <2> QED BY <1>7, <2>1 DEF get_public_menu
<1>8. ASSUME NEW i \in menuItems, delete_menu_item(r, k, i)
      PROVE  \E j : Sound(r, j) /\ Opens(r, j)
  <2>1. Sound(r, Job("drop", k, i.menu, Keep, {}, {i}))
    BY <1>8 DEF delete_menu_item
  <2> QED BY <1>8, <2>1 DEF delete_menu_item
<1> QED BY <1>1, <1>2, <1>3, <1>4, <1>5, <1>6, <1>7, <1>8

\* Loading the items of its menu, a request decides on some of them to remove.
LEMMA LoadJob ==
    ASSUME TablesInv, NEW r \in MenuReqs, load_items(r)
    PROVE  /\ menuPc[r] = "found"
           /\ \E s \in {"loaded", "failed"} : menuPc' = [menuPc EXCEPT ![r] = s]
           /\ DOMAIN job' = MenuReqs
           /\ \A q \in MenuReqs \ {r} : job'[q] = job[q]
           /\ \E gone \in {job[r].gone} \cup SUBSET ItemsOf(job[r].menu) :
                 job'[r] = Job(job[r].op, job[r].kitchen, job[r].menu, job[r].set,
                               job[r].adds, gone)
           /\ UNCHANGED <<menuStatus, menuItems, menus>>
<1>1. job[r] = Job(job[r].op, job[r].kitchen, job[r].menu, job[r].set,
                   job[r].adds, job[r].gone)
  BY DEF TablesInv, JobInv
<1>2. CASE UNCHANGED job
  BY <1>1, <1>2 DEF load_items, menus, TablesInv
<1>3. ASSUME NEW gone \in Removed(job[r]), job' = [job EXCEPT ![r].gone = gone]
      PROVE  /\ DOMAIN job' = MenuReqs
             /\ \A q \in MenuReqs \ {r} : job'[q] = job[q]
             /\ job'[r] = Job(job[r].op, job[r].kitchen, job[r].menu, job[r].set,
                              job[r].adds, gone)
             /\ gone \in {{}} \cup SUBSET ItemsOf(job[r].menu)
  <2>1. gone \in {{}} \cup SUBSET ItemsOf(job[r].menu)
    BY <1>3 DEF Removed
  <2> QED BY <1>1, <1>3, <2>1 DEF Job, TablesInv
<1> QED BY <1>2, <1>3 DEF load_items, menus

LEMMA CommitTables ==
    ASSUME TablesInv, NEW r \in MenuReqs, commit_job(r)
    PROVE  /\ menus' = IF job[r].op = "delete" THEN menus \ {job[r].menu}
                       ELSE IF job[r].op = "create" THEN menus \cup {job[r].menu} ELSE menus
           /\ \A m \in menus' : menuStatus'[m] = IF m = job[r].menu /\ job[r].set # Keep
                                                 THEN job[r].set ELSE menuStatus[m]
           /\ menuItems' = {i \in (menuItems \cup job[r].adds) \ job[r].gone :
                               job[r].op = "delete" => i.menu # job[r].menu}
           /\ menuPc' = [menuPc EXCEPT ![r] = "done"] /\ menuPc[r] = "flushed"
           /\ job' = job
  BY DEF commit_job, menus

\* A commit leaves the other menus alone.
LEMMA CommitOthers ==
    ASSUME TablesInv, NEW r \in MenuReqs, commit_job(r), NEW m, m # job[r].menu
    PROVE  /\ m \in menus' <=> m \in menus
           /\ m \in menus => menuStatus'[m] = menuStatus[m]
           /\ ItemsOf(m)' = ItemsOf(m)
<1>1. \A i \in job[r].adds \cup job[r].gone : i.menu = job[r].menu
  BY DEF TablesInv, JobInv
<1>2. ItemsOf(m)' = ItemsOf(m)
  BY <1>1, CommitTables DEF ItemsOf
<1> QED BY <1>2, CommitTables

-----------------------------------------------------------------------------
(* Rows, locks and orphans *)

Inv == TablesInv /\ FlushedInv /\ NoOrphans

LEMMA NextInv == Inv /\ [CatalogNext]_CatalogVars => Inv'
<1> SUFFICES ASSUME Inv, [CatalogNext]_CatalogVars PROVE Inv'
  OBVIOUS
<1> USE DEF Inv
<1>1. ASSUME NEW r \in MenuReqs, Operation(r) PROVE Inv'
  <2>1. PICK j : Sound(r, j) /\ Opens(r, j)
    BY <1>1, OperationSound
  <2>2. /\ menuPc[r] = "idle"
        /\ \E s \in {"found", "loaded"} : menuPc' = [menuPc EXCEPT ![r] = s]
        /\ job' = [job EXCEPT ![r] = j]
        /\ UNCHANGED <<menuStatus, menuItems, menus>>
    BY <2>1 DEF Begin, Opens, menus
  <2>3. TablesInv'
    BY <2>1, <2>2 DEF TablesInv, JobInv, Sound
  <2>4. FlushedInv'
    <3> SUFFICES ASSUME NEW p \in MenuReqs, menuPc'[p] = "flushed"
                 PROVE  /\ NeedsMenu(job'[p]) => job'[p].menu \in menus'
                        /\ \A q \in MenuReqs \ {p} : menuPc'[q] = "flushed" =>
                              ~Excludes(job'[p], job'[q])
      BY DEF FlushedInv, NeedsMenu, Excludes, MenuLock
    <3>1. \A q \in MenuReqs : menuPc'[q] = "flushed" => menuPc[q] = "flushed" /\ job'[q] = job[q]
      BY <2>2 DEF TablesInv
    <3> QED BY <2>2, <3>1 DEF FlushedInv
  <2>5. NoOrphans'
    BY <2>2 DEF NoOrphans
  <2> QED BY <2>3, <2>4, <2>5
<1>2. ASSUME NEW r \in MenuReqs, flush_job(r) PROVE Inv'
  <2>1. /\ menuPc[r] = "loaded"
        /\ \A q \in MenuReqs \ {r} : menuPc[q] = "flushed" => ~Excludes(job[r], job[q])
        /\ menuPc' = [menuPc EXCEPT ![r] = IF NeedsMenu(job[r]) /\ job[r].menu \notin menus
                                           THEN "failed" ELSE "flushed"]
        /\ UNCHANGED <<menuStatus, menuItems, job, menus>>
    BY <1>2 DEF flush_job, menus
  <2>2. TablesInv'
    BY <2>1 DEF TablesInv, JobInv
  <2>3. FlushedInv'
    <3> SUFFICES ASSUME NEW p \in MenuReqs, menuPc'[p] = "flushed"
                 PROVE  /\ NeedsMenu(job[p]) => job[p].menu \in menus
                        /\ \A q \in MenuReqs \ {p} : menuPc'[q] = "flushed" =>
                              ~Excludes(job[p], job[q])
      BY <2>1 DEF FlushedInv
    <3>1. NeedsMenu(job[p]) => job[p].menu \in menus
      BY <2>1 DEF FlushedInv, TablesInv
    <3>2. ASSUME NEW q \in MenuReqs \ {p}, menuPc'[q] = "flushed"
          PROVE  ~Excludes(job[p], job[q])
      <4>1. CASE p = r
        BY <2>1, <3>2, <4>1 DEF TablesInv
      <4>2. CASE q = r
        <5>1. ~Excludes(job[q], job[p])
          BY <2>1, <3>2, <4>2 DEF TablesInv
        <5> QED BY <5>1, ExcludesSymmetric
      <4>3. CASE p # r /\ q # r
        BY <2>1, <3>2, <4>3 DEF FlushedInv, TablesInv
      <4> QED BY <4>1, <4>2, <4>3
    <3> QED BY <3>1, <3>2
  <2>4. NoOrphans'
    BY <2>1 DEF NoOrphans
  <2> QED BY <2>2, <2>3, <2>4
<1>3. ASSUME NEW r \in MenuReqs, commit_job(r) PROVE Inv'
  <2>1. /\ menuPc' = [menuPc EXCEPT ![r] = "done"] /\ menuPc[r] = "flushed" /\ job' = job
    BY <1>3, CommitTables
  <2>2. TablesInv'
    BY <2>1 DEF TablesInv, JobInv
  <2>3. FlushedInv'
    <3> SUFFICES ASSUME NEW p \in MenuReqs, p # r, menuPc[p] = "flushed"
                 PROVE  NeedsMenu(job[p]) => job[p].menu \in menus'
      BY <2>1 DEF FlushedInv, TablesInv
    <3>1. /\ NeedsMenu(job[p]) => job[p].menu \in menus
          /\ ~Excludes(job[r], job[p])
      BY <2>1 DEF FlushedInv
    <3>2. CASE job[r].op = "delete"
      BY <1>3, <3>1, <3>2, CommitTables DEF Excludes, MenuLock, NeedsMenu
    <3>3. CASE job[r].op # "delete"
      BY <1>3, <3>1, <3>3, CommitTables
    <3> QED BY <3>2, <3>3
  <2>4. NoOrphans'
    <3> SUFFICES ASSUME NEW i \in menuItems' PROVE i.menu \in menus'
      BY DEF NoOrphans
    <3>1. i.menu \in menus \/ i \in job[r].adds
      BY <1>3, CommitTables DEF NoOrphans
    <3>2. CASE i \in job[r].adds
      <4>1. i.menu = job[r].menu /\ job[r].op \in {"create", "add"}
        BY <3>2 DEF TablesInv, JobInv
      <4>2. job[r].op = "add" => job[r].menu \in menus
        BY <2>1 DEF FlushedInv, NeedsMenu, MenuLock
      <4> QED BY <1>3, <4>1, <4>2, CommitTables
    <3>3. CASE i.menu \in menus
      BY <1>3, <3>3, CommitTables
    <3> QED BY <3>1, <3>2, <3>3
  <2> QED BY <2>2, <2>3, <2>4
<1>4. ASSUME NEW r \in MenuReqs, rollback_job(r) PROVE Inv'
  <2>1. /\ menuPc[r] # "idle" /\ menuPc' = [menuPc EXCEPT ![r] = "failed"]
        /\ UNCHANGED <<menuStatus, menuItems, job, menus>>
    BY <1>4 DEF rollback_job, menus
  <2> QED BY <2>1 DEF TablesInv, JobInv, FlushedInv, NoOrphans
<1>5. CASE UNCHANGED CatalogVars
  BY <1>5 DEF CatalogVars, TablesInv, JobInv, FlushedInv, NoOrphans, menus
<1>6. ASSUME NEW r \in MenuReqs, load_items(r) PROVE Inv'
  <2>1. /\ menuPc[r] = "found"
        /\ \E s \in {"loaded", "failed"} : menuPc' = [menuPc EXCEPT ![r] = s]
        /\ DOMAIN job' = MenuReqs
        /\ \A q \in MenuReqs \ {r} : job'[q] = job[q]
        /\ UNCHANGED <<menuStatus, menuItems, menus>>
    BY <1>6, LoadJob
  <2>2. PICK gone \in {job[r].gone} \cup SUBSET ItemsOf(job[r].menu) :
            job'[r] = Job(job[r].op, job[r].kitchen, job[r].menu, job[r].set,
                          job[r].adds, gone)
    BY <1>6, LoadJob
  <2>3. \A i \in gone : i.menu = job[r].menu
    BY <2>2 DEF TablesInv, JobInv, ItemsOf
  <2>4. /\ \A q \in MenuReqs : menuPc'[q] = "idle" => menuPc[q] = "idle" /\ q # r
        /\ menuPc[r] # "idle"
        /\ DOMAIN menuPc' = MenuReqs
    BY <2>1 DEF TablesInv
  <2>5. TablesInv'
    BY <2>1, <2>2, <2>3, <2>4 DEF TablesInv, JobInv, Job
  <2>6. FlushedInv'
    <3>1. \A q \in MenuReqs : menuPc'[q] = "flushed" => menuPc[q] = "flushed" /\ job'[q] = job[q]
      BY <2>1 DEF TablesInv
    <3> SUFFICES ASSUME NEW p \in MenuReqs, menuPc'[p] = "flushed"
                 PROVE  /\ NeedsMenu(job'[p]) => job'[p].menu \in menus'
                        /\ \A q \in MenuReqs \ {p} : menuPc'[q] = "flushed" =>
                              ~Excludes(job'[p], job'[q])
      BY DEF FlushedInv, NeedsMenu, Excludes, MenuLock
    <3> QED BY <2>1, <3>1 DEF FlushedInv
  <2>7. NoOrphans'
    BY <2>1 DEF NoOrphans
  <2> QED BY <2>5, <2>6, <2>7
<1> QED BY <1>1, <1>2, <1>3, <1>4, <1>5, <1>6 DEF CatalogNext, Operation

\* However additions and deletions overlap, an item has its menu
\* (menu_service.py:115).
THEOREM ItemsHaveMenus == CatalogSpec => []NoOrphans
<1>1. CatalogInit => Inv
  BY InitTables DEF Inv
<1>2. Inv => NoOrphans
  BY DEF Inv
<1> QED BY <1>1, <1>2, NextInv, PTL DEF CatalogSpec

-----------------------------------------------------------------------------
(* Tenants *)

\* The step that Next makes is the commit of a request, or leaves the tables alone.
LEMMA TablesStep ==
    ASSUME [CatalogNext]_CatalogVars
    PROVE  UNCHANGED <<menuStatus, menuItems>> \/ \E r \in MenuReqs : commit_job(r)
<1>1. ASSUME NEW r \in MenuReqs, Operation(r) PROVE UNCHANGED <<menuStatus, menuItems>>
  BY <1>1, OperationSound DEF Begin, Opens
<1> QED BY <1>1 DEF CatalogNext, Operation, CatalogVars, load_items, flush_job, rollback_job

LEMMA CommitOwnRows ==
    ASSUME Inv, NEW r \in MenuReqs, commit_job(r), NEW k, k # job[r].kitchen
    PROVE  Rows(k)' = Rows(k)
<1>1. job[r].menu.kitchen # k
  BY CommitTables DEF Inv, TablesInv, JobInv
<1>2. {<<m, menuStatus[m]>> : m \in {n \in menus : n.kitchen = k}}'
      = {<<m, menuStatus[m]>> : m \in {n \in menus : n.kitchen = k}}
  <2>1. ASSUME NEW m, m.kitchen = k
        PROVE  /\ m \in menus' <=> m \in menus
               /\ m \in menus => menuStatus'[m] = menuStatus[m]
    BY <1>1, <2>1, CommitOthers DEF Inv
  <2>2. {n \in menus : n.kitchen = k}' = {n \in menus : n.kitchen = k}
    BY <2>1
  <2> QED BY <2>1, <2>2
<1>3. {i \in menuItems : i.menu.kitchen = k}' = {i \in menuItems : i.menu.kitchen = k}
  <2>1. \A i : i.menu.kitchen = k => (i \in menuItems' <=> i \in menuItems)
    <3> SUFFICES ASSUME NEW i, i.menu.kitchen = k PROVE i \in menuItems' <=> i \in menuItems
      OBVIOUS
    <3>1. i.menu # job[r].menu
      BY <1>1
    <3>2. i \notin job[r].adds \cup job[r].gone
      BY <3>1 DEF Inv, TablesInv, JobInv
    <3> QED BY <3>1, <3>2, CommitTables DEF Inv
  <2> QED BY <2>1
<1> QED BY <1>2, <1>3 DEF Rows

\* No request changes a row of another kitchen, not by a cascade either
\* (menu_service.py:43).
THEOREM KitchensApart == CatalogSpec => TenantIsolation
<1> DEFINE own == \A k \in Kitchens : Rows(k)' # Rows(k) =>
          \E r \in MenuReqs : menuPc'[r] = "done" /\ menuPc[r] # "done" /\ job[r].kitchen = k
<1>1. Inv /\ [CatalogNext]_CatalogVars => [own]_CatalogVars
  <2> SUFFICES ASSUME Inv, [CatalogNext]_CatalogVars, NEW k \in Kitchens, Rows(k)' # Rows(k)
               PROVE  \E r \in MenuReqs :
                          menuPc'[r] = "done" /\ menuPc[r] # "done" /\ job[r].kitchen = k
    OBVIOUS
  <2>1. ~UNCHANGED <<menuStatus, menuItems>>
    BY DEF Rows, menus
  <2>2. PICK r \in MenuReqs : commit_job(r)
    BY <2>1, TablesStep
  <2>3. menuPc'[r] = "done" /\ menuPc[r] # "done"
    BY <2>2, CommitTables DEF Inv, TablesInv
  <2> QED BY <2>2, <2>3, CommitOwnRows
<1>2. CatalogInit => Inv
  BY InitTables DEF Inv
<1> QED BY <1>1, <1>2, NextInv, PTL DEF CatalogSpec, TenantIsolation

-----------------------------------------------------------------------------
(* Types *)

LEMMA OldTypes == OldMenus \subseteq Menu /\ OldItems \subseteq Item
  BY OldAssumption DEF Menu, Item, Nos

LEMMA RequestNo == MenuReqs \subseteq Nos
  BY DEF Nos

\* A job that adds and removes items of its own menu only.
Fits(j) == j \in JobType /\ \A i \in j.adds \cup j.gone : i.menu = j.menu

\* What an operation decides is such a job.
LEMMA OperationType ==
    ASSUME CatalogTypeOK, NEW r \in MenuReqs, Operation(r)
    PROVE  \E j : Fits(j) /\ Opens(r, j)
<1>1. PICK k \in Kitchens :
       \/ create_menu(r, k)
       \/ \E m \in menus :
             \/ \E s \in MenuStatus : update_menu(r, k, m, s)
             \/ publish_menu(r, k, m) \/ delete_menu(r, k, m)
             \/ add_menu_item(r, k, m) \/ get_public_menu(r, k, m)
       \/ \E i \in menuItems : delete_menu_item(r, k, i)
  BY DEF Operation
<1>2. menus \subseteq Menu /\ menuItems \subseteq Item /\ r \in Nos
  BY RequestNo DEF CatalogTypeOK
<1> USE DEF Fits, Job, JobType, MenuStatus, Opens
<1>3. CASE create_menu(r, k)
  <2> DEFINE m == [kitchen |-> k, no |-> r]
  <2>1. PICK adds \in SUBSET {[menu |-> m, no |-> r]} :
            Begin(r, "loaded", Job("create", k, m, "draft", adds, {}))
    BY <1>3 DEF create_menu
  <2>2. m \in Menu /\ [menu |-> m, no |-> r] \in Item
    BY <1>2 DEF Menu, Item
  <2>3. Fits(Job("create", k, m, "draft", adds, {}))
    BY <2>2
  <2> QED BY <2>1, <2>3
<1>4. ASSUME NEW m \in menus
      PROVE  /\ m \in Menu /\ ItemsOf(m) \in SUBSET Item
             /\ \A i \in ItemsOf(m) : i.menu = m
             /\ \A s \in MenuStatus : Assigned(m, s) \in MenuStatus \cup {Keep}
             /\ [menu |-> m, no |-> r] \in Item
  BY <1>2 DEF ItemsOf, Assigned, Item
<1>5. ASSUME NEW m \in menus, NEW s \in MenuStatus, update_menu(r, k, m, s)
      PROVE  \E j : Fits(j) /\ Opens(r, j)
  <2>1. Fits(Job("update", k, m, Assigned(m, s), {}, {}))
    BY <1>4
  <2> QED BY <1>5, <2>1 DEF update_menu
<1>6. ASSUME NEW m \in menus, publish_menu(r, k, m) PROVE \E j : Fits(j) /\ Opens(r, j)
  <2>1. Fits(Job("publish", k, m, Assigned(m, "published"), {}, {}))
    BY <1>4
  <2> QED BY <1>6, <2>1 DEF publish_menu
<1>7. ASSUME NEW m \in menus, delete_menu(r, k, m) PROVE \E j : Fits(j) /\ Opens(r, j)
  <2>1. Fits(Job("delete", k, m, Keep, {}, {}))
    BY <1>4
  <2> QED BY <1>7, <2>1 DEF delete_menu
<1>8. ASSUME NEW m \in menus, add_menu_item(r, k, m) PROVE \E j : Fits(j) /\ Opens(r, j)
  <2>1. Fits(Job("add", k, m, Keep, {[menu |-> m, no |-> r]}, {}))
    BY <1>4
  <2> QED BY <1>8, <2>1 DEF add_menu_item
<1>9. ASSUME NEW m \in menus, get_public_menu(r, k, m) PROVE \E j : Fits(j) /\ Opens(r, j)
  <2>1. Fits(Job("view", k, m, Keep, {}, {}))
    BY <1>4
  <2> QED BY <1>9, <2>1 DEF get_public_menu
<1>10. ASSUME NEW i \in menuItems, delete_menu_item(r, k, i)
       PROVE  \E j : Fits(j) /\ Opens(r, j)
  <2>1. i.menu \in Menu /\ {i} \in SUBSET Item
    BY <1>2 DEF Item
  <2>2. Fits(Job("drop", k, i.menu, Keep, {}, {i}))
    BY <2>1
  <2> QED BY <1>10, <2>2 DEF delete_menu_item
<1> QED BY <1>1, <1>3, <1>5, <1>6, <1>7, <1>8, <1>9, <1>10

LEMMA InitCatalogType == CatalogInit => CatalogTypeOK
<1> SUFFICES ASSUME CatalogInit PROVE CatalogTypeOK
  OBVIOUS
<1>1. menus = OldMenus /\ menuStatus \in [menus -> MenuStatus]
  BY DEF CatalogInit, menus, MenuStatus
<1> QED BY <1>1, OldTypes DEF CatalogInit, CatalogTypeOK

LEMMA NextCatalogType ==
    Inv /\ CatalogTypeOK /\ [CatalogNext]_CatalogVars => CatalogTypeOK'
<1> SUFFICES ASSUME Inv, CatalogTypeOK, [CatalogNext]_CatalogVars PROVE CatalogTypeOK'
  OBVIOUS
<1>1. ASSUME NEW r \in MenuReqs, Operation(r) PROVE CatalogTypeOK'
  <2>1. PICK j : Fits(j) /\ Opens(r, j)
    BY <1>1, OperationType
  <2>2. /\ \E s \in {"found", "loaded"} : menuPc' = [menuPc EXCEPT ![r] = s]
        /\ job' = [job EXCEPT ![r] = j]
        /\ UNCHANGED <<menuStatus, menuItems, menus>>
    BY <2>1 DEF Begin, Opens, menus
  <2>3. DOMAIN job = MenuReqs
    BY DEF Inv, TablesInv
  <2> QED BY <2>1, <2>2, <2>3 DEF CatalogTypeOK, Fits
<1>2. ASSUME NEW r \in MenuReqs, flush_job(r) \/ rollback_job(r) PROVE CatalogTypeOK'
  <2>1. /\ menuPc[r] # "idle"
        /\ \E s \in {"flushed", "failed"} : menuPc' = [menuPc EXCEPT ![r] = s]
        /\ UNCHANGED <<menuStatus, menuItems, menus, job>>
    BY <1>2 DEF flush_job, rollback_job, menus
  <2> QED BY <2>1 DEF CatalogTypeOK
<1>3. ASSUME NEW r \in MenuReqs, commit_job(r) PROVE CatalogTypeOK'
  <2>1. /\ menuPc' = [menuPc EXCEPT ![r] = "done"] /\ menuPc[r] = "flushed" /\ job' = job
    BY <1>3, CommitTables DEF Inv
  <2>2. job[r] \in JobType
    BY <2>1 DEF CatalogTypeOK
  <2>3. menus' \subseteq Menu
    BY <1>3, <2>2, CommitTables DEF Inv, CatalogTypeOK, JobType
  <2>4. menuItems' \subseteq Item
    BY <1>3, <2>2, CommitTables DEF Inv, CatalogTypeOK, JobType
  <2>5. ASSUME NEW m \in menus' PROVE menuStatus'[m] \in MenuStatus
    <3>1. m \in menus \/ (m = job[r].menu /\ job[r].set = "draft")
      BY <1>3, CommitTables DEF Inv, TablesInv, JobInv
    <3>2. menuStatus'[m] = IF m = job[r].menu /\ job[r].set # Keep
                           THEN job[r].set ELSE menuStatus[m]
      BY <1>3, CommitTables DEF Inv
    <3> QED BY <2>2, <3>1, <3>2, KeepAssumption DEF CatalogTypeOK, JobType, MenuStatus
  <2>6. menuStatus' = [m \in menus' |-> menuStatus'[m]]
    BY <1>3 DEF commit_job, menus
  <2>7. menuStatus' \in [menus' -> MenuStatus]
    BY <2>5, <2>6
  <2> QED BY <2>1, <2>3, <2>4, <2>7 DEF CatalogTypeOK
<1>4. CASE UNCHANGED CatalogVars
  BY <1>4 DEF CatalogVars, CatalogTypeOK, menus
<1>5. ASSUME NEW r \in MenuReqs, load_items(r) PROVE CatalogTypeOK'
  <2>1. /\ menuPc[r] = "found"
        /\ \E s \in {"loaded", "failed"} : menuPc' = [menuPc EXCEPT ![r] = s]
        /\ \A q \in MenuReqs \ {r} : job'[q] = job[q]
        /\ UNCHANGED <<menuStatus, menuItems, menus>>
    BY <1>5, LoadJob DEF Inv
  <2>2. PICK gone \in {job[r].gone} \cup SUBSET ItemsOf(job[r].menu) :
            job'[r] = Job(job[r].op, job[r].kitchen, job[r].menu, job[r].set,
                          job[r].adds, gone)
    BY <1>5, LoadJob DEF Inv
  <2>3. /\ job[r] \in JobType /\ gone \subseteq Item
        /\ \A i \in job[r].adds \cup gone : i.menu = job[r].menu
    BY <2>1, <2>2 DEF CatalogTypeOK, JobType, ItemsOf
  <2>4. /\ job'[r] \in JobType
        /\ \A i \in job'[r].adds \cup job'[r].gone : i.menu = job'[r].menu
    BY <2>2, <2>3 DEF JobType, Job
  <2> QED BY <2>1, <2>4 DEF CatalogTypeOK
<1> QED BY <1>1, <1>2, <1>3, <1>4, <1>5 DEF CatalogNext, Operation

\* Rows and jobs have the types of their columns, for any kitchens and requests.
THEOREM CatalogTypes == CatalogSpec => []CatalogTypeOK
<1>1. CatalogInit => Inv /\ CatalogTypeOK
  BY InitTables, InitCatalogType DEF Inv
<1>2. Inv /\ CatalogTypeOK /\ [CatalogNext]_CatalogVars => (Inv /\ CatalogTypeOK)'
  BY NextInv, NextCatalogType
<1> QED BY <1>1, <1>2, PTL DEF CatalogSpec
=============================================================================
