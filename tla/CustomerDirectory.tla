-------------------------- MODULE CustomerDirectory --------------------------
(***************************************************************************)
(* The customers of one kitchen: created one by one, imported in bulk,     *)
(* created by a first order, opted in and out.                             *)
(*                                                                         *)
(* A phone number is looked up before a row is inserted, and no index of   *)
(* the table backs that check.  Every lookup is a SELECT of its own: it    *)
(* sees what other transactions have committed by then (READ COMMITTED)    *)
(* and the rows its own session has added, which the session flushes first *)
(* (autoflush).  Rows become visible to others at the commit.              *)
(***************************************************************************)
EXTENDS Integers, FiniteSets, SequencesExt

CONSTANTS
    Phones,      \* phone numbers
    CreateReqs,  \* POST /customers/              (create_customer)
    ImportReqs,  \* POST /customers/bulk-import   (bulk_import_customers)
    OrderReqs,   \* POST /orders/                 (find_or_create_by_phone)
    UpdateReqs,  \* PATCH /customers/{id}         (update_customer)
    Lists,       \* the payloads of imports: sequences of phone numbers
    PoolSize     \* connections the engine hands out

Requests == CreateReqs \cup ImportReqs \cup OrderReqs \cup UpdateReqs

ASSUME PoolAssumption == PoolSize \in Nat \ {0}
ASSUME KindsAssumption ==
    /\ CreateReqs \cap (ImportReqs \cup OrderReqs \cup UpdateReqs) = {}
    /\ ImportReqs \cap (OrderReqs \cup UpdateReqs) = {}
    /\ OrderReqs \cap UpdateReqs = {}
ASSUME ListsAssumption == Lists \subseteq Seq(Phones)

\* A row is named by the request that inserted it, and by the number of lines
\* that came after it in the payload.
Row == [by : Requests, left : Nat, phone : Phones]

VARIABLES
    customers,   \* customers rows, as committed
    out,         \* those with is_opted_in false
    pc,          \* how far each request is
    rest,        \* lines of an import that are still to be looked up
    added,       \* rows a session has added and not committed
    asked,       \* the numbers of the payload that were looked up
    change,      \* what an update does to the rows that are opted out
    wish         \* what an update was asked for, and the updates it followed

table == <<customers, out>>
vars == <<table, pc, rest, added, asked, change, wish>>

\* An update sets is_opted_in of a row to a value the session has found to be
\* another, or writes nothing.
NoUpdate == [optOut |-> {}, optIn |-> {}]

\* The payload of an update: is_opted_in, or other columns.
Payloads == {"in", "out", "other"}
Wish == [row : Row, choice : Payloads, after : SUBSET Requests]

Init ==
    /\ customers = {} /\ out = {}
    /\ pc = [r \in Requests |-> "idle"]
    /\ rest = [r \in Requests |-> <<>>]
    /\ added = [r \in Requests |-> {}]
    /\ asked = [r \in Requests |-> {}]
    /\ change = [r \in Requests |-> NoUpdate]
    /\ wish = [r \in Requests |-> {}]

-----------------------------------------------------------------------------
Active == {r \in Requests : pc[r] \notin {"idle", "done", "failed"}}

Goto(r, s) == pc' = [pc EXCEPT ![r] = s]

\* The session checks a connection out of the pool for its first statement.
Connect(r) == pc[r] = "idle" /\ Cardinality(Active) < PoolSize

With(set, p) == {c \in set : c.phone = p}

\* Mutation of Found: the session does not flush what it has added.
FoundUnflushed(r, p) == With(customers, p)

\* SELECT ... WHERE phone = p, in the session of r.
Found(r, p) == With(customers \cup added[r], p)

\* The session adds a row for p when there is none.
FindOrAdd(r, p, left) ==
    /\ added' = [added EXCEPT ![r] =
           IF Found(r, p) = {} THEN @ \cup {[by |-> r, left |-> left, phone |-> p]} ELSE @]
    /\ asked' = [asked EXCEPT ![r] = @ \cup {p}]

\* Mutation of create_customer: no check for a duplicate.
CreateUnchecked(r, p) ==
    /\ r \in CreateReqs /\ Connect(r)
    /\ Goto(r, "commit")
    /\ added' = [added EXCEPT ![r] = {[by |-> r, left |-> 0, phone |-> p]}]
    /\ asked' = [asked EXCEPT ![r] = {p}]
    /\ UNCHANGED <<table, rest, change, wish>>

\* 409 when the number exists (500 when it exists twice).
create_customer(r, p) ==
    /\ r \in CreateReqs /\ Connect(r)
    /\ IF Found(r, p) = {}
       THEN Goto(r, "commit") /\ FindOrAdd(r, p, 0)
       ELSE Goto(r, "failed") /\ UNCHANGED <<added, asked>>
    /\ UNCHANGED <<table, rest, change, wish>>

\* An order: use the row that exists; 500 when there are several.
find_or_create_by_phone(r, p) ==
    /\ r \in OrderReqs /\ Connect(r)
    /\ IF Cardinality(Found(r, p)) <= 1
       THEN Goto(r, "commit") /\ FindOrAdd(r, p, 0)
       ELSE Goto(r, "failed") /\ UNCHANGED <<added, asked>>
    /\ UNCHANGED <<table, rest, change, wish>>

bulk_import_customers(r, list) ==
    /\ r \in ImportReqs /\ Connect(r)
    /\ Goto(r, "import")
    /\ rest' = [rest EXCEPT ![r] = list]
    /\ UNCHANGED <<table, added, asked, change, wish>>

\* Mutation of import_line: a number that exists ends the loop.
ImportUntilFound(r) ==
    /\ pc[r] = "import" /\ rest[r] # <<>>
    /\ added' = [added EXCEPT ![r] = @ \cup
           (IF Found(r, Head(rest[r])) = {}
            THEN {[by |-> r, left |-> Len(rest[r]), phone |-> Head(rest[r])]} ELSE {})]
    /\ rest' = [rest EXCEPT ![r] = IF Found(r, Head(@)) = {} THEN Tail(@) ELSE <<>>]
    /\ asked' = [asked EXCEPT ![r] = @ \cup ToSet(rest[r])]
    /\ UNCHANGED <<table, pc, change, wish>>

\* One turn of the loop: skip a number that exists, 500 when it exists twice.
import_line(r) ==
    /\ pc[r] = "import" /\ rest[r] # <<>>
    /\ LET p == Head(rest[r]) IN
       IF Cardinality(Found(r, p)) <= 1
       THEN /\ FindOrAdd(r, p, Len(rest[r]))
            /\ rest' = [rest EXCEPT ![r] = Tail(@)]
            /\ UNCHANGED pc
       ELSE /\ Goto(r, "failed")
            /\ added' = [added EXCEPT ![r] = {}]
            /\ asked' = [asked EXCEPT ![r] = {}]
            /\ rest' = [rest EXCEPT ![r] = <<>>]
    /\ UNCHANGED <<table, change, wish>>

\* Request r asks for a choice on row c, after the updates that are done by now.
Wishes(r, c, choice) ==
    wish' = [wish EXCEPT ![r] = {[row |-> c, choice |-> choice,
                                 after |-> {q \in UpdateReqs : pc[q] = "done"}]}]

\* Mutations of update_customer: no 404; all columns are written, as loaded.
UpdateUnfound(r, c, choice) ==
    /\ r \in UpdateReqs /\ Connect(r)
    /\ Goto(r, "commit") /\ Wishes(r, c, choice)
    /\ change' = [change EXCEPT ![r].optOut = IF choice = "out" THEN {c} ELSE {}]
    /\ UNCHANGED <<table, rest, added, asked>>
UpdateAllColumns(r, c, choice) ==
    /\ r \in UpdateReqs /\ Connect(r) /\ c \in customers
    /\ Goto(r, "commit") /\ Wishes(r, c, choice)
    /\ change' = [change EXCEPT ![r] =
           IF choice = "out" \/ (choice = "other" /\ c \in out)
           THEN [optOut |-> {c}, optIn |-> {}] ELSE [optOut |-> {}, optIn |-> {c}]]
    /\ UNCHANGED <<table, rest, added, asked>>

\* SELECT the customer (404 when there is none) and set the columns of the
\* payload; a value the row has already is not written.
update_customer(r, c, choice) ==
    /\ r \in UpdateReqs /\ Connect(r)
    /\ IF c \in customers
       THEN /\ Goto(r, "commit") /\ Wishes(r, c, choice)
            /\ change' = [change EXCEPT ![r] =
                   [optOut |-> IF choice = "out" /\ c \notin out THEN {c} ELSE {},
                    optIn |-> IF choice = "in" /\ c \in out THEN {c} ELSE {}]]
       ELSE Goto(r, "failed") /\ UNCHANGED <<change, wish>>
    /\ UNCHANGED <<table, rest, added, asked>>

\* End of a transaction: its objects are forgotten.
EndSession(r) ==
    /\ rest' = [rest EXCEPT ![r] = <<>>]
    /\ added' = [added EXCEPT ![r] = {}]
    /\ change' = [change EXCEPT ![r] = NoUpdate]

\* Flush and COMMIT: rows added are opted in by default.
get_db_commit(r) ==
    /\ pc[r] \in {"import", "commit"} /\ rest[r] = <<>>
    /\ Goto(r, "done")
    /\ customers' = customers \cup added[r]
    /\ out' = (out \cup change[r].optOut) \ change[r].optIn
    /\ EndSession(r)
    /\ UNCHANGED <<asked, wish>>

\* Mutation of get_db_rollback: the rows of the session are committed.
CommitOnError(r) ==
    /\ r \in Active
    /\ Goto(r, "failed")
    /\ customers' = customers \cup added[r]
    /\ asked' = [asked EXCEPT ![r] = {}]
    /\ wish' = [wish EXCEPT ![r] = {}]
    /\ EndSession(r)
    /\ UNCHANGED out

\* The handler raises, or the connection is lost, before the commit.
get_db_rollback(r) ==
    /\ r \in Active
    /\ Goto(r, "failed")
    /\ asked' = [asked EXCEPT ![r] = {}]
    /\ wish' = [wish EXCEPT ![r] = {}]
    /\ EndSession(r)
    /\ UNCHANGED table

\* Ids a console may send: those of rows that exist, or that a request could
\* have added.
Ids == customers \cup {[by |-> r, left |-> 0, phone |-> p] : r \in Requests, p \in Phones}

Next ==
    \E r \in Requests :
       \/ \E p \in Phones : create_customer(r, p) \/ find_or_create_by_phone(r, p)
       \/ \E list \in Lists : bulk_import_customers(r, list)
       \/ import_line(r)
       \/ \E c \in Ids, choice \in Payloads : update_customer(r, c, choice)
       \/ get_db_commit(r)
       \/ get_db_rollback(r)

Spec == Init /\ [][Next]_vars

-----------------------------------------------------------------------------
\* Rows, payloads and pending writes have the types of their columns.
TypeOK ==
    /\ customers \subseteq Row /\ out \subseteq customers
    /\ pc \in [Requests -> {"idle", "import", "commit", "done", "failed"}]
    /\ rest \in [Requests -> Seq(Phones)]
    /\ added \in [Requests -> SUBSET Row]
    /\ asked \in [Requests -> SUBSET Phones]
    /\ change \in [Requests -> [optOut : SUBSET customers, optIn : SUBSET customers]]
    /\ wish \in [Requests -> SUBSET Wish]

\* Concurrent requests may insert one number several times, but they must all
\* have looked it up before the first of them committed: a number never gets
\* more rows than there are connections, however many requests follow.
DuplicatesBounded == \A p \in Phones : Cardinality(With(customers, p)) <= PoolSize

\* A request that was answered with success leaves all its numbers in the
\* directory: those it skipped because another row was there, too.
AnsweredListed ==
    \A r \in Requests : pc[r] = "done" => \A p \in asked[r] : With(customers, p) # {}

\* An import that fails at one of its lines, or at the commit, leaves nothing of
\* the lines before it, and no row is there before its request is over.
NothingOfFailed == \A c \in customers : pc[c.by] = "done"

\* An opt-out that was answered with success stands (and so does an opt-in): only
\* an update with the opposite choice that was not over when the opt-out began
\* can have undone it, never one of other columns, an import or an order.
ChoiceStands ==
    \A r \in UpdateReqs : pc[r] = "done" => \A w \in wish[r] :
        \/ w.choice = "other"
        \/ (w.choice = "out") = (w.row \in out)
        \/ \E q \in UpdateReqs \ w.after :
              /\ pc[q] = "done"
              /\ \E v \in wish[q] : v.row = w.row /\ v.choice \notin {"other", w.choice}

-----------------------------------------------------------------------------
\* The entries of a number, counted.
Entries(p) == [in |-> Cardinality(With(customers \ out, p)), out |-> Cardinality(With(out, p))]

Book == INSTANCE CustomerBook WITH
    Copies <- PoolSize, book <- [p \in Phones |-> Entries(p)]

\* Overlapping requests are steps of CustomerBook: each adds a number at most
\* once, within an import that repeats it, too, and touches the choice of one
\* entry; with a single connection a number has at most one entry
\* (models/customer.py:45, "A phone number is unique per kitchen").
BookSpec == Book!Spec
=============================================================================
