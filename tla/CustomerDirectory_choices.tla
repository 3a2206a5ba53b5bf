---------------------- MODULE CustomerDirectory_choices ----------------------
(***************************************************************************)
(* What a request that was answered with success can rely on, for any      *)
(* number of requests, phone numbers, import payloads and connections: its *)
(* numbers are listed, and its choice stands; one that failed leaves       *)
(* nothing.                                                                *)
(***************************************************************************)
EXTENDS CustomerDirectory_proofs

(* Numbers *)

\* The numbers a request has looked up are listed, for its own session at least.
Listed ==
    \A r \in Requests : pc[r] # "failed" => \A p \in asked[r] : Found(r, p) # {}

\* What a session finds, it still finds when no row is taken away.
LEMMA FoundGrows ==
    ASSUME NEW r, NEW p, Found(r, p) # {},
           customers \cup added[r] \subseteq customers' \cup added'[r]
    PROVE  Found(r, p)' # {}
  BY DEF Found, With

\* A number that is looked up is found afterwards.
LEMMA FindOrAddFinds ==
    ASSUME TypeOK, NEW r \in Requests, NEW p \in Phones, NEW n, FindOrAdd(r, p, n),
           UNCHANGED customers
    PROVE  /\ Found(r, p)' # {}
           /\ \A q \in Requests : added[q] \subseteq added'[q]
           /\ \A q \in Requests : asked'[q] = IF q = r THEN asked[r] \cup {p} ELSE asked[q]
<1> DEFINE c == [by |-> r, left |-> n, phone |-> p]
<1>1. c.phone = p
  OBVIOUS
<1> HIDE DEF c
<1>2. added' = [added EXCEPT ![r] = IF Found(r, p) = {} THEN @ \cup {c} ELSE @]
  BY DEF FindOrAdd, c
<1>3. \A q \in Requests : added'[q] = IF q = r /\ Found(r, p) = {}
                                        THEN added[q] \cup {c} ELSE added[q]
  BY <1>2 DEF TypeOK
<1>4. \A q \in Requests : asked'[q] = IF q = r THEN asked[r] \cup {p} ELSE asked[q]
  BY DEF TypeOK, FindOrAdd
<1>5. Found(r, p)' # {}
  BY <1>1, <1>3 DEF Found, With
<1> QED BY <1>3, <1>4, <1>5

LEMMA NextListed == TypeOK /\ Listed /\ [Next]_vars => Listed'
<1> SUFFICES ASSUME TypeOK, Listed, [Next]_vars,
                    NEW q \in Requests, pc'[q] # "failed", NEW p \in asked'[q]
             PROVE  Found(q, p)' # {}
  BY DEF Listed
<1> USE DEF Goto
<1>1. CASE pc[q] # "failed" /\ p \in asked[q]
           /\ customers \cup added[q] \subseteq customers' \cup added'[q]
  BY <1>1, FoundGrows DEF Listed
<1>2. ASSUME NEW r \in Requests, NEW s \in Phones, NEW n \in Nat, FindOrAdd(r, s, n),
             UNCHANGED customers, pc[q] # "failed"
      PROVE  Found(q, p)' # {}
  BY <1>1, <1>2, FindOrAddFinds
<1>3. CASE UNCHANGED vars
  BY <1>1, <1>3 DEF vars, table
<1>4. ASSUME NEW r \in Requests, NEW s \in Phones,
             create_customer(r, s) \/ find_or_create_by_phone(r, s)
      PROVE  Found(q, p)' # {}
  <2>1. pc[r] = "idle" /\ UNCHANGED customers
    BY <1>4 DEF create_customer, find_or_create_by_phone, Connect, table
  <2>2. pc[q] # "failed"
    BY <1>4, <2>1 DEF create_customer, find_or_create_by_phone, TypeOK
  <2>3. CASE FindOrAdd(r, s, 0)
    BY <1>2, <2>1, <2>2, <2>3
  <2>4. CASE UNCHANGED <<added, asked>>
    BY <1>1, <2>1, <2>2, <2>4
  <2> QED BY <1>4, <2>3, <2>4 DEF create_customer, find_or_create_by_phone
<1>5. ASSUME NEW r \in Requests, NEW list \in Lists, bulk_import_customers(r, list)
      PROVE  Found(q, p)' # {}
  <2>1. pc[q] # "failed" /\ UNCHANGED <<customers, added, asked>>
    BY <1>5 DEF bulk_import_customers, Connect, table, TypeOK
  <2> QED BY <1>1, <2>1
<1>6. ASSUME NEW r \in Requests, import_line(r) PROVE Found(q, p)' # {}
  <2>1. Head(rest[r]) \in Phones /\ Len(rest[r]) \in Nat
    BY <1>6 DEF import_line, TypeOK
  <2>2. pc[r] = "import" /\ UNCHANGED customers
    BY <1>6 DEF import_line, table
  <2>3. CASE FindOrAdd(r, Head(rest[r]), Len(rest[r])) /\ UNCHANGED pc
    <3>1. pc[q] # "failed"
      BY <2>3
    <3> QED BY <1>2, <2>1, <2>2, <2>3, <3>1
  <2>4. CASE /\ Goto(r, "failed") /\ added' = [added EXCEPT ![r] = {}]
             /\ asked' = [asked EXCEPT ![r] = {}]
    <3>1. q # r /\ pc[q] # "failed" /\ added'[q] = added[q] /\ asked'[q] = asked[q]
      BY <2>4 DEF TypeOK
    <3> QED BY <1>1, <2>2, <3>1
  <2> QED BY <1>6, <2>3, <2>4 DEF import_line
<1>7. ASSUME NEW r \in Requests, NEW c \in Ids, NEW choice \in Payloads,
             update_customer(r, c, choice)
      PROVE  Found(q, p)' # {}
  <2>1. pc[q] # "failed" /\ UNCHANGED <<customers, added, asked>>
    BY <1>7 DEF update_customer, Connect, table, TypeOK
  <2> QED BY <1>1, <2>1
<1>8. ASSUME NEW r \in Requests, get_db_commit(r) PROVE Found(q, p)' # {}
  <2>1. /\ pc[r] \in {"import", "commit"} /\ Goto(r, "done") /\ UNCHANGED asked
        /\ customers' = customers \cup added[r] /\ added' = [added EXCEPT ![r] = {}]
    BY <1>8 DEF get_db_commit, EndSession
  <2>2. pc[q] # "failed" /\ p \in asked[q]
    BY <2>1 DEF TypeOK
  <2>3. customers \cup added[q] \subseteq customers' \cup added'[q]
    BY <2>1 DEF TypeOK
  <2> QED BY <1>1, <2>2, <2>3
<1>9. ASSUME NEW r \in Requests, get_db_rollback(r) PROVE Found(q, p)' # {}
  <2>1. /\ Goto(r, "failed") /\ UNCHANGED customers /\ added' = [added EXCEPT ![r] = {}]
        /\ asked' = [asked EXCEPT ![r] = {}]
    BY <1>9 DEF get_db_rollback, EndSession, table
  <2>2. q # r /\ pc[q] # "failed" /\ added'[q] = added[q] /\ asked'[q] = asked[q]
    BY <2>1 DEF TypeOK
  <2> QED BY <1>1, <2>1, <2>2
<1> QED BY <1>3, <1>4, <1>5, <1>6, <1>7, <1>8, <1>9 DEF Next

\* A session that is over has added no rows, so what a request that was answered
\* has found or added is committed.
THEOREM AnswersListed == Spec => []AnsweredListed
<1>1. Init => TypeOK /\ SessionInv /\ Listed
  BY InitType, InitHeldInv DEF Init, Listed
<1>2. TypeOK /\ SessionInv /\ Listed /\ [Next]_vars => (TypeOK /\ SessionInv /\ Listed)'
  BY NextType, NextRowStep, NextSessionInv, NextListed
<1>3. SessionInv /\ Listed => AnsweredListed
  <2> SUFFICES ASSUME SessionInv, Listed, NEW r \in Requests, pc[r] = "done",
                      NEW p \in asked[r]
               PROVE  With(customers, p) # {}
    BY DEF AnsweredListed
  <2>1. added[r] = {}
    BY DEF SessionInv, Active
  <2>2. Found(r, p) # {}
    BY DEF Listed
  <2> QED BY <2>1, <2>2 DEF Found
<1> QED BY <1>1, <1>2, <1>3, PTL DEF Spec

-----------------------------------------------------------------------------
(* Choices *)

\* An update with the opposite choice that was not over when this one began has
\* been committed.
Undone(w) ==
    \E q \in UpdateReqs \ w.after :
        pc[q] = "done" /\ \E v \in wish[q] : v.row = w.row /\ v.choice \notin {"other", w.choice}

\* The choice is about to be written.
Pending(r, w) ==
    \/ w.choice = "out" /\ w.row \in change[r].optOut
    \/ w.choice = "in" /\ w.row \in change[r].optIn

Settled(r, w) ==
    w.choice = "other" \/ (w.choice = "out") = (w.row \in out) \/ Undone(w) \/ Pending(r, w)

\* A request has at most one wish, it follows updates that are done, and what the
\* request is about to write is what it was asked for.
WishOf(r) ==
    /\ wish[r] # {} => r \in UpdateReqs
    /\ \A v, w \in wish[r] : v = w
    /\ \A w \in wish[r] : w.after \subseteq {q \in UpdateReqs : pc[q] = "done"}
    /\ \A c \in change[r].optOut : \E w \in wish[r] : w.row = c /\ w.choice = "out"
    /\ \A c \in change[r].optIn : \E w \in wish[r] : w.row = c /\ w.choice = "in"
    /\ pc[r] = "done" => change[r] = NoUpdate

WishInv == \A r \in Requests : WishOf(r)

SettledInv ==
    \A r \in Requests : pc[r] # "failed" => \A w \in wish[r] : Settled(r, w)

\* A step that has nothing to do with choices: a request that is over stays so.
Aside ==
    /\ UNCHANGED <<out, change, wish>>
    /\ \A q \in Requests : /\ (pc'[q] = "done") = (pc[q] = "done")
                           /\ pc[q] = "failed" => pc'[q] = "failed"

\* An update begins: it finds the row as it was asked to make it, or will write it.
Loads(r, w) ==
    /\ r \in UpdateReqs /\ pc[r] = "idle" /\ UNCHANGED out
    /\ \A q \in Requests : /\ pc'[q] = IF q = r THEN "commit" ELSE pc[q]
                           /\ wish'[q] = IF q = r THEN {w} ELSE wish[q]
                           /\ q # r => change'[q] = change[q]
    /\ w.after = {q \in UpdateReqs : pc[q] = "done"}
    /\ change'[r].optOut = IF w.choice = "out" /\ w.row \notin out THEN {w.row} ELSE {}
    /\ change'[r].optIn = IF w.choice = "in" /\ w.row \in out THEN {w.row} ELSE {}

Commits(r) ==
    /\ pc[r] \in {"import", "commit"} /\ UNCHANGED wish
    /\ out' = (out \cup change[r].optOut) \ change[r].optIn
    /\ \A q \in Requests : /\ pc'[q] = IF q = r THEN "done" ELSE pc[q]
                           /\ change'[q] = IF q = r THEN NoUpdate ELSE change[q]

RollsBack(r) ==
    /\ pc[r] \in {"import", "commit"} /\ UNCHANGED out
    /\ \A q \in Requests : /\ pc'[q] = IF q = r THEN "failed" ELSE pc[q]
                           /\ wish'[q] = IF q = r THEN {} ELSE wish[q]
                           /\ change'[q] = IF q = r THEN NoUpdate ELSE change[q]

ChoiceStep ==
    Aside \/ \E r \in Requests : Commits(r) \/ RollsBack(r) \/ \E w \in Wish : Loads(r, w)

LEMMA NextChoiceStep == TypeOK /\ [Next]_vars => ChoiceStep
<1> SUFFICES ASSUME TypeOK, [Next]_vars PROVE ChoiceStep
  OBVIOUS
<1> USE DEF Goto, table
<1>1. CASE UNCHANGED vars
  BY <1>1 DEF vars, ChoiceStep, Aside
<1>2. ASSUME NEW r \in Requests, NEW p \in Phones,
             create_customer(r, p) \/ find_or_create_by_phone(r, p)
      PROVE  ChoiceStep
  <2>1. pc[r] = "idle" /\ (Goto(r, "commit") \/ Goto(r, "failed"))
        /\ UNCHANGED <<out, change, wish>>
    BY <1>2 DEF create_customer, find_or_create_by_phone, Connect
  <2>2. Aside
    BY <2>1 DEF Aside, TypeOK
  <2> QED BY <2>2 DEF ChoiceStep
<1>3. ASSUME NEW r \in Requests, NEW list \in Lists, bulk_import_customers(r, list)
      PROVE  ChoiceStep
  BY <1>3 DEF bulk_import_customers, Connect, TypeOK, ChoiceStep, Aside
<1>4. ASSUME NEW r \in Requests, import_line(r) PROVE ChoiceStep
  <2>1. pc[r] = "import" /\ (UNCHANGED pc \/ Goto(r, "failed"))
        /\ UNCHANGED <<out, change, wish>>
    BY <1>4 DEF import_line
  <2>2. Aside
    BY <2>1 DEF Aside, TypeOK
  <2> QED BY <2>2 DEF ChoiceStep
<1>5. ASSUME NEW r \in Requests, NEW c \in Ids, NEW choice \in Payloads,
             update_customer(r, c, choice)
      PROVE  ChoiceStep
  <2>1. CASE c \notin customers
    <3>1. pc[r] = "idle" /\ Goto(r, "failed") /\ UNCHANGED <<out, change, wish>>
      BY <1>5, <2>1 DEF update_customer, Connect
    <3>2. Aside
      BY <3>1 DEF Aside, TypeOK
    <3> QED BY <3>2 DEF ChoiceStep
  <2>2. CASE c \in customers
    <3> DEFINE w == [row |-> c, choice |-> choice, after |-> {q \in UpdateReqs : pc[q] = "done"}]
               new == [optOut |-> IF choice = "out" /\ c \notin out THEN {c} ELSE {},
                       optIn |-> IF choice = "in" /\ c \in out THEN {c} ELSE {}]
    <3>1. r \in UpdateReqs /\ pc[r] = "idle" /\ Goto(r, "commit") /\ UNCHANGED out
          /\ change' = [change EXCEPT ![r] = new] /\ wish' = [wish EXCEPT ![r] = {w}]
      BY <1>5, <2>2 DEF update_customer, Connect, Wishes
    <3>2. w \in Wish
      BY <2>2 DEF Wish, TypeOK, Requests
    <3>3. w.row = c /\ w.choice = choice /\ w.after = {q \in UpdateReqs : pc[q] = "done"}
      OBVIOUS
    <3>4. new.optOut = (IF choice = "out" /\ c \notin out THEN {c} ELSE {})
          /\ new.optIn = (IF choice = "in" /\ c \in out THEN {c} ELSE {})
      OBVIOUS
    <3> HIDE DEF w, new
    <3>5. \A q \in Requests : /\ pc'[q] = IF q = r THEN "commit" ELSE pc[q]
                              /\ wish'[q] = IF q = r THEN {w} ELSE wish[q]
                              /\ change'[q] = IF q = r THEN new ELSE change[q]
      BY <3>1 DEF TypeOK
    <3>6. Loads(r, w)
      BY <3>1, <3>3, <3>4, <3>5 DEF Loads
    <3> QED BY <3>2, <3>6 DEF ChoiceStep
  <2> QED BY <2>1, <2>2
<1>6. ASSUME NEW r \in Requests, get_db_commit(r) PROVE ChoiceStep
  <2>1. Commits(r)
    BY <1>6 DEF get_db_commit, EndSession, Commits, TypeOK
  <2> QED BY <2>1 DEF ChoiceStep
<1>7. ASSUME NEW r \in Requests, get_db_rollback(r) PROVE ChoiceStep
  <2>1. RollsBack(r)
    BY <1>7 DEF get_db_rollback, EndSession, RollsBack, TypeOK, Active
  <2> QED BY <2>1 DEF ChoiceStep
<1> QED BY <1>1, <1>2, <1>3, <1>4, <1>5, <1>6, <1>7 DEF Next

\* Wishes keep to their requests.
LEMMA NextWishInv == ASSUME WishInv, ChoiceStep PROVE WishInv'
<1> SUFFICES ASSUME NEW q \in Requests PROVE WishOf(q)'
  BY DEF WishInv
<1> DEFINE over == {s \in UpdateReqs : pc[s] = "done"}
<1>0. WishOf(q) /\ NoUpdate.optOut = {} /\ NoUpdate.optIn = {}
  BY DEF WishInv, NoUpdate
<1>1. CASE Aside
  <2>1. over' = over
    BY <1>1 DEF Aside, Requests
  <2> QED BY <1>0, <1>1, <2>1 DEF Aside, WishOf
<1>2. ASSUME NEW r \in Requests, NEW w \in Wish, Loads(r, w) PROVE WishOf(q)'
  <2>1. over' = over
    BY <1>2 DEF Loads, Requests
  <2>2. CASE q = r
    <3>1. wish'[r] = {w} /\ w.after = over /\ pc'[r] # "done" /\ r \in UpdateReqs
      BY <1>2 DEF Loads
    <3>2. /\ \A c \in change'[r].optOut : w.row = c /\ w.choice = "out"
          /\ \A c \in change'[r].optIn : w.row = c /\ w.choice = "in"
      BY <1>2 DEF Loads
    <3> HIDE DEF over
    <3>3. /\ \A u, v \in wish'[r] : u = v
          /\ \A v \in wish'[r] : v.after \subseteq over'
      BY <2>1, <3>1
    <3> QED BY <2>2, <3>1, <3>2, <3>3 DEF WishOf, over
  <2>3. CASE q # r
    <3>1. wish'[q] = wish[q] /\ change'[q] = change[q] /\ pc'[q] = pc[q]
      BY <1>2, <2>3 DEF Loads
    <3> QED BY <1>0, <2>1, <3>1 DEF WishOf
  <2> QED BY <2>2, <2>3
<1>3. ASSUME NEW r \in Requests, Commits(r) PROVE WishOf(q)'
  <2>1. over \subseteq over'
    BY <1>3 DEF Commits, Requests
  <2>2. wish'[q] = wish[q] /\ (q = r \/ pc'[q] = pc[q])
        /\ change'[q] = IF q = r THEN NoUpdate ELSE change[q]
    BY <1>3 DEF Commits
  <2> QED BY <1>0, <2>1, <2>2 DEF WishOf
<1>4. ASSUME NEW r \in Requests, RollsBack(r) PROVE WishOf(q)'
  <2>1. over \subseteq over'
    BY <1>4 DEF RollsBack, Requests
  <2>2. CASE q = r
    <3>1. wish'[q] = {} /\ change'[q] = NoUpdate
      BY <1>4, <2>2 DEF RollsBack
    <3> QED BY <1>0, <3>1 DEF WishOf
  <2>3. CASE q # r
    <3>1. wish'[q] = wish[q] /\ change'[q] = change[q] /\ pc'[q] = pc[q]
      BY <1>4, <2>3 DEF RollsBack
    <3> QED BY <1>0, <2>1, <3>1 DEF WishOf
  <2> QED BY <2>2, <2>3
<1> QED BY <1>1, <1>2, <1>3, <1>4 DEF ChoiceStep

\* An opposite choice that has been committed stays so.
LEMMA UndoneStays ==
    ASSUME WishInv, ChoiceStep, NEW w, Undone(w)
    PROVE  Undone(w)'
<1>1. PICK q \in UpdateReqs \ w.after : pc[q] = "done" /\ \E v \in wish[q] :
          v.row = w.row /\ v.choice \notin {"other", w.choice}
  BY DEF Undone
<1>2. q \in Requests
  BY DEF Requests
<1>3. pc'[q] = "done" /\ wish'[q] = wish[q]
  BY <1>1, <1>2 DEF ChoiceStep, Aside, Loads, Commits, RollsBack
<1> QED BY <1>1, <1>3 DEF Undone

LEMMA NextSettledInv == ASSUME WishInv, SettledInv, ChoiceStep PROVE SettledInv'
<1> SUFFICES ASSUME NEW q \in Requests, pc'[q] # "failed", NEW w \in wish'[q]
             PROVE  Settled(q, w)'
  BY DEF SettledInv
<1>1. CASE Aside
  <2>1. pc[q] # "failed" /\ w \in wish[q] /\ UNCHANGED <<out, change>>
    BY <1>1 DEF Aside
  <2>2. Settled(q, w)
    BY <2>1 DEF SettledInv
  <2> QED BY <2>1, <2>2, UndoneStays DEF Settled, Pending
<1>2. ASSUME NEW r \in Requests, NEW x \in Wish, Loads(r, x) PROVE Settled(q, w)'
  <2>1. CASE q = r
    <3>1. w = x /\ UNCHANGED out /\ w.choice \in {"in", "out", "other"}
      BY <1>2, <2>1 DEF Loads, Wish, Payloads
    <3>2. /\ w.choice = "out" /\ w.row \notin out => w.row \in change'[q].optOut
          /\ w.choice = "in" /\ w.row \in out => w.row \in change'[q].optIn
      BY <1>2, <2>1, <3>1 DEF Loads
    <3> QED BY <3>1, <3>2 DEF Settled, Pending
  <2>2. CASE q # r
    <3>1. pc[q] # "failed" /\ w \in wish[q] /\ change'[q] = change[q] /\ UNCHANGED out
      BY <1>2, <2>2 DEF Loads
    <3>2. Settled(q, w)
      BY <3>1 DEF SettledInv
    <3> QED BY <3>1, <3>2, UndoneStays DEF Settled, Pending
  <2> QED BY <2>1, <2>2
<1>3. ASSUME NEW r \in Requests, Commits(r) PROVE Settled(q, w)'
  <2>1. pc[q] # "failed" /\ w \in wish[q] /\ Settled(q, w) /\ wish' = wish
    BY <1>3 DEF Commits, SettledInv
  <2>2. pc'[r] = "done" /\ pc[r] # "done" /\ WishOf(q) /\ WishOf(r)
    BY <1>3 DEF Commits, WishInv
  <2>3. out' = (out \cup change[r].optOut) \ change[r].optIn
    BY <1>3 DEF Commits
  \* r writes the row of w as q does not want it.
  <2>4. ASSUME w.choice # "other", NEW v \in wish[r], v.row = w.row,
               v.choice # "other", v.choice # w.choice
        PROVE  Undone(w)'
    <3>1. r \in UpdateReqs \ w.after
      BY <2>1, <2>2 DEF WishOf
    <3> QED BY <2>1, <2>2, <2>4, <3>1 DEF Undone
  <2>5. ASSUME w.choice # "other", (w.choice = "out") = (w.row \in out)
        PROVE  Settled(q, w)'
    <3>1. CASE (w.row \in out') = (w.row \in out)
      BY <2>5, <3>1 DEF Settled
    <3>2. CASE w.row \in out /\ w.row \notin out'
      <4>1. PICK v \in wish[r] : v.row = w.row /\ v.choice = "in"
        BY <2>2, <2>3, <3>2 DEF WishOf
      <4> QED BY <2>4, <2>5, <3>2, <4>1 DEF Settled
    <3>3. CASE w.row \notin out /\ w.row \in out'
      <4>1. PICK v \in wish[r] : v.row = w.row /\ v.choice = "out"
        BY <2>2, <2>3, <3>3 DEF WishOf
      <4> QED BY <2>4, <2>5, <3>3, <4>1 DEF Settled
    <3> QED BY <3>1, <3>2, <3>3
  <2>6. ASSUME Pending(q, w), q = r PROVE Settled(q, w)'
    <3>1. CASE w.choice = "out"
      <4>1. w.row \notin change[r].optIn
        BY <2>1, <2>2, <2>6, <3>1 DEF WishOf
      <4>2. w.row \in out'
        BY <2>3, <2>6, <3>1, <4>1 DEF Pending
      <4> QED BY <3>1, <4>2 DEF Settled
    <3>2. CASE w.choice = "in"
      <4>1. w.row \notin out'
        BY <2>3, <2>6, <3>2 DEF Pending
      <4> QED BY <3>2, <4>1 DEF Settled
    <3> QED BY <2>6, <3>1, <3>2 DEF Pending
  <2>7. ASSUME Pending(q, w), q # r PROVE Settled(q, w)'
    <3>1. change'[q] = change[q]
      BY <1>3, <2>7 DEF Commits
    <3> QED BY <2>7, <3>1 DEF Settled, Pending
  <2> QED BY <2>1, <2>5, <2>6, <2>7, UndoneStays DEF Settled
<1>4. ASSUME NEW r \in Requests, RollsBack(r) PROVE Settled(q, w)'
  <2>1. q # r /\ pc[q] # "failed" /\ w \in wish[q] /\ change'[q] = change[q] /\ UNCHANGED out
    BY <1>4 DEF RollsBack
  <2>2. Settled(q, w)
    BY <2>1 DEF SettledInv
  <2> QED BY <2>1, <2>2, UndoneStays DEF Settled, Pending
<1> QED BY <1>1, <1>2, <1>3, <1>4 DEF ChoiceStep

\* A choice that was answered stands, whatever updates of other columns, imports
\* and orders overlap with it: SettledInv follows it from the moment the row is
\* loaded.
THEOREM ChoicesStand == Spec => []ChoiceStands
<1>1. Init => TypeOK /\ WishInv /\ SettledInv
  <2> SUFFICES ASSUME Init PROVE WishInv /\ SettledInv
    BY InitType
  <2>1. \A r \in Requests : pc[r] = "idle" /\ wish[r] = {} /\ change[r] = NoUpdate
    BY DEF Init
  <2>2. NoUpdate.optOut = {} /\ NoUpdate.optIn = {}
    BY DEF NoUpdate
  <2> QED BY <2>1, <2>2 DEF WishInv, WishOf, SettledInv
<1>2. TypeOK /\ WishInv /\ SettledInv /\ [Next]_vars => (TypeOK /\ WishInv /\ SettledInv)'
  BY NextType, NextChoiceStep, NextWishInv, NextSettledInv
<1>3. WishInv /\ SettledInv => ChoiceStands
  <2> SUFFICES ASSUME WishInv, SettledInv, NEW r \in UpdateReqs, pc[r] = "done",
                      NEW w \in wish[r]
               PROVE  w.choice = "other" \/ (w.choice = "out") = (w.row \in out) \/ Undone(w)
    BY DEF ChoiceStands, Undone
  <2>1. r \in Requests
    BY DEF Requests
  <2>2. Settled(r, w) /\ change[r] = NoUpdate
    BY <2>1 DEF SettledInv, WishInv, WishOf
  <2> QED BY <2>2 DEF Settled, Pending, NoUpdate
<1> QED BY <1>1, <1>2, <1>3, PTL DEF Spec

-----------------------------------------------------------------------------
(* The customer book *)

\* Updates add no rows, and only an import goes through lines.
KindsInv ==
    \A r \in Requests : /\ added[r] # {} => r \notin UpdateReqs
                        /\ pc[r] = "import" => r \in ImportReqs

OwnedInv == KindsInv /\ NothingOfFailed

LEMMA NextOwned ==
    ASSUME TypeOK, SessionInv, OwnedInv, [Next]_vars
    PROVE  OwnedInv'
<1> USE DEF Goto, table
<1>1. \A q \in Requests : pc[q] = "done" => pc'[q] = "done"
  BY NextChoiceStep DEF ChoiceStep, Aside, Loads, Commits, RollsBack
<1>2. NothingOfFailed'
  <2>1. \A c \in customers : c.by \in Requests
    BY DEF TypeOK, Row
  <2>2. CASE UNCHANGED customers
    BY <1>1, <2>1, <2>2 DEF OwnedInv, NothingOfFailed
  <2>3. ASSUME NEW r \in Requests, get_db_commit(r) PROVE NothingOfFailed'
    <3>1. pc'[r] = "done" /\ customers' = customers \cup added[r]
      BY <2>3 DEF get_db_commit, TypeOK
    <3>2. \A c \in added[r] : c.by = r
      BY DEF SessionInv
    <3> QED BY <1>1, <2>1, <3>1, <3>2 DEF OwnedInv, NothingOfFailed
  <2> QED BY <2>2, <2>3 DEF Next, vars, create_customer, find_or_create_by_phone,
              bulk_import_customers, import_line, update_customer, get_db_rollback
<1>3. KindsInv'
  <2> USE KindsAssumption DEF OwnedInv, KindsInv
  <2>1. CASE UNCHANGED vars
    BY <2>1 DEF vars
  <2>2. ASSUME NEW r \in Requests, NEW p \in Phones,
               create_customer(r, p) \/ find_or_create_by_phone(r, p)
        PROVE  KindsInv'
    BY <2>2 DEF create_customer, find_or_create_by_phone, FindOrAdd, TypeOK
  <2>3. ASSUME NEW r \in Requests, NEW list \in Lists, bulk_import_customers(r, list)
        PROVE  KindsInv'
    BY <2>3 DEF bulk_import_customers, TypeOK
  <2>4. ASSUME NEW r \in Requests, import_line(r) PROVE KindsInv'
    BY <2>4 DEF import_line, FindOrAdd, TypeOK
  <2>5. ASSUME NEW r \in Requests, NEW c \in Ids, NEW choice \in Payloads,
               update_customer(r, c, choice)
        PROVE  KindsInv'
    BY <2>5 DEF update_customer, TypeOK
  <2>6. ASSUME NEW r \in Requests, get_db_commit(r) \/ get_db_rollback(r)
        PROVE  KindsInv'
    BY <2>6 DEF get_db_commit, get_db_rollback, EndSession, TypeOK
  <2> QED BY <2>1, <2>2, <2>3, <2>4, <2>5, <2>6 DEF Next
<1> QED BY <1>2, <1>3 DEF OwnedInv

\* The entries of a number are its rows, opted in or out; they fit the pool.
LEMMA EntriesType ==
    ASSUME TypeOK, HeldInv, NEW p \in Phones
    PROVE  /\ IsFiniteSet(With(customers \ out, p)) /\ IsFiniteSet(With(out, p))
           /\ Entries(p).in = Cardinality(With(customers \ out, p))
           /\ Entries(p).out = Cardinality(With(out, p))
           /\ Entries(p).in \in Nat /\ Entries(p).out \in Nat
           /\ Entries(p).in + Entries(p).out = Cardinality(With(customers, p))
           /\ IsFiniteSet(With(customers, p))
<1>1. IsFiniteSet(Held(p)) /\ With(customers, p) \in SUBSET Held(p)
  BY DEF HeldInv, Held, With
<1>2. IsFiniteSet(With(customers, p))
  BY <1>1, FS_Subset
<1>3. /\ With(customers \ out, p) \in SUBSET With(customers, p)
      /\ With(out, p) \in SUBSET With(customers, p)
      /\ With(customers, p) = With(customers \ out, p) \cup With(out, p)
      /\ With(customers \ out, p) \cap With(out, p) = {}
  BY DEF With, TypeOK
<1>4. IsFiniteSet(With(customers \ out, p)) /\ IsFiniteSet(With(out, p))
  BY <1>2, <1>3, FS_Subset
<1>5. Cardinality(With(customers, p)) =
         Cardinality(With(customers \ out, p)) + Cardinality(With(out, p)) - 0
  BY <1>3, <1>4, FS_Union, FS_EmptySet
<1>6. /\ Cardinality(With(customers \ out, p)) \in Nat /\ Cardinality(With(out, p)) \in Nat
  BY <1>4, FS_CardinalityType
<1> QED BY <1>2, <1>4, <1>5, <1>6 DEF Entries

\* The rows one session commits are an entry for each of some numbers, and they
\* still fit the pool.
LEMMA CommitAdds ==
    ASSUME TypeOK, SessionInv, HeldInv, HeldInv', OwnedInv,
           NEW r \in Requests, get_db_commit(r), out' = out, added[r] # {}
    PROVE  Book!Add({c.phone : c \in added[r]})
<1> DEFINE new == {c.phone : c \in added[r]}
<1>1. customers' = customers \cup added[r] /\ r \in Active /\ added[r] \subseteq Row
  BY DEF get_db_commit, SessionInv
<1>2. added[r] \cap customers = {}
  BY <1>1 DEF SessionInv, OwnedInv, NothingOfFailed, Active
<1>3. ASSUME NEW p \in new
      PROVE  /\ p \in Phones /\ Entries(p).in + Entries(p).out < PoolSize
             /\ Entries(p)' = [Entries(p) EXCEPT !.in = @ + 1]
  <2>1. PICK c \in added[r] : c.phone = p
    OBVIOUS
  <2>2. \A d \in added[r] : d.phone = p => d = c
    BY <2>1 DEF SessionInv
  <2>3. p \in Phones /\ c \notin customers /\ c \notin out
    BY <1>1, <1>2, <2>1 DEF Row, TypeOK
  <2>4. /\ With(customers', p) = With(customers, p) \cup {c}
        /\ With(customers' \ out, p) = With(customers \ out, p) \cup {c}
        /\ c \notin With(customers, p) /\ c \notin With(customers \ out, p)
    BY <1>1, <2>1, <2>2, <2>3 DEF With
  <2>5. /\ IsFiniteSet(With(customers \ out, p)) /\ IsFiniteSet(With(customers, p))
        /\ Entries(p).in + Entries(p).out = Cardinality(With(customers, p))
    BY <2>3, EntriesType
  <2>6. /\ Cardinality(With(customers', p)) = Cardinality(With(customers, p)) + 1
        /\ Cardinality(With(customers' \ out, p)) = Cardinality(With(customers \ out, p)) + 1
        /\ Cardinality(With(customers, p)) \in Nat
    BY <2>4, <2>5, FS_AddElement, FS_CardinalityType
  <2>7. Cardinality(With(customers', p)) <= PoolSize
    <3>1. With(customers', p) \in SUBSET Held(p)'
      BY DEF Held, With
    <3>2. IsFiniteSet(Held(p)') /\ Cardinality(Held(p)') <= PoolSize
      BY <2>3 DEF HeldInv
    <3>3. Cardinality(With(customers', p)) <= Cardinality(Held(p)')
      BY <3>1, <3>2, FS_Subset
    <3> QED BY <2>6, <3>2, <3>3, FS_CardinalityType, PoolAssumption
  <2>8. Entries(p)' = [Entries(p) EXCEPT !.in = @ + 1]
    BY <2>6 DEF Entries
  <2> QED BY <2>3, <2>5, <2>6, <2>7, <2>8, PoolAssumption
<1>4. ASSUME NEW p \in Phones \ new PROVE Entries(p)' = Entries(p)
  <2>1. /\ With(customers', p) = With(customers, p)
        /\ With(customers' \ out, p) = With(customers \ out, p)
    BY <1>1 DEF With
  <2> QED BY <2>1 DEF Entries
<1>5. new # {}
  OBVIOUS
<1> HIDE DEF new
<1>6. \A p \in new : [q \in Phones |-> Entries(q)][p] = Entries(p)
  BY <1>3
<1>7. [p \in Phones |-> Entries(p)]' =
         [p \in Phones |-> IF p \in new THEN [[q \in Phones |-> Entries(q)][p] EXCEPT !.in = @ + 1]
                                        ELSE [q \in Phones |-> Entries(q)][p]]
  BY <1>3, <1>4
<1>8. Book!Add(new)
  BY <1>3, <1>5, <1>6, <1>7 DEF Book!Add
<1> QED BY <1>8 DEF new

\* Moving an element from one finite set to another.
LEMMA MoveOne ==
    ASSUME NEW A, NEW B, IsFiniteSet(A), IsFiniteSet(B), NEW c \in A, c \notin B
    PROVE  /\ Cardinality(A \ {c}) = Cardinality(A) - 1 /\ Cardinality(A) # 0
           /\ Cardinality(B \cup {c}) = Cardinality(B) + 1
  BY FS_AddElement, FS_RemoveElement, FS_EmptySet

\* One row that leaves those opted in, or joins them.
LEMMA CommitChooses ==
    ASSUME TypeOK, HeldInv, NEW c \in customers, UNCHANGED customers,
           \/ out' = out \cup {c}
           \/ out' = out \ {c}
    PROVE  \/ \A p \in Phones : Entries(p)' = Entries(p)
           \/ Book!OptOut(c.phone)
           \/ Book!OptIn(c.phone)
<1> DEFINE p == c.phone
           book == [q \in Phones |-> Entries(q)]
<1>1. p \in Phones
  BY DEF TypeOK, Row
<1>2. CASE out' = out
  BY <1>2 DEF Entries
<1>3. \A q \in Phones \ {p} : Entries(q)' = Entries(q)
  <2> SUFFICES ASSUME NEW q \in Phones \ {p} PROVE Entries(q)' = Entries(q)
    OBVIOUS
  <2>1. With(out', q) = With(out, q) /\ With(customers \ out', q) = With(customers \ out, q)
    BY DEF With
  <2> QED BY <2>1 DEF Entries
<1>4. /\ IsFiniteSet(With(customers \ out, p)) /\ IsFiniteSet(With(out, p))
      /\ Entries(p).in = Cardinality(With(customers \ out, p))
      /\ Entries(p).out = Cardinality(With(out, p))
      /\ Entries(p).in \in Nat /\ Entries(p).out \in Nat
  BY <1>1, EntriesType
<1>5. book[p] = Entries(p) /\ DOMAIN book = Phones
  BY <1>1
<1>6. CASE out' = out \cup {c} /\ c \notin out
  <2>1. /\ With(out', p) = With(out, p) \cup {c} /\ c \notin With(out, p)
        /\ With(customers \ out', p) = With(customers \ out, p) \ {c}
        /\ c \in With(customers \ out, p)
    BY <1>6 DEF With
  <2> HIDE DEF p
  <2>2. /\ Cardinality(With(out', p)) = Cardinality(With(out, p)) + 1
        /\ Cardinality(With(customers \ out', p)) = Cardinality(With(customers \ out, p)) - 1
        /\ Cardinality(With(customers \ out, p)) # 0
    <3> DEFINE A == With(customers \ out, p)
               B == With(out, p)
    <3>1. IsFiniteSet(A) /\ IsFiniteSet(B) /\ c \in A /\ c \notin B
      BY <1>4, <2>1
    <3> HIDE DEF A, B
    <3>2. /\ Cardinality(A \ {c}) = Cardinality(A) - 1 /\ Cardinality(A) # 0
          /\ Cardinality(B \cup {c}) = Cardinality(B) + 1
      BY <3>1, MoveOne
    <3> QED BY <2>1, <3>2 DEF A, B
  <2>3. Entries(p)' = [in |-> Entries(p).in - 1, out |-> Entries(p).out + 1]
    BY <2>2, <1>4 DEF Entries
  <2>4. book' = [book EXCEPT ![p] = [in |-> @.in - 1, out |-> @.out + 1]]
    BY <1>1, <1>3, <2>3
  <2>5. Entries(p).in > 0
    BY <1>4, <2>2
  <2> QED BY <1>5, <2>4, <2>5 DEF Book!OptOut, p
<1>7. CASE out' = out \ {c} /\ c \in out
  <2>1. /\ With(out', p) = With(out, p) \ {c} /\ c \in With(out, p)
        /\ With(customers \ out', p) = With(customers \ out, p) \cup {c}
        /\ c \notin With(customers \ out, p)
    BY <1>7 DEF With
  <2> HIDE DEF p
  <2>2. /\ Cardinality(With(out', p)) = Cardinality(With(out, p)) - 1
        /\ Cardinality(With(customers \ out', p)) = Cardinality(With(customers \ out, p)) + 1
        /\ Cardinality(With(out, p)) # 0
    <3> DEFINE A == With(out, p)
               B == With(customers \ out, p)
    <3>1. IsFiniteSet(A) /\ IsFiniteSet(B) /\ c \in A /\ c \notin B
      BY <1>4, <2>1
    <3> HIDE DEF A, B
    <3>2. /\ Cardinality(A \ {c}) = Cardinality(A) - 1 /\ Cardinality(A) # 0
          /\ Cardinality(B \cup {c}) = Cardinality(B) + 1
      BY <3>1, MoveOne
    <3> QED BY <2>1, <3>2 DEF A, B
  <2>3. Entries(p)' = [in |-> Entries(p).in + 1, out |-> Entries(p).out - 1]
    BY <2>2, <1>4 DEF Entries
  <2>4. book' = [book EXCEPT ![p] = [in |-> @.in + 1, out |-> @.out - 1]]
    BY <1>1, <1>3, <2>3
  <2>5. Entries(p).out > 0
    BY <1>4, <2>2
  <2> QED BY <1>5, <2>4, <2>5 DEF Book!OptIn, p
<1>8. out' = out \/ (out' = out \cup {c} /\ c \notin out) \/ (out' = out \ {c} /\ c \in out)
  OBVIOUS
<1> QED BY <1>2, <1>6, <1>7, <1>8

\* A commit adds the rows of the session, or writes one choice, or neither.
LEMMA CommitIsBookStep ==
    ASSUME TypeOK, SessionInv, HeldInv, HeldInv', WishInv, OwnedInv,
           NEW r \in Requests, get_db_commit(r)
    PROVE  Book!Next \/ \A p \in Phones : Entries(p)' = Entries(p)
<1>1. /\ customers' = customers \cup added[r]
      /\ out' = (out \cup change[r].optOut) \ change[r].optIn
      /\ change[r].optOut \subseteq customers /\ change[r].optIn \subseteq customers
  BY DEF get_db_commit, TypeOK
<1>2. WishOf(r)
  BY DEF WishInv
<1>3. CASE added[r] # {}
  <2>1. r \notin UpdateReqs
    BY <1>3 DEF OwnedInv, KindsInv
  <2>2. change[r].optOut = {} /\ change[r].optIn = {}
    BY <1>2, <2>1 DEF WishOf
  <2>3. Book!Add({c.phone : c \in added[r]})
    BY <1>1, <1>3, <2>2, CommitAdds
  <2>4. {c.phone : c \in added[r]} \in SUBSET Phones
    BY DEF TypeOK, Row
  <2> QED BY <2>3, <2>4 DEF Book!Next
<1>4. CASE added[r] = {} /\ change[r].optOut = {} /\ change[r].optIn = {}
  BY <1>1, <1>4 DEF Entries
<1>5. ASSUME added[r] = {}, NEW c \in change[r].optOut \cup change[r].optIn
      PROVE  Book!Next \/ \A p \in Phones : Entries(p)' = Entries(p)
  <2>1. \/ change[r].optOut = {c} /\ change[r].optIn = {}
        \/ change[r].optOut = {} /\ change[r].optIn = {c}
    <3>1. PICK w \in wish[r] : w.row = c
      BY <1>2, <1>5 DEF WishOf
    <3>2. \A v \in wish[r] : v = w
      BY <1>2 DEF WishOf
    <3>3. /\ \A d \in change[r].optOut : d = c /\ w.choice = "out"
          /\ \A d \in change[r].optIn : d = c /\ w.choice = "in"
      BY <1>2, <3>1, <3>2 DEF WishOf
    <3> QED BY <1>5, <3>3
  <2>2. c \in customers /\ customers' = customers
    BY <1>1, <1>5
  <2>3. out' = out \cup {c} \/ out' = out \ {c}
    BY <1>1, <2>1
  <2>4. c.phone \in Phones
    BY <2>2 DEF TypeOK, Row
  <2> QED BY <2>2, <2>3, <2>4, CommitChooses DEF Book!Next
<1> QED BY <1>3, <1>4, <1>5

BookInv == TypeOK /\ SessionInv /\ HeldInv /\ WishInv /\ OwnedInv

LEMMA InitBook == Init => BookInv /\ Book!Init
<1> SUFFICES ASSUME Init PROVE BookInv /\ Book!Init
  OBVIOUS
<1>1. WishInv
  <2>1. \A r \in Requests : pc[r] = "idle" /\ wish[r] = {} /\ change[r] = NoUpdate
    BY DEF Init
  <2>2. NoUpdate.optOut = {} /\ NoUpdate.optIn = {}
    BY DEF NoUpdate
  <2> QED BY <2>1, <2>2 DEF WishInv, WishOf
<1>2. OwnedInv
  BY DEF Init, OwnedInv, KindsInv, NothingOfFailed
<1>3. \A p \in Phones : Entries(p) = [in |-> 0, out |-> 0]
  <2>1. \A p \in Phones : With(customers \ out, p) = {} /\ With(out, p) = {}
    BY DEF Init, With
  <2> QED BY <2>1, FS_EmptySet DEF Entries
<1> QED BY <1>1, <1>2, <1>3, InitType, InitHeldInv DEF BookInv, Book!Init

LEMMA NextBook ==
    BookInv /\ [Next]_vars => BookInv' /\ [Book!Next]_[p \in Phones |-> Entries(p)]
<1> SUFFICES ASSUME BookInv, [Next]_vars
             PROVE  BookInv' /\ (Book!Next \/ \A p \in Phones : Entries(p)' = Entries(p))
  OBVIOUS
<1> USE DEF BookInv
<1>1. BookInv'
  <2>1. TypeOK' /\ RowStep /\ ChoiceStep
    BY NextType, NextRowStep, NextChoiceStep
  <2>2. SessionInv' /\ WishInv' /\ OwnedInv'
    BY <2>1, NextSessionInv, NextWishInv, NextOwned
  <2>3. HeldInv'
    BY <2>1, <2>2, NextHeldInv
  <2> QED BY <2>1, <2>2, <2>3
<1>2. ASSUME UNCHANGED table PROVE \A p \in Phones : Entries(p)' = Entries(p)
  BY <1>2 DEF table, Entries
<1>3. ASSUME NEW r \in Requests, get_db_commit(r)
      PROVE  Book!Next \/ \A p \in Phones : Entries(p)' = Entries(p)
  BY <1>1, <1>3, CommitIsBookStep
<1> QED BY <1>1, <1>2, <1>3
        DEF Next, vars, create_customer, find_or_create_by_phone, bulk_import_customers,
            import_line, update_customer, get_db_rollback

\* Whatever fails, an import at its hundredth line or a commit, leaves no row: only
\* the commit adds rows to the table, and the requests whose rows it adds are over.
THEOREM NothingPartial == Spec => []NothingOfFailed
<1>1. Init => BookInv
  BY InitBook
<1>2. BookInv /\ [Next]_vars => BookInv'
  BY NextBook
<1>3. BookInv => NothingOfFailed
  BY DEF BookInv, OwnedInv
<1> QED BY <1>1, <1>2, <1>3, PTL DEF Spec

\* Overlapping requests implement the customer book for any number of connections:
\* each commit is one of its steps or changes no entry, entries are never removed,
\* and a number has at most as many as there are connections (one, with a single
\* connection: models/customer.py:45).
THEOREM ImplementsBook == Spec => BookSpec
  BY InitBook, NextBook, PTL DEF Spec, BookSpec, Book!Spec

=============================================================================
