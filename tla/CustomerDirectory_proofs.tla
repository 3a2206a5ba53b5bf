----------------------- MODULE CustomerDirectory_proofs -----------------------
(***************************************************************************)
(* How far the check-then-insert of phone numbers can go wrong, for any    *)
(* number of requests, phone numbers, import payloads and connections.     *)
(***************************************************************************)
EXTENDS CustomerDirectory, FiniteSetTheorems, TLAPS

(* Types *)

\* Adding a row for a number keeps the sessions' columns typed.
LEMMA FindOrAddType ==
    ASSUME TypeOK, NEW r \in Requests, NEW p \in Phones, NEW n \in Nat, FindOrAdd(r, p, n)
    PROVE  /\ added' \in [Requests -> SUBSET Row]
           /\ asked' \in [Requests -> SUBSET Phones]
<1>1. [by |-> r, left |-> n, phone |-> p] \in Row
  BY DEF Row
<1> QED BY <1>1 DEF TypeOK, FindOrAdd

LEMMA NextType == TypeOK /\ [Next]_vars => TypeOK'
<1> SUFFICES ASSUME TypeOK, [Next]_vars PROVE TypeOK'
  OBVIOUS
<1> USE DEF Goto, table
<1>1. CASE UNCHANGED vars
  BY <1>1 DEF vars, TypeOK
<1>2. ASSUME NEW r \in Requests, NEW p \in Phones,
             create_customer(r, p) \/ find_or_create_by_phone(r, p)
      PROVE  TypeOK'
  <2>1. CASE FindOrAdd(r, p, 0)
    <3>1. added' \in [Requests -> SUBSET Row] /\ asked' \in [Requests -> SUBSET Phones]
      BY <2>1, FindOrAddType
    <3> QED BY <1>2, <3>1 DEF create_customer, find_or_create_by_phone, TypeOK
  <2>2. CASE UNCHANGED <<added, asked>>
    BY <1>2, <2>2 DEF create_customer, find_or_create_by_phone, TypeOK
  <2> QED BY <1>2, <2>1, <2>2 DEF create_customer, find_or_create_by_phone
<1>3. ASSUME NEW r \in Requests, NEW list \in Lists, bulk_import_customers(r, list)
      PROVE  TypeOK'
  BY <1>3, ListsAssumption DEF bulk_import_customers, TypeOK
<1>4. ASSUME NEW r \in Requests, import_line(r) PROVE TypeOK'
  <2>1. rest[r] \in Seq(Phones) /\ rest[r] # <<>>
    BY <1>4 DEF TypeOK, import_line
  <2>2. Head(rest[r]) \in Phones /\ Len(rest[r]) \in Nat /\ Tail(rest[r]) \in Seq(Phones)
    BY <2>1
  <2>3. <<>> \in Seq(Phones)
    OBVIOUS
  <2>4. CASE FindOrAdd(r, Head(rest[r]), Len(rest[r]))
    <3>1. added' \in [Requests -> SUBSET Row] /\ asked' \in [Requests -> SUBSET Phones]
      BY <2>2, <2>4, FindOrAddType
    <3>2. rest' \in [Requests -> Seq(Phones)]
      BY <1>4, <2>2, <2>3 DEF import_line, TypeOK
    <3> QED BY <1>4, <3>1, <3>2 DEF import_line, TypeOK
  <2>5. CASE Goto(r, "failed") /\ rest' = [rest EXCEPT ![r] = <<>>]
             /\ added' = [added EXCEPT ![r] = {}] /\ asked' = [asked EXCEPT ![r] = {}]
    BY <1>4, <2>3, <2>5 DEF import_line, TypeOK
  <2> QED BY <1>4, <2>4, <2>5 DEF import_line
<1>5. ASSUME NEW r \in Requests, NEW c \in Ids, NEW choice \in Payloads,
             update_customer(r, c, choice)
      PROVE  TypeOK'
  <2>1. change' \in [Requests -> [optOut : SUBSET customers, optIn : SUBSET customers]]
    <3> DEFINE w == [optOut |-> IF choice = "out" /\ c \notin out THEN {c} ELSE {},
                    optIn |-> IF choice = "in" /\ c \in out THEN {c} ELSE {}]
               W == [optOut : SUBSET customers, optIn : SUBSET customers]
    <3>1. change' = change \/ (c \in customers /\ change' = [change EXCEPT ![r] = w])
      BY <1>5 DEF update_customer
    <3>2. c \in customers => w \in W
      OBVIOUS
    <3>3. change \in [Requests -> W]
      BY DEF TypeOK
    <3> HIDE DEF w, W
    <3>4. change' \in [Requests -> W]
      BY <3>1, <3>2, <3>3
    <3> QED BY <3>4 DEF W
  <2>2. wish' \in [Requests -> SUBSET Wish]
    <3> DEFINE w == [row |-> c, choice |-> choice, after |-> {q \in UpdateReqs : pc[q] = "done"}]
    <3>1. wish' = wish \/ (c \in customers /\ wish' = [wish EXCEPT ![r] = {w}])
      BY <1>5 DEF update_customer, Wishes
    <3>2. c \in customers => w \in Wish
      BY DEF Wish, TypeOK, Requests
    <3>3. wish \in [Requests -> SUBSET Wish]
      BY DEF TypeOK
    <3>4. c \in customers => {w} \in SUBSET Wish
      BY <3>2
    <3> HIDE DEF w
    <3> QED BY <3>1, <3>3, <3>4
  <2> QED BY <1>5, <2>1, <2>2 DEF update_customer, TypeOK
<1>6. ASSUME NEW r \in Requests, EndSession(r), pc' = [pc EXCEPT ![r] = "done"]
                                                 \/ pc' = [pc EXCEPT ![r] = "failed"],
             asked' \in [Requests -> SUBSET Phones],
             wish' \in [Requests -> SUBSET Wish],
             customers \subseteq customers', customers' \subseteq Row,
             out' \subseteq customers'
      PROVE  TypeOK'
  <2>1. rest' \in [Requests -> Seq(Phones)]
    BY <1>6 DEF EndSession, TypeOK
  <2>2. NoUpdate \in [optOut : SUBSET customers', optIn : SUBSET customers']
    BY DEF NoUpdate
  <2>3. change' \in [Requests -> [optOut : SUBSET customers', optIn : SUBSET customers']]
    <3>1. \A q \in Requests : change[q] \in [optOut : SUBSET customers', optIn : SUBSET customers']
      BY <1>6 DEF TypeOK
    <3>2. change' = [change EXCEPT ![r] = NoUpdate]
      BY <1>6 DEF EndSession
    <3> HIDE DEF NoUpdate
    <3> QED BY <2>2, <3>1, <3>2 DEF TypeOK
  <2> QED BY <1>6, <2>1, <2>3 DEF EndSession, TypeOK
<1>7. ASSUME NEW r \in Requests, get_db_commit(r) PROVE TypeOK'
  <2>1. added[r] \subseteq Row /\ change[r].optOut \subseteq customers
    BY DEF TypeOK
  <2>2. EndSession(r) /\ pc' = [pc EXCEPT ![r] = "done"] /\ asked' = asked
        /\ wish' = wish /\ customers' = customers \cup added[r]
        /\ out' = (out \cup change[r].optOut) \ change[r].optIn
    BY <1>7 DEF get_db_commit
  <2>3. customers \subseteq Row /\ out \subseteq customers /\ asked \in [Requests -> SUBSET Phones]
        /\ wish \in [Requests -> SUBSET Wish]
    BY DEF TypeOK
  <2>4. customers \subseteq customers' /\ customers' \subseteq Row /\ out' \subseteq customers'
    BY <2>1, <2>2, <2>3
  <2> QED BY <1>6, <2>2, <2>3, <2>4
<1>8. ASSUME NEW r \in Requests, get_db_rollback(r) PROVE TypeOK'
  <2>1. asked' \in [Requests -> SUBSET Phones] /\ wish' \in [Requests -> SUBSET Wish]
    BY <1>8 DEF get_db_rollback, TypeOK
  <2> QED BY <1>6, <1>8, <2>1 DEF get_db_rollback, TypeOK
<1> QED BY <1>1, <1>2, <1>3, <1>4, <1>5, <1>7, <1>8 DEF Next

LEMMA InitType == Init => TypeOK
<1> SUFFICES ASSUME Init PROVE TypeOK
  OBVIOUS
<1>1. rest \in [Requests -> Seq(Phones)]
  BY DEF Init
<1>2. change \in [Requests -> [optOut : SUBSET customers, optIn : SUBSET customers]]
  BY DEF Init, NoUpdate
<1> QED BY <1>1, <1>2 DEF Init, TypeOK

\* Rows, payloads and pending writes are well-typed for every payload and any
\* number of requests.
THEOREM TypeCorrect == Spec => []TypeOK
  BY InitType, NextType, PTL DEF Spec

-----------------------------------------------------------------------------
(* Duplicates *)

\* The rows of a number that exist or that some session has added.
Held(p) == With(customers \cup UNION {added[r] : r \in Requests}, p)

\* The sessions fit the pool, and only they have added rows: their own, at most
\* one for a number.
SessionInv ==
    /\ pc \in [Requests -> {"idle", "import", "commit", "done", "failed"}]
    /\ added \in [Requests -> SUBSET Row]
    /\ IsFiniteSet(Active) /\ Cardinality(Active) <= PoolSize
    /\ \A r \in Requests : added[r] # {} => r \in Active
    /\ \A r \in Requests : \A c \in added[r] : c.by = r
    /\ \A r \in Requests : \A c, d \in added[r] : c.phone = d.phone => c = d

\* Rows that exist and rows yet to be committed count together: after the first
\* commit of a number nobody adds another, but those under way still land.
HeldInv ==
    \A p \in Phones : IsFiniteSet(Held(p)) /\ Cardinality(Held(p)) <= PoolSize

\* A session opens, goes on, or adds one row for a number it has not found.
Adds(r) ==
    /\ r \in Active' /\ Active' = Active \cup {r}
    /\ r \in Active \/ Cardinality(Active) < PoolSize
    /\ UNCHANGED customers
    /\ \/ UNCHANGED added
       \/ \E c \in Row : /\ c.by = r /\ Found(r, c.phone) = {}
                         /\ added' = [added EXCEPT ![r] = @ \cup {c}]

\* A session ends, with a commit of what it has added or with nothing.
Ends(r) ==
    /\ Active' = Active \ {r}
    /\ added' = [added EXCEPT ![r] = {}]
    /\ customers' = customers \/ customers' = customers \cup added[r]

\* What a step can do to the rows.
RowStep ==
    /\ pc' \in [Requests -> {"idle", "import", "commit", "done", "failed"}]
    /\ \/ Active' = Active /\ UNCHANGED <<customers, added>>
       \/ \E r \in Requests : Adds(r) \/ Ends(r)

-----------------------------------------------------------------------------
LEMMA NextRowStep == TypeOK /\ SessionInv /\ [Next]_vars => RowStep
<1> SUFFICES ASSUME TypeOK, SessionInv, [Next]_vars PROVE RowStep
  OBVIOUS
<1> USE DEF SessionInv, Goto, table
<1>1. CASE UNCHANGED vars
  BY <1>1 DEF vars, RowStep, Active
<1>2. ASSUME NEW r \in Requests, NEW p \in Phones,
             create_customer(r, p) \/ find_or_create_by_phone(r, p)
      PROVE  RowStep
  <2>1. pc[r] = "idle" /\ r \notin Active /\ added[r] = {} /\ Cardinality(Active) < PoolSize
    BY <1>2 DEF create_customer, find_or_create_by_phone, Connect, Active
  <2>2. CASE Goto(r, "failed") /\ UNCHANGED <<customers, added>>
    BY <2>1, <2>2 DEF RowStep, Active
  <2>3. CASE Goto(r, "commit") /\ FindOrAdd(r, p, 0) /\ UNCHANGED customers
    <3>1. pc' \in [Requests -> {"idle", "import", "commit", "done", "failed"}]
      BY <2>3
    <3>2. Active' = Active \cup {r}
      BY <2>3 DEF Active
    <3> DEFINE c == [by |-> r, left |-> 0, phone |-> p]
    <3>3. c \in Row /\ c.by = r /\ c.phone = p
      BY DEF Row
    <3>4. UNCHANGED added \/ (Found(r, p) = {} /\ added' = [added EXCEPT ![r] = @ \cup {c}])
      BY <2>3 DEF FindOrAdd
    <3> HIDE DEF c
    <3>5. Adds(r)
      BY <2>1, <2>3, <3>2, <3>3, <3>4 DEF Adds
    <3> QED BY <3>1, <3>5 DEF RowStep
  <2> QED BY <1>2, <2>2, <2>3 DEF create_customer, find_or_create_by_phone
<1>3. ASSUME NEW r \in Requests, NEW list \in Lists, bulk_import_customers(r, list)
      PROVE  RowStep
  <2>1. r \notin Active /\ Cardinality(Active) < PoolSize /\ Goto(r, "import")
        /\ UNCHANGED <<customers, added>>
    BY <1>3 DEF bulk_import_customers, Connect, Active
  <2>2. Active' = Active \cup {r}
    BY <2>1 DEF Active
  <2> QED BY <2>1, <2>2 DEF RowStep, Adds
<1>4. ASSUME NEW r \in Requests, import_line(r)
      PROVE  RowStep
  <2>0. rest[r] \in Seq(Phones) /\ rest[r] # <<>>
    BY <1>4 DEF TypeOK, import_line
  <2> DEFINE p == Head(rest[r])
             n == Len(rest[r])
             c == [by |-> r, left |-> n, phone |-> p]
  <2>1. pc[r] = "import" /\ r \in Active
    BY <1>4 DEF import_line, Active
  <2>2. c \in Row /\ c.by = r /\ c.phone = p
    BY <2>0 DEF Row
  <2>3. CASE FindOrAdd(r, p, n) /\ UNCHANGED <<customers, pc>>
    <3>1. UNCHANGED added \/ (Found(r, p) = {} /\ added' = [added EXCEPT ![r] = @ \cup {c}])
      BY <2>3 DEF FindOrAdd
    <3>2. Active' = Active \cup {r}
      BY <2>1, <2>3 DEF Active
    <3> HIDE DEF c, p, n
    <3>3. Adds(r)
      BY <2>1, <2>2, <2>3, <3>1, <3>2 DEF Adds
    <3> QED BY <2>3, <3>3 DEF RowStep
  <2>4. CASE Goto(r, "failed") /\ added' = [added EXCEPT ![r] = {}] /\ UNCHANGED customers
    BY <2>1, <2>4 DEF RowStep, Ends, Active
  <2> QED BY <1>4, <2>3, <2>4 DEF import_line
<1>5. ASSUME NEW r \in Requests, NEW c \in Ids, NEW choice \in Payloads,
             update_customer(r, c, choice)
      PROVE  RowStep
  <2>1. r \notin Active /\ Cardinality(Active) < PoolSize /\ pc[r] = "idle"
        /\ UNCHANGED <<customers, added>> /\ (Goto(r, "commit") \/ Goto(r, "failed"))
    BY <1>5 DEF update_customer, Connect, Active
  <2>2. CASE Goto(r, "commit")
    <3>1. Active' = Active \cup {r}
      BY <2>2 DEF Active
    <3> QED BY <2>1, <2>2, <3>1 DEF RowStep, Adds
  <2>3. CASE Goto(r, "failed")
    BY <2>1, <2>3 DEF RowStep, Active
  <2> QED BY <2>1, <2>2, <2>3
<1>6. ASSUME NEW r \in Requests, get_db_commit(r) PROVE RowStep
  <2>1. Goto(r, "done") /\ added' = [added EXCEPT ![r] = {}]
        /\ customers' = customers \cup added[r]
    BY <1>6 DEF get_db_commit, EndSession
  <2>2. Active' = Active \ {r}
    BY <2>1 DEF Active
  <2> QED BY <2>1, <2>2 DEF RowStep, Ends
<1>7. ASSUME NEW r \in Requests, get_db_rollback(r) PROVE RowStep
  <2>1. Goto(r, "failed") /\ added' = [added EXCEPT ![r] = {}] /\ customers' = customers
    BY <1>7 DEF get_db_rollback, EndSession
  <2>2. Active' = Active \ {r}
    BY <2>1 DEF Active
  <2> QED BY <2>1, <2>2 DEF RowStep, Ends
<1> QED BY <1>1, <1>2, <1>3, <1>4, <1>5, <1>6, <1>7 DEF Next

-----------------------------------------------------------------------------
\* The session invariant survives what a step can do to the rows.
LEMMA NextSessionInv ==
    ASSUME SessionInv, RowStep
    PROVE  SessionInv'
<1> USE DEF SessionInv
<1>1. CASE Active' = Active /\ UNCHANGED <<customers, added>>
  BY <1>1 DEF RowStep
<1>2. ASSUME NEW r \in Requests, Adds(r) PROVE SessionInv'
  <2>1. IsFiniteSet(Active') /\ Cardinality(Active') <= PoolSize
    <3>1. CASE r \in Active
      <4>1. Active' = Active
        BY <1>2, <3>1 DEF Adds
      <4> QED BY <4>1
    <3>2. CASE r \notin Active
      <4>1. Cardinality(Active) \in Nat /\ Cardinality(Active) < PoolSize
        BY <1>2, <3>2, FS_CardinalityType DEF Adds
      <4>2. IsFiniteSet(Active \cup {r}) /\ Cardinality(Active \cup {r}) = Cardinality(Active) + 1
        BY <3>2, FS_AddElement
      <4>3. Active' = Active \cup {r}
        BY <1>2 DEF Adds
      <4> QED BY <4>1, <4>2, <4>3, PoolAssumption
    <3> QED BY <3>1, <3>2
  <2>2. r \in Active' /\ Active \subseteq Active'
    BY <1>2 DEF Adds
  <2>3. CASE UNCHANGED added
    BY <2>1, <2>2, <2>3 DEF RowStep
  <2>4. ASSUME NEW c \in Row, c.by = r, Found(r, c.phone) = {},
               added' = [added EXCEPT ![r] = @ \cup {c}]
        PROVE  SessionInv'
    <3>1. \A d \in added[r] : d.phone # c.phone
      BY <2>4 DEF Found, With
    <3>2. added' \in [Requests -> SUBSET Row]
      BY <2>4
    <3>3. \A q \in Requests : added'[q] = IF q = r THEN added[r] \cup {c} ELSE added[q]
      BY <2>4
    <3>4. \A q \in Requests : added'[q] # {} => q \in Active'
      BY <2>2, <3>3
    <3>5. \A q \in Requests : \A d \in added'[q] : d.by = q
      BY <2>4, <3>3
    <3>6. \A q \in Requests : \A d, e \in added'[q] : d.phone = e.phone => d = e
      BY <3>1, <3>3
    <3> QED BY <2>1, <3>2, <3>4, <3>5, <3>6 DEF RowStep
  <2> QED BY <1>2, <2>3, <2>4 DEF Adds
<1>3. ASSUME NEW r \in Requests, Ends(r) PROVE SessionInv'
  <2>1. Active' = Active \ {r} /\ added' = [added EXCEPT ![r] = {}]
    BY <1>3 DEF Ends
  <2>2. IsFiniteSet(Active') /\ Cardinality(Active') <= PoolSize
    <3>1. Active' \in SUBSET Active
      BY <2>1
    <3>2. IsFiniteSet(Active') /\ Cardinality(Active') <= Cardinality(Active)
      BY <3>1, FS_Subset
    <3> QED BY <3>2, FS_CardinalityType, PoolAssumption
  <2>3. \A q \in Requests : added'[q] = IF q = r THEN {} ELSE added[q]
    BY <2>1
  <2> QED BY <2>1, <2>2, <2>3 DEF RowStep
<1> QED BY <1>1, <1>2, <1>3 DEF RowStep

\* While a number has no row, the rows that sessions have added for it belong to
\* different sessions, each with a connection.
LEMMA HeldByActive ==
    ASSUME SessionInv, NEW p, With(customers, p) = {}
    PROVE  IsFiniteSet(Held(p)) /\ Cardinality(Held(p)) <= PoolSize
<1> DEFINE f == [c \in Held(p) |-> c.by]
<1>1. ASSUME NEW c \in Held(p)
      PROVE  c.by \in Active /\ c \in added[c.by] /\ c.by \in Requests /\ c.phone = p
  <2>1. c.phone = p /\ c \notin customers
    BY DEF Held, With
  <2>2. PICK r \in Requests : c \in added[r]
    BY <2>1 DEF Held, With
  <2> QED BY <2>1, <2>2 DEF SessionInv
<1>2. f \in [Held(p) -> Active]
  BY <1>1
<1>3. ASSUME NEW c \in Held(p), NEW d \in Held(p), f[c] = f[d] PROVE c = d
  BY <1>1, <1>3 DEF SessionInv
<1>4. f \in Injection(Held(p), Active)
  BY <1>2, <1>3 DEF Injection, IsInjective
<1>5. IsFiniteSet(Active) /\ Cardinality(Active) <= PoolSize
  BY DEF SessionInv
<1>6. IsFiniteSet(Held(p)) /\ Cardinality(Held(p)) <= Cardinality(Active)
  <2> HIDE DEF f
  <2> QED BY <1>4, <1>5, FS_Injection
<1> QED BY <1>5, <1>6, FS_CardinalityType, PoolAssumption

\* Once a number has a row, nothing is added for it.
LEMMA HeldShrinks ==
    ASSUME SessionInv, RowStep, NEW p, With(customers', p) # {}
    PROVE  Held(p)' \subseteq Held(p)
<1> USE DEF SessionInv
<1>1. CASE UNCHANGED <<customers, added>>
  BY <1>1 DEF Held, With
<1>2. ASSUME NEW r \in Requests, Adds(r) PROVE Held(p)' \subseteq Held(p)
  <2>1. CASE UNCHANGED added
    BY <1>2, <2>1 DEF Adds, Held, With
  <2>2. ASSUME NEW c \in Row, Found(r, c.phone) = {},
               added' = [added EXCEPT ![r] = @ \cup {c}]
        PROVE  Held(p)' \subseteq Held(p)
    <3>1. customers' = customers
      BY <1>2 DEF Adds
    <3>2. c.phone # p
      BY <2>2, <3>1 DEF Found, With
    <3>3. \A q \in Requests : added'[q] \subseteq added[q] \cup {c}
      BY <2>2
    <3> QED BY <3>1, <3>2, <3>3 DEF Held, With
  <2> QED BY <1>2, <2>1, <2>2 DEF Adds
<1>3. ASSUME NEW r \in Requests, Ends(r) PROVE Held(p)' \subseteq Held(p)
  <2>1. \A q \in Requests : added'[q] \subseteq added[q]
    BY <1>3 DEF Ends
  <2>2. customers' \subseteq customers \cup added[r]
    BY <1>3 DEF Ends
  <2> QED BY <2>1, <2>2 DEF Held, With
<1> QED BY <1>1, <1>2, <1>3 DEF RowStep

LEMMA NextHeldInv ==
    ASSUME SessionInv, SessionInv', HeldInv, RowStep
    PROVE  HeldInv'
<1> SUFFICES ASSUME NEW p \in Phones
             PROVE  IsFiniteSet(Held(p)') /\ Cardinality(Held(p)') <= PoolSize
  BY DEF HeldInv
<1>1. CASE With(customers', p) = {}
  <2>1. (SessionInv /\ With(customers, p) = {}
           => IsFiniteSet(Held(p)) /\ Cardinality(Held(p)) <= PoolSize)'
    BY HeldByActive, PTL
  <2> QED BY <1>1, <2>1 DEF With
<1>2. CASE With(customers', p) # {}
  <2>1. Held(p)' \in SUBSET Held(p)
    BY <1>2, HeldShrinks
  <2>2. IsFiniteSet(Held(p)) /\ Cardinality(Held(p)) <= PoolSize
    BY DEF HeldInv
  <2>3. IsFiniteSet(Held(p)') /\ Cardinality(Held(p)') <= Cardinality(Held(p))
    BY <2>1, <2>2, FS_Subset
  <2> QED BY <2>2, <2>3, FS_CardinalityType, PoolAssumption
<1> QED BY <1>1, <1>2

LEMMA InitHeldInv == Init => SessionInv /\ HeldInv
<1> SUFFICES ASSUME Init PROVE SessionInv /\ HeldInv
  OBVIOUS
<1>1. Active = {}
  BY DEF Init, Active
<1>2. SessionInv
  BY <1>1, FS_EmptySet, PoolAssumption DEF Init, SessionInv
<1>3. \A p : With(customers, p) = {}
  BY DEF Init, With
<1> QED BY <1>2, <1>3, HeldByActive DEF HeldInv

LEMMA HeldBounds == HeldInv => DuplicatesBounded
<1> SUFFICES ASSUME HeldInv, NEW p \in Phones
             PROVE  Cardinality(With(customers, p)) <= PoolSize
  BY DEF DuplicatesBounded
<1>1. IsFiniteSet(Held(p)) /\ Cardinality(Held(p)) <= PoolSize
  BY DEF HeldInv
<1>2. With(customers, p) \in SUBSET Held(p)
  BY DEF Held, With
<1>3. IsFiniteSet(With(customers, p)) /\ Cardinality(With(customers, p)) <= Cardinality(Held(p))
  BY <1>1, <1>2, FS_Subset
<1> QED BY <1>1, <1>3, FS_CardinalityType, PoolAssumption

\* A number never gets more rows than there are connections, whatever requests
\* create, import and order, and however they interleave.
THEOREM FewDuplicates == Spec => []DuplicatesBounded
<1>1. Init => TypeOK /\ SessionInv /\ HeldInv
  BY InitType, InitHeldInv
<1>2. TypeOK /\ SessionInv /\ HeldInv /\ [Next]_vars => (TypeOK /\ SessionInv /\ HeldInv)'
  BY NextType, NextRowStep, NextSessionInv, NextHeldInv
<1>3. HeldInv => DuplicatesBounded
  BY HeldBounds
<1> QED BY <1>1, <1>2, <1>3, PTL DEF Spec
=============================================================================
