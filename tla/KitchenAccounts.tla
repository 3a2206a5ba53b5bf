--------------------------- MODULE KitchenAccounts ---------------------------
(***************************************************************************)
(* Kitchens register, log in and renew their tokens.                       *)
(*                                                                         *)
(* register looks the e-mail up, INSERTs the kitchen, signs the tokens and *)
(* returns; the session commits after that and before the answer is sent.  *)
(* A unique index backs the lookup: an INSERT waits for a transaction that *)
(* has inserted the same e-mail, and raises when that one commits.         *)
(* Passwords and signatures are the libraries'; a login with a wrong       *)
(* password and a forged token are refused and change nothing.             *)
(***************************************************************************)
EXTENDS FiniteSets

CONSTANTS
    Emails,        \* e-mail addresses
    NoEmail,       \* of a registration that has not begun
    RegisterReqs,  \* POST /auth/register; a row is named by the request that inserted it
    Issues         \* bound: times of issue that are told apart

TokenTypes == {"access", "refresh"}
Token == [sub : RegisterReqs, type : TokenTypes, issue : Issues]

VARIABLES
    kitchens,   \* kitchens rows, as committed: [id, email]
    inactive,   \* those with is_active false
    signup,     \* how far each registration is
    email,      \* the e-mail of its payload
    tokens      \* tokens that were handed out and have not expired

AccountsVars == <<kitchens, inactive, signup, email, tokens>>

AccountsInit ==
    /\ kitchens = {} /\ inactive = {} /\ tokens = {}
    /\ signup = [r \in RegisterReqs |-> "idle"]
    /\ email = [r \in RegisterReqs |-> NoEmail]

-----------------------------------------------------------------------------
Signup(r, s) == signup' = [signup EXCEPT ![r] = s]

\* create_access_token and create_refresh_token for one kitchen.
Issue(id) ==
    \E n \in Issues : tokens' = tokens \cup [sub : {id}, type : TokenTypes, issue : {n}]

\* SELECT by e-mail: 409 when it is taken.
register(r, e) ==
    /\ signup[r] = "idle"
    /\ Signup(r, IF \E k \in kitchens : k.email = e THEN "failed" ELSE "checked")
    /\ email' = [email EXCEPT ![r] = e]
    /\ UNCHANGED <<kitchens, inactive, tokens>>

\* Mutation of insert_kitchen: the e-mail column has no unique index.
InsertUnindexed(r) ==
    /\ signup[r] = "checked" /\ Signup(r, "inserted")
    /\ UNCHANGED <<kitchens, inactive, email, tokens>>

\* INSERT, flush: wait for a transaction that holds the e-mail in the index;
\* IntegrityError, and rollback, when it has been committed.
insert_kitchen(r) ==
    /\ signup[r] = "checked"
    /\ \A q \in RegisterReqs : ~(signup[q] = "inserted" /\ email[q] = email[r])
    /\ Signup(r, IF \E k \in kitchens : k.email = email[r] THEN "failed" ELSE "inserted")
    /\ UNCHANGED <<kitchens, inactive, email, tokens>>

\* Mutation of register_commit: the answer leaves before the COMMIT.
AnswerBeforeCommit(r) ==
    /\ signup[r] = "inserted"
    /\ \E committed \in BOOLEAN :
          /\ Signup(r, IF committed THEN "done" ELSE "failed")
          /\ kitchens' = IF committed THEN kitchens \cup {[id |-> r, email |-> email[r]]}
                                      ELSE kitchens
    /\ Issue(r)
    /\ UNCHANGED <<inactive, email>>

\* COMMIT, then the answer with the tokens, which may be lost on its way.
register_commit(r) ==
    /\ signup[r] = "inserted" /\ Signup(r, "done")
    /\ kitchens' = kitchens \cup {[id |-> r, email |-> email[r]]}
    /\ Issue(r) \/ UNCHANGED tokens
    /\ UNCHANGED <<inactive, email>>

\* The session fails before its commit.
register_rollback(r) ==
    /\ signup[r] \in {"checked", "inserted"} /\ Signup(r, "failed")
    /\ UNCHANGED <<kitchens, inactive, email, tokens>>

\* SELECT by e-mail, verify the password: 401 without a kitchen, 403 when it is
\* deactivated.
login(e) ==
    /\ \E k \in kitchens :
          /\ k.email = e /\ k.id \notin inactive
          /\ Issue(k.id)
    /\ UNCHANGED <<kitchens, inactive, signup, email>>

\* The row of the kitchen a token is about; no row is a 404.
get_current_kitchen(t) == {k \in kitchens : k.id = t.sub}

\* Mutation of refresh_token: is_active is not asked for.
RefreshInactive(t) ==
    /\ t \in tokens /\ t.type = "refresh" /\ get_current_kitchen(t) # {}
    /\ Issue(t.sub)
    /\ UNCHANGED <<kitchens, inactive, signup, email>>

\* A new pair for a refresh token whose kitchen exists and is active.
refresh_token(t) ==
    /\ t \in tokens /\ t.type = "refresh"
    /\ get_current_kitchen(t) # {} /\ t.sub \notin inactive
    /\ Issue(t.sub)
    /\ UNCHANGED <<kitchens, inactive, signup, email>>

\* The "exp" of a token passes.
expire(t) ==
    /\ t \in tokens /\ tokens' = tokens \ {t}
    /\ UNCHANGED <<kitchens, inactive, signup, email>>

\* The operator sets is_active in the database; no endpoint does.
deactivate(k) ==
    /\ k \in kitchens /\ inactive' = inactive \cup {k.id}
    /\ UNCHANGED <<kitchens, signup, email, tokens>>

AccountsNext ==
    \/ \E r \in RegisterReqs :
          insert_kitchen(r) \/ register_commit(r) \/ register_rollback(r)
    \/ \E e \in Emails : login(e) \/ \E r \in RegisterReqs : register(r, e)
    \/ \E t \in tokens : refresh_token(t) \/ expire(t)
    \/ \E k \in kitchens : deactivate(k)

\* Time passes.
AccountsFairness == \A t \in Token : WF_AccountsVars(expire(t))

AccountsSpec == AccountsInit /\ [][AccountsNext]_AccountsVars

-----------------------------------------------------------------------------
\* Rows come from registrations that were answered, and carry their e-mail.
AccountsTypeOK ==
    /\ kitchens \subseteq [id : RegisterReqs, email : Emails]
    /\ \A k \in kitchens : signup[k.id] = "done" /\ k.email = email[k.id]
    /\ inactive \subseteq {k.id : k \in kitchens}
    /\ signup \in [RegisterReqs -> {"idle", "checked", "inserted", "done", "failed"}]
    /\ email \in [RegisterReqs -> Emails \cup {NoEmail}]
    /\ tokens \subseteq Token

\* auth.py:20, "Check duplicate email": although registrations overlap, login
\* finds at most one kitchen for an e-mail.
UniqueEmail == \A j, k \in kitchens : j.email = k.email => j = k

\* A kitchen holds tokens only once its row is committed: tokens are signed in
\* register before the COMMIT, yet none ever names a registration that was
\* rolled back.
TokensNameKitchens == \A t \in tokens : get_current_kitchen(t) # {}

\* auth.py:120, "Verify kitchen still exists and is active": a deactivated
\* kitchen cannot keep itself in by renewing; what it holds runs out.
DeactivatedRunsOut ==
    \A r \in RegisterReqs : r \in inactive ~> \A t \in tokens : t.sub # r
=============================================================================
