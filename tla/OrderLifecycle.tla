--------------------------- MODULE OrderLifecycle ---------------------------
(***************************************************************************)
(* update_order_status under concurrent requests.                          *)
(*                                                                         *)
(* Every PATCH /orders/{id}/status runs in a session of its own: it SELECTs *)
(* the order, checks the transition against the status it loaded, and the  *)
(* UPDATE it flushes names the order by primary key only.  PostgreSQL runs *)
(* at READ COMMITTED, so the row another request committed in between is   *)
(* overwritten, not detected.  A handler is therefore two steps: the read  *)
(* with its validation, and the commit of the write.  (The row lock the    *)
(* UPDATE takes is released by the commit and a session locks one row, so  *)
(* flush and commit are one step.)                                         *)
(***************************************************************************)
EXTENDS FiniteSets

CONSTANTS Orders,    \* primary keys of the orders table
          Requests   \* status updates that may be in flight at a time

VARIABLES status,    \* orders.status as committed; "absent" before the INSERT
          stamps,    \* the timestamp columns of the order that are not NULL
          open,      \* the updates that have read their order, not yet committed
          raced      \* orders two updates of which have been in flight at once
                     \* (a record of the past, no action reads it)

vars == <<status, stamps, open, raced>>

Board == INSTANCE OrderBoard

OrderStatus == Board!OrderStatus

\* Mutations of the table: one arrow too many.
WithPrepSkipped == Board!VALID_TRANSITIONS \cup {<<"accepted", "ready">>}
WithLateCancel == Board!VALID_TRANSITIONS \cup {<<"in_prep", "cancelled">>}

VALID_TRANSITIONS == Board!VALID_TRANSITIONS

\* Mutation: the entry of READY is missing.
MapWithoutReady(s) == IF s = "ready" THEN {} ELSE Board!STATUS_TIMESTAMP_MAP(s)

STATUS_TIMESTAMP_MAP(s) == Board!STATUS_TIMESTAMP_MAP(s)

\* What a session remembers between its SELECT and its COMMIT: the status it
\* loaded into the ORM object and the status the payload asks for.
Update == [req : Requests, order : Orders, seen : OrderStatus, want : OrderStatus]

Init == Board!Init /\ open = {} /\ raced = {}

-----------------------------------------------------------------------------
\* The order is INSERTed with status PENDING and no timestamps.
create_order(o) == Board!Place(o) /\ UNCHANGED <<open, raced>>

\* The session of r loads order o and is to set it to s.
Opens(r, o, s) ==
    /\ \A u \in open : u.req # r
    /\ open' = open \cup {[req |-> r, order |-> o, seen |-> status[o], want |-> s]}
    /\ raced' = raced \cup {u.order : u \in {v \in open : v.order = o}}
    /\ UNCHANGED <<status, stamps>>

\* Mutation of update_order_status: the transition of an order that does not
\* exist is not refused.
UpdateUnknown(r, o, s) ==
    /\ status[o] = "absent" \/ <<status[o], s>> \in VALID_TRANSITIONS
    /\ Opens(r, o, s)

\* SELECT the order and validate the transition.  An unknown order (404) and
\* a transition the table does not list (400) end the request with nothing
\* written.
update_order_status(r, o, s) ==
    /\ <<status[o], s>> \in VALID_TRANSITIONS
    /\ Opens(r, o, s)

\* Mutation of commit: the timestamp is that of the status the order leaves.
CommitStampsSeen(u) ==
    /\ status' = [status EXCEPT ![u.order] = u.want]
    /\ stamps' = [stamps EXCEPT ![u.order] = @ \cup STATUS_TIMESTAMP_MAP(u.seen)]
    /\ open' = open \ {u}
    /\ UNCHANGED raced

\* UPDATE orders SET status, <stamp> WHERE id = ...; COMMIT.
commit(u) ==
    /\ status' = [status EXCEPT ![u.order] = u.want]
    /\ stamps' = [stamps EXCEPT ![u.order] = @ \cup STATUS_TIMESTAMP_MAP(u.want)]
    /\ open' = open \ {u}
    /\ UNCHANGED raced

\* The session fails before its commit (lost connection, killed process).
rollback(u) ==
    /\ open' = open \ {u}
    /\ UNCHANGED <<status, stamps, raced>>

Next == \/ \E o \in Orders : create_order(o)
        \/ \E r \in Requests, o \in Orders, s \in OrderStatus :
              update_order_status(r, o, s)
        \/ \E u \in open : commit(u) \/ rollback(u)

Spec == Init /\ [][Next]_vars

-----------------------------------------------------------------------------
\* Orders, timestamps and sessions hold values of their columns' types, and a
\* request is in flight at most once.
TypeOK ==
    /\ status \in [Orders -> OrderStatus \cup {"absent"}]
    /\ stamps \in [Orders -> SUBSET Board!Stamps]
    /\ open \subseteq Update
    /\ \A u, v \in open : u.req = v.req => u = v
    /\ raced \subseteq Orders

\* The stages an order in status s must have been stamped with on its way.
Passed(s) ==
    CASE s = "accepted" -> {"accepted_at"}
      [] s = "in_prep"  -> {"accepted_at", "prep_started_at"}
      [] s \in {"ready", "out_for_delivery"} ->
             {"accepted_at", "prep_started_at", "ready_at"}
      [] s = "completed" -> Board!Stamps
      [] OTHER -> {}

\* The SLA record has no holes, however the requests of the consoles overlap:
\* an order in a stage carries the timestamp of that stage and of every stage
\* before it.
StatusStamped == \A o \in Orders : Passed(status[o]) \subseteq stamps[o]

\* A later timestamp is never set without the earlier ones, not even on an
\* order that a racing request moved back or closed.
StampChain ==
    \A o \in Orders :
        /\ "completed_at" \in stamps[o] => "ready_at" \in stamps[o]
        /\ "ready_at" \in stamps[o] => "prep_started_at" \in stamps[o]
        /\ "prep_started_at" \in stamps[o] => "accepted_at" \in stamps[o]

\* Whatever overlaps, no status comes out of nowhere: every commit follows an
\* arrow from a status that its order has been in and was stamped with.
LateBoardSpec == Board!LateSpec

\* README.md:186, "Each transition is validated - the API rejects invalid
\* status jumps": a committed status is replaced only by one the table allows.
EveryChangeValid ==
    [][\A o \in Orders :
          status[o] # "absent" /\ status'[o] # status[o]
             => <<status[o], status'[o]>> \in VALID_TRANSITIONS]_vars

\* order_service.py:24, "terminal states - no transitions": a completed,
\* rejected or cancelled order stays what it is.
TerminalIsFinal ==
    [][\A o \in Orders :
          status[o] \in {"completed", "rejected", "cancelled"}
             => status'[o] = status[o]]_vars

\* The kitchen never cooks for nothing, whatever happens to other orders: only
\* an order two updates of which have overlapped can be rejected after it was
\* accepted, or cancelled after it went into preparation.
DroppedBeforePrep ==
    \A o \in Orders \ raced :
        /\ status[o] = "rejected" => stamps[o] = {}
        /\ status[o] = "cancelled" => "prep_started_at" \notin stamps[o]

\* Order by order, update_order_status is the board of the README until two
\* updates of that order overlap: its row stays, or is placed, or follows an arrow
\* from the status it is in now and gets the stamp of that arrow.
FollowsBoard ==
    [][\A o \in Orders \ raced :
          \/ status'[o] = status[o] /\ stamps'[o] = stamps[o]
          \/ status[o] = "absent" /\ status'[o] = "pending" /\ stamps'[o] = stamps[o]
          \/ /\ <<status[o], status'[o]>> \in VALID_TRANSITIONS
             /\ stamps'[o] = stamps[o] \cup STATUS_TIMESTAMP_MAP(status'[o])]_vars

\* The board of the README as a whole.
BoardSpec == Board!Spec
=============================================================================
