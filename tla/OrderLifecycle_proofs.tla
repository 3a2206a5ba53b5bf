----------------------- MODULE OrderLifecycle_proofs -----------------------
(***************************************************************************)
(* What update_order_status guarantees for every number of orders and of   *)
(* concurrent requests: its types and stamps, the late board it implements *)
(* whatever overlaps, and that an order leaves the board of the README only *)
(* when two of its own updates overlap.                                    *)
(***************************************************************************)
EXTENDS OrderLifecycle, TLAPS

\* The transition table and the timestamp map are constant operators of the
\* abstract module; the proofs see them through these two equations.
LEMMA TableDef ==
    VALID_TRANSITIONS =
        {<<"pending", "accepted">>, <<"pending", "rejected">>,
         <<"pending", "cancelled">>, <<"accepted", "in_prep">>,
         <<"accepted", "cancelled">>, <<"in_prep", "ready">>,
         <<"ready", "out_for_delivery">>, <<"ready", "completed">>,
         <<"out_for_delivery", "completed">>}
  BY DEF VALID_TRANSITIONS, Board!VALID_TRANSITIONS

\* An arrow of the table joins two statuses.
LEMMA TableType ==
    ASSUME NEW s, NEW t, <<s, t>> \in VALID_TRANSITIONS
    PROVE  s \in OrderStatus /\ t \in OrderStatus
  BY TableDef DEF OrderStatus, Board!OrderStatus

\* Only timestamp columns are stamped.
LEMMA StampType ==
    ASSUME NEW s
    PROVE  STATUS_TIMESTAMP_MAP(s) \subseteq Board!Stamps
  BY DEF STATUS_TIMESTAMP_MAP, Board!STATUS_TIMESTAMP_MAP, Board!Stamps

\* The stages passed by an order after an arrow are the ones passed before it
\* and the one the arrow stamps: the table and the map agree.
LEMMA PassedGrows ==
    ASSUME NEW s, NEW t, <<s, t>> \in VALID_TRANSITIONS
    PROVE  Passed(t) \subseteq Passed(s) \cup STATUS_TIMESTAMP_MAP(t)
  BY TableDef
     DEF Passed, STATUS_TIMESTAMP_MAP, Board!STATUS_TIMESTAMP_MAP, Board!Stamps

-----------------------------------------------------------------------------
\* A column is stamped only after the columns before it.
Closed(S) ==
    /\ S \subseteq Board!Stamps
    /\ "completed_at" \in S => "ready_at" \in S
    /\ "ready_at" \in S => "prep_started_at" \in S
    /\ "prep_started_at" \in S => "accepted_at" \in S

\* Stamping the next stage over a row that holds every stage the writer's
\* stale status had passed keeps the row closed.
LEMMA StampKeepsClosed ==
    ASSUME NEW s, NEW t, <<s, t>> \in VALID_TRANSITIONS,
           NEW S, Closed(S), Passed(s) \subseteq S
    PROVE  Closed(S \cup STATUS_TIMESTAMP_MAP(t))
  BY TableDef
     DEF Closed, Passed, STATUS_TIMESTAMP_MAP, Board!STATUS_TIMESTAMP_MAP, Board!Stamps

\* What a session in flight relies on: its transition was in the table when it
\* read the order, and the stamps of the stage it read are still there
\* (timestamps are never cleared).
SeenStamped ==
    \A u \in open : /\ <<u.seen, u.want>> \in VALID_TRANSITIONS
                    /\ Passed(u.seen) \subseteq stamps[u.order]

IInv == TypeOK /\ StatusStamped /\ StampChain /\ SeenStamped

LEMMA ChainClosed ==
    TypeOK => (StampChain <=> \A o \in Orders : Closed(stamps[o]))
  BY DEF TypeOK, StampChain, Closed

LEMMA InitIInv == Init => IInv
  BY DEF Init, Board!Init, IInv, TypeOK, StatusStamped, StampChain, SeenStamped,
         Passed, Update

LEMMA PlaceKeeps ==
    ASSUME IInv, NEW o \in Orders, create_order(o)
    PROVE  IInv'
<1> USE DEF IInv, create_order, Board!Place
<1>1. TypeOK'
  BY DEF TypeOK, OrderStatus, Board!OrderStatus
<1>2. StatusStamped'
  BY DEF TypeOK, StatusStamped, Passed
<1>3. StampChain' /\ SeenStamped'
  BY DEF StampChain, SeenStamped
<1> QED BY <1>1, <1>2, <1>3

LEMMA ReadKeeps ==
    ASSUME IInv, NEW r \in Requests, NEW o \in Orders, NEW s \in OrderStatus,
           update_order_status(r, o, s)
    PROVE  IInv'
<1> USE DEF Opens
<1> DEFINE u == [req |-> r, order |-> o, seen |-> status[o], want |-> s]
<1>1. /\ <<status[o], s>> \in VALID_TRANSITIONS
      /\ open' = open \cup {u}
      /\ UNCHANGED <<status, stamps>>
  BY DEF update_order_status
<1>2. status[o] \in OrderStatus
  BY <1>1, TableType
<1>3. TypeOK'
  <2>1. raced' \subseteq Orders
    BY DEF IInv, TypeOK, update_order_status
  <2> QED BY <1>1, <1>2, <2>1 DEF IInv, TypeOK, Update, update_order_status
<1>4. StatusStamped' /\ StampChain'
  BY <1>1 DEF IInv, StatusStamped, StampChain
<1>5. SeenStamped'
  <2>1. /\ <<u.seen, u.want>> \in VALID_TRANSITIONS
        /\ Passed(u.seen) \subseteq stamps[u.order]
    <3>1. u.seen = status[o] /\ u.want = s /\ u.order = o
      OBVIOUS
    <3> HIDE DEF u
    <3> QED BY <1>1, <3>1 DEF IInv, StatusStamped
  <2> HIDE DEF u
  <2> QED BY <1>1, <2>1 DEF IInv, SeenStamped
<1> QED BY <1>3, <1>4, <1>5 DEF IInv

LEMMA CommitKeeps ==
    ASSUME IInv, NEW u \in open, commit(u)
    PROVE  IInv'
<1> DEFINE o == u.order
           new == stamps[o] \cup STATUS_TIMESTAMP_MAP(u.want)
<1>1. /\ status' = [status EXCEPT ![o] = u.want]
      /\ stamps' = [stamps EXCEPT ![o] = new]
      /\ open' = open \ {u}
  BY DEF commit
<1>2. /\ o \in Orders /\ u.want \in OrderStatus /\ TypeOK
      /\ <<u.seen, u.want>> \in VALID_TRANSITIONS
      /\ Passed(u.seen) \subseteq stamps[o]
  BY DEF IInv, TypeOK, Update, SeenStamped
<1>3. TypeOK'
  BY <1>1, <1>2, StampType DEF TypeOK, commit
<1>4. \A p \in Orders : stamps[p] \subseteq stamps'[p]
  BY <1>1, <1>2 DEF TypeOK
<1>5. StatusStamped'
  <2>1. Passed(status'[o]) \subseteq stamps'[o]
    BY <1>1, <1>2, PassedGrows DEF TypeOK
  <2>2. \A p \in Orders \ {o} : status'[p] = status[p] /\ stamps'[p] = stamps[p]
    BY <1>1, <1>2 DEF TypeOK
  <2> QED BY <2>1, <2>2 DEF IInv, StatusStamped
<1>6. StampChain'
  <2>1. Closed(new)
    BY <1>2, ChainClosed, StampKeepsClosed DEF IInv
  <2>2. \A p \in Orders : Closed(stamps'[p])
    BY <1>1, <1>2, <2>1, ChainClosed DEF IInv, TypeOK
  <2> QED BY <2>2 DEF StampChain, Closed
<1>7. SeenStamped'
  <2> SUFFICES ASSUME NEW v \in open'
               PROVE  /\ <<v.seen, v.want>> \in VALID_TRANSITIONS
                      /\ Passed(v.seen) \subseteq stamps'[v.order]
    BY DEF SeenStamped
  <2>1. v \in open /\ v.order \in Orders
    BY <1>1 DEF IInv, TypeOK, Update
  <2> QED BY <2>1, <1>4 DEF IInv, SeenStamped
<1> QED BY <1>3, <1>5, <1>6, <1>7 DEF IInv

LEMMA RollbackKeeps ==
    ASSUME IInv, NEW u \in open, rollback(u)
    PROVE  IInv'
  BY DEF rollback, IInv, TypeOK, StatusStamped, StampChain, SeenStamped

LEMMA NextIInv == IInv /\ [Next]_vars => IInv'
<1> SUFFICES ASSUME IInv, [Next]_vars PROVE IInv'
  OBVIOUS
<1>1. CASE UNCHANGED vars
  BY <1>1 DEF vars, IInv, TypeOK, StatusStamped, StampChain, SeenStamped
<1>2. ASSUME NEW o \in Orders, create_order(o) PROVE IInv'
  BY <1>2, PlaceKeeps
<1>3. ASSUME NEW r \in Requests, NEW o \in Orders, NEW s \in OrderStatus,
             update_order_status(r, o, s)
      PROVE  IInv'
  BY <1>3, ReadKeeps
<1>4. ASSUME NEW u \in open, commit(u) \/ rollback(u) PROVE IInv'
  BY <1>4, CommitKeeps, RollbackKeeps
<1> QED BY <1>1, <1>2, <1>3, <1>4 DEF Next

\* The state of the order board is well-typed, for any number of orders and of
\* overlapping requests.
THEOREM TypeCorrect == Spec => []TypeOK
<1>1. IInv => TypeOK
  BY DEF IInv
<1> QED BY <1>1, InitIInv, NextIInv, PTL DEF Spec

\* However many status updates overlap, an order in a stage carries the
\* timestamps of that stage and of all stages before it.
THEOREM Stamped == Spec => []StatusStamped
<1>1. IInv => StatusStamped
  BY DEF IInv
<1> QED BY <1>1, InitIInv, NextIInv, PTL DEF Spec

\* However many status updates overlap, no timestamp is set before the
\* timestamps of the earlier stages.
THEOREM Chained == Spec => []StampChain
<1>1. IInv => StampChain
  BY DEF IInv
<1> QED BY <1>1, InitIInv, NextIInv, PTL DEF Spec

-----------------------------------------------------------------------------
(* The late board *)

\* A status that an arrow leaves, and whose stamps the order carries, is one
\* the order has been in (or, for an order out for delivery, one with the same
\* arrow: it was ready).
LEMMA PassedBeen ==
    ASSUME NEW o \in Orders, NEW s, NEW t, <<s, t>> \in VALID_TRANSITIONS,
           Passed(s) \subseteq stamps[o]
    PROVE  \E b \in Board!Been(o) : <<b, t>> \in VALID_TRANSITIONS
<1>1. "pending" \in Board!Been(o)
  BY DEF Board!Been
<1>2. \A b \in Board!OrderStatus :
         Board!STATUS_TIMESTAMP_MAP(b) \cap stamps[o] # {} => b \in Board!Been(o)
  BY DEF Board!Been
<1>3. CASE s = "pending"
  BY <1>1, <1>3
<1>4. CASE s = "accepted"
  BY <1>2, <1>4 DEF Passed, Board!OrderStatus, Board!STATUS_TIMESTAMP_MAP
<1>5. CASE s = "in_prep"
  BY <1>2, <1>5 DEF Passed, Board!OrderStatus, Board!STATUS_TIMESTAMP_MAP
<1>6. CASE s = "ready"
  BY <1>2, <1>6 DEF Passed, Board!OrderStatus, Board!STATUS_TIMESTAMP_MAP
<1>7. CASE s = "out_for_delivery"
  <2>1. t = "completed" /\ <<"ready", "completed">> \in VALID_TRANSITIONS
    BY <1>7, TableDef
  <2>2. "ready" \in Board!Been(o)
    BY <1>2, <1>7 DEF Passed, Board!OrderStatus, Board!STATUS_TIMESTAMP_MAP
  <2> QED BY <2>1, <2>2
<1> QED BY <1>3, <1>4, <1>5, <1>6, <1>7, TableDef

\* An update in flight is one of an order that has been placed, and an order
\* once placed stays.
SeenPlaced == \A u \in open : status[u.order] # "absent"

LEMMA LateNextStep ==
    IInv /\ SeenPlaced /\ [Next]_vars => SeenPlaced' /\ [Board!LateNext]_(Board!vars)
<1> SUFFICES ASSUME IInv, SeenPlaced, [Next]_vars
             PROVE  SeenPlaced' /\ [Board!LateNext]_(Board!vars)
  OBVIOUS
<1>0. TypeOK /\ "absent" \notin OrderStatus
  BY DEF IInv, OrderStatus, Board!OrderStatus
<1>1. CASE UNCHANGED vars
  BY <1>1 DEF vars, SeenPlaced, Board!vars
<1>2. ASSUME NEW o \in Orders, create_order(o)
      PROVE  SeenPlaced' /\ Board!LateNext
  BY <1>0, <1>2
     DEF create_order, Board!Place, Board!LateNext, SeenPlaced, TypeOK, Update
<1>3. ASSUME NEW r \in Requests, NEW o \in Orders, NEW s \in OrderStatus,
             update_order_status(r, o, s)
      PROVE  SeenPlaced' /\ UNCHANGED Board!vars
  <2>1. status[o] \in OrderStatus
    BY <1>3, TableType DEF update_order_status
  <2> QED BY <1>0, <1>3, <2>1 DEF update_order_status, Opens, SeenPlaced, Board!vars
<1>4. ASSUME NEW u \in open, commit(u)
      PROVE  SeenPlaced' /\ Board!LateNext
  <2>1. /\ u.order \in Orders /\ u.want \in OrderStatus
        /\ <<u.seen, u.want>> \in VALID_TRANSITIONS
        /\ Passed(u.seen) \subseteq stamps[u.order]
        /\ status[u.order] # "absent"
    BY <1>0 DEF IInv, SeenStamped, SeenPlaced, TypeOK, Update
  <2>2. \E b \in Board!Been(u.order) : <<b, u.want>> \in VALID_TRANSITIONS
    BY <2>1, PassedBeen
  <2>3. Board!LateAdvance(u.order, u.want)
    BY <1>4, <2>1, <2>2
       DEF commit, Board!LateAdvance, VALID_TRANSITIONS, STATUS_TIMESTAMP_MAP
  <2>4. SeenPlaced'
    BY <1>0, <1>4, <2>1 DEF commit, SeenPlaced, TypeOK, Update
  <2> QED BY <2>1, <2>3, <2>4 DEF Board!LateNext, OrderStatus
<1>5. ASSUME NEW u \in open, rollback(u)
      PROVE  SeenPlaced' /\ UNCHANGED Board!vars
  BY <1>5 DEF rollback, SeenPlaced, Board!vars
<1> QED BY <1>1, <1>2, <1>3, <1>4, <1>5 DEF Next

\* However many updates overlap, update_order_status implements the late
\* board: every commit follows an arrow from a status its order has been in.
THEOREM ImplementsLateBoard == Spec => LateBoardSpec
<1>1. Init => IInv /\ SeenPlaced /\ Board!Init
  BY InitIInv DEF Init, SeenPlaced
<1> QED BY <1>1, NextIInv, LateNextStep, PTL DEF Spec, LateBoardSpec, Board!LateSpec

-----------------------------------------------------------------------------
(* The board of the README, until two updates of an order overlap *)

\* As long as no two updates of an order have overlapped, at most one is in
\* flight, and the status its session saw is still the status of the order.
AloneInv ==
    /\ \A u, v \in open : u.order = v.order /\ u.order \notin raced => u = v
    /\ \A u \in open : u.order \notin raced => u.seen = status[u.order]

\* The row of order o stays, or is placed, or follows an arrow and is stamped.
Follows(o) ==
    \/ status'[o] = status[o] /\ stamps'[o] = stamps[o]
    \/ status[o] = "absent" /\ status'[o] = "pending" /\ stamps'[o] = stamps[o]
    \/ /\ <<status[o], status'[o]>> \in VALID_TRANSITIONS
       /\ stamps'[o] = stamps[o] \cup STATUS_TIMESTAMP_MAP(status'[o])

ApartInv == IInv /\ AloneInv

LEMMA ApartInit == Init => ApartInv
  BY InitIInv DEF Init, ApartInv, AloneInv

LEMMA PlaceAlone ==
    ASSUME ApartInv, NEW o \in Orders, create_order(o)
    PROVE  AloneInv' /\ \A q \in Orders : Follows(q)
<1>1. "absent" \notin OrderStatus /\ TypeOK
  BY DEF OrderStatus, Board!OrderStatus, ApartInv, IInv
<1>2. \A u \in open : u.order = o => o \in raced
  BY <1>1 DEF create_order, Board!Place, ApartInv, AloneInv, TypeOK, Update
<1>3. AloneInv'
  BY <1>1, <1>2 DEF create_order, Board!Place, ApartInv, AloneInv, TypeOK, Update
<1>4. \A q \in Orders : Follows(q)
  BY <1>1 DEF create_order, Board!Place, Follows, TypeOK
<1> QED BY <1>3, <1>4

LEMMA ReadAlone ==
    ASSUME ApartInv, NEW r \in Requests, NEW o \in Orders, NEW s \in OrderStatus,
           update_order_status(r, o, s)
    PROVE  AloneInv' /\ \A q \in Orders : Follows(q)
<1> DEFINE u == [req |-> r, order |-> o, seen |-> status[o], want |-> s]
<1>1. /\ open' = open \cup {u}
      /\ raced' = raced \cup {w.order : w \in {v \in open : v.order = o}}
      /\ UNCHANGED <<status, stamps>>
  BY DEF update_order_status, Opens
<1>2. u.order = o /\ u.seen = status[o]
  OBVIOUS
<1> HIDE DEF u
<1>3. raced \subseteq raced' /\ \A v \in open : v.order = o => o \in raced'
  BY <1>1
<1>4. AloneInv'
  BY <1>1, <1>2, <1>3 DEF ApartInv, AloneInv
<1> QED BY <1>1, <1>4 DEF Follows

LEMMA CommitAlone ==
    ASSUME ApartInv, NEW u \in open, commit(u)
    PROVE  AloneInv' /\ \A q \in Orders \ raced : Follows(q)
<1>1. /\ u.order \in Orders /\ TypeOK
      /\ <<u.seen, u.want>> \in VALID_TRANSITIONS
      /\ u.order \notin raced => u.seen = status[u.order]
  BY DEF ApartInv, AloneInv, IInv, SeenStamped, TypeOK, Update
<1>2. /\ status'[u.order] = u.want
      /\ stamps'[u.order] = stamps[u.order] \cup STATUS_TIMESTAMP_MAP(u.want)
      /\ \A q \in Orders \ {u.order} : status'[q] = status[q] /\ stamps'[q] = stamps[q]
      /\ open' = open \ {u} /\ raced' = raced
  BY <1>1 DEF commit, TypeOK
<1>3. AloneInv'
  \* whoever else is in flight updates another order, or one that has raced
  <2>1. \A v \in open' : v \in open /\ v.order \in Orders
    BY <1>1, <1>2 DEF TypeOK, Update
  <2>2. \A v \in open' : v.order \notin raced => v.order # u.order
    BY <1>2 DEF ApartInv, AloneInv
  <2> QED BY <1>2, <2>1, <2>2 DEF ApartInv, AloneInv
<1>4. \A q \in Orders \ raced : Follows(q)
  BY <1>1, <1>2 DEF Follows
<1> QED BY <1>3, <1>4

LEMMA ApartNext ==
    ApartInv /\ [Next]_vars => ApartInv' /\ \A o \in Orders \ raced : Follows(o)
<1> SUFFICES ASSUME ApartInv, [Next]_vars
             PROVE  AloneInv' /\ \A o \in Orders \ raced : Follows(o)
  BY NextIInv DEF ApartInv
<1>1. CASE UNCHANGED vars
  BY <1>1 DEF vars, ApartInv, AloneInv, Follows
<1>2. ASSUME NEW u \in open, rollback(u)
      PROVE  AloneInv' /\ \A o \in Orders : Follows(o)
  BY <1>2 DEF rollback, ApartInv, AloneInv, Follows
<1> QED BY <1>1, <1>2, PlaceAlone, ReadAlone, CommitAlone DEF Next

\* Until two updates of an order overlap, that order does what the board of the
\* README allows (one arrow at a time, each with its stamp, and nothing after a
\* terminal status), whatever happens to the other orders.
THEOREM AloneFollowsBoard == Spec => FollowsBoard
<1>1. Spec => [][\A o \in Orders \ raced : Follows(o)]_vars
  BY ApartInit, ApartNext, PTL DEF Spec
<1> QED BY <1>1 DEF FollowsBoard, Follows

NoneRaced == raced = {}

\* The service as a whole implements the board, unless two updates of one order
\* overlap.
THEOREM ImplementsBoard == Spec => BoardSpec \/ <>~NoneRaced
<1>1. ApartInv /\ NoneRaced /\ [Next]_vars => [Board!Next]_(Board!vars)
  <2> SUFFICES ASSUME ApartInv, NoneRaced, [Next]_vars
               PROVE  Board!Next \/ UNCHANGED Board!vars
    OBVIOUS
  <2>1. CASE UNCHANGED vars
    BY <2>1 DEF vars, Board!vars
  <2>2. ASSUME NEW o \in Orders, create_order(o) PROVE Board!Next
    BY <2>2 DEF create_order, Board!Next
  <2>3. ASSUME NEW u \in open, commit(u) PROVE Board!Next
    <3>1. /\ u.order \in Orders /\ u.want \in OrderStatus
          /\ <<status[u.order], u.want>> \in VALID_TRANSITIONS
      BY DEF NoneRaced, ApartInv, AloneInv, IInv, SeenStamped, TypeOK, Update
    <3>2. Board!Advance(u.order, u.want)
      BY <2>3, <3>1 DEF commit, Board!Advance, VALID_TRANSITIONS, STATUS_TIMESTAMP_MAP
    <3> QED BY <3>1, <3>2 DEF Board!Next, OrderStatus
  <2>4. ASSUME NEW r \in Requests, NEW o \in Orders, NEW s \in OrderStatus,
               update_order_status(r, o, s)
        PROVE  UNCHANGED Board!vars
    BY <2>4 DEF update_order_status, Opens, Board!vars
  <2>5. ASSUME NEW u \in open, rollback(u) PROVE UNCHANGED Board!vars
    BY <2>5 DEF rollback, Board!vars
  <2> QED BY <2>1, <2>2, <2>3, <2>4, <2>5 DEF Next
<1>2. Init => Board!Init
  BY DEF Init
<1>3. ApartInv /\ [Next]_vars => ApartInv'
  BY ApartNext
<1> QED BY <1>1, <1>2, <1>3, ApartInit, PTL DEF Spec, BoardSpec, Board!Spec

-----------------------------------------------------------------------------
(* What follows on the board *)

\* On the board, an order is pending before it has any stamp, and rejected or
\* cancelled before its preparation.
DropInv ==
    \A o \in Orders \ raced :
        /\ status[o] \in {"absent", "pending"} => stamps[o] = {}
        /\ status[o] = "accepted" => stamps[o] = {"accepted_at"}
        /\ status[o] = "rejected" => stamps[o] = {}
        /\ status[o] = "cancelled" => stamps[o] \subseteq {"accepted_at"}

LEMMA BoardKeepsDrop ==
    DropInv /\ raced \subseteq raced' /\ (\A o \in Orders \ raced : Follows(o)) => DropInv'
<1> SUFFICES ASSUME DropInv, raced \subseteq raced', NEW o \in Orders \ raced, Follows(o)
             PROVE  /\ status'[o] \in {"absent", "pending"} => stamps'[o] = {}
                    /\ status'[o] = "accepted" => stamps'[o] = {"accepted_at"}
                    /\ status'[o] = "rejected" => stamps'[o] = {}
                    /\ status'[o] = "cancelled" => stamps'[o] \subseteq {"accepted_at"}
  BY DEF DropInv
<1>1. CASE status'[o] = status[o] /\ stamps'[o] = stamps[o]
  BY <1>1 DEF DropInv
<1>2. CASE status[o] = "absent" /\ status'[o] = "pending" /\ stamps'[o] = stamps[o]
  BY <1>2 DEF DropInv
<1>3. CASE /\ <<status[o], status'[o]>> \in VALID_TRANSITIONS
           /\ stamps'[o] = stamps[o] \cup STATUS_TIMESTAMP_MAP(status'[o])
  BY <1>3, TableDef DEF DropInv, STATUS_TIMESTAMP_MAP, Board!STATUS_TIMESTAMP_MAP
<1> QED BY <1>1, <1>2, <1>3 DEF Follows

\* The kitchen never cooks for nothing: an order of which no two updates ever
\* overlapped was never accepted if it is rejected, and never in preparation if
\* it is cancelled.
THEOREM NeverCookedForNothing == Spec => []DroppedBeforePrep
<1>1. Init => DropInv
  BY DEF Init, Board!Init, DropInv
<1>2. [Next]_vars => raced \subseteq raced'
  BY DEF Next, vars, create_order, update_order_status, Opens, commit, rollback
<1>3. ApartInv /\ DropInv /\ [Next]_vars => ApartInv' /\ DropInv'
  BY <1>2, ApartNext, BoardKeepsDrop
<1>4. DropInv => DroppedBeforePrep
  BY DEF DropInv, DroppedBeforePrep
<1> QED BY <1>1, <1>3, <1>4, ApartInit, PTL DEF Spec

=============================================================================
