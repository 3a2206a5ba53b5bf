----------------------------- MODULE OrderBoard -----------------------------
(***************************************************************************)
(* What the order board promises a kitchen (README.md, "Order Status       *)
(* Flow"): the status of an order only ever moves along the arrows of the  *)
(* flow, one arrow at a time, and reaching a timed stage stamps it: Spec.  *)
(* LateSpec is the weaker promise the service keeps whatever its requests  *)
(* do: an arrow leaves a status the order has been in, though perhaps not  *)
(* the one it is in now.  There are no requests, sessions or transactions  *)
(* here; OrderLifecycle shows which of the two it keeps, and when.         *)
(***************************************************************************)
CONSTANT Orders

VARIABLES status, stamps

vars == <<status, stamps>>

OrderStatus == {"pending", "accepted", "in_prep", "ready",
                "out_for_delivery", "completed", "rejected", "cancelled"}

\* The transition table of the order service, as a relation.
VALID_TRANSITIONS ==
    {<<"pending", "accepted">>, <<"pending", "rejected">>,
     <<"pending", "cancelled">>, <<"accepted", "in_prep">>,
     <<"accepted", "cancelled">>, <<"in_prep", "ready">>,
     <<"ready", "out_for_delivery">>, <<"ready", "completed">>,
     <<"out_for_delivery", "completed">>}

Stamps == {"accepted_at", "prep_started_at", "ready_at", "completed_at"}

\* The timestamp column that reaching status s fills in, if it has one.
STATUS_TIMESTAMP_MAP(s) ==
    CASE s = "accepted"  -> {"accepted_at"}
      [] s = "in_prep"   -> {"prep_started_at"}
      [] s = "ready"     -> {"ready_at"}
      [] s = "completed" -> {"completed_at"}
      [] OTHER           -> {}

Init == /\ status = [o \in Orders |-> "absent"]
        /\ stamps = [o \in Orders |-> {}]

Place(o) ==
    /\ status[o] = "absent"
    /\ status' = [status EXCEPT ![o] = "pending"]
    /\ UNCHANGED stamps

Advance(o, s) ==
    /\ <<status[o], s>> \in VALID_TRANSITIONS
    /\ status' = [status EXCEPT ![o] = s]
    /\ stamps' = [stamps EXCEPT ![o] = @ \cup STATUS_TIMESTAMP_MAP(s)]

Next == \E o \in Orders : Place(o) \/ \E s \in OrderStatus : Advance(o, s)

Spec == Init /\ [][Next]_vars

\* The statuses order o has been in, as far as its stamps tell.
Been(o) ==
    {"pending"} \cup {s \in OrderStatus : STATUS_TIMESTAMP_MAP(s) \cap stamps[o] # {}}

\* An arrow from a status the order has been in, now or earlier.
LateAdvance(o, s) ==
    /\ status[o] # "absent"
    /\ \E t \in Been(o) : <<t, s>> \in VALID_TRANSITIONS
    /\ status' = [status EXCEPT ![o] = s]
    /\ stamps' = [stamps EXCEPT ![o] = @ \cup STATUS_TIMESTAMP_MAP(s)]

LateNext == \E o \in Orders : Place(o) \/ \E s \in OrderStatus : LateAdvance(o, s)

LateSpec == Init /\ [][LateNext]_vars
=============================================================================
