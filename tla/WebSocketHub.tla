---------------------------- MODULE WebSocketHub ----------------------------
(***************************************************************************)
(* The connections of one kitchen (those of an order are kept by the same  *)
(* code in a set of their own), their endpoints, and broadcasts to them.   *)
(*                                                                         *)
(* A broadcast iterates the live Python set and awaits every send, so      *)
(* connections come and go and other broadcasts run in between.  The       *)
(* iterator raises when the size of the set is not what it was at the      *)
(* start; a set that shrank and grew back goes unnoticed, but may have     *)
(* been laid out anew: then the iterator may skip or repeat connections.   *)
(* Whatever a send raises, its connection counts as dead: the client has   *)
(* left, or the event cannot be encoded (json.dumps is inside the try).    *)
(***************************************************************************)
EXTENDS Naturals, FiniteSets

CONSTANTS
    Sockets,   \* WebSocket objects, one per connection
    Casts,     \* calls of broadcast_to_kitchen
    NoSocket

VARIABLES
    conns,      \* _kitchen_connections[kitchen_id]
    endpoint,   \* how far the endpoint of each connection is
    gone,       \* sockets whose client has left
    cast,       \* how far each broadcast is
    iter,       \* its iterator: the set at the start, the connections it has
                \* yielded, the one it is sending to, whether the set has changed
    dead        \* connections its sends have failed on

HubVars == <<conns, endpoint, gone, cast, iter, dead>>

NoIter == [start |-> {}, seen |-> {}, at |-> NoSocket, changed |-> FALSE]

HubInit ==
    /\ conns = {} /\ gone = {}
    /\ endpoint = [w \in Sockets |-> "new"]
    /\ cast = [b \in Casts |-> "idle"]
    /\ iter = [b \in Casts |-> NoIter]
    /\ dead = [b \in Casts |-> {}]

-----------------------------------------------------------------------------
Endpoint(w, s) == endpoint' = [endpoint EXCEPT ![w] = s]

\* The set becomes s; running iterators, but for those that are over, may find
\* that out.
SetConns(s, over) ==
    /\ conns' = s
    /\ iter' = [b \in Casts |->
           IF b \in over \/ cast[b] # "sending" THEN NoIter
           ELSE [iter[b] EXCEPT !.changed = @ \/ s # conns]]

\* await websocket.accept()
accept(w) ==
    /\ endpoint[w] = "new" /\ Endpoint(w, "accepted")
    /\ UNCHANGED <<conns, gone, cast, iter, dead>>

\* ... then the connection is added, and receive_text awaited.
connect_kitchen(w) ==
    /\ endpoint[w] = "accepted" /\ Endpoint(w, "open")
    /\ SetConns(conns \cup {w}, {})
    /\ UNCHANGED <<gone, cast, dead>>

\* receive_text raises WebSocketDisconnect.
disconnect_kitchen(w) ==
    /\ endpoint[w] = "open" /\ w \in gone /\ Endpoint(w, "closed")
    /\ SetConns(conns \ {w}, {})
    /\ UNCHANGED <<gone, cast, dead>>

\* receive_text raises anything else (a frame that is not text): the endpoint
\* ends, the connection is closed, and stays in the set.
endpoint_error(w) ==
    /\ endpoint[w] = "open" /\ Endpoint(w, "failed") /\ gone' = gone \cup {w}
    /\ UNCHANGED <<conns, cast, iter, dead>>

leave(w) ==
    /\ endpoint[w] \in {"accepted", "open"} /\ gone' = gone \cup {w}
    /\ UNCHANGED <<conns, endpoint, cast, iter, dead>>

\* Mutation of Remaining: what the broadcast has seen is written back.
RemainingSeen(b, failed) == iter[b].seen \ failed

\* The set after "-= dead", on whatever it has become by then.
Remaining(b, failed) == conns \ failed

\* The broadcast b, whose failed sends are those on failed, turns to its next
\* connection: RuntimeError leaves the loop, and dead is forgotten; or a send to
\* the connection the iterator yields; or the loop is over.
Turn(b, start, seen, changed, failed) ==
    \/ /\ Cardinality(conns) # Cardinality(start)
       /\ cast' = [cast EXCEPT ![b] = "raised"]
       /\ iter' = [iter EXCEPT ![b] = NoIter]
       /\ dead' = [dead EXCEPT ![b] = {}]
       /\ UNCHANGED conns
    \/ /\ Cardinality(conns) = Cardinality(start)
       /\ \E w \in IF changed THEN conns ELSE conns \ seen :
             /\ cast' = [cast EXCEPT ![b] = "sending"]
             /\ iter' = [iter EXCEPT ![b] = [start |-> start, seen |-> seen \cup {w},
                                             at |-> w, changed |-> changed]]
             /\ dead' = [dead EXCEPT ![b] = failed]
             /\ UNCHANGED conns
    \/ /\ Cardinality(conns) = Cardinality(start)
       /\ changed \/ conns \subseteq seen
       /\ SetConns(Remaining(b, failed), {b})
       /\ cast' = [cast EXCEPT ![b] = "returned"]
       /\ dead' = [dead EXCEPT ![b] = failed]

broadcast_to_kitchen(b) ==
    /\ cast[b] = "idle"
    /\ Turn(b, conns, {}, FALSE, {})
    /\ UNCHANGED <<endpoint, gone>>

\* The await of a send is over.  It may have raised.
sent(b) ==
    /\ cast[b] = "sending"
    /\ \E failed \in SUBSET {iter[b].at} :
          Turn(b, iter[b].start, iter[b].seen, iter[b].changed, dead[b] \cup failed)
    /\ UNCHANGED <<endpoint, gone>>

HubNext ==
    \/ \E w \in Sockets : \/ accept(w) \/ connect_kitchen(w) \/ disconnect_kitchen(w)
                          \/ endpoint_error(w) \/ leave(w)
    \/ \E b \in Casts : broadcast_to_kitchen(b) \/ sent(b)

HubSpec == HubInit /\ [][HubNext]_HubVars

-----------------------------------------------------------------------------
\* Sockets whose endpoint has added them to the set.
Added == {w \in Sockets : endpoint[w] \in {"open", "closed", "failed"}}

\* The hub holds sockets of endpoints that have added them, and a broadcast has
\* collected only connections it was given.
HubTypeOK ==
    /\ conns \subseteq {w \in Sockets : endpoint[w] \in {"open", "failed"}}
    /\ endpoint \in [Sockets -> {"new", "accepted", "open", "closed", "failed"}]
    /\ gone \subseteq Sockets
    /\ cast \in [Casts -> {"idle", "sending", "returned", "raised"}]
    /\ \A b \in Casts :
          /\ iter[b] \in [start : SUBSET Sockets, seen : SUBSET Sockets,
                          at : Sockets \cup {NoSocket}, changed : BOOLEAN]
          /\ dead[b] \subseteq Added

\* However broadcasts, arrivals and departures overlap, an open console is taken
\* out of the set only by a broadcast whose own send to it failed: not by one
\* that began before it came, nor by one that did not get to it.
RegisteredUnlessFailed ==
    \A w \in Sockets : endpoint[w] = "open" =>
        w \in conns \/ \E b \in Casts : cast[b] = "returned" /\ w \in dead[b]

\* A broadcast that returns has rid the hub of every connection its sends failed
\* on, for good, although others came and went during its awaits.
FailedForgotten == \A b \in Casts : cast[b] = "returned" => dead[b] \cap conns = {}

\* websocket.py:4, "Kitchen consoles connect to receive real-time order
\* updates.": a console that is connected, and still there, is registered.
LiveRegistered ==
    \A w \in Sockets : endpoint[w] = "open" /\ w \notin gone => w \in conns

\* websocket.py:44, "Push event to all console connections for this kitchen.":
\* when a broadcast is over, it has sent to every console that was registered
\* when it began and still is.
AllTold ==
    [][\A b \in Casts :
          cast[b] = "sending" /\ cast'[b] # "sending"
             => iter[b].start \cap conns \subseteq iter[b].seen]_HubVars
=============================================================================
