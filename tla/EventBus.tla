------------------------------ MODULE EventBus ------------------------------
(***************************************************************************)
(* The in-process event bus: handlers are registered per event name, and   *)
(* emit awaits them one after the other.  Emissions of different requests  *)
(* overlap at those awaits; a handler that raises is logged.               *)
(***************************************************************************)
EXTENDS Naturals, Sequences, SequencesExt

CONSTANTS
    Events,      \* event names
    Handlers,    \* async functions decorated with @on
    Emissions,   \* calls of emit
    NoEvent

ASSUME EventsAssumption == NoEvent \notin Events

VARIABLES
    registry,    \* _handlers: event name -> list of handlers
    emission,    \* the event each call of emit is about, NoEvent before it
    next,        \* the index of the handler it awaits; 0 when it has returned
    known,       \* the handlers there were when it began
    ran          \* the handlers it has run to their end

BusVars == <<registry, emission, next, known, ran>>

BusInit ==
    /\ registry = [e \in Events |-> <<>>]
    /\ emission = [m \in Emissions |-> NoEvent]
    /\ next = [m \in Emissions |-> 0]
    /\ known = [m \in Emissions |-> <<>>]
    /\ ran = [m \in Emissions |-> <<>>]

-----------------------------------------------------------------------------
\* @on(event): the decorator of h runs once, when its module is imported.
on(e, h) ==
    /\ \A f \in Events : h \notin ToSet(registry[f])
    /\ registry' = [registry EXCEPT ![e] = Append(@, h)]
    /\ UNCHANGED <<emission, next, known, ran>>

emit(m, e) ==
    /\ emission[m] = NoEvent
    /\ emission' = [emission EXCEPT ![m] = e]
    /\ known' = [known EXCEPT ![m] = registry[e]]
    /\ next' = [next EXCEPT ![m] = IF registry[e] = <<>> THEN 0 ELSE 1]
    /\ UNCHANGED <<registry, ran>>

\* The index after i in the list as it is now, which a later import may have
\* extended; 0 at its end.
After(m, i) == IF i < Len(registry[emission[m]]) THEN i + 1 ELSE 0

\* Mutations of handled: an exception leaves the loop; the handler is put at
\* the end of the list, to be tried again, after an exception.
RaiseEndsLoop(m) ==
    /\ next[m] > 0
    /\ \E raised \in BOOLEAN : next' = [next EXCEPT ![m] = IF raised THEN 0 ELSE After(m, @)]
    /\ ran' = [ran EXCEPT ![m] = Append(@, registry[emission[m]][next[m]])]
    /\ UNCHANGED <<registry, emission, known>>
RaiseRequeues(m) ==
    /\ next[m] > 0
    /\ \/ /\ next' = [next EXCEPT ![m] = After(m, @)]
          /\ ran' = [ran EXCEPT ![m] = Append(@, registry[emission[m]][next[m]])]
          /\ UNCHANGED registry
       \/ /\ registry' = [registry EXCEPT ![emission[m]] =
                              Append(RemoveAt(@, next[m]), @[next[m]])]
          /\ UNCHANGED <<next, ran>>
    /\ UNCHANGED <<emission, known>>

\* The awaited handler returns, or raises and is logged: the loop goes on.
handled(m) ==
    /\ next[m] > 0
    /\ next' = [next EXCEPT ![m] = After(m, @)]
    /\ ran' = [ran EXCEPT ![m] = Append(@, registry[emission[m]][next[m]])]
    /\ UNCHANGED <<registry, emission, known>>

BusNext ==
    \/ \E e \in Events : \/ \E h \in Handlers : on(e, h)
                         \/ \E m \in Emissions : emit(m, e)
    \/ \E m \in Emissions : handled(m)

\* Handlers end: those of the repository log and return.
BusFairness == \A m \in Emissions : WF_BusVars(handled(m))

BusSpec == BusInit /\ [][BusNext]_BusVars /\ BusFairness

-----------------------------------------------------------------------------
\* Lists hold handlers, none twice, and an emission runs those of its event.
BusTypeOK ==
    /\ registry \in [Events -> Seq(Handlers)]
    /\ emission \in [Emissions -> Events \cup {NoEvent}]
    /\ \A m \in Emissions :
          /\ next[m] > 0 => next[m] \in DOMAIN registry[emission[m]]
          /\ IsPrefix(ran[m], IF emission[m] = NoEvent THEN <<>> ELSE registry[emission[m]])

\* event_bus.py:31, "Fire all handlers for the given event. Errors are logged,
\* not raised.": an emission that has returned has run every handler there was
\* when it began, once and in the order of registration, whichever of them
\* raised and whatever was registered or emitted meanwhile.
EveryHandlerRan ==
    \A m \in Emissions :
        emission[m] # NoEvent /\ next[m] = 0 => IsPrefix(known[m], ran[m])

\* An emission returns once its handlers do.
EmissionReturns == \A m \in Emissions : next[m] > 0 ~> next[m] = 0
=============================================================================
