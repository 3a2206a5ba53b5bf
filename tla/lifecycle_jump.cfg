\* Two updates of one order overlap.
SPECIFICATION Spec
CONSTANTS
    Orders = {o1}
    Requests = {r1, r2}
PROPERTIES EveryChangeValid
\* Once every order is closed no request is accepted any more.
CHECK_DEADLOCK FALSE
