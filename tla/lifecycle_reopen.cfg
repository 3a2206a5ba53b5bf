\* Two updates of one order overlap, one of which closes it.
SPECIFICATION Spec
CONSTANTS
    Orders = {o1}
    Requests = {r1, r2}
PROPERTIES TerminalIsFinal
\* Once every order is closed no request is accepted any more.
CHECK_DEADLOCK FALSE
