\* Status updates overlap, of one order and of two.
SPECIFICATION Spec
CONSTANTS
    Orders = {o1, o2}
    Requests = {r1, r2}
INVARIANTS TypeOK StatusStamped StampChain DroppedBeforePrep
PROPERTIES LateBoardSpec FollowsBoard
\* Once every order is closed no request is accepted any more.
CHECK_DEADLOCK FALSE
