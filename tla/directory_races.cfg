\* Six requests share two connections.
SPECIFICATION Spec
CONSTANTS
    p1 = p1
    p2 = p2
    Phones = {p1, p2}
    CreateReqs = {a, b}
    ImportReqs = {i}
    OrderReqs = {o}
    UpdateReqs = {u, v}
    Lists <- ShortLists
    PoolSize = 2
SYMMETRY Symmetry
INVARIANTS TypeOK DuplicatesBounded AnsweredListed NothingOfFailed ChoiceStands
PROPERTY BookSpec
CHECK_DEADLOCK FALSE
