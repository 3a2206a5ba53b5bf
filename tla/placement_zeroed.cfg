\* A console sets a stock to zero.
SPECIFICATION Spec
CONSTANTS
    N = 1
    Phones = {p}
    OrderReqs = {a}
    EditReqs = {e}
    DropReqs = {}
    ViewReqs = {}
    Carts <- ThreeOfFirst
    Patches <- SetToZero
    InitStock <- ThreeLeft
    PoolSize = 3
    Null = Null
    Keep = Keep
INVARIANTS AutoHide
