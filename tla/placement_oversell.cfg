\* Two orders read the same stock.
SPECIFICATION Spec
CONSTANTS
    N = 1
    Phones = {p}
    OrderReqs = {a, b}
    EditReqs = {}
    DropReqs = {}
    ViewReqs = {}
    Carts <- OneOfFirst
    Patches = {}
    InitStock <- OneLeft
    PoolSize = 2
    Null = Null
    Keep = Keep
INVARIANTS AtomicDecrement
