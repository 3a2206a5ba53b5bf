\* Orders of items that are not counted: no row lock keeps them apart.
SPECIFICATION Spec
CONSTANTS
    N = 2
    Phones = {p}
    OrderReqs = {a, b}
    EditReqs = {}
    DropReqs = {}
    ViewReqs = {}
    Carts <- OneOfEither
    Patches = {}
    InitStock <- Untracked
    PoolSize = 2
    Null = Null
    Keep = Keep
INVARIANTS TotalsExact
