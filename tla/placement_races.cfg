\* Orders, an edit, a deletion and a view overlap, three at a time.
SPECIFICATION Spec
CONSTANTS
    N = 2
    Phones = {p}
    OrderReqs = {a, b}
    EditReqs = {e}
    DropReqs = {d}
    ViewReqs = {v}
    Carts <- BackAgainCarts
    Patches <- AnyPatch
    InitStock <- TwoTracked
    PoolSize = 3
    Null = Null
    Keep = Keep
SYMMETRY RequestSymmetry
INVARIANTS TypeOK StockNonNegative NoDeadlock
PROPERTIES SaleHides LateSpec
