\* One console hides an item, another restocks and shows it, while it is sold
\* out.  No patch sets a stock to zero or shows an item without stock.
SPECIFICATION Spec
CONSTANTS
    N = 1
    Phones = {p}
    OrderReqs = {a}
    EditReqs = {e, f}
    DropReqs = {}
    ViewReqs = {}
    Carts <- ThreeOfFirst
    Patches <- HideOrRestock
    InitStock <- ThreeLeft
    PoolSize = 3
    Null = Null
    Keep = Keep
INVARIANTS AutoHide
