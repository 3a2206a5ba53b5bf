\* Every order takes the same tracked item, so the lock on its row serialises
\* the orders from their customer lookup to their commit.
SPECIFICATION FairSpec
CONSTANTS
    N = 2
    Phones = {p}
    OrderReqs = {a, b, c}
    EditReqs = {e}
    DropReqs = {}
    ViewReqs = {}
    Carts <- AllOfFirst
    Patches <- Restock
    InitStock <- TwoLeft
    PoolSize = 3
    Null = Null
    Keep = Keep
INVARIANTS UniquePhone TotalsExact
PROPERTIES Finished
