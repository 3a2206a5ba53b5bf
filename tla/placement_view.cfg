\* A hidden item, and a view of the public page.
SPECIFICATION Spec
CONSTANTS
    N = 1
    Phones = {p}
    OrderReqs = {a}
    EditReqs = {e}
    DropReqs = {}
    ViewReqs = {v}
    Carts <- ThreeOfFirst
    Patches <- HideOrShow
    InitStock <- ThreeLeft
    PoolSize = 3
    Null = Null
    Keep = Keep
PROPERTIES ViewOnlyReads
