\* One session is paid, the item is on offer and in stock.
SPECIFICATION CheckoutSpec
CONSTANTS
    Items = {x}
    Carts = {{x}}
    Sessions = {s}
    InitStock = 2
    Withdrawals = {}
    MaxDeliveries = 3
    MaxPosts = 1
    NoId = NoId
INVARIANTS ConfirmedIsOrdered
\* The session is used up.
CHECK_DEADLOCK FALSE
