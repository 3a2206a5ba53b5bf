SPECIFICATION Spec
CONSTANTS
    k1 = k1
    m1 = m1
    i1 = i1
    \* two registrations for two e-mails
    Emails = {e, f}
    NoEmail = NoEmail
    RegisterReqs = {r1, r2}
    Issues = {0, 1}
    \* three requests on the menus of two kitchens
    Kitchens = {k1, k2}
    MenuReqs = {q1, q2, q3}
    OldMenus <- OneMenu
    OldItems <- OneItem
    Keep = Keep
    \* two sessions, the last of an item, events delivered three times
    Items = {x, y}
    Carts <- Baskets
    Sessions = {s1, s2}
    InitStock = 2
    Withdrawals = {x}
    MaxDeliveries = 3
    MaxPosts = 2
    NoId = NoId
    \* two connections, two broadcasts
    Sockets = {w1, w2}
    Casts = {b1, b2}
    NoSocket = NoSocket
    \* two events, three handlers, two emissions
    Events = {created, changed}
    Handlers = {h1, h2, h3}
    Emissions = {n1, n2}
    NoEvent = NoEvent
INVARIANTS
    TypesOK UniqueEmail TokensNameKitchens NoOrphans
    RegisteredUnlessFailed FailedForgotten EveryHandlerRan
PROPERTIES
    TenantIsolation DeactivatedRunsOut EmissionReturns
\* Requests, sessions, connections and emissions are used up.
CHECK_DEADLOCK FALSE
