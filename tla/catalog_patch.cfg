\* Two requests: a menu is created, its status patched.
SPECIFICATION CatalogSpec
CONSTANTS
    Kitchens = {k}
    MenuReqs = {q1, q2}
    OldMenus = {}
    OldItems = {}
    Keep = Keep
PROPERTIES PublishedHasItems
\* Requests are used up.
CHECK_DEADLOCK FALSE
