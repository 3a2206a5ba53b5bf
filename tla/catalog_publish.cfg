\* A menu of one item is created; its publication and a deletion of the item overlap.
SPECIFICATION CatalogSpec
CONSTANTS
    Kitchens = {k}
    MenuReqs = {q1, q2, q3}
    OldMenus = {}
    OldItems = {}
    Keep = Keep
PROPERTIES PublishChecked
\* Requests are used up.
CHECK_DEADLOCK FALSE
