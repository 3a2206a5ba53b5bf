\* One console, one broadcast.
SPECIFICATION HubSpec
CONSTANTS
    Sockets = {w1}
    Casts = {b1}
    NoSocket = NoSocket
INVARIANTS LiveRegistered
\* Connections and broadcasts are used up.
CHECK_DEADLOCK FALSE
