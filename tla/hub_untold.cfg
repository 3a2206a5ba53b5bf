\* Consoles come and go while a broadcast sends.
SPECIFICATION HubSpec
CONSTANTS
    Sockets = {w1, w2}
    Casts = {b1}
    NoSocket = NoSocket
PROPERTIES AllTold
\* Connections and broadcasts are used up.
CHECK_DEADLOCK FALSE
