---------------------------- MODULE MCSessionRouter ----------------------------
EXTENDS SessionRouter

Budget(most) == [k \in Kinds |-> IF k \in DOMAIN most THEN most[k] ELSE 0]

\* Two clients share sessions that are removed, die and fail; the server goes down.
Sharing == {
    Budget([attach |-> 2, loss |-> 1, close |-> 1]),
    Budget([attach |-> 2, call |-> 1, loss |-> 1]),
    Budget([attach |-> 2, remove |-> 1, loss |-> 1]),
    Budget([attach |-> 2, terminate |-> 1, call |-> 1]),
    Budget([attach |-> 2, detach |-> 1, fault |-> 1, call |-> 1]),
    Budget([attach |-> 2, call |-> 1, remove |-> 1]),
    Budget([attach |-> 2, terminate |-> 1, close |-> 1]),
    Budget([attach |-> 2, remove |-> 1, fault |-> 1]),
    Budget([attach |-> 2, close |-> 1, fault |-> 1]),
    Budget([attach |-> 1, remove |-> 1, close |-> 1, fault |-> 2]),
    Budget([attach |-> 2, remove |-> 1, mute |-> 1]),
    Budget([attach |-> 1, terminate |-> 1, mute |-> 1, loss |-> 1]),
    Budget([attach |-> 1, terminate |-> 1, mute |-> 1, close |-> 1]),
    Budget([attach |-> 3, loss |-> 1]) }

\* A request to attach is carried out after the loss of the connection it came by.
Late == {Budget([late |-> 1, loss |-> 1])}
=============================================================================
