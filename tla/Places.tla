-------------------------------- MODULE Places --------------------------------
(***************************************************************************)
(* What the room server promises about membership: a place is a user id in *)
(* a room; at any time a place is held by at most one connection and a     *)
(* connection holds at most one place.  RoomServer is shown to implement   *)
(* this with the places its Room objects hand out.                         *)
(***************************************************************************)
CONSTANTS Conns, Seats, None

VARIABLE holder     \* the connection that holds each place, None if free

Init == holder = [s \in Seats |-> None]

Enter(c, s) ==
    /\ holder[s] = None
    /\ \A t \in Seats : holder[t] # c
    /\ holder' = [holder EXCEPT ![s] = c]

Exit(s) ==
    /\ holder[s] # None
    /\ holder' = [holder EXCEPT ![s] = None]

Next == \E s \in Seats : Exit(s) \/ \E c \in Conns : Enter(c, s)

Spec == Init /\ [][Next]_holder

\* No connection holds two places.
OnePlaceEach ==
    \A s, t \in Seats : holder[s] # None /\ holder[s] = holder[t] => s = t
=============================================================================
