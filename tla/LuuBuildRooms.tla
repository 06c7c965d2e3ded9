--------------------------- MODULE LuuBuildRooms ---------------------------
(***************************************************************************)
(* luuph.buildrooms.c: the loop at the end of GenerateRooms().  A room is  *)
(* the address of its structure, num is num_outbounds, room1 and room2 are *)
(* the x and y of AddRandomConnection().  ConnectRooms() enters both       *)
(* directions of a connection, at the index that num_outbounds names.      *)
(***************************************************************************)
EXTENDS RoomBuilder

\* The rooms as the loop before has left them.
Init ==
    /\ pc = "check"
    /\ room1 = -1 /\ room2 = -1
    /\ num = [x \in Rooms |-> 0]
    /\ outbound = [x \in Rooms |-> [j \in Slots |-> -1]]

-----------------------------------------------------------------------------
IsGraphComplete ==
    ~ \E i \in Rooms : num[i] < MinOutbound \/ MaxOutbound < num[i]

CanAddOutboundFrom(x) == num[x] < MaxOutbound

IsSameRoom(x, y) == x = y

\* Mutant: the last connection of a room is not looked at.
ConnectionExistsButLast(x, y) == \E i \in 1 .. num[x] - 1 : outbound[x][i] = y

\* Only the used slots are looked at, and only those of x.
ConnectionExists(x, y) == \E i \in 1 .. num[x] : outbound[x][i] = y

\* Mutant: y's counter is not advanced.
ConnectRoomsCountsX(x, y) ==
    IF CanAddOutboundFrom(x) /\ CanAddOutboundFrom(y)
    THEN /\ outbound' = [outbound EXCEPT
                            ![x] = [@ EXCEPT ![num[x] + 1] = y],
                            ![y] = [@ EXCEPT ![num[y] + 1] = x]]
         /\ num' = [num EXCEPT ![x] = @ + 1]
    ELSE UNCHANGED <<outbound, num>>

\* x -> y and y -> x, unless one of the rooms is full.
ConnectRooms(x, y) ==
    IF CanAddOutboundFrom(x) /\ CanAddOutboundFrom(y)
    THEN /\ outbound' = [outbound EXCEPT
                            ![x] = [@ EXCEPT ![num[x] + 1] = y],
                            ![y] = [@ EXCEPT ![num[y] + 1] = x]]
         /\ num' = [num EXCEPT ![x] = @ + 1, ![y] = @ + 1]
    ELSE UNCHANGED <<outbound, num>>

\* What the second loop of AddRandomConnection() waits for.
Acceptable(x, y) ==
    CanAddOutboundFrom(y) /\ ~IsSameRoom(x, y) /\ ~ConnectionExists(x, y)

-----------------------------------------------------------------------------
CheckComplete ==
    /\ pc = "check"
    /\ pc' = IF IsGraphComplete THEN "done" ELSE "pick1"
    /\ UNCHANGED <<room1, room2, outbound, num>>

PickX(r) ==
    /\ pc = "pick1"
    /\ room1' = r
    /\ pc' = IF CanAddOutboundFrom(r) THEN "pick2" ELSE "pick1"
    /\ UNCHANGED <<room2, outbound, num>>

PickY(r) ==
    /\ pc = "pick2"
    /\ room2' = r
    /\ pc' = IF Acceptable(room1, r) THEN "connect12" ELSE "pick2"
    /\ UNCHANGED <<room1, outbound, num>>

Connect ==
    /\ pc = "connect12"
    /\ ConnectRooms(room1, room2)
    /\ pc' = "check"
    /\ UNCHANGED <<room1, room2>>

\* GenerateRooms() returns.
Done == pc = "done" /\ UNCHANGED vars

Step == CheckComplete \/ Connect
Next == Step \/ Done \/ \E r \in Rooms : PickX(r) \/ PickY(r)

Spec == Init /\ [][Next]_vars
=============================================================================
