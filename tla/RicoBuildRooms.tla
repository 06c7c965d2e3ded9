--------------------------- MODULE RicoBuildRooms ---------------------------
(***************************************************************************)
(* ricoch.buildrooms.c: the loop of main() over isGraphFull() and          *)
(* addRandomConnection().  A room is its id, which is its index in         *)
(* roomList; room1 and room2 are the a and b of addRandomConnection().     *)
(***************************************************************************)
EXTENDS RoomBuilder

\* What initializeRooms() has done to ids and counters.
Init ==
    /\ pc = "check"
    /\ room1 = -1 /\ room2 = -1
    /\ outbound = [a \in Rooms |-> [i \in Slots |-> -1]]
    /\ num = [a \in Rooms |-> 0]

-----------------------------------------------------------------------------
isGraphFull == ~ \E i \in Rooms : num[i] < MinOutbound

canAddConnectionFrom(a) == num[a] < MaxOutbound

isSameRoom(a, b) == a = b

\* Mutant: it is looked for in a's own connections up to b's number.
connectionAlreadyExistsMixed(a, b) == \E i \in 1 .. num[b] : outbound[a][i] = a

\* The connections of b are searched for a.
connectionAlreadyExists(a, b) == \E i \in 1 .. num[b] : outbound[b][i] = a

\* Mutant: the counter is advanced first.
connectRoomCountsFirst(a, b) ==
    LET i == num[a] + 1 IN
    /\ num' = [num EXCEPT ![a] = i]
    /\ outbound' = [outbound EXCEPT ![a] = [@ EXCEPT ![(i % MaxOutbound) + 1] = b]]

connectRoom(a, b) ==
    /\ outbound' = [outbound EXCEPT ![a] = [@ EXCEPT ![num[a] + 1] = b]]
    /\ num' = [num EXCEPT ![a] = @ + 1]

\* What the second loop of addRandomConnection() waits for.
Acceptable(a, b) ==
    canAddConnectionFrom(b) /\ ~isSameRoom(a, b) /\ ~connectionAlreadyExists(a, b)

-----------------------------------------------------------------------------
CheckFull ==
    /\ pc = "check"
    /\ pc' = IF isGraphFull THEN "done" ELSE "pick1"
    /\ UNCHANGED <<room1, room2, outbound, num>>

\* a = getRandomRoom()
PickA(r) ==
    /\ pc = "pick1"
    /\ room1' = r
    /\ pc' = IF canAddConnectionFrom(r) THEN "pick2" ELSE "pick1"
    /\ UNCHANGED <<room2, outbound, num>>

\* b = getRandomRoom()
PickB(r) ==
    /\ pc = "pick2"
    /\ room2' = r
    /\ pc' = IF Acceptable(room1, r) THEN "connect12" ELSE "pick2"
    /\ UNCHANGED <<room1, outbound, num>>

ConnectAB ==
    /\ pc = "connect12"
    /\ connectRoom(room1, room2)
    /\ pc' = "connect21"
    /\ UNCHANGED <<room1, room2>>

ConnectBA ==
    /\ pc = "connect21"
    /\ connectRoom(room2, room1)
    /\ pc' = "check"
    /\ UNCHANGED <<room1, room2>>

\* main() goes on to make the folder.
Done == pc = "done" /\ UNCHANGED vars

Step == CheckFull \/ ConnectAB \/ ConnectBA
Next == Step \/ Done \/ \E r \in Rooms : PickA(r) \/ PickB(r)

Spec == Init /\ [][Next]_vars
=============================================================================
