------------------------ MODULE DoughertyBuildRooms ------------------------
(***************************************************************************)
(* dougherm.buildrooms.c: the loop of main() over isGraphFull() and        *)
(* addRandomConnection().  Rooms are compared by their names, which        *)
(* roomCreate() must have made different: here a room is its name.         *)
(***************************************************************************)
EXTENDS RoomBuilder

\* Every room after roomInit().
Init ==
    /\ pc = "check"
    /\ room1 = -1 /\ room2 = -1
    /\ num = [x \in Rooms |-> 0]
    /\ outbound = [x \in Rooms |-> [i \in Slots |-> -1]]

-----------------------------------------------------------------------------
isGraphFull == \A x \in Rooms : ~(num[x] < MinOutbound)

canAddConnectionFrom(r) == num[r] < MaxOutbound

isSameRoom(x, y) == x = y

\* Mutant: the first slot is not looked at.
connectionAlreadyExistsFrom2(x, y) ==
    \E i \in Slots : i > 1 /\ outbound[x][i] = y /\ \A j \in 1 .. i - 1 : outbound[x][j] # -1

\* The slots of x up to the first empty one.
connectionAlreadyExists(x, y) ==
    \E i \in Slots : outbound[x][i] = y /\ \A j \in 1 .. i - 1 : outbound[x][j] # -1

\* The index at which the search for an empty slot stops: behind the array
\* if there is none.
FreeIndex(x) ==
    CHOOSE i \in 1 .. MaxOutbound + 1 :
        /\ \A j \in 1 .. i - 1 : outbound[x][j] # -1
        /\ i \in Slots => outbound[x][i] = -1

\* Mutant: the search starts at the second slot.
connectRoomFrom2(x, y) ==
    LET i == IF FreeIndex(x) = 1 THEN 2 ELSE FreeIndex(x) IN
    /\ outbound' = [outbound EXCEPT ![x] = [@ EXCEPT ![i] = y]]
    /\ num' = [num EXCEPT ![x] = @ + 1]

\* Nothing keeps a full room from a write behind its array, on the word
\* that is the pointer to its name: such a step is none of this module's.
connectRoom(x, y) ==
    /\ FreeIndex(x) \in Slots
    /\ outbound' = [outbound EXCEPT ![x] = [@ EXCEPT ![FreeIndex(x)] = y]]
    /\ num' = [num EXCEPT ![x] = @ + 1]

\* What the second loop of addRandomConnection() waits for.
Acceptable(x, y) ==
    canAddConnectionFrom(y) /\ ~isSameRoom(x, y) /\ ~connectionAlreadyExists(x, y)

-----------------------------------------------------------------------------
CheckFull ==
    /\ pc = "check"
    /\ pc' = IF isGraphFull THEN "done" ELSE "pick1"
    /\ UNCHANGED <<room1, room2, outbound, num>>

\* x = getRandomRoom(rooms)
PickX(r) ==
    /\ pc = "pick1"
    /\ room1' = r
    /\ pc' = IF canAddConnectionFrom(r) THEN "pick2" ELSE "pick1"
    /\ UNCHANGED <<room2, outbound, num>>

\* y = getRandomRoom(rooms)
PickY(r) ==
    /\ pc = "pick2"
    /\ room2' = r
    /\ pc' = IF Acceptable(room1, r) THEN "connect12" ELSE "pick2"
    /\ UNCHANGED <<room1, outbound, num>>

ConnectXY ==
    /\ pc = "connect12"
    /\ connectRoom(room1, room2)
    /\ pc' = "connect21"
    /\ UNCHANGED <<room1, room2>>

ConnectYX ==
    /\ pc = "connect21"
    /\ connectRoom(room2, room1)
    /\ pc' = "check"
    /\ UNCHANGED <<room1, room2>>

\* main() goes on to make the files.
Done == pc = "done" /\ UNCHANGED vars

Step == CheckFull \/ ConnectXY \/ ConnectYX
Next == Step \/ Done \/ \E r \in Rooms : PickX(r) \/ PickY(r)

Spec == Init /\ [][Next]_vars
=============================================================================
