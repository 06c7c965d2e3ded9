----------------------------- MODULE BuildRooms -----------------------------
(***************************************************************************)
(* suhho.buildrooms.c up to the complete graph: main()'s loop over         *)
(* IsGraphFull() and AddRandomConnection(), whose two rejection loops draw *)
(* rand() % 7 until the draw is acceptable, and ConnectRoom(), which is    *)
(* called once for each direction.  What make_file() then does with the    *)
(* graph is not part of this module.                                       *)
(***************************************************************************)
EXTENDS RoomBuilder

Init ==
    /\ pc = "check"
    /\ room1 = -1 /\ room2 = -1
    /\ outbound = [x \in Rooms |-> [i \in Slots |-> -1]]
    /\ num = [x \in Rooms |-> 0]

-----------------------------------------------------------------------------
\* Mutant: MinOutbound connections are not enough yet.
IsGraphFullStrict == \A x \in Rooms : num[x] > MinOutbound

IsGraphFull == \A x \in Rooms : num[x] >= MinOutbound

\* Mutant: one connection too many is allowed.
CanAddConnectionFromLate(x) == num[x] =< MaxOutbound

CanAddConnectionFrom(x) == num[x] < MaxOutbound

ConnectionAlreadyExists(x, y) == \E i \in Slots : outbound[x][i] = y

FirstFree(x, i) ==
    outbound[x][i] = -1 /\ \A j \in 1 .. i - 1 : outbound[x][j] # -1

\* Mutant: the counter is forgotten.
ConnectRoomUncounted(x, y) ==
    \/ \E i \in Slots :
          /\ FirstFree(x, i)
          /\ outbound' = [outbound EXCEPT ![x] = [@ EXCEPT ![i] = y]]
          /\ UNCHANGED num
    \/ /\ \A i \in Slots : outbound[x][i] # -1
       /\ UNCHANGED <<outbound, num>>

\* Mutant: the connection is counted for both rooms in each direction.
ConnectRoomCountsBoth(x, y) ==
    \/ \E i \in Slots :
          /\ FirstFree(x, i)
          /\ outbound' = [outbound EXCEPT ![x] = [@ EXCEPT ![i] = y]]
          /\ num' = [num EXCEPT ![x] = @ + 1, ![y] = @ + 1]
    \/ /\ \A i \in Slots : outbound[x][i] # -1
       /\ UNCHANGED <<outbound, num>>

\* y goes to the first free slot of x; without one nothing happens.
ConnectRoom(x, y) ==
    \/ \E i \in Slots :
          /\ FirstFree(x, i)
          /\ outbound' = [outbound EXCEPT ![x] = [@ EXCEPT ![i] = y]]
          /\ num' = [num EXCEPT ![x] = @ + 1]
    \/ /\ \A i \in Slots : outbound[x][i] # -1
       /\ UNCHANGED <<outbound, num>>

\* What the second loop of AddRandomConnection() waits for.
Acceptable(x, y) ==
    CanAddConnectionFrom(y) /\ x # y /\ ~ConnectionAlreadyExists(x, y)

-----------------------------------------------------------------------------
\* The test of main()'s loop.
CheckFull ==
    /\ pc = "check"
    /\ pc' = IF IsGraphFull THEN "done" ELSE "pick1"
    /\ UNCHANGED <<room1, room2, outbound, num>>

\* One draw of the first loop.
PickRoom1(r) ==
    /\ pc = "pick1"
    /\ room1' = r
    /\ pc' = IF CanAddConnectionFrom(r) THEN "pick2" ELSE "pick1"
    /\ UNCHANGED <<room2, outbound, num>>

\* One draw of the second loop.
PickRoom2(r) ==
    /\ pc = "pick2"
    /\ room2' = r
    /\ pc' = IF Acceptable(room1, r) THEN "connect12" ELSE "pick2"
    /\ UNCHANGED <<room1, outbound, num>>

Connect12 ==
    /\ pc = "connect12"
    /\ ConnectRoom(room1, room2)
    /\ pc' = "connect21"
    /\ UNCHANGED <<room1, room2>>

\* Mutant: the same direction a second time.
Connect21Again ==
    /\ pc = "connect21"
    /\ ConnectRoom(room1, room2)
    /\ pc' = "check"
    /\ UNCHANGED <<room1, room2>>

Connect21 ==
    /\ pc = "connect21"
    /\ ConnectRoom(room2, room1)
    /\ pc' = "check"
    /\ UNCHANGED <<room1, room2>>

Done == pc = "done" /\ UNCHANGED vars

Next ==
    \/ CheckFull \/ Connect12 \/ Connect21
    \/ \E r \in Rooms : PickRoom1(r) \/ PickRoom2(r)
    \/ Done

Spec == Init /\ [][Next]_vars

=============================================================================
