---------------------------- MODULE RoomBuilder ----------------------------
(***************************************************************************)
(* What the four room builders have in common: the arrays of connections   *)
(* they fill, and what those arrays must look like.  How they are filled   *)
(* is in BuildRooms (suhho.buildrooms.c), LuuBuildRooms,                   *)
(* DoughertyBuildRooms and RicoBuildRooms.                                 *)
(***************************************************************************)
EXTENDS Integers, FiniteSets

CONSTANTS Rooms,         \* the rooms, 0..6 in the code
          MinOutbound,   \* 3 in the code
          MaxOutbound    \* 6 in the code

\* The code writes 7, 3 and 6; that 6 = 7 - 1 is what the loops rely on.
ASSUME RoomsAssumption == IsFiniteSet(Rooms) /\ -1 \notin Rooms
ASSUME MaxAssumption   == MaxOutbound \in Nat /\ MaxOutbound = Cardinality(Rooms) - 1
ASSUME MinAssumption   == MinOutbound \in 1 .. MaxOutbound

VARIABLES pc, room1, room2,
          outbound,      \* the array of connections of every room, -1 for none
          num            \* the counter next to it

vars == <<pc, room1, room2, outbound, num>>

Slots == 1 .. MaxOutbound

-----------------------------------------------------------------------------
TypeOK ==
    /\ pc \in {"check", "pick1", "pick2", "connect12", "connect21", "done"}
    /\ room1 \in Rooms \cup {-1} /\ room2 \in Rooms \cup {-1}
    /\ outbound \in [Rooms -> [Slots -> Rooms \cup {-1}]]
    /\ num \in [Rooms -> 0 .. MaxOutbound]

Neighbours(x) == {y \in Rooms : \E i \in Slots : outbound[x][i] = y}

\* The counter of a room is the number of different rooms it leads to, none
\* of them itself, also between the two directions of a connection.
CountsNeighbours ==
    \A x \in Rooms : x \notin Neighbours(x) /\ num[x] = Cardinality(Neighbours(x))

\* Connections lead both ways whenever no connection is being made.
BothWays ==
    pc # "connect21" => \A x, y \in Rooms : y \in Neighbours(x) => x \in Neighbours(y)

\* A builder implements RoomGraph: a connection counts once it is in the
\* arrays of both rooms.
Linked(x) == {y \in Neighbours(x) : x \in Neighbours(y)}

Graph == INSTANCE RoomGraph WITH
    edges    <- UNION {{{x, y} : y \in Linked(x)} : x \in Rooms},
    finished <- pc = "done"

ImplementsRoomGraph == Graph!Spec

\* A builder ends, with every room in reach of the limits.
Terminates == <>(pc = "done" /\ \A x \in Rooms : num[x] >= MinOutbound)
=============================================================================
