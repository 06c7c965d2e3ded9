----------------------------- MODULE RoomGraph -----------------------------
(***************************************************************************)
(* What both room builders of the adventure game promise: starting from no *)
(* connection at all, new two-way connections between two different rooms  *)
(* are added, one at a time and only while some room still has fewer than  *)
(* MinOutbound of them; then the rooms are handed on.                      *)
(***************************************************************************)
EXTENDS Naturals, FiniteSets

CONSTANTS Rooms, MinOutbound

VARIABLES edges,      \* the connections, as sets of two rooms
          finished    \* the rooms have been handed on

graphVars == <<edges, finished>>

Degree(x) == Cardinality({e \in edges : x \in e})
Complete  == \A x \in Rooms : Degree(x) >= MinOutbound

Init == edges = {} /\ finished = FALSE

Connect ==
    /\ ~finished /\ ~Complete
    /\ \E x, y \in Rooms :
          /\ x # y /\ {x, y} \notin edges
          /\ edges' = edges \cup {{x, y}}
    /\ UNCHANGED finished

Finish ==
    /\ ~finished /\ Complete
    /\ finished' = TRUE
    /\ UNCHANGED edges

Next == Connect \/ Finish

SafeSpec == Init /\ [][Next]_graphVars

\* A builder never stops half way.
Spec == SafeSpec /\ WF_graphVars(Next)
=============================================================================
