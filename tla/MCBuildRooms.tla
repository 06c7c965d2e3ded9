---------------------------- MODULE MCBuildRooms ----------------------------
(***************************************************************************)
(* The TLC instance of the four room builders, one of which runs.  They    *)
(* work on the same kind of arrays, so they share the variables and the    *)
(* properties of RoomBuilder.  The rooms are model values.                 *)
(***************************************************************************)
EXTENDS RoomBuilder

VARIABLE program    \* whose builder runs

mcVars == <<program, vars>>

Suh       == INSTANCE BuildRooms
Luu       == INSTANCE LuuBuildRooms
Dougherty == INSTANCE DoughertyBuildRooms
Rico      == INSTANCE RicoBuildRooms

Init ==
    \/ program = "suh"       /\ Suh!Init
    \/ program = "luu"       /\ Luu!Init
    \/ program = "dougherty" /\ Dougherty!Init
    \/ program = "rico"      /\ Rico!Init

Next ==
    /\ \/ program = "suh"       /\ Suh!Next
       \/ program = "luu"       /\ Luu!Next
       \/ program = "dougherty" /\ Dougherty!Next
       \/ program = "rico"      /\ Rico!Next
    /\ UNCHANGED program

Spec == Init /\ [][Next]_mcVars

-----------------------------------------------------------------------------
(* Fairness: everything but the draws simply runs, and rand() % NUM_ROOMS  *)
(* draws every room again and again, so a rejection loop that goes on for  *)
(* ever sees each of them.                                                 *)

Step ==
    /\ \/ program = "suh" /\ (Suh!CheckFull \/ Suh!Connect12 \/ Suh!Connect21)
       \/ program = "luu" /\ Luu!Step
       \/ program = "dougherty" /\ Dougherty!Step
       \/ program = "rico" /\ Rico!Step
    /\ UNCHANGED program

Draw1(r) ==
    /\ \/ program = "suh" /\ Suh!PickRoom1(r)
       \/ program = "luu" /\ Luu!PickX(r)
       \/ program = "dougherty" /\ Dougherty!PickX(r)
       \/ program = "rico" /\ Rico!PickA(r)
    /\ UNCHANGED program

Draw2(r) ==
    /\ \/ program = "suh" /\ Suh!PickRoom2(r)
       \/ program = "luu" /\ Luu!PickY(r)
       \/ program = "dougherty" /\ Dougherty!PickY(r)
       \/ program = "rico" /\ Rico!PickB(r)
    /\ UNCHANGED program

FairSpec ==
    /\ Spec
    /\ WF_mcVars(Step)
    /\ \A r \in Rooms : SF_mcVars(Draw1(r)) /\ SF_mcVars(Draw2(r))

-----------------------------------------------------------------------------
\* Neither rejection loop is ever entered without a draw that ends it, in
\* none of the four programs.
AnAcceptableDrawExists ==
    LET Addable(x) ==
            CASE program = "suh"       -> Suh!CanAddConnectionFrom(x)
              [] program = "luu"       -> Luu!CanAddOutboundFrom(x)
              [] program = "dougherty" -> Dougherty!canAddConnectionFrom(x)
              [] program = "rico"      -> Rico!canAddConnectionFrom(x)
        Taken(x, y) ==
            CASE program = "suh"       -> Suh!Acceptable(x, y)
              [] program = "luu"       -> Luu!Acceptable(x, y)
              [] program = "dougherty" -> Dougherty!Acceptable(x, y)
              [] program = "rico"      -> Rico!Acceptable(x, y)
    IN  /\ pc = "pick1" => \E r \in Rooms : Addable(r)
        /\ pc = "pick2" => \E r \in Rooms : Taken(room1, r)
=============================================================================
