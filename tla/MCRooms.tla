------------------------------ MODULE MCRooms ------------------------------
(***************************************************************************)
(* The TLC instance of three pairs of a room builder and its game, one of  *)
(* which runs.  Three rooms, with one or two connections each, stand for   *)
(* the seven.                                                              *)
(***************************************************************************)
EXTENDS RoomWorld

VARIABLE program    \* whose builder and game run

mcVars == <<program, vars>>

Suh       == INSTANCE SuhRooms
Luu       == INSTANCE LuuRooms
Dougherty == INSTANCE DoughertyRooms

MCNames  == <<"attic", "bath", "cellar", "den">>
MCGraphs == {<< <<2>>, <<3, 1>>, <<2>> >>}

Init ==
    \/ program = "suh"       /\ Suh!Init
    \/ program = "luu"       /\ Luu!Init
    \/ program = "dougherty" /\ Dougherty!Init

Next ==
    /\ \/ program = "suh"       /\ Suh!Next
       \/ program = "luu"       /\ Luu!Next
       \/ program = "dougherty" /\ Dougherty!Next
    /\ UNCHANGED program

Spec == Init /\ [][Next]_mcVars

-----------------------------------------------------------------------------
OutNames(i) ==
    CASE program = "suh"       -> Suh!OutNames(rooms, i)
      [] program = "luu"       -> Luu!OutNames(rooms, i)
      [] program = "dougherty" -> Dougherty!OutNames(rooms, i)

\* However a directory is listed, and in whatever state it was left, Suh's and
\* Luu's games read no more rooms than their arrays hold, and Luu's array for
\* the path grows before it is full.  Dougherty's stores one name behind its
\* array, never two, and only when the time file of an earlier game lies beside
\* the files of all rooms; it is not played then (dougherm.adventure.c:139-150).
ArraysHold ==
    /\ program = "luu" => Len(path) =< capacity
    /\ Len(rooms) > NUM_ROOMS =>
          /\ program = "dougherty" /\ pc = "undefined"
          /\ Len(rooms) = NUM_ROOMS + 1 /\ CurrentTime \in DOMAIN files[dirname]

\* What a game has read from a finished directory are the rooms that its
\* builder made: names, types and connections in their order, although the
\* files may be listed in any order.
RoomsAsBuilt ==
    pc = "play" /\ whole =>
        /\ Len(rooms) = NUM_ROOMS
        /\ \A k \in 1 .. NUM_ROOMS : \E i \in DOMAIN rooms :
              RoomText(made[dirname], k) =
              [kind |-> "room", name |-> rooms[i].name, type |-> rooms[i].type,
               outs |-> OutNames(i)]

\* The game is in the last room of its path, and the path is a walk along
\* connections from the START_ROOM, in Luu's and Dougherty's games also in a
\* directory that was left unfinished.  Suh keeps names, and not the first
\* one; of an unfinished directory they may be those of rooms without a file.
PathIsWalk ==
    pc \in {"play", "over"} /\ (whole \/ program # "suh") /\ current # 0 =>
        LET index(name) == CHOOSE i \in DOMAIN rooms : rooms[i].name = name
            start == CHOOSE i \in DOMAIN rooms : rooms[i].type = "START_ROOM"
            trail == IF program = "suh"
                     THEN <<start>> \o [k \in DOMAIN path |-> index(path[k])]
                     ELSE path
        IN  /\ trail[1] = start /\ trail[Len(trail)] = current
            /\ \A k \in 1 .. Len(trail) - 1 :
                  /\ rooms[trail[k]].type # "END_ROOM"
                  /\ rooms[trail[k + 1]].name \in Range(OutNames(trail[k]))

\* Luu and Dougherty choose a directory that no other one is younger than,
\* those set aside that have changed since the game has looked.
NewestDirChosen ==
    program # "suh" /\ pc = "read" =>
        \A d \in Existing : mtime[d] < opened => mtime[d] =< mtime[dirname]

\* Only a directory whose builder has not finished keeps Luu's and Suh's
\* games from being played: a game played before does not.
FinishedIsPlayable == pc = "undefined" /\ whole => program = "dougherty"
=============================================================================
