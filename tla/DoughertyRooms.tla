--------------------------- MODULE DoughertyRooms ---------------------------
(***************************************************************************)
(* dougherm.buildrooms.c from roomCreate() to the files, and               *)
(* dougherm.adventure.c from the files to the END_ROOM.  How the rooms are *)
(* connected is in DoughertyBuildRooms, how the time gets to the file in   *)
(* JoinedClock.  The game changes to the room directory before it reads    *)
(* the rooms, so that is where the time command makes currentTime.txt.     *)
(***************************************************************************)
EXTENDS RoomWorld

\* A file has the name of its room.
roomFileName(rs, i) == rs[i].name

Init == InitWorld([i \in 1 .. NUM_ROOMS |-> roomFileName(FirstRooms, i)])

-----------------------------------------------------------------------------
(* dougherm.buildrooms.c *)

\* rand() % 9 leaves out the last of the ten names.
Drawn == 1 .. Len(ROOM_NAMES) - 1

\* Mutant: chosen names are not marked.
NamesUnmarked == [1 .. NUM_ROOMS -> Drawn]

\* The names that the draws of roomCreate() may end in.  isChosen has seven
\* elements for nine names: a name whose word behind the array happens to
\* hold a 1 is never taken, which leaves no other choices than these.
Names == {n \in [1 .. NUM_ROOMS -> Drawn] : \A i, j \in 1 .. NUM_ROOMS : n[i] = n[j] => i = j}

roomCreate(d) ==
    /\ maker[d] = "idle"
    /\ \E name \in Names, g \in Graphs :
          made' = [made EXCEPT ![d] = [i \in 1 .. NUM_ROOMS |->
             [name |-> ROOM_NAMES[name[i]],
              type |-> CASE i = 1 -> "START_ROOM" [] i = NUM_ROOMS -> "END_ROOM"
                         [] OTHER -> "MID_ROOM",
              outs |-> g[i]]]]
    /\ maker' = [maker EXCEPT ![d] = "dir"]
    /\ UNCHANGED <<count, now, disk, pc, search, reading, walk, games>>

MakeRoomDir(d) == MakeDir(d)

\* The two halves of one round of the last loop of main().
OpenRoomFile(d)  == OpenFile(d, roomFileName(made[d], count[d] + 1))
WriteRoomFile(d) ==
    CloseFile(d, roomFileName(made[d], count[d] + 1), RoomText(made[d], count[d] + 1))

-----------------------------------------------------------------------------
(* dougherm.adventure.c: finding the directory *)

OpenRoot == OpenRootFrom(0)

getRecentDir(d) == LookAt(d, mtime[d] > newest)

-----------------------------------------------------------------------------
(* dougherm.adventure.c: reading the rooms *)

Orders(S) == {s \in [1 .. Cardinality(S) -> S] : \A i, j \in DOMAIN s : i # j => s[i] # s[j]}

\* Every entry with a name of more than two characters is a room.  Beside the
\* files of all rooms the name of the time file is stored through rooms[7],
\* behind the array; with fewer than NUM_ROOMS a room is left without a name.
getRoomNames ==
    /\ pc = "search" /\ root = {}
    /\ LET found == IF dirname = NoDir THEN {} ELSE DOMAIN files[dirname] IN
       /\ \E names \in Orders(found) :
             rooms' = [i \in DOMAIN names |-> [name |-> names[i], type |-> "unset", outs |-> <<>>]]
       /\ IF Cardinality(found) = NUM_ROOMS
          THEN pc' = "read" /\ listing' = 1 .. NUM_ROOMS
          ELSE pc' = "undefined" /\ UNCHANGED listing
    /\ whole' = (dirname # NoDir /\ maker[dirname] = "done")
    /\ UNCHANGED <<makers, now, disk, search, walk, games>>

\* Every name that a file can mention is that of a room: there are NUM_ROOMS
\* of both.
findIndex(name) == CHOOSE i \in 1 .. NUM_ROOMS : rooms[i].name = name

\* Mutant: numConnects is not increased.
addConUncounted(outs, index) == <<index>>

addCon(outs, index) == Append(outs, index)

\* The file of the i-th room, in the order of their indices.  A file that is
\* empty leaves the room as malloc() made it.
formRooms(i) ==
    /\ pc = "read" /\ i \in listing /\ \A j \in listing : i =< j
    /\ listing' = listing \ {i}
    /\ LET text == files[dirname][rooms[i].name]
           outs[n \in 0 .. Len(text.outs)] ==
               IF n = 0 THEN rooms[i].outs ELSE addCon(outs[n - 1], findIndex(text.outs[n]))
       IN
       \/ /\ text.kind = "room"
          /\ rooms' = [rooms EXCEPT ![i].type = text.type, ![i].outs = outs[Len(text.outs)]]
       \/ text.kind # "room" /\ UNCHANGED rooms
    /\ UNCHANGED <<makers, now, disk, pc, search, whole, walk, games>>

\* strcmp() needs the type of every room up to the START_ROOM.
findStartRoom ==
    /\ pc = "read" /\ listing = {}
    /\ LET start(i) == rooms[i].type = "START_ROOM" /\
                          \A j \in 1 .. i - 1 : rooms[j].type \notin {"START_ROOM", "unset"}
       IN  IF \E i \in 1 .. NUM_ROOMS : start(i)
           THEN /\ current' = CHOOSE i \in 1 .. NUM_ROOMS : start(i)
                /\ path' = <<current'>>
                /\ pc' = "play"
                /\ UNCHANGED capacity
           ELSE pc' = "undefined" /\ UNCHANGED walk
    /\ UNCHANGED <<makers, now, disk, search, reading, games>>

-----------------------------------------------------------------------------
(* dougherm.adventure.c: the game *)

\* A round of the loop over the connections: after a move it goes on with
\* the connections of the room that has been entered.
TryConnection(acc, i, name) ==
    IF acc.won \/ i > Len(rooms[acc.room].outs) THEN [acc EXCEPT !.won = TRUE]
    ELSE LET next == rooms[acc.room].outs[i] IN
         IF rooms[next].name # name THEN acc
         ELSE [room |-> next, path |-> Append(acc.path, next),
               won  |-> rooms[next].type = "END_ROOM"]

\* The loop as a whole, which stops at the END_ROOM or behind the last
\* connection.
Walk(name) ==
    LET acc[i \in 0 .. NUM_ROOMS] ==
            IF i = 0 THEN [room |-> current, path |-> path, won |-> FALSE]
            ELSE TryConnection(acc[i - 1], i, name)
    IN  acc[NUM_ROOMS]

\* A room without connections, or one without a type, ends the program.
gamePlay(name) ==
    /\ pc = "play" /\ Len(path) < MaxSteps
    /\ rooms[current].type # "END_ROOM"
    /\ LET end == Walk(name) IN
       IF rooms[current].outs = <<>> \/ rooms[end.room].type = "unset"
       THEN pc' = "undefined" /\ UNCHANGED walk
       ELSE /\ end.path # path
            /\ path' = end.path /\ current' = end.room
            /\ UNCHANGED <<capacity, pc>>
    /\ UNCHANGED <<makers, now, disk, search, reading, games>>

\* At the END_ROOM the loop returns: outputPath() and cleanUp().
cleanUp == EndGame

\* The time command.
getTimeFile == MakeTimeFile

-----------------------------------------------------------------------------
Build(d) == roomCreate(d) \/ MakeRoomDir(d) \/ OpenRoomFile(d) \/ WriteRoomFile(d)

Play ==
    \/ OpenRoot \/ getRoomNames \/ findStartRoom \/ getTimeFile \/ cleanUp
    \/ \E d \in Dirs : getRecentDir(d)
    \/ \E i \in 1 .. NUM_ROOMS : formRooms(i)
    \/ \E i \in DOMAIN ROOM_NAMES : gamePlay(ROOM_NAMES[i])

Next == World \/ Play \/ \E d \in Dirs : Build(d)
Spec == Init /\ [][Next]_vars

-----------------------------------------------------------------------------
\* The names of the rooms a room leads to, as this program keeps them.
OutNames(rs, i) == [j \in DOMAIN rs[i].outs |-> rs[rs[i].outs[j]].name]
=============================================================================
