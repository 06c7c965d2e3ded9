------------------------------ MODULE LuuRooms ------------------------------
(***************************************************************************)
(* luuph.buildrooms.c from GenerateRooms() to the files, and               *)
(* luuph.adventure.c from the files to the END_ROOM.  The loop of          *)
(* GenerateRooms() that connects the rooms is in LuuBuildRooms: here its   *)
(* result is any of the complete Graphs.  The time command writes to the   *)
(* directory the game is played in and touches none of this.               *)
(***************************************************************************)
EXTENDS RoomWorld

\* ROOM_NAMES are drawn from; a file is named after its index.
FILE_NAMES(rs, i) == i

Init == InitWorld([i \in 1 .. NUM_ROOMS |-> FILE_NAMES(FirstRooms, i)])

-----------------------------------------------------------------------------
(* luuph.buildrooms.c *)

\* What rand() % (size - i) may return in the i-th round.
Rands(size) == {r \in [1 .. size -> 0 .. size - 1] : \A i \in 1 .. size : r[i] =< size - i}

\* Mutant: the element is copied and not swapped.
ShuffleIntArrayCopy(size, r) ==
    LET arr[i \in 0 .. size] ==
            IF i = 0 THEN [j \in 1 .. size |-> j]
            ELSE [arr[i - 1] EXCEPT ![i] = arr[i - 1][i + r[i]]]
    IN  arr[size]

ShuffleIntArray(size, r) ==
    LET arr[i \in 0 .. size] ==
            IF i = 0 THEN [j \in 1 .. size |-> j]
            ELSE [arr[i - 1] EXCEPT ![i] = arr[i - 1][i + r[i]], ![i + r[i]] = arr[i - 1][i]]
    IN  arr[size]

GenerateRooms(d) ==
    /\ maker[d] = "idle"
    /\ \E r1 \in Rands(Len(ROOM_NAMES)), r2 \in Rands(NUM_ROOMS), g \in Graphs :
          LET rand_room_name == ShuffleIntArray(Len(ROOM_NAMES), r1)
              rand_room_idx  == ShuffleIntArray(NUM_ROOMS, r2)
          IN  made' = [made EXCEPT ![d] = [i \in 1 .. NUM_ROOMS |->
                 [name |-> ROOM_NAMES[rand_room_name[i]],
                  type |-> CASE i = rand_room_idx[1] -> "START_ROOM"
                             [] i = rand_room_idx[NUM_ROOMS] -> "END_ROOM"
                             [] OTHER -> "MID_ROOM",
                  outs |-> g[i]]]]
    /\ maker' = [maker EXCEPT ![d] = "dir"]
    /\ UNCHANGED <<count, now, disk, pc, search, reading, walk, games>>

\* stat() is asked about an empty name, and mkdir() always called.
MakeRoomDir(d) == MakeDir(d)

\* The two halves of one round of OutputRoomsToFiles().
OpenRoomFile(d)  == OpenFile(d, FILE_NAMES(made[d], count[d] + 1))
WriteRoomFile(d) ==
    CloseFile(d, FILE_NAMES(made[d], count[d] + 1), RoomText(made[d], count[d] + 1))

-----------------------------------------------------------------------------
(* luuph.adventure.c: finding the directory *)

\* opendir(".") in GetNewestRoomDir().
OpenRoot == OpenRootFrom(0)

\* Mutant: a directory of the same age or an older one will do.
IsNewestRoomDirAny(d) == mtime[d] > 0

\* The name has passed the tests on its three parts.
IsNewestRoomDir(d) == mtime[d] > newest

GetNewestRoomDir(d) == LookAt(d, IsNewestRoomDir(d))

-----------------------------------------------------------------------------
(* luuph.adventure.c: reading the rooms *)

\* Without a directory there are no rooms, and the index of the START_ROOM
\* will be -1.
ReadRoomsFromDir == OpenChosen

\* The index of the room called name, 0 (-1 in the code) for none.
FindRoomByName(rs, name) ==
    IF \E i \in DOMAIN rs : rs[i].name = name
    THEN CHOOSE i \in DOMAIN rs : rs[i].name = name /\ \A j \in 1 .. i - 1 : rs[j].name # name
    ELSE 0

\* A room no file has told about yet.
WithRoom(rs, name) ==
    IF FindRoomByName(rs, name) = 0
    THEN Append(rs, [name |-> name, type |-> "MID_ROOM", outs |-> <<>>])
    ELSE rs

\* Mutant: the room a connection leads to is always a new one.
AddOutboundNew(rs, i, name) ==
    LET more == Append(rs, [name |-> name, type |-> "MID_ROOM", outs |-> <<>>])
    IN  [more EXCEPT ![i].outs = Append(@, Len(more))]

\* A line CONNECTION: the room it names may have no file read yet.
AddOutbound(rs, i, name) ==
    LET more == WithRoom(rs, name)
    IN  [more EXCEPT ![i].outs = Append(@, FindRoomByName(more, name))]

\* The lines NAME, CONNECTION 1, CONNECTION 2, ..., TYPE.
WithFile(rs, text) ==
    LET named     == WithRoom(rs, text.name)
        i         == FindRoomByName(named, text.name)
        lines     == Len(text.outs)
        connected[n \in 0 .. lines] ==
            IF n = 0 THEN named ELSE AddOutbound(connected[n - 1], i, text.outs[n])
    IN  [connected[lines] EXCEPT ![i].type = text.type]

\* One regular file; an empty one has no lines.
ReadRoomFromFile(f) ==
    /\ pc = "read" /\ f \in listing
    /\ listing' = listing \ {f}
    /\ LET text == files[dirname][f] IN
       rooms' = IF text.kind = "room" THEN WithFile(rooms, text) ELSE rooms
    /\ UNCHANGED <<makers, now, disk, pc, search, whole, walk, games>>

-----------------------------------------------------------------------------
(* luuph.adventure.c: the game *)

\* Mutant: the array grows one element too late.
PushBackLate(x) ==
    /\ path' = Append(path, x)
    /\ capacity' = IF Len(path) > capacity THEN 2 * capacity ELSE capacity

PushBackDynIntArr(x) ==
    /\ path' = Append(path, x)
    /\ capacity' = IF Len(path) = capacity THEN 2 * capacity ELSE capacity

FindStartRoomIndex == {i \in DOMAIN rooms : rooms[i].type = "START_ROOM"}

\* With no START_ROOM the game goes on at rooms[-1].
StartPlaying ==
    /\ pc = "read" /\ listing = {}
    /\ IF FindStartRoomIndex = {}
       THEN pc' = "undefined" /\ UNCHANGED walk
       ELSE /\ current' = CHOOSE i \in FindStartRoomIndex :
                             \A j \in FindStartRoomIndex : i =< j
            /\ PushBackDynIntArr(current')
            /\ pc' = "play"
    /\ UNCHANGED <<makers, now, disk, search, reading, games>>

\* Mutant: any room will do.
GetUserInputAny(name) == FindRoomByName(rooms, name)

\* Mutant: the index is one too high.
GetUserInputOffByOne(name) == FindRoomByName(rooms, name) + 1

\* The room that a name typed at the prompt leads to: none but a neighbour.
GetUserInput(name) ==
    IF \E i \in DOMAIN rooms[current].outs : rooms[rooms[current].outs[i]].name = name
    THEN FindRoomByName(rooms, name)
    ELSE 0

\* A name that is understood; any other only prints a message.
PlayGame(name) ==
    /\ pc = "play" /\ Len(path) < MaxSteps
    /\ rooms[current].type # "END_ROOM"
    /\ GetUserInput(name) # 0
    /\ current' = GetUserInput(name)
    /\ PushBackDynIntArr(current')
    /\ UNCHANGED <<makers, now, disk, pc, search, reading, games>>

Victory == EndGame

-----------------------------------------------------------------------------
Build(d) == GenerateRooms(d) \/ MakeRoomDir(d) \/ OpenRoomFile(d) \/ WriteRoomFile(d)

Play ==
    \/ OpenRoot \/ ReadRoomsFromDir \/ StartPlaying \/ Victory
    \/ \E d \in Dirs : GetNewestRoomDir(d)
    \/ \E f \in listing : ReadRoomFromFile(f)
    \/ \E i \in DOMAIN ROOM_NAMES : PlayGame(ROOM_NAMES[i])

Next == World \/ Play \/ \E d \in Dirs : Build(d)
Spec == Init /\ [][Next]_vars

-----------------------------------------------------------------------------
\* The names of the rooms a room leads to, as this program keeps them.
OutNames(rs, i) == [j \in DOMAIN rs[i].outs |-> rs[rs[i].outs[j]].name]
=============================================================================
