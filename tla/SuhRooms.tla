------------------------------ MODULE SuhRooms ------------------------------
(***************************************************************************)
(* suhho.buildrooms.c from the drawing of the names in make_file() to the  *)
(* files, and suhho.adventure.c from the files to the END_ROOM.  How the   *)
(* rooms are connected is in BuildRooms, how the time command works in     *)
(* AdventureClock: here its thread only makes currentTime.txt.             *)
(***************************************************************************)
EXTENDS RoomWorld

\* A file has the name of its room.
Room_list(rs, i) == rs[i].name

Init == InitWorld([i \in 1 .. NUM_ROOMS |-> Room_list(FirstRooms, i)])

-----------------------------------------------------------------------------
(* suhho.buildrooms.c *)

\* What rand() % size may return while size goes down from that of the list.
Rands == LET size == Len(ROOM_NAMES) IN
    {r \in [1 .. NUM_ROOMS -> 0 .. size - 1] : \A i \in 1 .. NUM_ROOMS : r[i] =< size - i}

\* Mutant: the range shrinks before the last name is moved.
DrawNamesShort(r) ==
    LET full[i \in 0 .. NUM_ROOMS] ==
            IF i = 0 THEN ROOM_NAMES
            ELSE [full[i - 1] EXCEPT ![r[i] + 1] = full[i - 1][Len(ROOM_NAMES) - i]]
    IN  [i \in 1 .. NUM_ROOMS |-> full[i - 1][r[i] + 1]]

\* A name is drawn and the last one of the range, at k, takes its place.
DrawNames(r) ==
    LET full[i \in 0 .. NUM_ROOMS] ==
            IF i = 0 THEN ROOM_NAMES
            ELSE [full[i - 1] EXCEPT ![r[i] + 1] = full[i - 1][Len(ROOM_NAMES) - i + 1]]
    IN  [i \in 1 .. NUM_ROOMS |-> full[i - 1][r[i] + 1]]

\* The first room is the START_ROOM and the last one the END_ROOM.
NameRooms(d) ==
    /\ maker[d] = "idle"
    /\ \E r \in Rands, g \in Graphs :
          made' = [made EXCEPT ![d] = [i \in 1 .. NUM_ROOMS |->
             [name |-> DrawNames(r)[i],
              type |-> CASE i = 1 -> "START_ROOM" [] i = NUM_ROOMS -> "END_ROOM"
                         [] OTHER -> "MID_ROOM",
              outs |-> g[i]]]]
    /\ maker' = [maker EXCEPT ![d] = "dir"]
    /\ UNCHANGED <<count, now, disk, pc, search, reading, walk, games>>

\* stat() is asked about a directory of the root: mkdir() is always called.
MakeFolder(d) == MakeDir(d)

\* The two halves of one round of the second loop of make_file().
OpenRoomFile(d)  == OpenFile(d, Room_list(made[d], count[d] + 1))
WriteRoomFile(d) ==
    CloseFile(d, Room_list(made[d], count[d] + 1), RoomText(made[d], count[d] + 1))

-----------------------------------------------------------------------------
(* suhho.adventure.c: finding the directory *)

\* st_mode of a directory is 040755, less than the seconds of any st_mtime
\* and more than the -1 that is_time starts from.
st_mode == 0

OpenRoot == OpenRootFrom(-1)

\* It is st_mode that is compared with the time of the entry before.
get_directory(d) == LookAt(d, st_mode > newest)

-----------------------------------------------------------------------------
(* suhho.adventure.c: main() reads the rooms *)

\* Without a directory there is nothing that readdir() could read.
OpenDirectory == OpenChosen

\* Mutant: currentTime.txt is not skipped.
SkippedNever(f) == FALSE

Skipped(f) == f = CurrentTime

\* One entry.  From a file without three words the buffers keep what was in
\* them before.  The type is the last word that was read.
ReadFile(f) ==
    /\ pc = "read" /\ f \in listing
    /\ listing' = listing \ {f}
    /\ LET text == files[dirname][f] IN
       \/ /\ Skipped(f)
          /\ UNCHANGED <<pc, rooms>>
       \/ /\ ~Skipped(f) /\ text.kind = "room"
          /\ rooms' = Append(rooms, [name |-> text.name, type |-> text.type,
                                     outs |-> text.outs])
          /\ UNCHANGED pc
       \/ /\ ~Skipped(f) /\ text.kind # "room"
          /\ pc' = "undefined"
          /\ UNCHANGED rooms
    /\ UNCHANGED <<makers, now, disk, search, whole, walk, games>>

StartRooms == {i \in DOMAIN rooms : rooms[i].type = "START_ROOM"}

\* start_init is the last START_ROOM read, or was never set.  The thread is
\* created and start_game() called.
StartGame ==
    /\ pc = "read" /\ listing = {}
    /\ IF StartRooms = {}
       THEN pc' = "undefined" /\ UNCHANGED walk
       ELSE /\ current' = CHOOSE i \in StartRooms : \A j \in StartRooms : j =< i
            /\ pc' = "play"
            /\ UNCHANGED <<path, capacity>>
    /\ UNCHANGED <<makers, now, disk, search, reading, games>>

-----------------------------------------------------------------------------
(* suhho.adventure.c: the game *)

\* get_time() makes the file in the room directory.
get_time == MakeTimeFile

Matches(name) == {i \in DOMAIN rooms[current].outs : rooms[current].outs[i] = name}

\* The name is looked for among the connections, then among the rooms; it is
\* put on the route as often as it is found.
start_game(name) ==
    /\ pc = "play" /\ Len(path) < MaxSteps
    /\ rooms[current].type # "END_ROOM"
    /\ LET found == {j \in DOMAIN rooms : rooms[j].name = name} IN
       /\ Matches(name) # {}
       /\ path' = path \o [k \in 1 .. Cardinality(Matches(name)) |-> name]
       /\ current' = IF found = {} THEN current
                     ELSE CHOOSE j \in found : \A k \in found : k =< j
    /\ UNCHANGED <<capacity, makers, now, disk, pc, search, reading, games>>

ending_game == EndGame

-----------------------------------------------------------------------------
Build(d) == NameRooms(d) \/ MakeFolder(d) \/ OpenRoomFile(d) \/ WriteRoomFile(d)

Play ==
    \/ OpenRoot \/ OpenDirectory \/ StartGame \/ get_time \/ ending_game
    \/ \E d \in Dirs : get_directory(d)
    \/ \E f \in listing : ReadFile(f)
    \/ \E i \in DOMAIN ROOM_NAMES : start_game(ROOM_NAMES[i])

Next == World \/ Play \/ \E d \in Dirs : Build(d)
Spec == Init /\ [][Next]_vars

-----------------------------------------------------------------------------
\* The names of the rooms a room leads to are what is kept of them.
OutNames(rs, i) == rs[i].outs
=============================================================================
