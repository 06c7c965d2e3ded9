----------------------------- MODULE RoomWorld -----------------------------
(***************************************************************************)
(* The file system between the room builders and the adventure games: room *)
(* directories, one per run of a builder and named after its process, with *)
(* the files in them, and the runs themselves.  What a builder writes and  *)
(* how a game reads it is in LuuRooms, SuhRooms and DoughertyRooms.        *)
(*                                                                         *)
(* External: a file that has been opened for writing is empty until        *)
(* fclose(); a directory's modification time is the second in which its    *)
(* latest entry was made; readdir() returns what was there at opendir(),   *)
(* in any order; a builder or a game may be killed at any moment.          *)
(***************************************************************************)
EXTENDS Integers, Sequences, FiniteSets, Functions

CONSTANTS Dirs,          \* the room directories, one for each run of a builder
          NoDir,         \* no directory
          NUM_ROOMS,     \* 7 in the code
          ROOM_NAMES,    \* the names to draw from, 10 in the code
          Graphs,        \* complete graphs, as arrays of connections
          MaxTime,       \* bound: how far the wall clock runs
          MaxGames,      \* bound: how often a game is played
          MaxSteps       \* bound: the length of a walk

ASSUME DirAssumption   == NoDir \notin Dirs /\ Dirs # {}

\* The names differ, and none of them is that of the time file.
ASSUME NameAssumption  ==
    /\ ROOM_NAMES \in Seq(STRING) /\ NUM_ROOMS \in 2 .. Len(ROOM_NAMES)
    /\ \A i, j \in 1 .. Len(ROOM_NAMES) : ROOM_NAMES[i] = ROOM_NAMES[j] => i = j
    /\ "currentTime.txt" \notin Range(ROOM_NAMES)

\* The builders connect two rooms once (CountsNeighbours).
ASSUME GraphAssumption ==
    /\ Graphs # {} /\ Graphs \subseteq [1 .. NUM_ROOMS -> Seq(1 .. NUM_ROOMS)]
    /\ \A g \in Graphs : \A i \in 1 .. NUM_ROOMS : \A j, k \in 1 .. Len(g[i]) :
          g[i][j] = g[i][k] => j = k

\* A directory is there at first that is a second old.
ASSUME BoundAssumption ==
    /\ {MaxTime, MaxGames, MaxSteps} \subseteq Nat \ {0}
    /\ MaxTime >= 2

VARIABLES
    maker,      \* how far the builder of each directory is
    made,       \* the rooms it has made up
    count,      \* how many of its files it has closed
    now,        \* the wall clock, in seconds
    mtime,      \* st_mtime of every directory, 0 for none
    files,      \* what is in every directory
    pc,         \* where the game is
    root,       \* the entries of "." it has not yet looked at
    newest,     \* the time it remembers while it looks for the newest
    dirname,    \* the directory it has chosen
    listing,    \* the entries of dirname it has not yet read
    rooms,      \* the rooms it has read so far
    current,    \* the room the player is in
    path,       \* the rooms the player has been to
    capacity,   \* of the array that holds the path
    whole,      \* history: dirname was finished when the game opened it
    opened,     \* history: when the game looked for the directory
    games       \* history: games started so far

makers  == <<maker, made, count>>
disk    == <<mtime, files>>
search  == <<root, newest, dirname, opened>>
reading == <<listing, rooms, whole>>
walk    == <<current, path, capacity>>
vars    == <<makers, now, disk, pc, search, reading, walk, games>>

Types == {"START_ROOM", "MID_ROOM", "END_ROOM"}
CurrentTime == "currentTime.txt"

EmptyText == [kind |-> "empty"]
TimeText  == [kind |-> "time"]

\* What a builder prints to the file of its i-th room.
RoomText(rs, i) ==
    [kind |-> "room", name |-> rs[i].name, type |-> rs[i].type,
     outs |-> [j \in DOMAIN rs[i].outs |-> rs[rs[i].outs[j]].name]]

-----------------------------------------------------------------------------
\* One directory is left from an earlier second; names are those of the
\* files that its builder has given the rooms.
FirstDir   == CHOOSE d \in Dirs : TRUE
FirstRooms ==
    [i \in 1 .. NUM_ROOMS |->
        [name |-> ROOM_NAMES[i],
         type |-> CASE i = 1 -> "START_ROOM" [] i = NUM_ROOMS -> "END_ROOM"
                    [] OTHER -> "MID_ROOM",
         outs |-> (CHOOSE g \in Graphs : TRUE)[i]]]

InitWorld(names) ==
    /\ maker = [d \in Dirs |-> IF d = FirstDir THEN "done" ELSE "idle"]
    /\ made  = [d \in Dirs |-> IF d = FirstDir THEN FirstRooms ELSE <<>>]
    /\ count = [d \in Dirs |-> IF d = FirstDir THEN NUM_ROOMS ELSE 0]
    /\ now = 2
    /\ mtime = [d \in Dirs |-> IF d = FirstDir THEN 1 ELSE 0]
    /\ files = [d \in Dirs |->
                  IF d = FirstDir
                  THEN [f \in Range(names) |->
                          RoomText(FirstRooms,
                                   CHOOSE i \in DOMAIN names : names[i] = f)]
                  ELSE <<>>]
    /\ pc = "start" /\ games = 1
    /\ root = {} /\ newest = 0 /\ dirname = NoDir /\ opened = 0
    /\ listing = {} /\ rooms = <<>> /\ whole = FALSE
    /\ current = 0 /\ path = <<>> /\ capacity = NUM_ROOMS

\* The clock has moved on since the latest build was finished.
Tick ==
    /\ now < MaxTime
    /\ now' = now + 1
    /\ UNCHANGED <<makers, disk, pc, search, reading, walk, games>>

KillMaker(d) ==
    /\ maker[d] \in {"dir", "open", "write"}
    /\ maker' = [maker EXCEPT ![d] = "dead"]
    /\ UNCHANGED <<made, count, now, disk, pc, search, reading, walk, games>>

\* What a new game starts from, and what is left of one that has ended.
NoGame ==
    /\ root' = {} /\ newest' = 0 /\ dirname' = NoDir /\ opened' = 0
    /\ listing' = {} /\ rooms' = <<>> /\ whole' = FALSE
    /\ current' = 0 /\ path' = <<>> /\ capacity' = NUM_ROOMS

\* The game is played again, when it is over or the player has killed it.
PlayAgain ==
    /\ pc \in {"play", "over", "undefined"} /\ games < MaxGames
    /\ pc' = "start" /\ games' = games + 1
    /\ NoGame
    /\ UNCHANGED <<makers, now, disk>>

World == Tick \/ PlayAgain \/ \E d \in Dirs : KillMaker(d)

-----------------------------------------------------------------------------
(* What the builders' steps do to the directories. *)

MakeDir(d) ==
    /\ maker[d] = "dir"
    /\ mtime' = [mtime EXCEPT ![d] = now]
    /\ maker' = [maker EXCEPT ![d] = "open"]
    /\ UNCHANGED <<made, count, now, files, pc, search, reading, walk, games>>

\* The directory dir, with text in the file f.
With(dir, f, text) ==
    [g \in DOMAIN dir \cup {f} |-> IF g = f THEN text ELSE dir[g]]

\* fopen() makes the file f and empties it.
OpenFile(d, f) ==
    /\ maker[d] = "open"
    /\ files' = [files EXCEPT ![d] = With(@, f, EmptyText)]
    /\ mtime' = [mtime EXCEPT ![d] = IF f \in DOMAIN files[d] THEN @ ELSE now]
    /\ maker' = [maker EXCEPT ![d] = "write"]
    /\ UNCHANGED <<made, count, now, pc, search, reading, walk, games>>

\* fclose() writes what has been printed.
CloseFile(d, f, text) ==
    /\ maker[d] = "write"
    /\ files' = [files EXCEPT ![d] = With(@, f, text)]
    /\ count' = [count EXCEPT ![d] = @ + 1]
    /\ maker' = [maker EXCEPT ![d] = IF count'[d] = NUM_ROOMS THEN "done" ELSE "open"]
    /\ UNCHANGED <<made, now, mtime, pc, search, reading, walk, games>>

-----------------------------------------------------------------------------
(* What the games' first steps have in common. *)

Existing == {d \in Dirs : mtime[d] # 0}

\* opendir("."), with the time to beat set to first.
OpenRootFrom(first) ==
    /\ pc = "start"
    /\ root' = Existing /\ newest' = first /\ dirname' = NoDir /\ opened' = now
    /\ pc' = "search"
    /\ UNCHANGED <<makers, now, disk, reading, walk, games>>

\* readdir(".") returns d; the game takes it if it is better.
LookAt(d, better) ==
    /\ pc = "search" /\ d \in root
    /\ root' = root \ {d}
    /\ IF better
       THEN newest' = mtime[d] /\ dirname' = d
       ELSE UNCHANGED <<newest, dirname>>
    /\ UNCHANGED <<opened, makers, now, disk, pc, reading, walk, games>>

\* opendir(dirname); without a directory the game reads rooms that are not
\* there.
OpenChosen ==
    /\ pc = "search" /\ root = {}
    /\ rooms' = <<>>
    /\ IF dirname = NoDir
       THEN pc' = "undefined" /\ UNCHANGED <<listing, whole>>
       ELSE /\ listing' = DOMAIN files[dirname]
            /\ whole' = (maker[dirname] = "done")
            /\ pc' = "read"
    /\ UNCHANGED <<makers, now, disk, search, walk, games>>

\* A time command makes currentTime.txt in the directory of the rooms.
MakeTimeFile ==
    /\ pc = "play"
    /\ files' = [files EXCEPT ![dirname] = With(@, CurrentTime, TimeText)]
    /\ mtime' = [mtime EXCEPT ![dirname] =
                    IF CurrentTime \in DOMAIN files[dirname] THEN @ ELSE now]
    /\ UNCHANGED <<makers, now, pc, search, reading, walk, games>>

\* The player is in the END_ROOM, and the game ends.
EndGame ==
    /\ pc = "play" /\ rooms[current].type = "END_ROOM"
    /\ pc' = "over"
    /\ NoGame
    /\ UNCHANGED <<makers, now, disk, games>>

-----------------------------------------------------------------------------
Texts == {EmptyText, TimeText} \cup
    [kind : {"room"}, name : Range(ROOM_NAMES), type : Types, outs : Seq(Range(ROOM_NAMES))]

TypeOK ==
    /\ maker \in [Dirs -> {"idle", "dir", "open", "write", "done", "dead"}]
    /\ count \in [Dirs -> 0 .. NUM_ROOMS]
    /\ \A d \in Dirs : /\ Len(made[d]) = IF maker[d] = "idle" THEN 0 ELSE NUM_ROOMS
                       /\ \A f \in DOMAIN files[d] : files[d][f] \in Texts
    /\ {now, opened} \subseteq 0 .. MaxTime /\ mtime \in [Dirs -> 0 .. now]
    /\ pc \in {"start", "search", "read", "play", "over", "undefined"}
    /\ root \subseteq Existing /\ dirname \in Existing \cup {NoDir}
    /\ newest \in -1 .. MaxTime
    /\ current \in 0 .. Len(rooms)
    /\ whole \in BOOLEAN /\ games \in 1 .. MaxGames

\* A builder makes up rooms with different names, one START_ROOM and one
\* END_ROOM.
RoomsMadeDiffer ==
    \A d \in Dirs : LET rs == made[d] IN
        /\ \A i, j \in DOMAIN rs : rs[i].name = rs[j].name => i = j
        /\ rs # <<>> => \A t \in {"START_ROOM", "END_ROOM"} :
                            Cardinality({i \in DOMAIN rs : rs[i].type = t}) = 1
=============================================================================
