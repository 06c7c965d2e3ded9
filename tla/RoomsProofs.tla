---------------------------- MODULE RoomsProofs -----------------------------
(***************************************************************************)
(* What is proved about the three pairs of a room builder and its game for *)
(* any number of rooms, names, directories and any connections: the rooms  *)
(* that a builder makes up differ, its files hold them, a game reads them  *)
(* back in any order of the files, keeps within its arrays, and its path   *)
(* is a walk.  The loops of the code are recursive functions of the model; *)
(* what they come to is proved by induction over their rounds.             *)
(***************************************************************************)
EXTENDS MCRooms, FiniteSetTheorems, SequenceTheorems, WellFoundedInduction, TLAPS

Names   == Range(ROOM_NAMES)
Indices == 1 .. NUM_ROOMS
Makers  == {"idle", "dir", "open", "write", "done", "dead"}
Pcs     == {"start", "search", "read", "play", "over", "undefined"}

ProgramInv == program \in {"suh", "luu", "dougherty"}

FileName(rs, i) == IF program = "luu" THEN i ELSE rs[i].name

GoodRooms(rs) ==
    /\ rs \in [Indices -> [name : Names, type : Types, outs : Seq(Indices)]]
    /\ \A i, j \in Indices : rs[i].name = rs[j].name => i = j
    /\ \A i \in Indices : \A j, k \in 1 .. Len(rs[i].outs) :
          rs[i].outs[j] = rs[i].outs[k] => j = k
    /\ \E s, e \in Indices : \A i \in Indices :
          /\ rs[i].type = "START_ROOM" <=> i = s
          /\ rs[i].type = "END_ROOM" <=> i = e

Shape ==
    /\ maker \in [Dirs -> Makers] /\ count \in [Dirs -> 0 .. NUM_ROOMS]
    /\ DOMAIN made = Dirs /\ DOMAIN files = Dirs
    /\ now \in Nat \ {0} /\ mtime \in [Dirs -> 0 .. now]

MakerInv(d) ==
    /\ maker[d] = "idle" => made[d] = <<>>
    /\ maker[d] # "idle" => GoodRooms(made[d])
    /\ maker[d] \in {"idle", "dir"} => mtime[d] = 0 /\ DOMAIN files[d] = {} /\ count[d] = 0
    /\ maker[d] \in {"open", "write"} => count[d] < NUM_ROOMS /\ mtime[d] # 0
    /\ maker[d] = "done" => count[d] = NUM_ROOMS

FileInv(d) ==
    /\ \A f \in DOMAIN files[d] :
         \/ program # "luu" /\ f = CurrentTime /\ files[d][f] = TimeText
         \/ \E i \in Indices :
               /\ f = FileName(made[d], i)
               /\ files[d][f] = IF i =< count[d] THEN RoomText(made[d], i) ELSE EmptyText
    /\ \A i \in 1 .. count[d] : FileName(made[d], i) \in DOMAIN files[d]

DiskInv == Shape /\ ProgramInv /\ \A d \in Dirs : MakerInv(d) /\ FileInv(d)

PlaceInv ==
    /\ pc \in Pcs /\ dirname \in Dirs \cup {NoDir}
    /\ dirname # NoDir => mtime[dirname] # 0
    /\ pc \in {"read", "play"} => dirname # NoDir
    /\ pc = "search" => root \subseteq Existing

SearchInv ==
    /\ newest \in Int /\ opened \in 0 .. now
    /\ program # "suh" /\ pc \in {"search", "read"} =>
          IF dirname = NoDir THEN newest = 0 ELSE mtime[dirname] >= newest
    /\ program # "suh" /\ pc \in {"search", "read"} =>
          \A d \in Dirs : mtime[d] < opened /\ mtime[d] # 0 =>
             (pc = "search" /\ d \in root) \/ mtime[d] =< newest

FinishedInv ==
    /\ whole \in BOOLEAN /\ (pc \in {"start", "search", "over"} => ~whole)
    /\ whole => dirname # NoDir /\ maker[dirname] = "done"
    /\ pc \in {"start", "search", "over"} => rooms = <<>>
    /\ pc \in {"start", "search", "read"} => path = <<>> /\ capacity = NUM_ROOMS
    /\ pc = "play" => listing = {}

\* The names that connections kept as indices lead to, and those that a game
\* keeps, in one way or the other.
Links(rs, i)   == [j \in DOMAIN rs[i].outs |-> rs[rs[i].outs[j]].name]
Ways(p, rs, i) == IF p = "suh" THEN rs[i].outs ELSE Links(rs, i)

NamesDiffer(rs) == \A i, j \in DOMAIN rs : rs[i].name = rs[j].name => i = j

Room(types, links) == [name : Names, type : types, outs : Seq(links)]

\* Room i of the game is room k of the builder, or not more than its name.
Built(p, rs, i, made_, k) ==
    /\ rs[i].name = made_[k].name /\ rs[i].type = made_[k].type
    /\ Ways(p, rs, i) = Links(made_, k)
Fresh(rs, i) == rs[i].type = "MID_ROOM" /\ rs[i].outs = <<>>

\* Nothing has been read of it, as from a file that is empty.
Blank(rs, i, left, all) ==
    rs[i].type = "unset" /\ rs[i].outs = <<>> /\ (all => i \in left)

LuuRead(rs, left, all, made_) ==
    /\ rs \in Seq(Room(Types, DOMAIN rs)) /\ NamesDiffer(rs)
    /\ \A i \in DOMAIN rs : \E k \in Indices :
          /\ rs[i].name = made_[k].name
          /\ Fresh(rs, i) \/ (k \notin left /\ Built("luu", rs, i, made_, k))
    /\ all => \A k \in Indices :
                 k \in left \/ \E i \in DOMAIN rs : Built("luu", rs, i, made_, k)

SuhRead(rs, left, all, made_) ==
    /\ rs \in Seq(Room(Types, Names)) /\ NamesDiffer(rs)
    /\ \A i \in DOMAIN rs : \E k \in Indices :
          Built("suh", rs, i, made_, k) /\ made_[k].name \notin left
    /\ all => \A k \in Indices :
                 made_[k].name \in left \/ \E i \in DOMAIN rs : Built("suh", rs, i, made_, k)

DoughertyRead(rs, left, all, made_) ==
    /\ rs \in [Indices -> Room(Types \cup {"unset"}, Indices)] /\ NamesDiffer(rs)
    /\ \A i \in Indices : \E k \in Indices :
          /\ rs[i].name = made_[k].name
          /\ Blank(rs, i, left, all) \/ (i \notin left /\ Built("dougherty", rs, i, made_, k))
    /\ \A k \in Indices : \E i \in Indices : rs[i].name = made_[k].name

ReadInv ==
    pc \in {"read", "play"} =>
        /\ program = "luu" => LuuRead(rooms, listing, whole, made[dirname])
        /\ program = "suh" => SuhRead(rooms, listing, whole, made[dirname])
        /\ program = "dougherty" => DoughertyRead(rooms, listing, whole, made[dirname])
        /\ program # "dougherty" => listing \subseteq DOMAIN files[dirname]

IsWalk(p, rs, trail, start, last) ==
    /\ trail \in Seq(DOMAIN rs) /\ Len(trail) > 0
    /\ trail[1] = start /\ trail[Len(trail)] = last
    /\ \A k \in 1 .. Len(trail) - 1 :
          /\ rs[trail[k]].type # "END_ROOM"
          /\ rs[trail[k + 1]].name \in Range(Ways(p, rs, trail[k]))

Index(rs, name) == CHOOSE i \in DOMAIN rs : rs[i].name = name
Start(rs)       == CHOOSE i \in DOMAIN rs : rs[i].type = "START_ROOM"
Trail(p, rs, names) ==
    IF p = "suh" THEN <<Start(rs)>> \o [k \in DOMAIN names |-> Index(rs, names[k])]
    ELSE names

\* What is left when a game has come to a state without a meaning.
UndefinedInv ==
    pc = "undefined" =>
        /\ whole => program = "dougherty"
        /\ Len(rooms) \in Nat
        /\ Len(rooms) > NUM_ROOMS =>
              /\ program = "dougherty" /\ Len(rooms) = NUM_ROOMS + 1
              /\ dirname # NoDir /\ CurrentTime \in DOMAIN files[dirname]

\* Luu's array for the path.
CapacityInv ==
    program = "luu" => path \in Seq(Nat) /\ Len(path) =< capacity /\ capacity \in Nat \ {0}

\* The player is in room x, where the path names leads from the START_ROOM.
Walking(p, rs, names, x) ==
    /\ p = "suh" => names \in Seq(Names)
    /\ x \in DOMAIN rs
    /\ IsWalk(p, rs, Trail(p, rs, names), Start(rs), x)

WalkInv ==
    pc = "play" /\ (whole \/ program # "suh") => Walking(program, rooms, path, current)

\* A time file is made by a game, which has found all the other files.
TimeFileInv ==
    program = "dougherty" =>
        /\ \A d \in Dirs : CurrentTime \in DOMAIN files[d] =>
              \A k \in Indices : made[d][k].name \in DOMAIN files[d]
        /\ pc \in {"read", "play"} =>
              \A k \in Indices : made[dirname][k].name \in DOMAIN files[dirname]

\* The player is in a room when the game is played, and nowhere before.
CurrentInv ==
    /\ pc \in {"start", "search", "read", "over"} => current = 0
    /\ pc = "play" => current \in DOMAIN rooms
    /\ pc = "undefined" => current \in 0 .. Len(rooms)

BoundInv ==
    /\ now =< MaxTime /\ newest =< MaxTime /\ -1 =< newest
    /\ games \in 1 .. MaxGames /\ root \subseteq Existing

\* Induction up to n, with a set in the place of a predicate.
LEMMA Induction ==
    ASSUME NEW n \in Nat, NEW T, 0 \in T, \A i \in 1 .. n : i - 1 \in T => i \in T
    PROVE  0 .. n \subseteq T
<1> DEFINE Missing == {i \in 0 .. n : i \notin T}
<1> SUFFICES ASSUME Missing # {} PROVE FALSE
  OBVIOUS
<1>1. Missing \subseteq Nat
  OBVIOUS
<1>2. PICK x \in Missing : \A y \in Missing : ~(<<y, x>> \in OpToRel(<, Nat))
  <2> HIDE DEF Missing
  <2> QED
    BY <1>1, NatLessThanWellFounded, WFMin, Zenon
<1>3. x # 0
  OBVIOUS
<1>4. x - 1 \in 0 .. n /\ x \in 1 .. n /\ x - 1 \in Nat /\ x \in Nat /\ x - 1 < x
  BY <1>3
<1>5. <<x - 1, x>> \in OpToRel(<, Nat)
  BY <1>4 DEF OpToRel
<1>6. x - 1 \notin Missing
  BY <1>2, <1>5
<1>7. x - 1 \in T
  BY <1>4, <1>6
<1> QED
  BY <1>4, <1>7

\* A loop of n rounds over the values A, and what it has after each round.
Steps(n, A) == [1 .. n -> [A -> A]]
IsLoop(f, n, A, a, step) ==
    /\ f \in [0 .. n -> A]
    /\ f[0] = a /\ \A i \in 1 .. n : f[i] = step[i][f[i - 1]]

\* A step for each of n rounds makes one such loop.
LEMMA Rounds ==
    ASSUME NEW n \in Nat, NEW A, NEW a \in A, NEW step \in Steps(n, A)
    PROVE  \E f : IsLoop(f, n, A, a, step)
<1> DEFINE T == {k \in 0 .. n : \E f : IsLoop(f, k, A, a, step)}
<1>1. 0 \in T
  <2> DEFINE f == [i \in 0 .. 0 |-> a]
  <2>1. IsLoop(f, 0, A, a, step)
    BY DEF IsLoop
  <2> HIDE DEF f
  <2> QED
    BY <2>1
<1>2. ASSUME NEW k \in 1 .. n, k - 1 \in T PROVE k \in T
  <2>1. PICK f : IsLoop(f, k - 1, A, a, step)
    BY <1>2
  <2> DEFINE g == [i \in 0 .. k |-> IF i = k THEN step[k][f[k - 1]] ELSE f[i]]
  <2>2. step[k][f[k - 1]] \in A
    BY <2>1 DEF IsLoop, Steps
  <2>3. IsLoop(g, k, A, a, step)
    BY <2>1, <2>2 DEF IsLoop
  <2>4. k \in 0 .. n
    OBVIOUS
  <2> HIDE DEF g
  <2> QED
    BY <2>3, <2>4
<1>3. n \in T
  <2> HIDE DEF T
  <2>1. 0 .. n \subseteq T
    BY <1>1, <1>2, Induction
  <2> QED
    BY <2>1
<1> QED
  BY <1>3

-----------------------------------------------------------------------------
(***************************************************************************)
(* The draws of the builders.                                              *)
(***************************************************************************)
\* The assumptions about the constants, as they are used.
LEMMA Constants ==
    /\ NUM_ROOMS \in Nat /\ NUM_ROOMS >= 2 /\ NUM_ROOMS =< Len(ROOM_NAMES)
    /\ Len(ROOM_NAMES) \in Nat
    /\ ROOM_NAMES \in [1 .. Len(ROOM_NAMES) -> Names]
    /\ \A i, j \in 1 .. Len(ROOM_NAMES) : ROOM_NAMES[i] = ROOM_NAMES[j] => i = j
    /\ CurrentTime \notin Names
<1>1. Len(ROOM_NAMES) \in Nat /\ ROOM_NAMES \in [1 .. Len(ROOM_NAMES) -> STRING]
  BY NameAssumption
<1>2. ROOM_NAMES \in [1 .. Len(ROOM_NAMES) -> Names]
  BY <1>1 DEF Names, Range
<1> QED
  BY <1>1, <1>2, NameAssumption DEF CurrentTime, Names

\* The elements i and j of an array change places.
Swapped(arr, i, j) == [arr EXCEPT ![i] = arr[j], ![j] = arr[i]]
Permutes(arr, n) == /\ arr \in [1 .. n -> 1 .. n]
                    /\ \A i, j \in 1 .. n : arr[i] = arr[j] => i = j

\* A permutation with two elements swapped is one.
LEMMA SwapPermutes ==
    ASSUME NEW n \in Nat, NEW arr, Permutes(arr, n), NEW i \in 1 .. n, NEW j \in 1 .. n
    PROVE  Permutes(Swapped(arr, i, j), n)
BY DEF Permutes, Swapped

\* ShuffleIntArray() returns the numbers from 1 to size in some order.
LEMMA ShufflePermutes ==
    ASSUME NEW size \in Nat, NEW r \in Luu!Rands(size)
    PROVE  Permutes(Luu!ShuffleIntArray(size, r), size)
<1> DEFINE id == [j \in 1 .. size |-> j]
           A  == {s \in [1 .. size -> 1 .. size] : Permutes(s, size)}
           step == [i \in 1 .. size |-> [s \in A |-> Swapped(s, i, i + r[i])]]
           arr[i \in 0 .. size] ==
               IF i = 0 THEN [j \in 1 .. size |-> j]
               ELSE [arr[i - 1] EXCEPT ![i] = arr[i - 1][i + r[i]],
                                       ![i + r[i]] = arr[i - 1][i]]
<1>1. \A i \in 1 .. size : r[i] \in 0 .. size /\ i + r[i] \in 1 .. size
  BY DEF Luu!Rands
<1>2. id \in A
  BY DEF Permutes
<1>3. step \in Steps(size, A)
  <2> SUFFICES ASSUME NEW i \in 1 .. size, NEW s \in A PROVE Swapped(s, i, i + r[i]) \in A
    BY DEF Steps
  <2> Permutes(Swapped(s, i, i + r[i]), size)
    BY <1>1, SwapPermutes
  <2> QED
    BY DEF Permutes
<1>4. PICK f : IsLoop(f, size, A, id, step)
  <2> HIDE DEF A, step, id
  <2> QED
    BY <1>2, <1>3, Rounds
<1>5. \A i \in 1 .. size : f[i] = Swapped(f[i - 1], i, i + r[i])
  <2> SUFFICES ASSUME NEW i \in 1 .. size PROVE f[i] = Swapped(f[i - 1], i, i + r[i])
    OBVIOUS
  <2>1. f[i - 1] \in A
    <3> HIDE DEF A
    <3> QED
      BY <1>4 DEF IsLoop
  <2> QED
    BY <1>4, <2>1 DEF IsLoop
<1>6. f = [i \in 0 .. size |->
             IF i = 0 THEN [j \in 1 .. size |-> j]
             ELSE [f[i - 1] EXCEPT ![i] = f[i - 1][i + r[i]], ![i + r[i]] = f[i - 1][i]]]
  <2>1. \A i \in 0 .. size : f[i] =
             IF i = 0 THEN [j \in 1 .. size |-> j]
             ELSE [f[i - 1] EXCEPT ![i] = f[i - 1][i + r[i]], ![i + r[i]] = f[i - 1][i]]
    <3>1. f[0] = [j \in 1 .. size |-> j]
      BY <1>4 DEF IsLoop
    <3>2. \A i \in 0 .. size : i = 0 \/ i \in 1 .. size
      OBVIOUS
    <3> HIDE DEF A
    <3> QED
      BY <3>1, <3>2, <1>5 DEF Swapped
  <2>2. f \in [0 .. size -> A]
    BY <1>4 DEF IsLoop
  <2> HIDE DEF A
  <2> QED
    BY <2>1, <2>2
<1>7. arr = [i \in 0 .. size |->
               IF i = 0 THEN [j \in 1 .. size |-> j]
               ELSE [arr[i - 1] EXCEPT ![i] = arr[i - 1][i + r[i]], ![i + r[i]] = arr[i - 1][i]]]
  <2> HIDE DEF A
  <2> QED
    BY <1>6
<1>8. Luu!ShuffleIntArray(size, r) = arr[size]
  BY DEF Luu!ShuffleIntArray
<1>9. arr[0] = id /\ \A i \in 1 .. size : arr[i] = Swapped(arr[i - 1], i, i + r[i])
  <2> HIDE DEF arr
  <2>1. arr[0] = id
    BY <1>7
  <2>2. \A i \in 1 .. size : arr[i] = Swapped(arr[i - 1], i, i + r[i])
    <3> SUFFICES ASSUME NEW i \in 1 .. size
                 PROVE  arr[i] = Swapped(arr[i - 1], i, i + r[i])
      OBVIOUS
    <3>1. i \in 0 .. size /\ i # 0
      OBVIOUS
    <3> HIDE DEF A
    <3> QED
      BY <1>7, <3>1, Zenon DEF Swapped
  <2> QED
    BY <2>1, <2>2
<1>10. size \in {i \in 0 .. size : Permutes(arr[i], size)}
  <2> DEFINE T == {i \in 0 .. size : Permutes(arr[i], size)}
  <2> HIDE DEF arr
  <2>1. 0 \in T
    BY <1>2, <1>9
  <2>2. ASSUME NEW i \in 1 .. size, i - 1 \in T PROVE i \in T
    <3>1. i \in 0 .. size /\ i + r[i] \in 1 .. size
      BY <1>1
    <3>2. arr[i] = Swapped(arr[i - 1], i, i + r[i])
      BY <1>9
    <3>3. Permutes(arr[i - 1], size)
      BY <2>2
    <3>4. Permutes(arr[i], size)
      BY <3>1, <3>2, <3>3, SwapPermutes
    <3> QED
      BY <3>1, <3>4
  <2>3. 0 .. size \subseteq T
    <3> HIDE DEF T
    <3> QED
      BY <2>1, <2>2, Induction, Zenon
  <2> QED
    BY <2>3
<1> QED
  BY <1>8, <1>10

\* DrawNames() draws different names.
LEMMA DrawsDiffer ==
    ASSUME NEW r \in Suh!Rands
    PROVE  /\ Suh!DrawNames(r) \in [Indices -> Names]
           /\ \A i, j \in Indices : Suh!DrawNames(r)[i] = Suh!DrawNames(r)[j] => i = j
<1> DEFINE L == Len(ROOM_NAMES)
           A == [1 .. L -> Names]
           step == [i \in 1 .. NUM_ROOMS |->
                      [s \in A |-> [s EXCEPT ![r[i] + 1] = s[L - i + 1]]]]
           full[i \in 0 .. NUM_ROOMS] ==
               IF i = 0 THEN ROOM_NAMES
               ELSE [full[i - 1] EXCEPT ![r[i] + 1] = full[i - 1][Len(ROOM_NAMES) - i + 1]]
<1>1. \A i \in Indices : r[i] \in Nat /\ r[i] + 1 \in 1 .. L - i + 1 /\ L - i + 1 \in 1 .. L
  BY Constants DEF Suh!Rands, Indices
<1>2. ROOM_NAMES \in A
  BY Constants
<1>3. step \in Steps(NUM_ROOMS, A)
  <2> SUFFICES ASSUME NEW i \in 1 .. NUM_ROOMS, NEW s \in A
               PROVE  [s EXCEPT ![r[i] + 1] = s[L - i + 1]] \in A
    BY DEF Steps
  <2> QED
    BY <1>1 DEF Indices
<1>4. PICK f : IsLoop(f, NUM_ROOMS, A, ROOM_NAMES, step)
  <2> HIDE DEF A, step
  <2> QED
    BY <1>2, <1>3, Constants, Rounds
<1>5. f = [i \in 0 .. NUM_ROOMS |->
             IF i = 0 THEN ROOM_NAMES
             ELSE [f[i - 1] EXCEPT ![r[i] + 1] = f[i - 1][Len(ROOM_NAMES) - i + 1]]]
  <2>1. ASSUME NEW i \in 1 .. NUM_ROOMS
        PROVE  f[i] = [f[i - 1] EXCEPT ![r[i] + 1] = f[i - 1][Len(ROOM_NAMES) - i + 1]]
    <3>1. f[i - 1] \in A
      <4> HIDE DEF A
      <4> QED
        BY <1>4, Constants DEF IsLoop
    <3> QED
      BY <1>4, <3>1 DEF IsLoop
  <2>2. f[0] = ROOM_NAMES /\ f \in [0 .. NUM_ROOMS -> A]
    BY <1>4 DEF IsLoop
  <2>3. \A i \in 0 .. NUM_ROOMS : i = 0 \/ i \in 1 .. NUM_ROOMS
    OBVIOUS
  <2>4. \A i \in 0 .. NUM_ROOMS : f[i] =
             IF i = 0 THEN ROOM_NAMES
             ELSE [f[i - 1] EXCEPT ![r[i] + 1] = f[i - 1][Len(ROOM_NAMES) - i + 1]]
    <3> HIDE DEF A
    <3> QED
      BY <2>1, <2>2, <2>3
  <2> HIDE DEF A
  <2> QED
    BY <2>2, <2>4
<1>6. full = [i \in 0 .. NUM_ROOMS |->
                IF i = 0 THEN ROOM_NAMES
                ELSE [full[i - 1] EXCEPT ![r[i] + 1] = full[i - 1][Len(ROOM_NAMES) - i + 1]]]
  <2> HIDE DEF A
  <2> QED
    BY <1>5
<1>7. Suh!DrawNames(r) = [i \in 1 .. NUM_ROOMS |-> full[i - 1][r[i] + 1]]
  BY DEF Suh!DrawNames
<1> HIDE DEF full
<1>8. full[0] = ROOM_NAMES
  BY <1>6, Constants
<1>9. ASSUME NEW i \in Indices
      PROVE  full[i] = [full[i - 1] EXCEPT ![r[i] + 1] = full[i - 1][L - i + 1]]
  <2>1. i \in 0 .. NUM_ROOMS /\ i # 0
    BY DEF Indices
  <2> QED
    BY <1>6, <2>1, Zenon
\* After i rounds the names still to be drawn are in the first L - i places.
<1> DEFINE Left(i) == \A j, k \in 1 .. L - i : full[i][j] = full[i][k] => j = k
           T == {i \in 0 .. NUM_ROOMS : full[i] \in A /\ Left(i)}
<1>10. \A i \in 0 .. NUM_ROOMS : full[i] \in A /\ Left(i)
  <2>1. 0 \in T
    BY <1>2, <1>8, Constants
  <2>2. ASSUME NEW i \in 1 .. NUM_ROOMS, i - 1 \in T PROVE i \in T
    <3> DEFINE s == full[i - 1]
    <3>1. s \in A /\ \A j, k \in 1 .. L - i + 1 : s[j] = s[k] => j = k
      BY <2>2, Constants
    <3>2. r[i] + 1 \in 1 .. L - i + 1 /\ L - i + 1 \in 1 .. L
      BY <1>1 DEF Indices
    <3>3. full[i] = [s EXCEPT ![r[i] + 1] = s[L - i + 1]]
      BY <1>9 DEF Indices
    <3> HIDE DEF s
    <3>4. full[i] \in A /\ Left(i)
      BY <3>1, <3>2, <3>3, Constants
    <3>5. i \in 0 .. NUM_ROOMS
      OBVIOUS
    <3> QED
      BY <3>4, <3>5
  <2>3. 0 .. NUM_ROOMS \subseteq T
    <3> HIDE DEF T
    <3> QED
      BY <2>1, <2>2, Constants, Induction
  <2> QED
    BY <2>3
\* The name drawn in round i is none of them, and stays so.
<1>11. ASSUME NEW i \in Indices
       PROVE  \A m \in i .. NUM_ROOMS : \A k \in 1 .. L - m : full[m][k] # full[i - 1][r[i] + 1]
  <2> DEFINE x == full[i - 1][r[i] + 1]
             U == {m \in 0 .. NUM_ROOMS : m >= i => \A k \in 1 .. L - m : full[m][k] # x}
  <2>1. 0 \in U
    BY Constants DEF Indices
  <2>2. ASSUME NEW m \in 1 .. NUM_ROOMS, m - 1 \in U PROVE m \in U
    <3>1. m \in 0 .. NUM_ROOMS /\ m - 1 \in 0 .. NUM_ROOMS /\ m \in Int
      BY Constants
    <3>2. full[m - 1] \in A /\ \A j, k \in 1 .. L - m + 1 : full[m - 1][j] = full[m - 1][k] => j = k
      BY <1>10, <3>1, Constants
    <3>3. r[m] + 1 \in 1 .. L - m + 1 /\ L - m + 1 \in 1 .. L
      BY <1>1 DEF Indices
    <3>4. full[m] = [full[m - 1] EXCEPT ![r[m] + 1] = full[m - 1][L - m + 1]]
      BY <1>9 DEF Indices
    <3>5. CASE m = i
      <4>1. \A k \in 1 .. L - m : full[m][k] # x
        <5>1. x = full[m - 1][r[m] + 1]
          BY <3>5
        <5> DEFINE s == full[m - 1]
                   l == r[m] + 1
                   e == L - m + 1
        <5>2. e \in 1 .. L /\ l \in 1 .. e /\ s \in A
          BY <3>2, <3>3, Zenon
        <5>3. \A j, k \in 1 .. e : s[j] = s[k] => j = k
          BY <3>2
        <5>4. full[m] = [s EXCEPT ![l] = s[e]] /\ x = s[l]
          BY <3>4, <5>1
        <5> HIDE DEF s, l, e, x
        <5>5. \A k \in 1 .. e - 1 : full[m][k] # x
          BY <5>2, <5>3, <5>4, Constants
        <5>6. L - m = e - 1
          BY Constants DEF e
        <5> QED
          BY <5>5, <5>6
      <4> QED
        BY <3>1, <4>1
    <3>6. CASE m > i
      <4>1. \A k \in 1 .. L - m + 1 : full[m - 1][k] # x
        BY <2>2, <3>1, <3>6, Constants DEF Indices
      <4> HIDE DEF x
      <4>2. \A k \in 1 .. L - m : full[m][k] # x
        BY <3>2, <3>3, <3>4, <4>1, Constants
      <4> QED
        BY <3>1, <4>2
    <3>7. CASE m < i
      BY <3>1, <3>7 DEF Indices
    <3> QED
      BY <3>1, <3>5, <3>6, <3>7 DEF Indices
  <2>3. 0 .. NUM_ROOMS \subseteq U
    <3> HIDE DEF U
    <3> QED
      BY <2>1, <2>2, Constants, Induction
  <2> QED
    BY <2>3 DEF Indices
<1>12. \A i \in Indices : full[i - 1][r[i] + 1] \in Names
  <2> SUFFICES ASSUME NEW i \in Indices PROVE full[i - 1][r[i] + 1] \in Names
    OBVIOUS
  <2>1. full[i - 1] \in A
    BY <1>10, Constants DEF Indices
  <2>2. r[i] + 1 \in 1 .. L
    BY <1>1, Constants DEF Indices
  <2> QED
    BY <2>1, <2>2
<1>13. ASSUME NEW i \in Indices, NEW j \in Indices, i < j
       PROVE  full[i - 1][r[i] + 1] # full[j - 1][r[j] + 1]
  <2>1. j - 1 \in i .. NUM_ROOMS
    BY <1>13, Constants DEF Indices
  <2>2. r[j] + 1 \in 1 .. L - (j - 1)
    BY <1>1, Constants DEF Indices
  <2> QED
    BY <1>11, <2>1, <2>2
<1>14. \A i, j \in Indices : i # j => i < j \/ j < i
  BY DEF Indices
<1> QED
  BY <1>7, <1>12, <1>13, <1>14 DEF Indices

\* Rooms with different names, one of each special type and a graph are what
\* a builder may make up.
LEMMA RowsGood ==
    ASSUME NEW name \in [Indices -> Names],
           \A i, j \in Indices : name[i] = name[j] => i = j,
           NEW s \in Indices, NEW e \in Indices, s # e, NEW g \in Graphs
    PROVE  GoodRooms([i \in Indices |->
               [name |-> name[i],
                type |-> CASE i = s -> "START_ROOM" [] i = e -> "END_ROOM"
                           [] OTHER -> "MID_ROOM",
                outs |-> g[i]]])
<1> DEFINE type(i) == CASE i = s -> "START_ROOM" [] i = e -> "END_ROOM" [] OTHER -> "MID_ROOM"
           rs == [i \in Indices |-> [name |-> name[i], type |-> type(i), outs |-> g[i]]]
<1>1. /\ \A i \in Indices : g[i] \in Seq(Indices)
      /\ \A i \in Indices : \A j, k \in 1 .. Len(g[i]) : g[i][j] = g[i][k] => j = k
  BY GraphAssumption DEF Indices
<1>2. \A i \in Indices : /\ type(i) \in Types
                         /\ type(i) = "START_ROOM" <=> i = s
                         /\ type(i) = "END_ROOM" <=> i = e
  BY DEF Types
<1> HIDE DEF type
<1>3. rs \in [Indices -> [name : Names, type : Types, outs : Seq(Indices)]]
  BY <1>1, <1>2
<1>4. \A i \in Indices : rs[i].name = name[i] /\ rs[i].type = type(i) /\ rs[i].outs = g[i]
  OBVIOUS
<1> HIDE DEF rs
<1>5. \A i, j \in Indices : rs[i].name = rs[j].name => i = j
  BY <1>4
<1>6. \A i \in Indices : \A j, k \in 1 .. Len(rs[i].outs) :
          rs[i].outs[j] = rs[i].outs[k] => j = k
  BY <1>1, <1>4
<1>7. \A i \in Indices : /\ rs[i].type = "START_ROOM" <=> i = s
                         /\ rs[i].type = "END_ROOM" <=> i = e
  BY <1>2, <1>4
<1>8. GoodRooms(rs)
  BY <1>3, <1>5, <1>6, <1>7, Zenon DEF GoodRooms
<1> QED
  BY <1>8 DEF rs, type

\* The first room is not the last one.
LEMMA EndsDiffer == 1 \in Indices /\ NUM_ROOMS \in Indices /\ 1 # NUM_ROOMS
BY Constants DEF Indices

\* The rooms of the directory that is there at first are good ones.
LEMMA FirstGood == GoodRooms(FirstRooms)
<1> DEFINE name == [i \in Indices |-> ROOM_NAMES[i]]
           g == CHOOSE g \in Graphs : TRUE
<1>1. name \in [Indices -> Names] /\ \A i, j \in Indices : name[i] = name[j] => i = j
  BY Constants DEF Indices
<1>2. g \in Graphs
  BY GraphAssumption
<1>3. \A i \in Indices : name[i] = ROOM_NAMES[i]
  OBVIOUS
<1> HIDE DEF name, g
<1>4. GoodRooms([i \in Indices |->
               [name |-> name[i],
                type |-> CASE i = 1 -> "START_ROOM" [] i = NUM_ROOMS -> "END_ROOM"
                           [] OTHER -> "MID_ROOM",
                outs |-> g[i]]])
  BY <1>1, <1>2, EndsDiffer, RowsGood
<1>5. FirstRooms = [i \in Indices |->
               [name |-> name[i],
                type |-> CASE i = 1 -> "START_ROOM" [] i = NUM_ROOMS -> "END_ROOM"
                           [] OTHER -> "MID_ROOM",
                outs |-> g[i]]]
  BY <1>3 DEF FirstRooms, g, Indices
<1> QED
  BY <1>4, <1>5

\* What the step that makes up rooms has in common.
MakesUp(d) ==
    /\ maker[d] = "idle"
    /\ \E rs : GoodRooms(rs) /\ made' = [made EXCEPT ![d] = rs]
    /\ maker' = [maker EXCEPT ![d] = "dir"]
    /\ UNCHANGED <<count, now, disk, pc, search, reading, walk, games>>

\* What Suh's make_file() draws are good rooms (suhho.buildrooms.c).
LEMMA SuhMakesUp == ASSUME NEW d, Suh!NameRooms(d) PROVE MakesUp(d)
<1>1. PICK r \in Suh!Rands, g \in Graphs :
          made' = [made EXCEPT ![d] = [i \in 1 .. NUM_ROOMS |->
             [name |-> Suh!DrawNames(r)[i],
              type |-> CASE i = 1 -> "START_ROOM" [] i = NUM_ROOMS -> "END_ROOM"
                         [] OTHER -> "MID_ROOM",
              outs |-> g[i]]]]
  BY DEF Suh!NameRooms
<1> DEFINE name == Suh!DrawNames(r)
<1>2. name \in [Indices -> Names] /\ \A i, j \in Indices : name[i] = name[j] => i = j
  BY DrawsDiffer
<1> HIDE DEF name
<1>3. GoodRooms([i \in Indices |->
               [name |-> name[i],
                type |-> CASE i = 1 -> "START_ROOM" [] i = NUM_ROOMS -> "END_ROOM"
                           [] OTHER -> "MID_ROOM",
                outs |-> g[i]]])
  BY <1>2, EndsDiffer, RowsGood
<1>4. \E rs : GoodRooms(rs) /\ made' = [made EXCEPT ![d] = rs]
  BY <1>1, <1>3, Zenon DEF name, Indices
<1> QED
  BY <1>4 DEF Suh!NameRooms, MakesUp, Suh!disk, disk, Suh!search, search, Suh!reading,
              reading, Suh!walk, walk

\* So are those of roomCreate() (dougherm.buildrooms.c).
LEMMA DoughertyMakesUp == ASSUME NEW d, Dougherty!roomCreate(d) PROVE MakesUp(d)
<1>1. PICK n \in Dougherty!Names, g \in Graphs :
          made' = [made EXCEPT ![d] = [i \in 1 .. NUM_ROOMS |->
             [name |-> ROOM_NAMES[n[i]],
              type |-> CASE i = 1 -> "START_ROOM" [] i = NUM_ROOMS -> "END_ROOM"
                         [] OTHER -> "MID_ROOM",
              outs |-> g[i]]]]
  BY DEF Dougherty!roomCreate
<1> DEFINE name == [i \in Indices |-> ROOM_NAMES[n[i]]]
<1>2. /\ n \in [Indices -> 1 .. Len(ROOM_NAMES)]
      /\ \A i, j \in Indices : n[i] = n[j] => i = j
  BY Constants DEF Dougherty!Names, Dougherty!Drawn, Indices
<1>3. name \in [Indices -> Names] /\ \A i, j \in Indices : name[i] = name[j] => i = j
  BY <1>2, Constants
<1>4. \A i \in Indices : name[i] = ROOM_NAMES[n[i]]
  OBVIOUS
<1> HIDE DEF name
<1>5. GoodRooms([i \in Indices |->
               [name |-> name[i],
                type |-> CASE i = 1 -> "START_ROOM" [] i = NUM_ROOMS -> "END_ROOM"
                           [] OTHER -> "MID_ROOM",
                outs |-> g[i]]])
  BY <1>3, EndsDiffer, RowsGood
<1>6. made' = [made EXCEPT ![d] = [i \in Indices |->
               [name |-> name[i],
                type |-> CASE i = 1 -> "START_ROOM" [] i = NUM_ROOMS -> "END_ROOM"
                           [] OTHER -> "MID_ROOM",
                outs |-> g[i]]]]
  BY <1>1, <1>4 DEF Indices
<1>7. \E rs : GoodRooms(rs) /\ made' = [made EXCEPT ![d] = rs]
  BY <1>5, <1>6, Zenon
<1> QED
  BY <1>7 DEF Dougherty!roomCreate, MakesUp, Dougherty!disk, disk, Dougherty!search, search,
              Dougherty!reading, reading, Dougherty!walk, walk

\* So are those of GenerateRooms() (luuph.buildrooms.c).
LEMMA LuuMakesUp == ASSUME NEW d, Luu!GenerateRooms(d) PROVE MakesUp(d)
<1>1. PICK r1 \in Luu!Rands(Len(ROOM_NAMES)), r2 \in Luu!Rands(NUM_ROOMS), g \in Graphs :
          made' = [made EXCEPT ![d] = [i \in 1 .. NUM_ROOMS |->
             [name |-> ROOM_NAMES[Luu!ShuffleIntArray(Len(ROOM_NAMES), r1)[i]],
              type |-> CASE i = Luu!ShuffleIntArray(NUM_ROOMS, r2)[1] -> "START_ROOM"
                         [] i = Luu!ShuffleIntArray(NUM_ROOMS, r2)[NUM_ROOMS] -> "END_ROOM"
                         [] OTHER -> "MID_ROOM",
              outs |-> g[i]]]]
  BY DEF Luu!GenerateRooms
<1> DEFINE n == Luu!ShuffleIntArray(Len(ROOM_NAMES), r1)
           idx == Luu!ShuffleIntArray(NUM_ROOMS, r2)
           s == idx[1]
           e == idx[NUM_ROOMS]
           name == [i \in Indices |-> ROOM_NAMES[n[i]]]
<1>2. Permutes(n, Len(ROOM_NAMES)) /\ Permutes(idx, NUM_ROOMS)
  BY ShufflePermutes, Constants
<1> HIDE DEF n, idx
<1>3. s \in Indices /\ e \in Indices /\ s # e
  BY <1>2, EndsDiffer DEF Permutes, Indices
<1>4. name \in [Indices -> Names] /\ \A i, j \in Indices : name[i] = name[j] => i = j
  <2>1. /\ n \in [1 .. Len(ROOM_NAMES) -> 1 .. Len(ROOM_NAMES)]
        /\ \A i, j \in 1 .. Len(ROOM_NAMES) : n[i] = n[j] => i = j
    BY <1>2 DEF Permutes
  <2>2. Indices \subseteq 1 .. Len(ROOM_NAMES)
    BY Constants DEF Indices
  <2>3. \A i \in Indices : n[i] \in 1 .. Len(ROOM_NAMES)
    BY <2>1, <2>2
  <2>4. name \in [Indices -> Names]
    BY <2>3, Constants
  <2>5. \A i, j \in Indices : ROOM_NAMES[n[i]] = ROOM_NAMES[n[j]] => i = j
    <3> SUFFICES ASSUME NEW i \in Indices, NEW j \in Indices,
                        ROOM_NAMES[n[i]] = ROOM_NAMES[n[j]]
                 PROVE  i = j
      OBVIOUS
    <3>1. n[i] = n[j]
      BY <2>3, Constants
    <3> QED
      BY <2>1, <2>2, <3>1
  <2> QED
    BY <2>4, <2>5
<1>5. \A i \in Indices : name[i] = ROOM_NAMES[n[i]]
  OBVIOUS
<1> HIDE DEF s, e, name
<1>6. GoodRooms([i \in Indices |->
               [name |-> name[i],
                type |-> CASE i = s -> "START_ROOM" [] i = e -> "END_ROOM"
                           [] OTHER -> "MID_ROOM",
                outs |-> g[i]]])
  BY <1>3, <1>4, RowsGood
<1>7. made' = [made EXCEPT ![d] = [i \in Indices |->
               [name |-> name[i],
                type |-> CASE i = s -> "START_ROOM" [] i = e -> "END_ROOM"
                           [] OTHER -> "MID_ROOM",
                outs |-> g[i]]]]
  <2>1. made' = [made EXCEPT ![d] = [i \in Indices |->
               [name |-> ROOM_NAMES[n[i]],
                type |-> CASE i = s -> "START_ROOM" [] i = e -> "END_ROOM"
                           [] OTHER -> "MID_ROOM",
                outs |-> g[i]]]]
    BY <1>1, Zenon DEF n, s, e, idx, Indices
  <2> QED
    BY <2>1, <1>5
<1>8. \E rs : GoodRooms(rs) /\ made' = [made EXCEPT ![d] = rs]
  BY <1>6, <1>7, Zenon
<1> QED
  BY <1>8 DEF Luu!GenerateRooms, MakesUp, Luu!disk, disk, Luu!search, search, Luu!reading,
              reading, Luu!walk, walk

-----------------------------------------------------------------------------
(***************************************************************************)
(* The steps of the three programs, told by what they do.                  *)
(***************************************************************************)
BuildStep(d) ==
    \/ MakesUp(d) \/ MakeDir(d)
    \/ OpenFile(d, FileName(made[d], count[d] + 1))
    \/ CloseFile(d, FileName(made[d], count[d] + 1), RoomText(made[d], count[d] + 1))

\* What the steps of a game leave alone.
Quiet == UNCHANGED <<makers, now, disk>>

SuhPlay ==
    \/ OpenRootFrom(-1) \/ OpenChosen \/ Suh!StartGame \/ MakeTimeFile \/ EndGame
    \/ \E d \in Dirs : LookAt(d, 0 > newest)
    \/ \E f \in listing : Suh!ReadFile(f)
    \/ \E i \in DOMAIN ROOM_NAMES : Suh!start_game(ROOM_NAMES[i])

LuuPlay ==
    \/ OpenRootFrom(0) \/ OpenChosen \/ Luu!StartPlaying \/ EndGame
    \/ \E d \in Dirs : LookAt(d, mtime[d] > newest)
    \/ \E f \in listing : Luu!ReadRoomFromFile(f)
    \/ \E i \in DOMAIN ROOM_NAMES : Luu!PlayGame(ROOM_NAMES[i])

DoughertyPlay ==
    \/ OpenRootFrom(0) \/ Dougherty!getRoomNames \/ Dougherty!findStartRoom
    \/ MakeTimeFile \/ EndGame
    \/ \E d \in Dirs : LookAt(d, mtime[d] > newest)
    \/ \E i \in 1 .. NUM_ROOMS : Dougherty!formRooms(i)
    \/ \E i \in DOMAIN ROOM_NAMES : Dougherty!gamePlay(ROOM_NAMES[i])

Step ==
    \/ World \/ \E d \in Dirs : BuildStep(d)
    \/ program = "suh" /\ SuhPlay
    \/ program = "luu" /\ LuuPlay
    \/ program = "dougherty" /\ DoughertyPlay
    \/ UNCHANGED vars

\* Every step of Suh's programs is one of these.
LEMMA SuhSteps == ASSUME program = "suh", Suh!Next PROVE Step
<1>1. Suh!World => World
  BY DEF Suh!World, World, Suh!Tick, Tick, Suh!PlayAgain, PlayAgain, Suh!KillMaker, KillMaker,
     Suh!NoGame, NoGame, Suh!makers, makers, Suh!disk, disk, Suh!search, search,
     Suh!reading, reading, Suh!walk, walk
<1>2. ASSUME NEW d \in Dirs, Suh!Build(d) PROVE BuildStep(d)
  <2>1. Suh!MakeFolder(d) => MakeDir(d)
    BY DEF Suh!MakeFolder, Suh!MakeDir, MakeDir, Suh!search, search, Suh!reading, reading,
       Suh!walk, walk
  <2>2. FileName(made[d], count[d] + 1) = Suh!Room_list(made[d], count[d] + 1)
    BY DEF FileName, Suh!Room_list
  <2>3. \A f : Suh!OpenFile(d, f) => OpenFile(d, f)
    BY DEF Suh!OpenFile, OpenFile, Suh!With, With, Suh!EmptyText, EmptyText, Suh!search, search,
       Suh!reading, reading, Suh!walk, walk
  <2>4. \A f, text : Suh!CloseFile(d, f, text) => CloseFile(d, f, text)
    BY DEF Suh!CloseFile, CloseFile, Suh!With, With, Suh!search, search,
       Suh!reading, reading, Suh!walk, walk
  <2>5. Suh!RoomText(made[d], count[d] + 1) = RoomText(made[d], count[d] + 1)
    BY DEF Suh!RoomText, RoomText
  <2> QED
    BY <1>2, <2>1, <2>2, <2>3, <2>4, <2>5, SuhMakesUp
    DEF Suh!Build, BuildStep, Suh!OpenRoomFile, Suh!WriteRoomFile
<1>3. Suh!Play => SuhPlay
  <2>1. Suh!OpenRoot => OpenRootFrom(-1)
    BY DEF Suh!OpenRoot, Suh!OpenRootFrom, OpenRootFrom, Suh!Existing, Existing, Suh!makers,
       makers, Suh!disk, disk, Suh!reading, reading, Suh!walk, walk
  <2>2. Suh!OpenDirectory => OpenChosen
    BY DEF Suh!OpenDirectory, Suh!OpenChosen, OpenChosen, Suh!makers, makers, Suh!disk, disk,
       Suh!search, search, Suh!walk, walk
  <2>3. \A d : Suh!get_directory(d) => LookAt(d, 0 > newest)
    BY DEF Suh!get_directory, Suh!LookAt, LookAt, Suh!st_mode, Suh!makers, makers, Suh!disk,
       disk, Suh!reading, reading, Suh!walk, walk
  <2>4. Suh!get_time => MakeTimeFile
    BY DEF Suh!get_time, Suh!MakeTimeFile, MakeTimeFile, Suh!With, With, Suh!TimeText, TimeText,
       Suh!CurrentTime, CurrentTime, Suh!makers, makers, Suh!search, search, Suh!reading,
       reading, Suh!walk, walk
  <2>5. Suh!ending_game => EndGame
    BY DEF Suh!ending_game, Suh!EndGame, EndGame, Suh!NoGame, NoGame, Suh!makers, makers,
       Suh!disk, disk
  <2> QED
    BY <2>1, <2>2, <2>3, <2>4, <2>5 DEF Suh!Play, SuhPlay
<1> QED
  BY <1>1, <1>2, <1>3 DEF Suh!Next, Step

\* Every step of Luu's programs is one of these.
LEMMA LuuSteps == ASSUME program = "luu", Luu!Next PROVE Step
<1>1. Luu!World => World
  BY DEF Luu!World, World, Luu!Tick, Tick, Luu!PlayAgain, PlayAgain, Luu!KillMaker, KillMaker,
     Luu!NoGame, NoGame, Luu!makers, makers, Luu!disk, disk, Luu!search, search,
     Luu!reading, reading, Luu!walk, walk
<1>2. ASSUME NEW d \in Dirs, Luu!Build(d) PROVE BuildStep(d)
  <2>1. Luu!MakeRoomDir(d) => MakeDir(d)
    BY DEF Luu!MakeRoomDir, Luu!MakeDir, MakeDir, Luu!search, search, Luu!reading, reading,
       Luu!walk, walk
  <2>2. FileName(made[d], count[d] + 1) = Luu!FILE_NAMES(made[d], count[d] + 1)
    BY DEF FileName, Luu!FILE_NAMES
  <2>3. \A f : Luu!OpenFile(d, f) => OpenFile(d, f)
    BY DEF Luu!OpenFile, OpenFile, Luu!With, With, Luu!EmptyText, EmptyText, Luu!search, search,
       Luu!reading, reading, Luu!walk, walk
  <2>4. \A f, text : Luu!CloseFile(d, f, text) => CloseFile(d, f, text)
    BY DEF Luu!CloseFile, CloseFile, Luu!With, With, Luu!search, search,
       Luu!reading, reading, Luu!walk, walk
  <2>5. Luu!RoomText(made[d], count[d] + 1) = RoomText(made[d], count[d] + 1)
    BY DEF Luu!RoomText, RoomText
  <2> QED
    BY <1>2, <2>1, <2>2, <2>3, <2>4, <2>5, LuuMakesUp
    DEF Luu!Build, BuildStep, Luu!OpenRoomFile, Luu!WriteRoomFile
<1>3. Luu!Play => LuuPlay
  <2>1. Luu!OpenRoot => OpenRootFrom(0)
    BY DEF Luu!OpenRoot, Luu!OpenRootFrom, OpenRootFrom, Luu!Existing, Existing, Luu!makers,
       makers, Luu!disk, disk, Luu!reading, reading, Luu!walk, walk
  <2>2. Luu!ReadRoomsFromDir => OpenChosen
    BY DEF Luu!ReadRoomsFromDir, Luu!OpenChosen, OpenChosen, Luu!makers, makers, Luu!disk, disk,
       Luu!search, search, Luu!walk, walk
  <2>3. \A d : Luu!GetNewestRoomDir(d) => LookAt(d, mtime[d] > newest)
    BY DEF Luu!GetNewestRoomDir, Luu!IsNewestRoomDir, Luu!LookAt, LookAt, Luu!makers, makers,
       Luu!disk, disk, Luu!reading, reading, Luu!walk, walk
  <2>4. Luu!Victory => EndGame
    BY DEF Luu!Victory, Luu!EndGame, EndGame, Luu!NoGame, NoGame, Luu!makers, makers,
       Luu!disk, disk
  <2> QED
    BY <2>1, <2>2, <2>3, <2>4 DEF Luu!Play, LuuPlay
<1> QED
  BY <1>1, <1>2, <1>3 DEF Luu!Next, Step

\* Every step of Dougherty's programs is one of these.
LEMMA DoughertySteps == ASSUME program = "dougherty", Dougherty!Next PROVE Step
<1>1. Dougherty!World => World
  BY DEF Dougherty!World, World, Dougherty!Tick, Tick, Dougherty!PlayAgain, PlayAgain,
     Dougherty!KillMaker, KillMaker, Dougherty!NoGame, NoGame, Dougherty!makers, makers,
     Dougherty!disk, disk, Dougherty!search, search, Dougherty!reading, reading,
     Dougherty!walk, walk
<1>2. ASSUME NEW d \in Dirs, Dougherty!Build(d) PROVE BuildStep(d)
  <2>1. Dougherty!MakeRoomDir(d) => MakeDir(d)
    BY DEF Dougherty!MakeRoomDir, Dougherty!MakeDir, MakeDir, Dougherty!search, search,
       Dougherty!reading, reading, Dougherty!walk, walk
  <2>2. FileName(made[d], count[d] + 1) = Dougherty!roomFileName(made[d], count[d] + 1)
    BY DEF FileName, Dougherty!roomFileName
  <2>3. \A f : Dougherty!OpenFile(d, f) => OpenFile(d, f)
    BY DEF Dougherty!OpenFile, OpenFile, Dougherty!With, With, Dougherty!EmptyText, EmptyText,
       Dougherty!search, search, Dougherty!reading, reading, Dougherty!walk, walk
  <2>4. \A f, text : Dougherty!CloseFile(d, f, text) => CloseFile(d, f, text)
    BY DEF Dougherty!CloseFile, CloseFile, Dougherty!With, With, Dougherty!search, search,
       Dougherty!reading, reading, Dougherty!walk, walk
  <2>5. Dougherty!RoomText(made[d], count[d] + 1) = RoomText(made[d], count[d] + 1)
    BY DEF Dougherty!RoomText, RoomText
  <2> QED
    BY <1>2, <2>1, <2>2, <2>3, <2>4, <2>5, DoughertyMakesUp
    DEF Dougherty!Build, BuildStep, Dougherty!OpenRoomFile, Dougherty!WriteRoomFile
<1>3. Dougherty!Play => DoughertyPlay
  <2>1. Dougherty!OpenRoot => OpenRootFrom(0)
    BY DEF Dougherty!OpenRoot, Dougherty!OpenRootFrom, OpenRootFrom, Dougherty!Existing,
       Existing, Dougherty!makers, makers, Dougherty!disk, disk, Dougherty!reading, reading,
       Dougherty!walk, walk
  <2>2. \A d : Dougherty!getRecentDir(d) => LookAt(d, mtime[d] > newest)
    BY DEF Dougherty!getRecentDir, Dougherty!LookAt, LookAt, Dougherty!makers, makers,
       Dougherty!disk, disk, Dougherty!reading, reading, Dougherty!walk, walk
  <2>3. Dougherty!getTimeFile => MakeTimeFile
    BY DEF Dougherty!getTimeFile, Dougherty!MakeTimeFile, MakeTimeFile, Dougherty!With, With,
       Dougherty!TimeText, TimeText, Dougherty!CurrentTime, CurrentTime, Dougherty!makers,
       makers, Dougherty!search, search, Dougherty!reading, reading, Dougherty!walk, walk
  <2>4. Dougherty!cleanUp => EndGame
    BY DEF Dougherty!cleanUp, Dougherty!EndGame, EndGame, Dougherty!NoGame, NoGame,
       Dougherty!makers, makers, Dougherty!disk, disk
  <2> QED
    BY <2>1, <2>2, <2>3, <2>4 DEF Dougherty!Play, DoughertyPlay
<1> QED
  BY <1>1, <1>2, <1>3 DEF Dougherty!Next, Step

\* The program stays the same, and its steps are these.
LEMMA StepsOf == ASSUME [Next]_mcVars PROVE program' = program /\ Step
BY SuhSteps, LuuSteps, DoughertySteps DEF Next, mcVars, Step

-----------------------------------------------------------------------------
(***************************************************************************)
(* What is on the disk.                                                    *)
(***************************************************************************)
\* Files have different names, and no room's file is the time file.
LEMMA FileNamesDiffer ==
    ASSUME NEW rs, GoodRooms(rs), NEW i \in Indices, NEW j \in Indices,
           FileName(rs, i) = FileName(rs, j)
    PROVE  i = j
BY DEF GoodRooms, FileName

\* No room's file is called currentTime.txt.
LEMMA NoTimeFileName ==
    ASSUME NEW rs, GoodRooms(rs), NEW i \in Indices, program # "luu"
    PROVE  FileName(rs, i) # CurrentTime
<1>1. rs[i].name \in Names
  BY DEF GoodRooms
<1> QED
  BY <1>1, Constants DEF FileName

\* The disk is good at first, if its files have the names of their rooms.
LEMMA DiskStarts ==
    ASSUME ProgramInv, NEW names, DOMAIN names = Indices,
           \A i \in Indices : names[i] = FileName(FirstRooms, i), InitWorld(names)
    PROVE  DiskInv
<1>1. FirstDir \in Dirs
  BY DirAssumption DEF FirstDir
<1>2. Shape
  BY Constants DEF InitWorld, Shape, Makers
<1>3. \A d \in Dirs : d # FirstDir => MakerInv(d) /\ FileInv(d)
  BY DEF InitWorld, MakerInv, FileInv
<1>4. MakerInv(FirstDir)
  BY <1>1, FirstGood DEF InitWorld, MakerInv
<1>5. FileInv(FirstDir)
  <2>1. /\ made[FirstDir] = FirstRooms /\ count[FirstDir] = NUM_ROOMS
        /\ files[FirstDir] = [f \in Range(names) |->
              RoomText(FirstRooms, CHOOSE i \in DOMAIN names : names[i] = f)]
    BY <1>1 DEF InitWorld
  <2>2. \A i \in Indices : names[i] \in DOMAIN files[FirstDir]
    BY <2>1 DEF Range
  <2>3. \A i \in Indices : (CHOOSE j \in DOMAIN names : names[j] = names[i]) = i
    BY FirstGood, FileNamesDiffer
  <2>4. ASSUME NEW f \in DOMAIN files[FirstDir]
        PROVE  \E i \in Indices : f = names[i] /\ files[FirstDir][f] = RoomText(FirstRooms, i)
    <3>1. PICK i \in Indices : f = names[i]
      BY <2>1 DEF Range
    <3>2. files[FirstDir][f] = RoomText(FirstRooms, CHOOSE j \in DOMAIN names : names[j] = f)
      BY <2>1
    <3> QED
      BY <2>3, <3>1, <3>2
  <2>5. \A i \in Indices : i =< NUM_ROOMS
    BY Constants DEF Indices
  <2> QED
    BY <2>1, <2>2, <2>4, <2>5 DEF FileInv, Indices
<1> QED
  BY <1>1, <1>2, <1>3, <1>4, <1>5 DEF DiskInv

\* It is, with each of the programs.
LEMMA InitDisk == Init => DiskInv
<1>1. ASSUME program = "suh", Suh!Init PROVE DiskInv
  <2> DEFINE names == [i \in Indices |-> Suh!Room_list(FirstRooms, i)]
  <2>1. DOMAIN names = Indices /\ \A i \in Indices : names[i] = FileName(FirstRooms, i)
    BY <1>1 DEF FileName, Suh!Room_list
  <2>2. Suh!FirstDir = FirstDir /\ Suh!FirstRooms = FirstRooms
    BY DEF Suh!FirstDir, FirstDir, Suh!FirstRooms, FirstRooms
  <2>3. Suh!InitWorld(names)
    BY <1>1, <2>2 DEF Suh!Init, Indices
  <2> HIDE DEF names
  <2>4. InitWorld(names)
    BY <2>3 DEF Suh!InitWorld, InitWorld, Suh!FirstDir, FirstDir, Suh!FirstRooms, FirstRooms,
                Suh!RoomText, RoomText, Suh!Range, Range
  <2> QED
    BY <1>1, <2>1, <2>4, DiskStarts DEF ProgramInv
<1>2. ASSUME program = "luu", Luu!Init PROVE DiskInv
  <2> DEFINE names == [i \in Indices |-> Luu!FILE_NAMES(FirstRooms, i)]
  <2>1. DOMAIN names = Indices /\ \A i \in Indices : names[i] = FileName(FirstRooms, i)
    BY <1>2 DEF FileName, Luu!FILE_NAMES
  <2>2. Luu!FirstDir = FirstDir /\ Luu!FirstRooms = FirstRooms
    BY DEF Luu!FirstDir, FirstDir, Luu!FirstRooms, FirstRooms
  <2>3. Luu!InitWorld(names)
    BY <1>2, <2>2 DEF Luu!Init, Indices
  <2> HIDE DEF names
  <2>4. InitWorld(names)
    BY <2>3 DEF Luu!InitWorld, InitWorld, Luu!FirstDir, FirstDir, Luu!FirstRooms, FirstRooms,
                Luu!RoomText, RoomText, Luu!Range, Range
  <2> QED
    BY <1>2, <2>1, <2>4, DiskStarts DEF ProgramInv
<1>3. ASSUME program = "dougherty", Dougherty!Init PROVE DiskInv
  <2> DEFINE names == [i \in Indices |-> Dougherty!roomFileName(FirstRooms, i)]
  <2>1. DOMAIN names = Indices /\ \A i \in Indices : names[i] = FileName(FirstRooms, i)
    BY <1>3 DEF FileName, Dougherty!roomFileName
  <2>2. Dougherty!FirstDir = FirstDir /\ Dougherty!FirstRooms = FirstRooms
    BY DEF Dougherty!FirstDir, FirstDir, Dougherty!FirstRooms, FirstRooms
  <2>3. Dougherty!InitWorld(names)
    BY <1>3, <2>2 DEF Dougherty!Init, Indices
  <2> HIDE DEF names
  <2>4. InitWorld(names)
    BY <2>3 DEF Dougherty!InitWorld, InitWorld, Dougherty!FirstDir, FirstDir,
                Dougherty!FirstRooms, FirstRooms, Dougherty!RoomText, RoomText, Dougherty!Range, Range
  <2> QED
    BY <1>3, <2>1, <2>4, DiskStarts DEF ProgramInv
<1> QED
  BY <1>1, <1>2, <1>3 DEF Init

\* A directory that a step leaves alone.
SameDir(e) ==
    /\ maker'[e] = maker[e] /\ made'[e] = made[e] /\ count'[e] = count[e]
    /\ files'[e] = files[e] /\ mtime'[e] = mtime[e]

\* A directory that a step does not touch stays good.
LEMMA DirKept ==
    ASSUME NEW e, program' = program, SameDir(e), MakerInv(e) /\ FileInv(e)
    PROVE  (MakerInv(e) /\ FileInv(e))'
BY DEF SameDir, MakerInv, FileInv, FileName, RoomText

\* The disk after each kind of step.

\* The steps of a game other than the time command change nothing on the disk.
LEMMA QuietSteps ==
    /\ \A first : OpenRootFrom(first) => Quiet
    /\ \A d, better : LookAt(d, better) => Quiet
    /\ OpenChosen => Quiet
    /\ EndGame => Quiet
    /\ PlayAgain => Quiet
    /\ Suh!StartGame => Quiet
    /\ \A f : Suh!ReadFile(f) => Quiet
    /\ \A name : Suh!start_game(name) => Quiet
    /\ Luu!StartPlaying => Quiet
    /\ \A f : Luu!ReadRoomFromFile(f) => Quiet
    /\ \A name : Luu!PlayGame(name) => Quiet
    /\ Dougherty!getRoomNames => Quiet
    /\ Dougherty!findStartRoom => Quiet
    /\ \A i : Dougherty!formRooms(i) => Quiet
    /\ \A name : Dougherty!gamePlay(name) => Quiet
BY DEF Quiet, OpenRootFrom, LookAt, OpenChosen, EndGame, PlayAgain,
   Suh!StartGame, Suh!ReadFile, Suh!start_game, Suh!makers, makers, Suh!disk, disk,
   Luu!StartPlaying, Luu!ReadRoomFromFile, Luu!PlayGame, Luu!makers, Luu!disk,
   Dougherty!getRoomNames, Dougherty!findStartRoom, Dougherty!formRooms, Dougherty!gamePlay,
   Dougherty!makers, Dougherty!disk

\* What any step does to the disk.
DiskStep ==
    \/ Quiet \/ Tick \/ \E d \in Dirs : KillMaker(d) \/ BuildStep(d)
    \/ program # "luu" /\ MakeTimeFile

\* Every step is one of these.
LEMMA DiskSteps == ASSUME Step PROVE DiskStep
BY QuietSteps DEF Step, DiskStep, World, SuhPlay, LuuPlay, DoughertyPlay, vars, Quiet

\* The games' steps leave the disk as it is.
LEMMA QuietDisk ==
    ASSUME DiskInv, program' = program, Quiet PROVE DiskInv'
<1>1. \A e \in Dirs : SameDir(e)
  BY DEF Quiet, makers, disk, SameDir
<1>2. Shape' /\ ProgramInv'
  BY DEF DiskInv, Shape, ProgramInv, Quiet, makers, disk
<1> QED
  BY <1>1, <1>2, DirKept DEF DiskInv

\* The clock does, too.
LEMMA TickDisk ==
    ASSUME DiskInv, program' = program, Tick PROVE DiskInv'
<1>1. \A e \in Dirs : SameDir(e)
  BY DEF Tick, makers, disk, SameDir
<1>2. Shape' /\ ProgramInv'
  BY DEF DiskInv, Shape, ProgramInv, Tick, makers, disk
<1> QED
  BY <1>1, <1>2, DirKept DEF DiskInv

\* A builder changes no directory but its own.
LEMMA OthersSame ==
    ASSUME Shape, NEW d \in Dirs, KillMaker(d) \/ BuildStep(d),
           NEW e \in Dirs, e # d
    PROVE  SameDir(e)
BY DEF Shape, KillMaker, BuildStep, MakesUp, MakeDir, OpenFile, CloseFile, SameDir, disk

\* A builder's step keeps the shape of the disk.
LEMMA BuilderShape ==
    ASSUME Shape, ProgramInv, NEW d \in Dirs, MakerInv(d), program' = program,
           KillMaker(d) \/ BuildStep(d)
    PROVE  Shape' /\ ProgramInv' /\ now' = now
<1>1. ProgramInv'
  BY DEF ProgramInv
<1>2. now' = now
  BY DEF KillMaker, BuildStep, MakesUp, MakeDir, OpenFile, CloseFile
<1>3. maker' \in [Dirs -> Makers]
  BY DEF Shape, Makers, KillMaker, BuildStep, MakesUp, MakeDir, OpenFile, CloseFile
<1>4. count' \in [Dirs -> 0 .. NUM_ROOMS]
  BY Constants DEF Shape, MakerInv, KillMaker, BuildStep, MakesUp, MakeDir, OpenFile, CloseFile
<1>5. DOMAIN made' = Dirs /\ DOMAIN files' = Dirs
  BY DEF Shape, KillMaker, BuildStep, MakesUp, MakeDir, OpenFile, CloseFile, disk
<1>6. mtime' \in [Dirs -> 0 .. now]
  BY DEF Shape, KillMaker, BuildStep, MakesUp, MakeDir, OpenFile, CloseFile, disk
<1> QED
  BY <1>1, <1>2, <1>3, <1>4, <1>5, <1>6 DEF Shape

\* It keeps every directory good: its own and the others.
LEMMA BuilderDir ==
    ASSUME Shape, ProgramInv, NEW d \in Dirs, MakerInv(d), FileInv(d), program' = program,
           KillMaker(d) \/ BuildStep(d)
    PROVE  MakerInv(d)' /\ FileInv(d)'
<1>0. now # 0 /\ d \in DOMAIN made /\ d \in DOMAIN files /\ count[d] \in 0 .. NUM_ROOMS
  BY DEF Shape
<1>6. GoodRooms(made[d])' <=> GoodRooms(made'[d])
  BY DEF GoodRooms
<1>1. CASE KillMaker(d)
  BY <1>0, <1>1 DEF Shape, KillMaker, MakerInv, FileInv, FileName, RoomText, disk
<1>2. CASE MakesUp(d)
  <2>1. PICK rs : GoodRooms(rs) /\ made' = [made EXCEPT ![d] = rs]
    BY <1>2 DEF MakesUp
  <2>2. made'[d] = rs /\ maker'[d] = "dir" /\ files' = files /\ mtime' = mtime /\ count' = count
    BY <1>0, <1>2, <2>1 DEF MakesUp, Shape, disk
  <2>3. maker[d] = "idle"
    BY <1>2 DEF MakesUp
  <2>4. GoodRooms(made[d])'
    BY <1>6, <2>1, <2>2
  <2>5. DOMAIN files[d] = {} /\ count[d] = 0 /\ mtime[d] = 0
    BY <2>3 DEF MakerInv
  <2>6. MakerInv(d)'
    BY <2>2, <2>4, <2>5 DEF MakerInv
  <2>7. FileInv(d)'
    BY <2>2, <2>5 DEF FileInv
  <2> QED
    BY <2>6, <2>7
<1>3. CASE MakeDir(d)
  <2>1. maker'[d] = "open" /\ mtime'[d] = now /\ UNCHANGED <<made, count, files>>
    BY <1>3 DEF MakeDir, Shape
  <2>2. maker[d] = "dir"
    BY <1>3 DEF MakeDir
  <2>3. MakerInv(d)'
    BY <1>0, <1>6, <2>1, <2>2, Constants DEF MakerInv
  <2>4. FileInv(d)'
    BY <2>1 DEF FileInv, FileName, RoomText
  <2> QED
    BY <2>3, <2>4
<1>4. CASE OpenFile(d, FileName(made[d], count[d] + 1))
  <2> DEFINE k == count[d] + 1
             f == FileName(made[d], k)
  <2>1. /\ maker'[d] = "write" /\ UNCHANGED <<made, count>>
        /\ files'[d] = With(files[d], f, EmptyText)
        /\ mtime'[d] \in {mtime[d], now}
    BY <1>0, <1>4 DEF OpenFile, Shape
  <2>2. maker[d] = "open"
    BY <1>4 DEF OpenFile
  <2>3. GoodRooms(made[d]) /\ k \in Indices /\ k \in Int /\ count[d] < k
    BY <1>0, <2>2, Constants DEF MakerInv, Indices
  <2>4. MakerInv(d)'
    BY <1>0, <2>1, <2>2 DEF MakerInv, GoodRooms
  <2>5. \A i \in Indices : FileName(made[d], i) = f => i = k
    BY <2>3, FileNamesDiffer
  <2>6. \A i : /\ FileName(made[d], i)' = FileName(made[d], i)
               /\ RoomText(made[d], i)' = RoomText(made[d], i)
    BY <2>1 DEF FileName, RoomText
  <2>7. /\ DOMAIN files'[d] = DOMAIN files[d] \cup {f} /\ files'[d][f] = EmptyText
        /\ \A g \in DOMAIN files[d] : g # f => files'[d][g] = files[d][g]
    BY <2>1 DEF With
  <2> HIDE DEF f
  <2>8. ASSUME NEW g \in DOMAIN files'[d]
        PROVE  \/ program # "luu" /\ g = CurrentTime /\ files'[d][g] = TimeText
               \/ \E i \in Indices :
                    /\ g = FileName(made[d], i)
                    /\ files'[d][g] = IF i =< count[d] THEN RoomText(made[d], i) ELSE EmptyText
    <3>1. CASE g = f
      <4>1. g = FileName(made[d], k) /\ files'[d][g] = EmptyText /\ ~(k =< count[d])
        BY <1>0, <2>3, <2>7, <3>1 DEF f
      <4> QED
        BY <2>3, <4>1
    <3>2. CASE g # f
      BY <2>7, <3>2 DEF FileInv
    <3> QED
      BY <3>1, <3>2
  <2>9. \A i \in 1 .. count[d] : FileName(made[d], i) \in DOMAIN files'[d]
    BY <2>7 DEF FileInv
  <2>10. FileInv(d)'
    BY <2>1, <2>6, <2>8, <2>9 DEF FileInv, EmptyText
  <2> QED
    BY <2>4, <2>10
<1>5. CASE CloseFile(d, FileName(made[d], count[d] + 1), RoomText(made[d], count[d] + 1))
  <2> DEFINE k == count[d] + 1
             f == FileName(made[d], k)
  <2>1. /\ maker'[d] = IF k = NUM_ROOMS THEN "done" ELSE "open"
        /\ UNCHANGED <<made, mtime>> /\ count'[d] = k
        /\ files'[d] = With(files[d], f, RoomText(made[d], k))
    BY <1>0, <1>5 DEF CloseFile, Shape
  <2>2. maker[d] = "write"
    BY <1>5 DEF CloseFile
  <2>3. GoodRooms(made[d]) /\ k \in Indices /\ k \in Int /\ count[d] \in Int /\ k =< NUM_ROOMS
    BY <1>0, <2>2, Constants DEF MakerInv, Indices
  <2>4. MakerInv(d)'
    BY <1>0, <2>1, <2>2, <2>3, Constants DEF MakerInv, GoodRooms
  <2>5. \A i \in Indices : FileName(made[d], i) = f => i = k
    BY <2>3, FileNamesDiffer
  <2>6. \A i : /\ FileName(made[d], i)' = FileName(made[d], i)
               /\ RoomText(made[d], i)' = RoomText(made[d], i)
    BY <2>1 DEF FileName, RoomText
  <2>7. /\ DOMAIN files'[d] = DOMAIN files[d] \cup {f} /\ files'[d][f] = RoomText(made[d], k)
        /\ \A g \in DOMAIN files[d] : g # f => files'[d][g] = files[d][g]
    BY <2>1 DEF With
  <2>8. f = FileName(made[d], k)
    OBVIOUS
  <2> HIDE DEF f
  <2>9. ASSUME NEW g \in DOMAIN files'[d]
        PROVE  \/ program # "luu" /\ g = CurrentTime /\ files'[d][g] = TimeText
               \/ \E i \in Indices :
                    /\ g = FileName(made[d], i)
                    /\ files'[d][g] = IF i =< k THEN RoomText(made[d], i) ELSE EmptyText
    <3>1. CASE g = f
      BY <2>3, <2>7, <2>8, <3>1
    <3>2. CASE g # f
      <4>1. g \in DOMAIN files[d] /\ files'[d][g] = files[d][g]
        BY <2>7, <3>2
      <4>2. CASE program # "luu" /\ g = CurrentTime /\ files[d][g] = TimeText
        BY <4>1, <4>2
      <4>3. CASE \E i \in Indices :
                    /\ g = FileName(made[d], i)
                    /\ files[d][g] = IF i =< count[d] THEN RoomText(made[d], i) ELSE EmptyText
        <5>1. PICK i \in Indices :
                    /\ g = FileName(made[d], i)
                    /\ files[d][g] = IF i =< count[d] THEN RoomText(made[d], i) ELSE EmptyText
          BY <4>3
        <5>2. i # k /\ i \in Int
          BY <2>8, <3>2, <5>1 DEF Indices
        <5>3. (i =< k) <=> (i =< count[d])
          BY <2>3, <5>2
        <5> QED
          BY <4>1, <5>1, <5>3
      <4> QED
        BY <4>1, <4>2, <4>3 DEF FileInv
    <3> QED
      BY <3>1, <3>2
  <2>10. \A i \in 1 .. k : FileName(made[d], i) \in DOMAIN files'[d]
    <3>1. \A i \in 1 .. k : i = k \/ i \in 1 .. count[d]
      BY <2>3
    <3> QED
      BY <2>7, <2>8, <3>1 DEF FileInv
  <2>11. FileInv(d)'
    BY <2>1, <2>6, <2>9, <2>10 DEF FileInv, EmptyText
  <2> QED
    BY <2>4, <2>11
<1> QED
  BY <1>1, <1>2, <1>3, <1>4, <1>5 DEF BuildStep

\* A time file does no harm to the files of the rooms.
LEMMA TimeFileDisk ==
    ASSUME DiskInv, PlaceInv, program' = program, program # "luu", MakeTimeFile
    PROVE  DiskInv'
<1>1. dirname \in Dirs /\ mtime[dirname] # 0
  BY DEF PlaceInv, MakeTimeFile
<1>2. /\ files'[dirname] = With(files[dirname], CurrentTime, TimeText)
      /\ \A e \in Dirs : e # dirname => files'[e] = files[e] /\ mtime'[e] = mtime[e]
      /\ UNCHANGED <<maker, made, count, now>> /\ DOMAIN files' = Dirs
      /\ mtime'[dirname] \in {mtime[dirname], now} /\ mtime' \in [Dirs -> 0 .. now]
  BY <1>1 DEF DiskInv, Shape, MakeTimeFile, makers
<1>3. Shape' /\ ProgramInv'
  BY <1>2 DEF DiskInv, Shape, ProgramInv
<1>4. ASSUME NEW e \in Dirs, e # dirname PROVE MakerInv(e)' /\ FileInv(e)'
  <2>1. SameDir(e)
    BY <1>2, <1>4 DEF SameDir
  <2> QED
    BY <2>1, DirKept DEF DiskInv
<1>5. maker[dirname] \notin {"idle", "dir"} /\ now # 0 /\ MakerInv(dirname) /\ FileInv(dirname)
  BY <1>1 DEF DiskInv, MakerInv, Shape
<1>6. MakerInv(dirname)'
  <2>1. GoodRooms(made[dirname])
    BY <1>5 DEF MakerInv
  <2>2. (GoodRooms(made[dirname])' <=> GoodRooms(made'[dirname'])) /\ dirname' = dirname
    BY DEF GoodRooms, MakeTimeFile, search
  <2> QED
    BY <1>1, <1>2, <1>5, <2>1, <2>2 DEF MakerInv
<1>7. FileInv(dirname)'
  <2>1. /\ DOMAIN files'[dirname] = DOMAIN files[dirname] \cup {CurrentTime}
        /\ files'[dirname][CurrentTime] = TimeText
        /\ \A g \in DOMAIN files[dirname] : g # CurrentTime => files'[dirname][g] = files[dirname][g]
    BY <1>2 DEF With
  <2>2. dirname' = dirname
    BY DEF MakeTimeFile, search
  <2>3. \A i : /\ FileName(made[dirname], i)' = FileName(made[dirname], i)
               /\ RoomText(made[dirname], i)' = RoomText(made[dirname], i)
    BY <1>2, <2>2 DEF FileName, RoomText
  <2>4. \A g \in DOMAIN files'[dirname] :
           \/ program # "luu" /\ g = CurrentTime /\ files'[dirname][g] = TimeText
           \/ \E i \in Indices :
                /\ g = FileName(made[dirname], i)
                /\ files'[dirname][g] = IF i =< count[dirname] THEN RoomText(made[dirname], i)
                                        ELSE EmptyText
    BY <1>5, <2>1 DEF FileInv
  <2>5. \A i \in 1 .. count[dirname] : FileName(made[dirname], i) \in DOMAIN files'[dirname]
    BY <1>5, <2>1 DEF FileInv
  <2> QED
    BY <1>2, <2>2, <2>3, <2>4, <2>5 DEF FileInv, EmptyText, TimeText, CurrentTime
<1>8. dirname' = dirname
  BY DEF MakeTimeFile, search
<1>9. \A e \in Dirs : MakerInv(e)' /\ FileInv(e)'
  BY <1>4, <1>6, <1>7, <1>8
<1> QED
  BY <1>3, <1>9 DEF DiskInv

\* A builder's step keeps the disk good.
LEMMA BuilderDisk ==
    ASSUME DiskInv, program' = program, NEW d \in Dirs, KillMaker(d) \/ BuildStep(d)
    PROVE  DiskInv'
<1>1. Shape' /\ ProgramInv'
  BY BuilderShape DEF DiskInv
<1>2. MakerInv(d)' /\ FileInv(d)'
  BY BuilderDir DEF DiskInv
<1>3. ASSUME NEW e \in Dirs, e # d PROVE MakerInv(e)' /\ FileInv(e)'
  BY <1>3, OthersSame, DirKept DEF DiskInv
<1> QED
  BY <1>1, <1>2, <1>3 DEF DiskInv

\* Every step does.
LEMMA StepDisk ==
    ASSUME DiskInv, PlaceInv, program' = program, Step PROVE DiskInv'
BY DiskSteps, QuietDisk, TickDisk, BuilderDisk, TimeFileDisk DEF DiskStep

\* A directory that a game may be in is still there after a step, and is not
\* older than it was.
LEMMA TimesGrow ==
    ASSUME DiskInv, PlaceInv, program' = program, Step
    PROVE  /\ now' \in Nat /\ now =< now'
           /\ \A d \in Dirs : mtime'[d] = mtime[d] \/ mtime'[d] = now
<1>1. DiskStep
  BY DiskSteps
<1>2. CASE Quiet \/ Tick
  BY <1>2 DEF Quiet, Tick, DiskInv, Shape, disk
<1>3. CASE \E d \in Dirs : KillMaker(d) \/ BuildStep(d)
  BY <1>3 DEF KillMaker, BuildStep, MakesUp, MakeDir, OpenFile, CloseFile, disk, DiskInv, Shape
<1>4. CASE MakeTimeFile
  BY <1>4 DEF MakeTimeFile, DiskInv, Shape, PlaceInv
<1> QED
  BY <1>1, <1>2, <1>3, <1>4 DEF DiskStep

\* Rooms that were made up stay as they are.
LEMMA RoomsStay ==
    ASSUME DiskInv, Step, NEW d \in Dirs, maker[d] # "idle"
    PROVE  made'[d] = made[d] /\ (maker[d] = "done" => maker'[d] = "done")
<1>1. DiskStep
  BY DiskSteps
<1>2. CASE Quiet \/ Tick
  BY <1>2 DEF Quiet, Tick, makers
<1>3. CASE \E e \in Dirs : KillMaker(e) \/ BuildStep(e)
  BY <1>3 DEF KillMaker, BuildStep, MakesUp, MakeDir, OpenFile, CloseFile, DiskInv, Shape
<1>4. CASE MakeTimeFile
  BY <1>4 DEF MakeTimeFile, makers
<1> QED
  BY <1>1, <1>2, <1>3, <1>4 DEF DiskStep

-----------------------------------------------------------------------------
(***************************************************************************)
(* The search for the newest directory.                                    *)
(***************************************************************************)
First == IF program = "suh" THEN -1 ELSE 0
Better(d) == IF program = "suh" THEN 0 > newest ELSE mtime[d] > newest

\* What the steps of all programs do to the search.
SearchStep ==
    \/ UNCHANGED <<pc, search>>
    \/ pc' \in {"start", "over"} /\ NoGame
    \/ OpenRootFrom(First)
    \/ \E d \in Dirs : LookAt(d, Better(d))
    \/ /\ pc = "search" /\ root = {} /\ dirname # NoDir
       /\ pc' = "read" /\ UNCHANGED search
    \/ pc' = "undefined" /\ UNCHANGED search
    \/ pc = "read" /\ pc' = "play" /\ UNCHANGED search

\* The instances have the one Cardinality.
LEMMA SameCardinality ==
    \A S : Dougherty!Cardinality(S) = Cardinality(S) /\ Suh!Cardinality(S) = Cardinality(S)
BY DEF Dougherty!Cardinality, Suh!Cardinality, Cardinality

\* Dougherty's game does not read without a directory.
LEMMA DoughertyOpens ==
    ASSUME Dougherty!getRoomNames
    PROVE  /\ pc = "search" /\ root = {} /\ UNCHANGED search
           /\ pc' = "undefined" \/ (pc' = "read" /\ dirname # NoDir)
<1> DEFINE found == IF dirname = NoDir THEN {} ELSE DOMAIN files[dirname]
<1>1. /\ pc = "search" /\ root = {} /\ UNCHANGED search
      /\ pc' = IF Cardinality(found) = NUM_ROOMS THEN "read" ELSE "undefined"
  BY SameCardinality DEF Dougherty!getRoomNames, Dougherty!search, search
<1>2. Cardinality({}) # NUM_ROOMS
  BY FS_EmptySet, Constants
<1> QED
  BY <1>1, <1>2

\* Every step is one of these.
LEMMA SearchSteps == ASSUME ProgramInv, Step PROVE SearchStep
<1>1. World \/ (\E d \in Dirs : BuildStep(d)) \/ UNCHANGED vars => SearchStep
  BY DEF World, Tick, PlayAgain, KillMaker, BuildStep, MakesUp, MakeDir, OpenFile, CloseFile,
     vars, SearchStep
<1>2. OpenChosen \/ EndGame \/ MakeTimeFile => SearchStep
  BY DEF OpenChosen, EndGame, MakeTimeFile, SearchStep
<1>3. ASSUME program = "suh", SuhPlay PROVE SearchStep
  <2>1. First = -1 /\ \A d : Better(d) = (0 > newest)
    BY <1>3 DEF First, Better
  <2>2. Suh!StartGame => SearchStep
    BY DEF Suh!StartGame, Suh!search, search, SearchStep
  <2>3. \A f : Suh!ReadFile(f) => SearchStep
    BY DEF Suh!ReadFile, Suh!search, search, SearchStep
  <2>4. \A name : Suh!start_game(name) => SearchStep
    BY DEF Suh!start_game, Suh!search, search, SearchStep
  <2>5. OpenRootFrom(-1) \/ (\E d \in Dirs : LookAt(d, 0 > newest)) => SearchStep
    BY <2>1, Zenon DEF SearchStep
  <2> QED
    BY <1>2, <1>3, <2>2, <2>3, <2>4, <2>5 DEF SuhPlay
<1>4. ASSUME program = "luu", LuuPlay PROVE SearchStep
  <2>1. First = 0 /\ \A d : Better(d) = (mtime[d] > newest)
    BY <1>4 DEF First, Better
  <2>2. Luu!StartPlaying => SearchStep
    BY DEF Luu!StartPlaying, Luu!search, search, SearchStep
  <2>3. \A f : Luu!ReadRoomFromFile(f) => SearchStep
    BY DEF Luu!ReadRoomFromFile, Luu!search, search, SearchStep
  <2>4. \A name : Luu!PlayGame(name) => SearchStep
    BY DEF Luu!PlayGame, Luu!search, search, SearchStep
  <2>5. OpenRootFrom(0) \/ (\E d \in Dirs : LookAt(d, mtime[d] > newest)) => SearchStep
    BY <2>1, Zenon DEF SearchStep
  <2> QED
    BY <1>2, <1>4, <2>2, <2>3, <2>4, <2>5 DEF LuuPlay
<1>5. ASSUME program = "dougherty", DoughertyPlay PROVE SearchStep
  <2>1. First = 0 /\ \A d : Better(d) = (mtime[d] > newest)
    BY <1>5 DEF First, Better
  <2>2. Dougherty!getRoomNames => SearchStep
    BY DoughertyOpens DEF SearchStep
  <2>3. Dougherty!findStartRoom => SearchStep
    BY DEF Dougherty!findStartRoom, Dougherty!search, search, SearchStep
  <2>4. \A i : Dougherty!formRooms(i) => SearchStep
    BY DEF Dougherty!formRooms, Dougherty!search, search, SearchStep
  <2>5. \A name : Dougherty!gamePlay(name) => SearchStep
    BY DEF Dougherty!gamePlay, Dougherty!search, search, SearchStep
  <2>6. OpenRootFrom(0) \/ (\E d \in Dirs : LookAt(d, mtime[d] > newest)) => SearchStep
    BY <2>1, Zenon DEF SearchStep
  <2> QED
    BY <1>2, <1>5, <2>2, <2>3, <2>4, <2>5, <2>6 DEF DoughertyPlay
<1> QED
  BY <1>1, <1>3, <1>4, <1>5 DEF Step

\* No game has begun its search at first.
LEMMA InitPlace == Init => PlaceInv /\ SearchInv
<1>1. ASSUME NEW names, InitWorld(names) PROVE PlaceInv /\ SearchInv
  BY <1>1 DEF InitWorld, PlaceInv, SearchInv, Pcs
<1>2. Suh!Init => PlaceInv /\ SearchInv
  BY DEF Suh!Init, Suh!InitWorld, PlaceInv, SearchInv, Pcs
<1>3. Luu!Init => PlaceInv /\ SearchInv
  BY DEF Luu!Init, Luu!InitWorld, PlaceInv, SearchInv, Pcs
<1>4. Dougherty!Init => PlaceInv /\ SearchInv
  BY DEF Dougherty!Init, Dougherty!InitWorld, PlaceInv, SearchInv, Pcs
<1> QED
  BY <1>2, <1>3, <1>4 DEF Init

\* A game stays where it may be.
LEMMA StepPlace ==
    ASSUME DiskInv, PlaceInv, program' = program, Step PROVE PlaceInv'
<1>1. now \in Nat /\ now # 0 /\ \A d \in Dirs : mtime'[d] = mtime[d] \/ mtime'[d] = now
  BY TimesGrow DEF DiskInv, Shape
<1>2. \A d \in Dirs : mtime[d] # 0 => mtime'[d] # 0
  BY <1>1
<1>3. Existing \subseteq Existing' /\ \A d \in Existing : d \in Dirs /\ mtime'[d] # 0
  BY <1>2 DEF Existing
<1>4. SearchStep
  BY SearchSteps DEF DiskInv
<1>5. CASE UNCHANGED <<pc, search>>
  BY <1>2, <1>3, <1>5 DEF PlaceInv, search
<1>6. CASE pc' \in {"start", "over"} /\ NoGame
  BY <1>6 DEF NoGame, PlaceInv, Pcs
<1>7. CASE OpenRootFrom(First)
  BY <1>3, <1>7 DEF OpenRootFrom, PlaceInv, Pcs
<1>8. ASSUME NEW d \in Dirs, LookAt(d, Better(d)) PROVE PlaceInv'
  <2>1. d \in Existing /\ root \subseteq Existing /\ pc' = "search" /\ root' = root \ {d}
    BY <1>8 DEF LookAt, PlaceInv
  <2>2. dirname' \in {d, dirname}
    BY <1>8 DEF LookAt
  <2> QED
    BY <1>2, <1>3, <2>1, <2>2 DEF PlaceInv, Pcs
<1>9. CASE /\ pc = "search" /\ root = {} /\ dirname # NoDir
           /\ pc' = "read" /\ UNCHANGED search
  BY <1>2, <1>9 DEF PlaceInv, Pcs, search
<1>10. CASE pc' = "undefined" /\ UNCHANGED search
  BY <1>2, <1>10 DEF PlaceInv, Pcs, search
<1>11. CASE pc = "read" /\ pc' = "play" /\ UNCHANGED search
  BY <1>2, <1>11 DEF PlaceInv, Pcs, search
<1> QED
  BY <1>4, <1>5, <1>6, <1>7, <1>8, <1>9, <1>10, <1>11 DEF SearchStep

\* It does not forget a directory younger than the one it has chosen.
LEMMA StepSearch ==
    ASSUME DiskInv, PlaceInv, SearchInv, program' = program, Step PROVE SearchInv'
<1> DEFINE Seen(d) == mtime[d] < opened /\ mtime[d] # 0
           Choice == IF dirname = NoDir THEN newest = 0 ELSE mtime[dirname] >= newest
<1>1. /\ now \in Nat /\ now # 0 /\ now' \in Nat /\ now =< now'
      /\ \A d \in Dirs : mtime[d] \in 0 .. now
      /\ \A d \in Dirs : mtime'[d] = mtime[d] \/ mtime'[d] = now
  BY TimesGrow DEF DiskInv, Shape
<1>2. \A d \in Dirs : mtime[d] =< mtime'[d] /\ mtime[d] \in Nat /\ mtime'[d] \in Nat
  BY <1>1
<1>3. SearchStep
  BY SearchSteps DEF DiskInv
<1>4. newest \in Int /\ opened \in 0 .. now /\ opened \in Int /\ opened \in 0 .. now'
  BY <1>1 DEF SearchInv
<1>5. \A d \in Dirs : mtime'[d] < opened => mtime'[d] = mtime[d]
  BY <1>1, <1>4
<1>6. dirname # NoDir => dirname \in Dirs
  BY DEF PlaceInv
<1>7. ASSUME UNCHANGED <<dirname, newest, opened>>,
             program # "suh" /\ pc' \in {"search", "read"} =>
                /\ Choice
                /\ \A d \in Dirs : Seen(d) =>
                     (pc' = "search" /\ d \in root') \/ mtime[d] =< newest
      PROVE  SearchInv'
  <2>1. program # "suh" /\ pc' \in {"search", "read"} =>
          IF dirname = NoDir THEN newest = 0 ELSE mtime'[dirname] >= newest
    BY <1>2, <1>4, <1>6, <1>7
  <2>2. program # "suh" /\ pc' \in {"search", "read"} =>
          \A d \in Dirs : mtime'[d] < opened /\ mtime'[d] # 0 =>
             (pc' = "search" /\ d \in root') \/ mtime'[d] =< newest
    BY <1>5, <1>7
  <2> QED
    BY <1>4, <1>7, <2>1, <2>2 DEF SearchInv
<1>8. CASE UNCHANGED <<pc, search>>
  BY <1>7, <1>8 DEF SearchInv, search
<1>9. CASE pc' \in {"start", "over"} /\ NoGame
  BY <1>1, <1>9 DEF NoGame, SearchInv
<1>10. CASE OpenRootFrom(First)
  <2>1. /\ root' = Existing /\ newest' = First /\ dirname' = NoDir /\ opened' = now
        /\ pc' = "search" /\ UNCHANGED <<now, mtime>>
    BY <1>10 DEF OpenRootFrom, disk
  <2>2. First \in Int /\ (program # "suh" => First = 0)
    BY DEF First
  <2> QED
    BY <1>1, <2>1, <2>2 DEF SearchInv, Existing
<1>11. ASSUME NEW d \in Dirs, LookAt(d, Better(d)) PROVE SearchInv'
  <2>1. /\ pc = "search" /\ pc' = "search" /\ root' = root \ {d} /\ opened' = opened
        /\ now' = now /\ mtime' = mtime
    BY <1>11 DEF LookAt, disk
  <2>2. CASE Better(d)
    <3>1. newest' = mtime[d] /\ dirname' = d
      BY <1>11, <2>2 DEF LookAt
    <3>2. program # "suh" => mtime[d] > newest
      BY <2>2 DEF Better
    <3>3. d # NoDir
      BY DirAssumption
    <3>4. program # "suh" => \A e \in Dirs : mtime[e] < opened /\ mtime[e] # 0 =>
                                 e \in root' \/ mtime[e] =< newest'
      BY <1>2, <1>4, <2>1, <3>1, <3>2 DEF SearchInv
    <3> QED
      BY <1>2, <1>4, <2>1, <3>1, <3>3, <3>4 DEF SearchInv
  <2>3. CASE ~Better(d)
    <3>1. newest' = newest /\ dirname' = dirname
      BY <1>11, <2>3 DEF LookAt
    <3>2. program # "suh" => mtime[d] =< newest
      BY <1>2, <1>4, <2>3 DEF Better
    <3>3. program # "suh" => \A e \in Dirs : mtime[e] < opened /\ mtime[e] # 0 =>
                                 e \in root' \/ mtime[e] =< newest'
      BY <2>1, <3>1, <3>2 DEF SearchInv
    <3> QED
      BY <1>4, <2>1, <3>1, <3>3 DEF SearchInv
  <2> QED
    BY <2>2, <2>3
<1>12. CASE /\ pc = "search" /\ root = {} /\ dirname # NoDir
            /\ pc' = "read" /\ UNCHANGED search
  BY <1>7, <1>12 DEF SearchInv, search
<1>13. CASE pc' = "undefined" /\ UNCHANGED search
  BY <1>7, <1>13 DEF search
<1>14. CASE pc = "read" /\ pc' = "play" /\ UNCHANGED search
  BY <1>7, <1>14 DEF search
<1> QED
  BY <1>3, <1>8, <1>9, <1>10, <1>11, <1>12, <1>13, <1>14 DEF SearchStep

\* The disk and the search, in every reachable state.
THEOREM DiskInvariance == Spec => [](DiskInv /\ PlaceInv /\ SearchInv)
<1>1. Init => DiskInv /\ PlaceInv /\ SearchInv
  BY InitDisk, InitPlace
<1>2. DiskInv /\ PlaceInv /\ SearchInv /\ [Next]_mcVars => (DiskInv /\ PlaceInv /\ SearchInv)'
  BY StepsOf, StepDisk, StepPlace, StepSearch
<1> QED
  BY <1>1, <1>2, PTL DEF Spec

\* The rooms that a builder makes up have different names, and there is one
\* START_ROOM and one END_ROOM (suhho.buildrooms.c, luuph.buildrooms.c,
\* dougherm.buildrooms.c), whatever rand() returns.
THEOREM MadeRoomsDiffer == Spec => []RoomsMadeDiffer
<1>1. ASSUME NEW rs, GoodRooms(rs)
      PROVE  /\ \A i, j \in DOMAIN rs : rs[i].name = rs[j].name => i = j
             /\ \A t \in {"START_ROOM", "END_ROOM"} :
                   Cardinality({i \in DOMAIN rs : rs[i].type = t}) = 1
  <2>1. DOMAIN rs = Indices
    BY <1>1 DEF GoodRooms
  <2>2. PICK s, e \in Indices : \A i \in Indices :
            /\ rs[i].type = "START_ROOM" <=> i = s
            /\ rs[i].type = "END_ROOM" <=> i = e
    BY <1>1 DEF GoodRooms
  <2>3. /\ {i \in DOMAIN rs : rs[i].type = "START_ROOM"} = {s}
        /\ {i \in DOMAIN rs : rs[i].type = "END_ROOM"} = {e}
    BY <2>1, <2>2
  <2>4. Cardinality({s}) = 1 /\ Cardinality({e}) = 1
    BY FS_Singleton
  <2>5. \A i, j \in DOMAIN rs : rs[i].name = rs[j].name => i = j
    BY <1>1, <2>1 DEF GoodRooms
  <2>6. ASSUME NEW t \in {"START_ROOM", "END_ROOM"}
        PROVE  Cardinality({i \in DOMAIN rs : rs[i].type = t}) = 1
    <3>1. CASE t = "START_ROOM"
      BY <2>3, <2>4, <3>1
    <3>2. CASE t = "END_ROOM"
      BY <2>3, <2>4, <3>2
    <3> QED
      BY <3>1, <3>2
  <2> QED
    BY <2>5, <2>6
<1>2. DiskInv => RoomsMadeDiffer
  <2> SUFFICES ASSUME DiskInv, NEW d \in Dirs
               PROVE  /\ \A i, j \in DOMAIN made[d] : made[d][i].name = made[d][j].name => i = j
                      /\ made[d] # <<>> => \A t \in {"START_ROOM", "END_ROOM"} :
                            Cardinality({i \in DOMAIN made[d] : made[d][i].type = t}) = 1
    BY DEF RoomsMadeDiffer
  <2>1. CASE maker[d] = "idle"
    BY <2>1 DEF DiskInv, MakerInv
  <2>2. CASE maker[d] # "idle"
    BY <1>1, <2>2 DEF DiskInv, MakerInv
  <2> QED
    BY <2>1, <2>2
<1> QED
  BY <1>2, DiskInvariance, PTL

\* The directory that Luu's or Dougherty's game reads is not older than any
\* other, those set aside that were made or changed after opendir()
\* (luuph.adventure.c:222, dougherm.adventure.c).
THEOREM NewestChosen == Spec => []NewestDirChosen
<1>1. DiskInv /\ PlaceInv /\ SearchInv => NewestDirChosen
  <2> SUFFICES ASSUME DiskInv, PlaceInv, SearchInv, program # "suh", pc = "read",
                      NEW d \in Dirs, mtime[d] # 0, mtime[d] < opened
               PROVE  mtime[d] =< mtime[dirname]
    BY DEF NewestDirChosen, Existing
  <2>1. dirname \in Dirs /\ dirname # NoDir
    BY DEF PlaceInv
  <2>2. mtime[d] =< newest /\ newest =< mtime[dirname]
    BY <2>1 DEF SearchInv
  <2>3. mtime[d] \in Nat /\ mtime[dirname] \in Nat /\ newest \in Int
    BY <2>1 DEF DiskInv, Shape, SearchInv
  <2> QED
    BY <2>2, <2>3
<1> QED
  BY <1>1, DiskInvariance, PTL

-----------------------------------------------------------------------------
(***************************************************************************)
(* What one file adds to the rooms of a game.                              *)
(***************************************************************************)
\* What is known of the rooms that were made up.
LEMMA RoomsMade ==
    ASSUME NEW made_, GoodRooms(made_), NEW k \in Indices
    PROVE  /\ made_[k].name \in Names /\ made_[k].type \in Types
           /\ made_[k].outs \in Seq(Indices)
           /\ Links(made_, k) \in Seq(Names) /\ Len(Links(made_, k)) = Len(made_[k].outs)
           /\ \A j \in 1 .. Len(made_[k].outs) :
                 Links(made_, k)[j] = made_[made_[k].outs[j]].name
           /\ RoomText(made_, k) = [kind |-> "room", name |-> made_[k].name,
                                    type |-> made_[k].type, outs |-> Links(made_, k)]
<1> DEFINE outs == made_[k].outs
<1>1. /\ made_ \in [Indices -> [name : Names, type : Types, outs : Seq(Indices)]]
      /\ outs \in Seq(Indices)
  BY DEF GoodRooms
<1>2. /\ DOMAIN outs = 1 .. Len(outs) /\ Len(outs) \in Nat
      /\ \A j \in 1 .. Len(outs) : outs[j] \in Indices
  BY <1>1
<1>3. Links(made_, k) = [j \in 1 .. Len(outs) |-> made_[outs[j]].name]
  BY <1>2 DEF Links
<1> HIDE DEF outs
<1>4. \A j \in 1 .. Len(outs) : made_[outs[j]].name \in Names
  BY <1>1, <1>2
<1>5. Links(made_, k) \in [1 .. Len(outs) -> Names]
  BY <1>3, <1>4
<1>6. Links(made_, k) \in Seq(Names) /\ Len(Links(made_, k)) = Len(outs)
  BY <1>2, <1>5
<1>7. \A j \in 1 .. Len(outs) : Links(made_, k)[j] = made_[outs[j]].name
  BY <1>3
<1>8. RoomText(made_, k).outs = Links(made_, k)
  BY DEF RoomText, Links
<1> QED
  BY <1>1, <1>6, <1>7, <1>8 DEF outs, RoomText

\* Suh's game: a file it has not read before gives it one more room.
LEMMA SuhFile ==
    ASSUME NEW made_, GoodRooms(made_), NEW k \in Indices, NEW left, made_[k].name \in left,
           NEW all, NEW rs, SuhRead(rs, left, all, made_),
           NEW text, text = RoomText(made_, k),
           NEW more, more = Append(rs, [name |-> text.name, type |-> text.type,
                                        outs |-> text.outs])
    PROVE  SuhRead(more, left \ {made_[k].name}, all, made_)
<1> DEFINE room == [name |-> text.name, type |-> text.type, outs |-> text.outs]
           R    == Room(Types, Names)
<1>1. /\ made_[k].name \in Names /\ made_[k].type \in Types /\ Links(made_, k) \in Seq(Names)
      /\ room = [name |-> made_[k].name, type |-> made_[k].type, outs |-> Links(made_, k)]
  BY RoomsMade
<1>2. room \in R
  BY <1>1 DEF Room
<1>3. /\ rs \in Seq(R) /\ NamesDiffer(rs)
      /\ \A i \in DOMAIN rs : \E l \in Indices :
            Built("suh", rs, i, made_, l) /\ made_[l].name \notin left
      /\ all => \A l \in Indices :
                   made_[l].name \in left \/ \E i \in DOMAIN rs : Built("suh", rs, i, made_, l)
  BY DEF SuhRead
<1> DEFINE n == Len(rs)
<1>4. /\ more \in Seq(R) /\ DOMAIN more = 1 .. n + 1 /\ n \in Nat /\ DOMAIN rs = 1 .. n
      /\ more[n + 1] = room /\ \A i \in 1 .. n : more[i] = rs[i]
  BY <1>2, <1>3
<1> HIDE DEF R, n, room
<1>5. \A i \in 1 .. n, l \in Indices :
         Built("suh", more, i, made_, l) <=> Built("suh", rs, i, made_, l)
  BY <1>4 DEF Built, Ways
<1>6. Built("suh", more, n + 1, made_, k)
  BY <1>1, <1>4 DEF Built, Ways
<1>7. \A i \in 1 .. n : rs[i].name # room.name
  BY <1>1, <1>3, <1>4 DEF Built
<1>8. NamesDiffer(more)
  <2>1. \A i \in 1 .. n : more[i].name = rs[i].name /\ more[i].name # more[n + 1].name
    BY <1>4, <1>7
  <2>2. \A i \in 1 .. n + 1 : i \in 1 .. n \/ i = n + 1
    BY <1>4
  <2> QED
    BY <1>3, <1>4, <2>1, <2>2 DEF NamesDiffer
<1>9. ASSUME NEW i \in 1 .. n + 1
      PROVE  \E l \in Indices :
                Built("suh", more, i, made_, l) /\ made_[l].name \notin left \ {made_[k].name}
  <2>1. CASE i = n + 1
    BY <1>6, <2>1
  <2>2. CASE i # n + 1
    <3>1. i \in 1 .. n
      BY <1>4, <2>2
    <3> QED
      BY <1>3, <1>4, <1>5, <3>1
  <2> QED
    BY <2>1, <2>2
<1>10. ASSUME all, NEW l \in Indices, made_[l].name \notin left \ {made_[k].name}
       PROVE  \E i \in 1 .. n + 1 : Built("suh", more, i, made_, l)
  <2>1. CASE made_[l].name = made_[k].name
    <3>1. l = k
      BY <2>1 DEF GoodRooms
    <3> QED
      BY <1>4, <1>6, <3>1
  <2>2. CASE made_[l].name # made_[k].name
    <3>1. PICK i \in 1 .. n : Built("suh", rs, i, made_, l)
      BY <1>3, <1>4, <1>10, <2>2
    <3>2. i \in 1 .. n + 1
      BY <1>4
    <3> QED
      BY <1>5, <3>1, <3>2
  <2> QED
    BY <2>1, <2>2
<1> QED
  BY <1>4, <1>8, <1>9, <1>10 DEF SuhRead, R

\* In Luu's game a name is looked up: a room of that name, if there is one.
LEMMA NameFound ==
    ASSUME NEW S, NEW rs \in Seq(S), NamesDiffer(rs), NEW name
    PROVE  IF \E i \in DOMAIN rs : rs[i].name = name
           THEN /\ Luu!FindRoomByName(rs, name) \in DOMAIN rs
                /\ rs[Luu!FindRoomByName(rs, name)].name = name
           ELSE Luu!FindRoomByName(rs, name) = 0
<1>1. CASE \E i \in DOMAIN rs : rs[i].name = name
  <2>1. PICK i \in DOMAIN rs : rs[i].name = name
    BY <1>1
  <2>2. DOMAIN rs = 1 .. Len(rs) /\ Len(rs) \in Nat
    OBVIOUS
  <2>3. \A j \in 1 .. i - 1 : rs[j].name # name
    BY <2>1, <2>2 DEF NamesDiffer
  <2>4. \E l \in DOMAIN rs : rs[l].name = name /\ \A j \in 1 .. l - 1 : rs[j].name # name
    BY <2>1, <2>3
  <2> DEFINE it == CHOOSE l \in DOMAIN rs :
                      rs[l].name = name /\ \A j \in 1 .. l - 1 : rs[j].name # name
  <2>5. it \in DOMAIN rs /\ rs[it].name = name
    BY <2>4
  <2>6. Luu!FindRoomByName(rs, name) = it
    BY <1>1 DEF Luu!FindRoomByName
  <2> QED
    BY <1>1, <2>5, <2>6
<1>2. CASE ~\E i \in DOMAIN rs : rs[i].name = name
  BY <1>2 DEF Luu!FindRoomByName
<1> QED
  BY <1>1, <1>2

\* The rooms that Luu's game may hold while it reads a file.
Partial == {rs \in Seq(Room(Types, Nat)) : NamesDiffer(rs)}

\* A room is added unless there is one of its name, and is then found.
LEMMA RoomThere ==
    ASSUME NEW rs \in Partial, NEW name \in Names
    PROVE  LET more == Luu!WithRoom(rs, name)
               it   == Luu!FindRoomByName(more, name)
           IN  /\ more \in Partial /\ it \in DOMAIN more /\ more[it].name = name
               /\ DOMAIN rs \subseteq DOMAIN more
               /\ \A i \in DOMAIN rs : more[i] = rs[i]
               /\ \A i \in DOMAIN more \ DOMAIN rs : Fresh(more, i) /\ more[i].name = name
<1> DEFINE more == Luu!WithRoom(rs, name)
           it   == Luu!FindRoomByName(more, name)
           new == [name |-> name, type |-> "MID_ROOM", outs |-> <<>>]
           R   == Room(Types, Nat)
           n   == Len(rs)
<1>1. new \in R
  BY DEF Room, Types
<1>2. rs \in Seq(R) /\ NamesDiffer(rs)
  BY DEF Partial
<1>3. n \in Nat /\ DOMAIN rs = 1 .. n
  BY <1>2
<1>4. CASE \E i \in DOMAIN rs : rs[i].name = name
  <2>1. Luu!FindRoomByName(rs, name) \in DOMAIN rs
    BY <1>2, <1>4, NameFound, Zenon
  <2>2. more = rs
    <3>1. Luu!FindRoomByName(rs, name) # 0
      BY <1>3, <2>1
    <3> QED
      BY <3>1, Zenon DEF Luu!WithRoom
  <2> QED
    BY <1>2, <1>4, <2>2, NameFound
<1>5. CASE ~\E i \in DOMAIN rs : rs[i].name = name
  <2>1. Luu!FindRoomByName(rs, name) = 0
    BY <1>2, <1>5, NameFound, Zenon
  <2>2. more = Append(rs, new)
    BY <2>1 DEF Luu!WithRoom
  <2>3. /\ more \in Seq(R) /\ DOMAIN more = 1 .. n + 1 /\ more[n + 1] = new
        /\ \A i \in 1 .. n : more[i] = rs[i]
    BY <1>1, <1>2, <1>3, <2>2
  <2>4. new.name = name /\ new.type = "MID_ROOM" /\ new.outs = <<>>
    OBVIOUS
  <2> HIDE DEF new, R, n
  <2>5. \A i \in 1 .. n + 1 : i \in 1 .. n \/ i = n + 1
    BY <1>3
  <2>6. NamesDiffer(more)
    <3>1. \A i \in 1 .. n : more[i].name = rs[i].name /\ more[i].name # more[n + 1].name
      BY <1>3, <1>5, <2>3, <2>4
    <3> QED
      BY <1>2, <1>3, <2>3, <2>5, <3>1 DEF NamesDiffer
  <2>7. \E i \in DOMAIN more : more[i].name = name
    BY <1>3, <2>3, <2>4
  <2>8. it \in DOMAIN more /\ more[it].name = name
    BY <2>3, <2>6, <2>7, NameFound
  <2>9. \A i \in DOMAIN more \ DOMAIN rs : i = n + 1
    BY <1>3, <2>3, <2>5
  <2>10. DOMAIN rs \subseteq DOMAIN more
    BY <1>3, <2>3
  <2>11. Fresh(more, n + 1) /\ more[n + 1].name = name
    BY <2>3, <2>4 DEF Fresh
  <2>12. more \in Partial
    BY <2>3, <2>6 DEF Partial, R
  <2> QED
    BY <1>3, <2>3, <2>8, <2>9, <2>10, <2>11, <2>12
<1> QED
  BY <1>4, <1>5

\* One line CONNECTION: a room more than rs has, if it has none of that name,
\* and a way to it.
OneMore(rs, i, name, more) ==
    /\ more \in Partial /\ DOMAIN rs \subseteq DOMAIN more
    /\ \A j \in DOMAIN rs : j # i => more[j] = rs[j]
    /\ more[i].name = rs[i].name /\ more[i].type = rs[i].type
    /\ \A j \in DOMAIN more \ DOMAIN rs : Fresh(more, j) /\ more[j].name = name
    /\ \E p \in DOMAIN more : more[i].outs = Append(rs[i].outs, p) /\ more[p].name = name

\* A line CONNECTION of a file adds one room at most, and a way to it.
LEMMA OneLink ==
    ASSUME NEW rs \in Partial, NEW i \in DOMAIN rs, NEW name \in Names
    PROVE  OneMore(rs, i, name, Luu!AddOutbound(rs, i, name))
<1> DEFINE more == Luu!AddOutbound(rs, i, name)
           mid == Luu!WithRoom(rs, name)
           p   == Luu!FindRoomByName(mid, name)
           R   == Room(Types, Nat)
           new == [mid[i] EXCEPT !.outs = Append(mid[i].outs, p)]
<1>1. /\ mid \in Partial /\ p \in DOMAIN mid /\ mid[p].name = name
      /\ DOMAIN rs \subseteq DOMAIN mid
      /\ \A j \in DOMAIN rs : mid[j] = rs[j]
      /\ \A j \in DOMAIN mid \ DOMAIN rs : Fresh(mid, j) /\ mid[j].name = name
  BY RoomThere
<1>2. more = [mid EXCEPT ![i] = new]
  BY DEF Luu!AddOutbound
<1> HIDE DEF mid, p
<1>3. mid \in Seq(R) /\ NamesDiffer(mid)
  BY <1>1 DEF Partial
<1>4. DOMAIN mid = 1 .. Len(mid) /\ Len(mid) \in Nat /\ p \in Nat /\ i \in 1 .. Len(mid) /\ mid[i] \in R
      /\ mid[i] = rs[i]
  BY <1>1, <1>3
<1>5. /\ new \in R /\ new.name = mid[i].name /\ new.type = mid[i].type
      /\ new.outs = Append(mid[i].outs, p)
  BY <1>4 DEF Room
<1> HIDE DEF new
<1>6. /\ more \in Seq(R) /\ DOMAIN more = DOMAIN mid
      /\ more[i] = new /\ \A j \in DOMAIN mid : j # i => more[j] = mid[j]
  BY <1>2, <1>3, <1>4, <1>5
<1>7. \A j \in DOMAIN mid : more[j].name = mid[j].name
  BY <1>5, <1>6
<1>8. NamesDiffer(more)
  BY <1>3, <1>6, <1>7 DEF NamesDiffer
<1>9. more \in Partial
  BY <1>6, <1>8 DEF Partial, R
<1>10. \A j \in DOMAIN more \ DOMAIN rs : Fresh(more, j) /\ more[j].name = name
  BY <1>1, <1>6 DEF Fresh
<1>11. p \in DOMAIN more /\ more[i].outs = Append(rs[i].outs, p) /\ more[p].name = name
  BY <1>1, <1>4, <1>5, <1>6, <1>7
<1>12. \A j \in DOMAIN rs : j # i => more[j] = rs[j]
  BY <1>1, <1>6
<1>13. more[i].name = rs[i].name /\ more[i].type = rs[i].type /\ DOMAIN rs \subseteq DOMAIN more
  BY <1>1, <1>4, <1>5, <1>6
<1> QED
  BY <1>9, <1>10, <1>11, <1>12, <1>13 DEF OneMore

\* The rooms c after n lines CONNECTION of the file of room i.
Linked(made_, links, named, i, c, n) ==
    /\ c \in Partial /\ DOMAIN named \subseteq DOMAIN c
    /\ \A j \in DOMAIN named : j # i => c[j] = named[j]
    /\ c[i].name = named[i].name /\ c[i].type = named[i].type
    /\ \A j \in DOMAIN c \ DOMAIN named :
          Fresh(c, j) /\ \E k \in Indices : c[j].name = made_[k].name
    /\ c[i].outs \in Seq(DOMAIN c) /\ Len(c[i].outs) = n
    /\ \A m \in 1 .. n : c[c[i].outs[m]].name = links[m]

\* One more line CONNECTION is read.
LEMMA OneMoreLink ==
    ASSUME NEW made_, GoodRooms(made_), NEW l \in Indices,
           NEW links, links = Links(made_, l), NEW named, NEW i \in DOMAIN named,
           NEW n \in 1 .. Len(links), NEW c, Linked(made_, links, named, i, c, n - 1),
           NEW more, more = Luu!AddOutbound(c, i, links[n])
    PROVE  Linked(made_, links, named, i, more, n)
<1>1. /\ links \in Seq(Names) /\ Len(links) = Len(made_[l].outs) /\ Len(links) \in Nat
      /\ made_[l].outs \in Seq(Indices)
      /\ links[n] = made_[made_[l].outs[n]].name
  BY RoomsMade
<1>2. links[n] \in Names /\ \E k \in Indices : links[n] = made_[k].name
  BY <1>1
<1>3. /\ c \in Partial /\ DOMAIN named \subseteq DOMAIN c /\ i \in DOMAIN c
      /\ \A j \in DOMAIN named : j # i => c[j] = named[j]
      /\ c[i].name = named[i].name /\ c[i].type = named[i].type
      /\ \A j \in DOMAIN c \ DOMAIN named :
            Fresh(c, j) /\ \E k \in Indices : c[j].name = made_[k].name
      /\ c[i].outs \in Seq(DOMAIN c) /\ Len(c[i].outs) = n - 1
      /\ \A m \in 1 .. n - 1 : c[c[i].outs[m]].name = links[m]
  BY DEF Linked
<1>4. /\ more \in Partial /\ DOMAIN c \subseteq DOMAIN more
      /\ \A j \in DOMAIN c : j # i => more[j] = c[j]
      /\ more[i].name = c[i].name /\ more[i].type = c[i].type
      /\ \A j \in DOMAIN more \ DOMAIN c : Fresh(more, j) /\ more[j].name = links[n]
      /\ \E p \in DOMAIN more : more[i].outs = Append(c[i].outs, p) /\ more[p].name = links[n]
  <2>1. OneMore(c, i, links[n], more)
    BY <1>2, <1>3, OneLink
  <2> QED
    BY <2>1, Zenon DEF OneMore
<1>5. PICK p \in DOMAIN more : more[i].outs = Append(c[i].outs, p) /\ more[p].name = links[n]
  BY <1>4
<1>6. \A j \in DOMAIN c : more[j].name = c[j].name
  BY <1>4
<1> DEFINE o == c[i].outs
           q == more[i].outs
<1>7. o \in Seq(DOMAIN more)
  BY <1>3, <1>4, SeqMonotonic
<1>8. /\ q \in Seq(DOMAIN more) /\ Len(q) = n /\ q[n] = p
      /\ \A m \in 1 .. n - 1 : q[m] = o[m] /\ q[m] \in DOMAIN c
  BY <1>3, <1>5, <1>7
<1>9. \A m \in 1 .. n : more[q[m]].name = links[m]
  <2>1. ASSUME NEW m \in 1 .. n - 1 PROVE more[q[m]].name = links[m]
    <3>1. q[m] = o[m] /\ q[m] \in DOMAIN c
      BY <1>8
    <3>2. c[o[m]].name = links[m]
      BY <1>3
    <3> QED
      BY <1>6, <3>1, <3>2
  <2>2. more[q[n]].name = links[n]
    BY <1>5, <1>8
  <2>3. \A m \in 1 .. n : m = n \/ m \in 1 .. n - 1
    BY <1>1
  <2> QED
    BY <2>1, <2>2, <2>3
<1>10. ASSUME NEW j \in DOMAIN more \ DOMAIN named
       PROVE  Fresh(more, j) /\ \E k \in Indices : more[j].name = made_[k].name
  <2>1. CASE j \in DOMAIN c
    <3>1. j # i /\ more[j] = c[j] /\ j \in DOMAIN c \ DOMAIN named
      BY <1>4, <2>1
    <3> QED
      BY <1>3, <3>1 DEF Fresh
  <2>2. CASE j \notin DOMAIN c
    BY <1>2, <1>4, <2>2
  <2> QED
    BY <2>1, <2>2
<1>11. \A j \in DOMAIN named : j # i => more[j] = named[j]
  BY <1>3, <1>4
<1> HIDE DEF o
<1>12. q \in Seq(DOMAIN more) /\ Len(q) = n
  BY <1>8
<1> HIDE DEF q
<1>13. /\ more \in Partial /\ DOMAIN named \subseteq DOMAIN more
       /\ more[i].name = named[i].name /\ more[i].type = named[i].type
  BY <1>3, <1>4
<1> QED
  BY <1>9, <1>10, <1>11, <1>12, <1>13 DEF Linked, q

\* The lines of a file, one after the other.
LEMMA AllLinks ==
    ASSUME NEW made_, GoodRooms(made_), NEW l \in Indices,
           NEW links, links = Links(made_, l), NEW named \in Partial, NEW i \in DOMAIN named,
           Fresh(named, i), NEW connected,
           connected = CHOOSE connected_ : connected_ =
              [n \in 0 .. Len(links) |->
                  IF n = 0 THEN named ELSE Luu!AddOutbound(connected_[n - 1], i, links[n])]
    PROVE  Linked(made_, links, named, i, connected[Len(links)], Len(links))
<1> DEFINE A == {c \in Partial : i \in DOMAIN c}
           L == Len(links)
           step == [n \in 1 .. L |-> [c \in A |-> Luu!AddOutbound(c, i, links[n])]]
<1>1. links \in Seq(Names) /\ L \in Nat /\ \A n \in 1 .. L : links[n] \in Names
  BY RoomsMade
<1>2. named \in A
  OBVIOUS
<1>3. step \in Steps(L, A)
  <2> SUFFICES ASSUME NEW n \in 1 .. L, NEW c \in A PROVE Luu!AddOutbound(c, i, links[n]) \in A
    BY DEF Steps
  <2>1. c \in Partial /\ i \in DOMAIN c /\ links[n] \in Names
    BY <1>1
  <2>2. /\ Luu!AddOutbound(c, i, links[n]) \in Partial
        /\ DOMAIN c \subseteq DOMAIN Luu!AddOutbound(c, i, links[n])
    BY <2>1, OneLink DEF OneMore
  <2>3. i \in DOMAIN Luu!AddOutbound(c, i, links[n])
    BY <2>1, <2>2
  <2> QED
    BY <2>2, <2>3
<1>4. PICK f : IsLoop(f, L, A, named, step)
  <2> HIDE DEF A, L, step
  <2> QED
    BY <1>1, <1>2, <1>3, Rounds
<1>5. f = [n \in 0 .. L |->
              IF n = 0 THEN named ELSE Luu!AddOutbound(f[n - 1], i, links[n])]
  <2>1. f \in [0 .. L -> A] /\ f[0] = named
    BY <1>4 DEF IsLoop
  <2>2. ASSUME NEW n \in 1 .. L PROVE f[n] = Luu!AddOutbound(f[n - 1], i, links[n])
    <3>1. f[n - 1] \in A
      <4> HIDE DEF A
      <4> QED
        BY <1>1, <2>1
    <3> QED
      BY <1>4, <3>1 DEF IsLoop
  <2>3. \A n \in 0 .. L : n = 0 \/ n \in 1 .. L
    BY <1>1
  <2>4. \A n \in 0 .. L : f[n] = IF n = 0 THEN named
                                 ELSE Luu!AddOutbound(f[n - 1], i, links[n])
    <3> HIDE DEF A, L
    <3> QED
      BY <2>1, <2>2, <2>3
  <2> HIDE DEF A
  <2> QED
    BY <2>1, <2>4
<1>6. connected = [n \in 0 .. L |->
              IF n = 0 THEN named ELSE Luu!AddOutbound(connected[n - 1], i, links[n])]
  <2> HIDE DEF A, step
  <2> QED
    BY <1>5
<1>7. connected[0] = named
  BY <1>1, <1>6
<1>8. ASSUME NEW n \in 1 .. L
      PROVE  connected[n] = Luu!AddOutbound(connected[n - 1], i, links[n])
  <2>1. n \in 0 .. L /\ n # 0
    BY <1>1
  <2> QED
    BY <1>6, <2>1, Zenon
<1> DEFINE T == {n \in 0 .. L : Linked(made_, links, named, i, connected[n], n)}
<1>9. 0 \in T
  <2>1. named[i].outs = <<>>
    BY DEF Fresh
  <2>2. <<>> \in Seq(DOMAIN named) /\ Len(<<>>) = 0
    OBVIOUS
  <2>3. Linked(made_, links, named, i, named, 0)
    BY <2>1, <2>2 DEF Linked
  <2> QED
    BY <1>1, <1>7, <2>3
<1>10. ASSUME NEW n \in 1 .. L, n - 1 \in T PROVE n \in T
  <2>1. Linked(made_, links, named, i, connected[n - 1], n - 1)
    BY <1>10
  <2>2. Linked(made_, links, named, i, connected[n], n)
    BY <1>8, <2>1, OneMoreLink
  <2>3. n \in 0 .. L
    BY <1>1
  <2> QED
    BY <2>2, <2>3
<1>11. 0 .. L \subseteq T
  <2> HIDE DEF T, L
  <2> QED
    BY <1>1, <1>9, <1>10, Induction
<1> QED
  BY <1>1, <1>11

\* Luu's game: the rooms after the file of room l.
LEMMA WholeFile ==
    ASSUME NEW made_, GoodRooms(made_), NEW l \in Indices,
           NEW links, links = Links(made_, l), NEW rs \in Partial,
           \A i \in DOMAIN rs : rs[i].name = made_[l].name => Fresh(rs, i)
    PROVE  \E named, i, c :
              /\ named \in Partial /\ i \in DOMAIN named /\ named[i].name = made_[l].name
              /\ DOMAIN rs \subseteq DOMAIN named
              /\ \A j \in DOMAIN rs : named[j] = rs[j]
              /\ \A j \in DOMAIN named \ DOMAIN rs : Fresh(named, j) /\ j = i
              /\ Fresh(named, i)
              /\ Linked(made_, links, named, i, c, Len(links))
              /\ Luu!WithFile(rs, RoomText(made_, l)) = [c EXCEPT ![i].type = made_[l].type]
<1> DEFINE text  == RoomText(made_, l)
           named == Luu!WithRoom(rs, text.name)
           i     == Luu!FindRoomByName(named, text.name)
           lines == Len(text.outs)
           connected[n \in 0 .. lines] ==
              IF n = 0 THEN named ELSE Luu!AddOutbound(connected[n - 1], i, text.outs[n])
<1>1. Luu!WithFile(rs, text) = [connected[lines] EXCEPT ![i].type = text.type]
  BY DEF Luu!WithFile
<1>2. /\ made_[l].name \in Names /\ text.name = made_[l].name /\ text.type = made_[l].type
      /\ text.outs = links
  BY RoomsMade
<1> HIDE DEF text
<1>3. /\ named \in Partial /\ i \in DOMAIN named /\ named[i].name = made_[l].name
      /\ DOMAIN rs \subseteq DOMAIN named
      /\ \A j \in DOMAIN rs : named[j] = rs[j]
      /\ \A j \in DOMAIN named \ DOMAIN rs : Fresh(named, j) /\ named[j].name = made_[l].name
  BY <1>2, RoomThere
<1>4. \A j \in DOMAIN named \ DOMAIN rs : j = i
  BY <1>3 DEF Partial, NamesDiffer
<1>5. Fresh(named, i)
  <2>1. CASE i \in DOMAIN rs
    BY <1>3, <2>1 DEF Fresh
  <2>2. CASE i \notin DOMAIN rs
    BY <1>3, <2>2
  <2> QED
    BY <2>1, <2>2
<1>6. connected = CHOOSE connected_ : connected_ =
              [n \in 0 .. Len(links) |->
                  IF n = 0 THEN named ELSE Luu!AddOutbound(connected_[n - 1], i, links[n])]
  BY <1>2
<1> HIDE DEF connected, named, i
<1>7. Linked(made_, links, named, i, connected[Len(links)], Len(links))
  BY <1>3, <1>5, <1>6, AllLinks
<1>8. Luu!WithFile(rs, text) = [connected[Len(links)] EXCEPT ![i].type = made_[l].type]
  BY <1>1, <1>2
<1> QED
  BY <1>3, <1>4, <1>5, <1>7, <1>8, Zenon DEF text

\* A file that Luu's game has not read before tells all about its room.
LEMMA LuuFile ==
    ASSUME NEW made_, GoodRooms(made_), NEW l \in Indices, NEW left, l \in left,
           NEW all, NEW rs, LuuRead(rs, left, all, made_)
    PROVE  LuuRead(Luu!WithFile(rs, RoomText(made_, l)), left \ {l}, all, made_)
<1> DEFINE links == Links(made_, l)
           end   == Luu!WithFile(rs, RoomText(made_, l))
<1>1. /\ rs \in Seq(Room(Types, DOMAIN rs)) /\ NamesDiffer(rs)
      /\ \A i \in DOMAIN rs : \E k \in Indices :
            /\ rs[i].name = made_[k].name
            /\ Fresh(rs, i) \/ (k \notin left /\ Built("luu", rs, i, made_, k))
      /\ all => \A k \in Indices :
                   k \in left \/ \E i \in DOMAIN rs : Built("luu", rs, i, made_, k)
  BY DEF LuuRead
<1>2. \A i \in DOMAIN rs : rs[i] \in Room(Types, DOMAIN rs) /\ i \in Nat
  BY <1>1
<1>3. rs \in Partial
  <2>1. DOMAIN rs \subseteq Nat
    BY <1>2
  <2>2. \A i \in DOMAIN rs : rs[i] \in Room(Types, Nat)
    BY <1>2, <2>1, SeqMonotonic DEF Room
  <2> QED
    BY <1>1, <2>2 DEF Partial
<1>4. \A i, j \in Indices : made_[i].name = made_[j].name => i = j
  BY DEF GoodRooms
<1>5. \A i \in DOMAIN rs : rs[i].name = made_[l].name => Fresh(rs, i)
  BY <1>1, <1>4
<1>6. PICK named, i, c :
              /\ named \in Partial /\ i \in DOMAIN named /\ named[i].name = made_[l].name
              /\ DOMAIN rs \subseteq DOMAIN named
              /\ \A j \in DOMAIN rs : named[j] = rs[j]
              /\ \A j \in DOMAIN named \ DOMAIN rs : Fresh(named, j) /\ j = i
              /\ Fresh(named, i)
              /\ Linked(made_, links, named, i, c, Len(links))
              /\ end = [c EXCEPT ![i].type = made_[l].type]
  BY <1>3, <1>5, WholeFile
<1> HIDE DEF end
<1>7. /\ c \in Seq(Room(Types, Nat)) /\ NamesDiffer(c) /\ DOMAIN named \subseteq DOMAIN c
      /\ \A j \in DOMAIN named : j # i => c[j] = named[j]
      /\ c[i].name = named[i].name /\ c[i].type = named[i].type
      /\ \A j \in DOMAIN c \ DOMAIN named :
            Fresh(c, j) /\ \E k \in Indices : c[j].name = made_[k].name
      /\ c[i].outs \in Seq(DOMAIN c) /\ Len(c[i].outs) = Len(links)
      /\ \A m \in 1 .. Len(links) : c[c[i].outs[m]].name = links[m]
  BY <1>6 DEF Linked, Partial
<1>8. /\ links \in Seq(Names) /\ made_[l].type \in Types /\ made_[l].name \in Names
  BY RoomsMade
<1> HIDE DEF links
<1> DEFINE n == Len(c)
           R == Room(Types, Nat)
<1>9. n \in Nat /\ DOMAIN c = 1 .. n /\ i \in 1 .. n
  BY <1>6, <1>7
<1>10. c[i] \in [name : Names, type : Types, outs : Seq(Nat)]
  <2>1. c[i] \in R
    <3> HIDE DEF R, n
    <3> QED
      BY <1>7, <1>9 DEF R, n
  <2> QED
    BY <2>1 DEF Room
<1> DEFINE new == [c[i] EXCEPT !.type = made_[l].type]
<1>11. /\ end \in Seq(R) /\ DOMAIN end = DOMAIN c
       /\ \A j \in DOMAIN c : j # i => end[j] = c[j]
       /\ end[i] = new
  <2>1. new \in R
    BY <1>8, <1>10 DEF Room
  <2>2. end = [c EXCEPT ![i] = new]
    BY <1>6
  <2> HIDE DEF new, R
  <2> QED
    BY <1>7, <1>9, <2>1, <2>2 DEF R
<1>12. /\ end[i].name = c[i].name /\ end[i].type = made_[l].type /\ end[i].outs = c[i].outs
  BY <1>10, <1>11
<1> HIDE DEF R, n
<1>13. \A j \in DOMAIN c : end[j].name = c[j].name /\ end[j].outs = c[j].outs
  BY <1>11, <1>12
<1>14. NamesDiffer(end)
  BY <1>7, <1>11, <1>13 DEF NamesDiffer
<1>15. \A j \in DOMAIN rs : j # i => j \in DOMAIN end /\ end[j] = rs[j]
  BY <1>6, <1>7, <1>11
<1>16. \A j \in DOMAIN end : \/ j = i
                             \/ j # i /\ j \in DOMAIN rs
                             \/ Fresh(end, j) /\ \E k \in Indices : end[j].name = made_[k].name
  <2> SUFFICES ASSUME NEW j \in DOMAIN end, j # i, j \notin DOMAIN rs
               PROVE  Fresh(end, j) /\ \E k \in Indices : end[j].name = made_[k].name
    OBVIOUS
  <2>1. j \in DOMAIN c \ DOMAIN named
    BY <1>6, <1>11
  <2>2. end[j] = c[j]
    BY <1>11
  <2> QED
    BY <1>7, <2>1, <2>2 DEF Fresh
<1>17. DOMAIN rs \subseteq DOMAIN end
  BY <1>6, <1>7, <1>11
<1>18. \A j \in DOMAIN rs : end[j].name = rs[j].name
  BY <1>6, <1>7, <1>11, <1>13
\* The connections of the rooms it had, and of the one it has read about.
<1>19. ASSUME NEW j \in DOMAIN rs, j # i, NEW k \in Indices, Built("luu", rs, j, made_, k)
       PROVE  Built("luu", end, j, made_, k)
  <2>1. end[j] = rs[j]
    BY <1>15, <1>19
  <2>2. rs[j].outs \in Seq(DOMAIN rs)
    BY <1>2 DEF Room
  <2>3. \A m \in DOMAIN rs[j].outs : rs[j].outs[m] \in DOMAIN rs
    BY <2>2
  <2>4. Links(end, j) = Links(rs, j)
    BY <1>18, <2>1, <2>3 DEF Links
  <2> QED
    BY <1>19, <2>1, <2>4 DEF Built, Ways
<1>20. Built("luu", end, i, made_, l)
  <2>1. DOMAIN end[i].outs = 1 .. Len(links) /\ DOMAIN links = 1 .. Len(links)
    BY <1>7, <1>8, <1>12
  <2>2. \A m \in 1 .. Len(links) : c[i].outs[m] \in DOMAIN c
    BY <1>7
  <2>3. \A m \in 1 .. Len(links) : end[end[i].outs[m]].name = links[m]
    BY <1>7, <1>12, <1>13, <2>2
  <2>4. Links(end, i) = [m \in 1 .. Len(links) |-> links[m]]
    BY <2>1, <2>3 DEF Links
  <2>5. links = [m \in 1 .. Len(links) |-> links[m]]
    BY <1>8, <2>1
  <2> QED
    BY <1>6, <1>7, <1>12, <2>4, <2>5 DEF Built, Ways, links
<1>21. end \in Seq(Room(Types, DOMAIN end))
  <2>1. ASSUME NEW j \in DOMAIN end PROVE end[j].outs \in Seq(DOMAIN end)
    <3>1. CASE j = i
      BY <1>7, <1>11, <1>12, <3>1
    <3>2. CASE j # i /\ j \in DOMAIN rs
      <4>1. rs[j].outs \in Seq(DOMAIN rs)
        BY <1>2, <3>2 DEF Room
      <4> QED
        BY <1>15, <1>17, <3>2, <4>1, SeqMonotonic
    <3>3. CASE Fresh(end, j)
      BY <3>3 DEF Fresh
    <3> QED
      BY <1>16, <3>1, <3>2, <3>3
  <2>2. \A j \in DOMAIN end : end[j] \in R
    BY <1>11
  <2>3. \A j \in DOMAIN end : end[j] \in Room(Types, DOMAIN end)
    BY <2>1, <2>2 DEF R, Room
  <2> QED
    BY <1>11, <2>3
<1>22. ASSUME NEW j \in DOMAIN end
       PROVE  \E k \in Indices :
                 /\ end[j].name = made_[k].name
                 /\ Fresh(end, j) \/ (k \notin left \ {l} /\ Built("luu", end, j, made_, k))
  <2>1. CASE j = i
    BY <1>6, <1>7, <1>12, <1>20, <2>1
  <2>2. CASE j # i /\ j \in DOMAIN rs
    <3>1. end[j] = rs[j]
      BY <1>15, <2>2
    <3>2. PICK k \in Indices :
            /\ rs[j].name = made_[k].name
            /\ Fresh(rs, j) \/ (k \notin left /\ Built("luu", rs, j, made_, k))
      BY <1>1, <2>2
    <3>3. Fresh(rs, j) => Fresh(end, j)
      BY <3>1 DEF Fresh
    <3> QED
      BY <1>19, <2>2, <3>1, <3>2, <3>3
  <2>3. CASE Fresh(end, j) /\ \E k \in Indices : end[j].name = made_[k].name
    BY <2>3
  <2> QED
    BY <1>16, <2>1, <2>2, <2>3
<1>23. ASSUME all, NEW k \in Indices, k \notin left \ {l}
       PROVE  \E j \in DOMAIN end : Built("luu", end, j, made_, k)
  <2>1. CASE k = l
    BY <1>9, <1>11, <1>20, <2>1
  <2>2. CASE k # l
    <3>1. PICK j \in DOMAIN rs : Built("luu", rs, j, made_, k)
      BY <1>1, <1>23, <2>2
    <3>2. rs[j].name # made_[l].name
      BY <1>4, <2>2, <3>1 DEF Built
    <3>3. j # i
      BY <1>6, <3>2
    <3> QED
      BY <1>17, <1>19, <3>1, <3>3
  <2> QED
    BY <2>1, <2>2
<1> QED
  BY <1>14, <1>21, <1>22, <1>23 DEF LuuRead, end

\* The loop over the connections of a file.
LinkLoop(links) ==
    LET outs[n \in 0 .. Len(links)] ==
            IF n = 0 THEN <<>>
            ELSE Dougherty!addCon(outs[n - 1], Dougherty!findIndex(links[n]))
    IN  outs

\* The rooms that have been found under the names links.
Found(links, o) ==
    /\ o \in Seq(Indices) /\ Len(o) = Len(links)
    /\ \A m \in 1 .. Len(links) : rooms[o[m]].name = links[m]

\* The connections that Dougherty's game takes from a file of a finished
\* directory, one after the other.
LEMMA DoughertyLinks ==
    ASSUME NEW made_, GoodRooms(made_), NEW l \in Indices, NEW links, links = Links(made_, l),
           DOMAIN rooms = Indices,
           \A k \in Indices : \E i \in Indices : rooms[i].name = made_[k].name
    PROVE  Found(links, LinkLoop(links)[Len(links)])
<1> DEFINE outs == LinkLoop(links)
<1> DEFINE L == Len(links)
           idx(n) == Dougherty!findIndex(links[n])
           A == Seq(Indices)
           step == [n \in 1 .. L |-> [o \in A |-> Append(o, idx(n))]]
<1>1. links \in Seq(Names) /\ L \in Nat /\ L = Len(made_[l].outs) /\ made_[l].outs \in Seq(Indices)
      /\ \A n \in 1 .. L : links[n] = made_[made_[l].outs[n]].name
  <2> DEFINE o == made_[l].outs
  <2>3. /\ made_[l].outs \in Seq(Indices) /\ Links(made_, l) \in Seq(Names)
        /\ Len(Links(made_, l)) = Len(made_[l].outs)
        /\ \A j \in 1 .. Len(made_[l].outs) : Links(made_, l)[j] = made_[made_[l].outs[j]].name
    BY RoomsMade, Zenon
  <2>1. /\ o \in Seq(Indices) /\ links \in Seq(Names) /\ Len(links) = Len(o)
        /\ \A j \in 1 .. Len(o) : links[j] = made_[o[j]].name
    BY <2>3, Zenon
  <2> HIDE DEF o
  <2>2. \A n \in 1 .. L : links[n] = made_[o[n]].name
    BY <2>1
  <2> QED
    BY <2>1, <2>2 DEF o
<1>2. ASSUME NEW n \in 1 .. L PROVE idx(n) \in Indices /\ rooms[idx(n)].name = links[n]
  <2>1. made_[l].outs[n] \in Indices
    BY <1>1
  <2>2. \E i \in Indices : rooms[i].name = links[n]
    BY <1>1, <2>1
  <2>3. idx(n) = CHOOSE i \in Indices : rooms[i].name = links[n]
    BY DEF Dougherty!findIndex, Indices
  <2> HIDE DEF idx
  <2> QED
    BY <2>2, <2>3
<1> HIDE DEF idx
<1>3. step \in Steps(L, A)
  <2> SUFFICES ASSUME NEW n \in 1 .. L, NEW o \in A PROVE Append(o, idx(n)) \in A
    BY DEF Steps
  <2> QED
    BY <1>2
<1>4. PICK f : IsLoop(f, L, A, <<>>, step)
  <2>1. <<>> \in A
    OBVIOUS
  <2> HIDE DEF A, L, step
  <2> QED
    BY <1>1, <1>3, <2>1, Rounds
<1>5. f = [n \in 0 .. L |-> IF n = 0 THEN <<>> ELSE Append(f[n - 1], idx(n))]
  <2>1. f \in [0 .. L -> A] /\ f[0] = <<>>
    BY <1>4 DEF IsLoop
  <2>2. ASSUME NEW n \in 1 .. L PROVE f[n] = Append(f[n - 1], idx(n))
    <3>1. f[n - 1] \in A
      <4>1. L \in Nat /\ n - 1 \in 0 .. L
        BY <1>1
      <4> HIDE DEF A, L
      <4> QED
        BY <2>1, <4>1
    <3> QED
      BY <1>4, <3>1 DEF IsLoop
  <2>3. \A n \in 0 .. L : n = 0 \/ n \in 1 .. L
    BY <1>1
  <2>4. \A n \in 0 .. L : f[n] = IF n = 0 THEN <<>> ELSE Append(f[n - 1], idx(n))
    <3> HIDE DEF A, L
    <3> QED
      BY <2>1, <2>2, <2>3
  <2> HIDE DEF A
  <2> QED
    BY <2>1, <2>4
<1>6. outs = CHOOSE outs_ : outs_ =
         [n \in 0 .. L |-> IF n = 0 THEN <<>> ELSE Append(outs_[n - 1], idx(n))]
  BY DEF LinkLoop, Dougherty!addCon, idx
<1>7. outs = [n \in 0 .. L |-> IF n = 0 THEN <<>> ELSE Append(outs[n - 1], idx(n))]
  <2> HIDE DEF A, step, L
  <2> QED
    BY <1>5, <1>6
<1> HIDE DEF outs
<1>8. outs[0] = <<>>
  <2>1. 0 \in 0 .. L
    BY <1>1
  <2> QED
    BY <1>7, <2>1, Zenon
<1>9. ASSUME NEW n \in 1 .. L PROVE outs[n] = Append(outs[n - 1], idx(n))
  <2>1. n \in 0 .. L /\ n # 0
    BY <1>1
  <2> HIDE DEF L
  <2> QED
    BY <1>7, <2>1
<1> DEFINE Good(n) == /\ outs[n] \in A /\ Len(outs[n]) = n
                      /\ \A m \in 1 .. n : rooms[outs[n][m]].name = links[m]
           T == {n \in 0 .. L : Good(n)}
<1>10. 0 \in T
  <2>1. 0 \in 0 .. L
    BY <1>1
  <2>2. Good(0)
    BY <1>8
  <2> QED
    BY <2>1, <2>2
<1>11. ASSUME NEW n \in 1 .. L, n - 1 \in T PROVE n \in T
  <2> DEFINE o == outs[n - 1]
             q == outs[n]
  <2>1. o \in A /\ Len(o) = n - 1 /\ \A m \in 1 .. n - 1 : rooms[o[m]].name = links[m]
    BY <1>11
  <2>2. q = Append(o, idx(n)) /\ idx(n) \in Indices /\ rooms[idx(n)].name = links[n]
    BY <1>2, <1>9
  <2> HIDE DEF o, q
  <2>3. q \in A /\ Len(q) = n /\ q[n] = idx(n) /\ \A m \in 1 .. n - 1 : q[m] = o[m]
    BY <2>1, <2>2
  <2>4. \A m \in 1 .. n : m = n \/ m \in 1 .. n - 1
    BY <1>1
  <2>5. \A m \in 1 .. n : rooms[q[m]].name = links[m]
    BY <2>1, <2>2, <2>3, <2>4
  <2>6. Good(n)
    BY <2>3, <2>5 DEF q
  <2>7. n \in 0 .. L
    BY <1>1
  <2> QED
    BY <2>6, <2>7
<1>12. 0 .. L \subseteq T
  <2> HIDE DEF T, L
  <2> QED
    BY <1>1, <1>10, <1>11, Induction
<1>13. L \in T
  <2> HIDE DEF T
  <2> QED
    BY <1>1, <1>12
<1> QED
  BY <1>13 DEF Found, outs

\* Dougherty's game: one file, which may be empty still.
LEMMA DoughertyFile ==
    ASSUME NEW made_, GoodRooms(made_), DoughertyRead(rooms, listing, whole, made_),
           \A k \in Indices :
              \/ files[dirname][made_[k].name] = RoomText(made_, k)
              \/ files[dirname][made_[k].name] = EmptyText /\ ~whole,
           NEW i \in Indices, Dougherty!formRooms(i)
    PROVE  DoughertyRead(rooms', listing \ {i}, whole, made_)
<1> DEFINE text == files[dirname][rooms[i].name]
           outs[n \in 0 .. Len(text.outs)] ==
               IF n = 0 THEN rooms[i].outs
               ELSE Dougherty!addCon(outs[n - 1], Dougherty!findIndex(text.outs[n]))
<1>1. /\ rooms \in [Indices -> Room(Types \cup {"unset"}, Indices)] /\ NamesDiffer(rooms)
      /\ \A j \in Indices : \E k \in Indices :
            /\ rooms[j].name = made_[k].name
            /\ \/ Blank(rooms, j, listing, whole)
               \/ j \notin listing /\ Built("dougherty", rooms, j, made_, k)
      /\ \A k \in Indices : \E j \in Indices : rooms[j].name = made_[k].name
      /\ i \in listing
  BY DEF DoughertyRead, Dougherty!formRooms
<1>2. \/ /\ text.kind = "room"
         /\ rooms' = [rooms EXCEPT ![i].type = text.type, ![i].outs = outs[Len(text.outs)]]
      \/ text.kind # "room" /\ rooms' = rooms
  BY DEF Dougherty!formRooms
<1>3. PICK l \in Indices : rooms[i].name = made_[l].name /\ rooms[i].outs = <<>>
  BY <1>1 DEF Blank
<1>4. CASE text = EmptyText /\ ~whole
  <2>1. rooms' = rooms
    BY <1>2, <1>4 DEF EmptyText
  <2>2. \A j \in Indices : Blank(rooms, j, listing, whole) => Blank(rooms, j, listing \ {i}, whole)
    BY <1>4 DEF Blank
  <2>3. DoughertyRead(rooms, listing \ {i}, whole, made_)
    BY <1>1, <2>2 DEF DoughertyRead
  <2> QED
    BY <2>1, <2>3
<1>5. CASE text = RoomText(made_, l)
  <2> DEFINE links == Links(made_, l)
  <2>3. /\ made_[l].type \in Types /\ links \in Seq(Names)
        /\ text.kind = "room" /\ text.type = made_[l].type /\ text.outs = links
    BY <1>5, RoomsMade
  <2>4. outs = LinkLoop(links)
    <3> HIDE DEF text, links
    <3> QED
      BY <1>3, <2>3 DEF LinkLoop
  <2> DEFINE last == outs[Len(links)]
  <2>5. /\ last \in Seq(Indices) /\ Len(last) = Len(links)
        /\ \A m \in 1 .. Len(links) : rooms[last[m]].name = links[m]
    <3>1. DOMAIN rooms = Indices
      BY <1>1
    <3>2. links = Links(made_, l)
      OBVIOUS
    <3>3. \A k \in Indices : \E j \in Indices : rooms[j].name = made_[k].name
      BY <1>1
    <3>4. last = LinkLoop(links)[Len(links)]
      <4> HIDE DEF outs, links, text
      <4> QED
        BY <2>4
    <3> HIDE DEF last, outs, links, text
    <3>5. Found(links, last)
      BY <3>1, <3>2, <3>3, <3>4, DoughertyLinks
    <3> QED
      BY <3>5 DEF Found
  <2>6. rooms' = [rooms EXCEPT ![i].type = made_[l].type, ![i].outs = last]
    BY <1>2, <2>3
  <2> HIDE DEF last, outs, text, links
  <2>7. /\ rooms' \in [Indices -> Room(Types \cup {"unset"}, Indices)]
        /\ \A j \in Indices : j # i => rooms'[j] = rooms[j]
        /\ rooms'[i].name = rooms[i].name /\ rooms'[i].type = made_[l].type
        /\ rooms'[i].outs = last
    BY <1>1, <2>3, <2>5, <2>6 DEF Room
  <2>8. \A j \in Indices : rooms'[j].name = rooms[j].name
    BY <2>7
  <2>9. NamesDiffer(rooms')
    BY <1>1, <2>7, <2>8 DEF NamesDiffer
  <2>10. Built("dougherty", rooms', i, made_, l)
    <3>1. DOMAIN last = 1 .. Len(links) /\ DOMAIN links = 1 .. Len(links)
      BY <2>3, <2>5
    <3>2. \A m \in 1 .. Len(links) : last[m] \in Indices
      BY <2>5
    <3>3. Links(rooms', i) = [m \in 1 .. Len(links) |-> links[m]]
      BY <2>5, <2>7, <2>8, <3>1, <3>2 DEF Links
    <3>4. links = [m \in 1 .. Len(links) |-> links[m]]
      BY <2>3, <3>1
    <3> QED
      BY <1>3, <2>7, <3>3, <3>4 DEF Built, Ways, links
  <2>11. ASSUME NEW j \in Indices, j # i, NEW k \in Indices, Built("dougherty", rooms, j, made_, k)
         PROVE  Built("dougherty", rooms', j, made_, k)
    <3>1. rooms'[j] = rooms[j]
      BY <2>7, <2>11
    <3>2. \A m \in DOMAIN rooms[j].outs : rooms[j].outs[m] \in Indices
      <4>1. rooms[j].outs \in Seq(Indices)
        BY <1>1 DEF Room
      <4> QED
        BY <4>1
    <3>3. Links(rooms', j) = Links(rooms, j)
      BY <2>8, <3>1, <3>2 DEF Links
    <3> QED
      BY <2>11, <3>1, <3>3 DEF Built, Ways
  <2>12. ASSUME NEW j \in Indices
         PROVE  \E k \in Indices :
                   /\ rooms'[j].name = made_[k].name
                   /\ \/ Blank(rooms', j, listing \ {i}, whole)
                      \/ j \notin listing \ {i} /\ Built("dougherty", rooms', j, made_, k)
    <3>1. CASE j = i
      BY <1>3, <2>8, <2>10, <3>1
    <3>2. CASE j # i
      <4>1. PICK k \in Indices :
              /\ rooms[j].name = made_[k].name
              /\ \/ Blank(rooms, j, listing, whole)
                 \/ j \notin listing /\ Built("dougherty", rooms, j, made_, k)
        BY <1>1
      <4>2. rooms'[j] = rooms[j]
        BY <2>7, <3>2
      <4>3. Blank(rooms, j, listing, whole) => Blank(rooms', j, listing \ {i}, whole)
        BY <3>2, <4>2 DEF Blank
      <4> QED
        BY <2>11, <3>2, <4>1, <4>2, <4>3
    <3> QED
      BY <3>1, <3>2
  <2>13. \A k \in Indices : \E j \in Indices : rooms'[j].name = made_[k].name
    BY <1>1, <2>8
  <2> QED
    BY <2>7, <2>9, <2>12, <2>13 DEF DoughertyRead
<1> QED
  BY <1>3, <1>4, <1>5

\* What is in a directory that its builder has finished, and in any other.
LEMMA FilesOf ==
    ASSUME DiskInv, NEW d \in Dirs, mtime[d] # 0
    PROVE  /\ GoodRooms(made[d])
           /\ \A f \in DOMAIN files[d] :
                \/ program # "luu" /\ f = CurrentTime /\ files[d][f] = TimeText
                \/ \E k \in Indices : /\ f = FileName(made[d], k)
                                      /\ files[d][f] \in {RoomText(made[d], k), EmptyText}
           /\ maker[d] = "done" =>
                \A k \in Indices : /\ FileName(made[d], k) \in DOMAIN files[d]
                                   /\ files[d][FileName(made[d], k)] = RoomText(made[d], k)
<1>1. GoodRooms(made[d]) /\ MakerInv(d) /\ FileInv(d)
  BY DEF DiskInv, MakerInv
<1>2. ASSUME NEW f \in DOMAIN files[d]
      PROVE  \/ program # "luu" /\ f = CurrentTime /\ files[d][f] = TimeText
             \/ \E k \in Indices : /\ f = FileName(made[d], k)
                                   /\ files[d][f] \in {RoomText(made[d], k), EmptyText}
  BY <1>1 DEF FileInv
<1>3. ASSUME maker[d] = "done", NEW k \in Indices
      PROVE  /\ FileName(made[d], k) \in DOMAIN files[d]
             /\ files[d][FileName(made[d], k)] = RoomText(made[d], k)
  <2>1. count[d] = NUM_ROOMS /\ k \in 1 .. count[d] /\ k =< count[d]
    BY <1>1, <1>3, Constants DEF MakerInv, Indices
  <2>2. FileName(made[d], k) \in DOMAIN files[d]
    BY <1>1, <2>1 DEF FileInv
  <2>3. ~(program # "luu" /\ FileName(made[d], k) = CurrentTime)
    BY <1>1, NoTimeFileName
  <2>4. PICK i \in Indices :
          /\ FileName(made[d], k) = FileName(made[d], i)
          /\ files[d][FileName(made[d], k)] =
                IF i =< count[d] THEN RoomText(made[d], i) ELSE EmptyText
    BY <1>1, <2>2, <2>3 DEF FileInv
  <2>5. i = k
    BY <1>1, <2>4, FileNamesDiffer
  <2> QED
    BY <2>1, <2>2, <2>4, <2>5
<1> QED
  BY <1>1, <1>2, <1>3

\* There are NUM_ROOMS indices.
LEMMA IndicesFinite == IsFiniteSet(Indices) /\ Cardinality(Indices) = NUM_ROOMS
BY FS_Interval, Constants DEF Indices

\* The names of all rooms, in some order.
AllNames(names, made_) ==
    /\ names \in [Indices -> Names]
    /\ \A i, j \in Indices : names[i] = names[j] => i = j
    /\ \A i \in Indices : \E k \in Indices : names[i] = made_[k].name
    /\ \A k \in Indices : \E i \in Indices : names[i] = made_[k].name

\* The rooms of a builder have NUM_ROOMS names.
LEMMA NamesCount ==
    ASSUME NEW made_, GoodRooms(made_), NEW All, All = {made_[k].name : k \in Indices}
    PROVE  IsFiniteSet(All) /\ Cardinality(All) = NUM_ROOMS /\ CurrentTime \notin All
<1> DEFINE nm == [k \in Indices |-> made_[k].name]
<1>1. nm \in Bijection(Indices, All)
  BY DEF GoodRooms, Bijection, Injection, Surjection, IsInjective
<1>2. ExistsBijection(Indices, All)
  BY <1>1 DEF ExistsBijection
<1>3. CurrentTime \notin All
  BY Constants DEF GoodRooms
<1> QED
  BY <1>2, <1>3, IndicesFinite, FS_Bijection

\* The names in a directory are read in some order, by Dougherty's game: a
\* time file would be one too many.
LEMMA DoughertyNames ==
    ASSUME NEW made_, GoodRooms(made_), NEW S, Cardinality(S) = NUM_ROOMS,
           \A f \in S : f = CurrentTime \/ \E k \in Indices : f = made_[k].name,
           CurrentTime \in S => \A k \in Indices : made_[k].name \in S,
           NEW names \in Dougherty!Orders(S)
    PROVE  AllNames(names, made_) /\ \A k \in Indices : made_[k].name \in S
<1> DEFINE All == {made_[k].name : k \in Indices}
<1>1. \A k \in Indices : made_[k].name \in Names
  BY DEF GoodRooms
<1>2. IsFiniteSet(All) /\ Cardinality(All) = NUM_ROOMS /\ CurrentTime \notin All
  BY NamesCount
<1>3. S = All
  <2>1. CurrentTime \notin All
    BY <1>2
  <2>2. CASE CurrentTime \in S
    <3>1. S = All \cup {CurrentTime}
      <4>1. All \subseteq S
        BY <2>2
      <4> QED
        BY <2>2, <4>1
    <3>2. Cardinality(S) = NUM_ROOMS + 1
      <4> HIDE DEF All
      <4> QED
        BY <1>2, <2>1, <3>1, FS_AddElement
    <3> QED
      BY <3>2, Constants
  <2>3. CASE CurrentTime \notin S
    <3>1. S \subseteq All
      BY <2>3
    <3> HIDE DEF All
    <3> QED
      BY <1>2, <3>1, FS_Subset
  <2> QED
    BY <2>2, <2>3
<1>4. /\ names \in [Indices -> S] /\ \A i, j \in Indices : i # j => names[i] # names[j]
  <2>1. names \in [1 .. NUM_ROOMS -> S] /\ \A i, j \in DOMAIN names : i # j => names[i] # names[j]
    BY SameCardinality DEF Dougherty!Orders
  <2> QED
    BY <2>1 DEF Indices
<1>5. names \in Injection(Indices, S)
  BY <1>4 DEF Injection, IsInjective
<1>6. names \in Surjection(Indices, S)
  BY <1>2, <1>3, <1>5, IndicesFinite, FS_Injection
<1>7. \A f \in S : \E i \in Indices : names[i] = f
  BY <1>6 DEF Surjection
<1>8. \A i \in Indices : names[i] \in S /\ \E k \in Indices : names[i] = made_[k].name
  BY <1>3, <1>4
<1>9. S \subseteq Names
  BY <1>1, <1>3
<1>10. names \in [Indices -> Names]
  BY <1>4, <1>9
<1>11. \A k \in Indices : \E i \in Indices : names[i] = made_[k].name
  BY <1>3, <1>7
<1>12. \A k \in Indices : made_[k].name \in S
  BY <1>3
<1> HIDE DEF All
<1>13. AllNames(names, made_)
  BY <1>4, <1>8, <1>10, <1>11 DEF AllNames
<1> QED
  BY <1>12, <1>13

\* Dougherty's game opens a directory, and knows nothing but the names.
LEMMA DoughertyStarts ==
    ASSUME DiskInv, PlaceInv, TimeFileInv, program = "dougherty", Dougherty!getRoomNames,
           pc' = "read"
    PROVE  /\ DoughertyRead(rooms', listing', whole', made[dirname])
           /\ \A k \in Indices : made[dirname][k].name \in DOMAIN files[dirname]
<1> DEFINE made_ == made[dirname]
           S == DOMAIN files[dirname]
<1>1. /\ dirname # NoDir /\ dirname \in Dirs /\ mtime[dirname] # 0 /\ Cardinality(S) = NUM_ROOMS
      /\ \E names \in Dougherty!Orders(S) :
            rooms' = [i \in DOMAIN names |->
                        [name |-> names[i], type |-> "unset", outs |-> <<>>]]
      /\ listing' = 1 .. NUM_ROOMS
  <2>1. dirname # NoDir
    BY DoughertyOpens
  <2>2. Cardinality(S) = NUM_ROOMS
    BY <2>1, SameCardinality DEF Dougherty!getRoomNames
  <2> QED
    BY <2>1, <2>2 DEF Dougherty!getRoomNames, PlaceInv
<1>2. PICK names \in Dougherty!Orders(S) :
         rooms' = [i \in Indices |-> [name |-> names[i], type |-> "unset", outs |-> <<>>]]
  <2>1. PICK names \in Dougherty!Orders(S) :
           rooms' = [i \in DOMAIN names |-> [name |-> names[i], type |-> "unset", outs |-> <<>>]]
    BY <1>1
  <2>2. DOMAIN names = Indices
    BY <1>1, <2>1, SameCardinality DEF Dougherty!Orders, Indices
  <2> QED
    BY <2>1, <2>2
<1>3. /\ GoodRooms(made_)
      /\ \A f \in S : f = CurrentTime \/ \E k \in Indices : f = made_[k].name
  BY <1>1, FilesOf DEF FileName
<1>4. CurrentTime \in S => \A k \in Indices : made_[k].name \in S
  BY <1>1 DEF TimeFileInv
<1>5. AllNames(names, made_) /\ \A k \in Indices : made_[k].name \in S
  <2>1. Cardinality(S) = NUM_ROOMS
    BY <1>1
  <2> HIDE DEF S, made_
  <2> QED
    BY <1>2, <1>3, <1>4, <2>1, DoughertyNames
<1>6. rooms' \in [Indices -> Room(Types \cup {"unset"}, Indices)]
  BY <1>2, <1>5 DEF AllNames, Room
<1>7. \A i \in Indices : /\ rooms'[i].name = names[i]
                         /\ Blank(rooms', i, listing', whole')
  BY <1>1, <1>2 DEF Blank, Indices
<1>8. NamesDiffer(rooms')
  <2>1. DOMAIN rooms' = Indices
    BY <1>6
  <2>2. ASSUME NEW i \in Indices, NEW j \in Indices, rooms'[i].name = rooms'[j].name
        PROVE  i = j
    <3>1. names[i] = names[j]
      BY <1>7, <2>2
    <3> QED
      BY <1>5, <3>1 DEF AllNames
  <2> QED
    BY <2>1, <2>2 DEF NamesDiffer
<1> HIDE DEF made_
<1>9. ASSUME NEW i \in Indices PROVE \E k \in Indices : rooms'[i].name = made_[k].name
  <2>1. PICK k \in Indices : names[i] = made_[k].name
    BY <1>5 DEF AllNames
  <2> QED
    BY <1>7, <2>1
<1>10. ASSUME NEW k \in Indices PROVE \E i \in Indices : rooms'[i].name = made_[k].name
  <2>1. PICK i \in Indices : names[i] = made_[k].name
    BY <1>5 DEF AllNames
  <2> QED
    BY <1>7, <2>1
<1>11. DoughertyRead(rooms', listing', whole', made_)
  BY <1>6, <1>7, <1>8, <1>9, <1>10 DEF DoughertyRead
<1> QED
  BY <1>5, <1>11 DEF made_

\* Dougherty's game stores a name for every file, which are those of the
\* rooms and, where a game has made it, the time file.
LEMMA DoughertyCounts ==
    ASSUME DiskInv, PlaceInv, program = "dougherty", Dougherty!getRoomNames
    PROVE  /\ Len(rooms') \in Nat /\ Len(rooms') =< NUM_ROOMS + 1
           /\ Len(rooms') > NUM_ROOMS => dirname # NoDir /\ CurrentTime \in DOMAIN files[dirname]
<1> DEFINE S == IF dirname = NoDir THEN {} ELSE DOMAIN files[dirname]
<1>1. PICK names \in Dougherty!Orders(S) :
         rooms' = [i \in DOMAIN names |-> [name |-> names[i], type |-> "unset", outs |-> <<>>]]
  BY DEF Dougherty!getRoomNames
<1>2. IsFiniteSet(S) => Len(rooms') = Cardinality(S) /\ Len(rooms') \in Nat
  <2>1. DOMAIN names = 1 .. Cardinality(S)
    BY <1>1, SameCardinality DEF Dougherty!Orders
  <2> HIDE DEF S
  <2>2. IsFiniteSet(S) => Cardinality(S) \in Nat
    BY FS_CardinalityType
  <2>3. DOMAIN rooms' = 1 .. Cardinality(S)
    BY <1>1, <2>1
  <2> QED
    BY <1>1, <2>2, <2>3
<1>3. CASE dirname = NoDir
  <2>1. IsFiniteSet(S) /\ Cardinality(S) = 0
    BY <1>3, FS_EmptySet
  <2> QED
    BY <1>2, <2>1, Constants
<1>4. CASE dirname # NoDir
  <2> DEFINE All == {made[dirname][k].name : k \in Indices}
  <2>1. dirname \in Dirs /\ mtime[dirname] # 0
    BY <1>4 DEF PlaceInv, Dougherty!getRoomNames
  <2>2. GoodRooms(made[dirname]) /\ S \subseteq All \cup {CurrentTime}
    <3>1. \A f \in S : f = CurrentTime \/ \E k \in Indices : f = made[dirname][k].name
      BY <1>4, <2>1, FilesOf DEF FileName
    <3> QED
      BY <2>1, <3>1, FilesOf
  <2>3. IsFiniteSet(All) /\ Cardinality(All) = NUM_ROOMS /\ CurrentTime \notin All
    BY <2>2, NamesCount
  <2> HIDE DEF S, All
  <2>4. /\ IsFiniteSet(All \cup {CurrentTime})
        /\ Cardinality(All \cup {CurrentTime}) = NUM_ROOMS + 1
    BY <2>3, FS_AddElement
  <2>5. IsFiniteSet(S) /\ Cardinality(S) \in Nat /\ Cardinality(S) =< NUM_ROOMS + 1
    BY <2>2, <2>4, FS_Subset, FS_CardinalityType
  <2>6. ASSUME CurrentTime \notin S PROVE Cardinality(S) =< NUM_ROOMS
    <3>1. S \subseteq All
      BY <2>2, <2>6
    <3> QED
      BY <2>3, <3>1, FS_Subset
  <2>7. Len(rooms') = Cardinality(S) /\ Len(rooms') \in Nat
    BY <1>2, <2>5
  <2>8. Len(rooms') > NUM_ROOMS => CurrentTime \in S
    BY <2>5, <2>6, <2>7, Constants
  <2>9. S = DOMAIN files[dirname]
    BY <1>4 DEF S
  <2> QED
    BY <1>4, <2>5, <2>7, <2>8, <2>9
<1> QED
  BY <1>3, <1>4

-----------------------------------------------------------------------------
(***************************************************************************)
(* The rooms that a game has read.                                         *)
(***************************************************************************)
\* What the steps of all programs do to what has been read.
Starts == /\ pc = "read" /\ listing = {} /\ pc' \in {"play", "undefined"}
          /\ program # "dougherty" /\ pc' = "undefined" =>
                ~\E i \in DOMAIN rooms : rooms[i].type = "START_ROOM"
          /\ pc' = "undefined" => UNCHANGED walk
          /\ UNCHANGED <<search, reading>>
Moves  == /\ pc = "play" /\ pc' \in {"play", "undefined"}
          /\ program # "dougherty" => pc' = "play"
          /\ pc' = "undefined" => UNCHANGED walk
          /\ UNCHANGED <<search, reading>>

ReadStep ==
    \/ UNCHANGED <<pc, search, reading, walk>>
    \/ pc' \in {"start", "over"} /\ NoGame
    \/ pc \in {"start", "search"} /\ pc' = "search" /\ UNCHANGED <<reading, walk>>
    \/ program # "dougherty" /\ OpenChosen
    \/ program = "dougherty" /\ Dougherty!getRoomNames
    \/ program = "suh" /\ \E f \in listing : Suh!ReadFile(f)
    \/ program = "luu" /\ \E f \in listing : Luu!ReadRoomFromFile(f)
    \/ program = "dougherty" /\ \E i \in Indices : Dougherty!formRooms(i)
    \/ Starts
    \/ Moves

\* Every step is one of these.
LEMMA ReadSteps == ASSUME ProgramInv, Step PROVE ReadStep
<1>1. World \/ (\E d \in Dirs : BuildStep(d)) \/ UNCHANGED vars => ReadStep
  BY DEF World, Tick, PlayAgain, KillMaker, BuildStep, MakesUp, MakeDir, OpenFile, CloseFile,
     vars, ReadStep
<1>2. EndGame \/ MakeTimeFile => ReadStep
  BY DEF EndGame, MakeTimeFile, ReadStep
<1>3. ASSUME NEW first, OpenRootFrom(first) PROVE ReadStep
  BY <1>3 DEF OpenRootFrom, ReadStep
<1>4. ASSUME NEW d, NEW better, LookAt(d, better) PROVE ReadStep
  BY <1>4 DEF LookAt, ReadStep
<1>5. ASSUME program = "suh", SuhPlay PROVE ReadStep
  <2>1. Suh!StartGame => Starts
    BY DEF Suh!StartGame, Suh!StartRooms, Suh!search, search, Suh!reading, reading, Suh!walk,
           walk, Starts
  <2>2. \A name : Suh!start_game(name) => Moves
    BY DEF Suh!start_game, Suh!search, search, Suh!reading, reading, Moves
  <2> QED
    BY <1>2, <1>3, <1>4, <1>5, <2>1, <2>2 DEF SuhPlay, ReadStep
<1>6. ASSUME program = "luu", LuuPlay PROVE ReadStep
  <2>1. Luu!StartPlaying => Starts
    BY DEF Luu!StartPlaying, Luu!FindStartRoomIndex, Luu!search, search, Luu!reading, reading,
           Luu!walk, walk, Starts
  <2>2. \A name : Luu!PlayGame(name) => Moves
    BY DEF Luu!PlayGame, Luu!search, search, Luu!reading, reading, Moves
  <2> QED
    BY <1>2, <1>3, <1>4, <1>6, <2>1, <2>2 DEF LuuPlay, ReadStep
<1>7. ASSUME program = "dougherty", DoughertyPlay PROVE ReadStep
  <2>1. Dougherty!findStartRoom => Starts
    BY <1>7 DEF Dougherty!findStartRoom, Dougherty!search, search, Dougherty!reading, reading,
                Dougherty!walk, walk, Starts
  <2>2. \A name : Dougherty!gamePlay(name) => Moves
    BY <1>7 DEF Dougherty!gamePlay, Dougherty!search, search, Dougherty!reading, reading,
                Dougherty!walk, walk, Moves
  <2> QED
    BY <1>2, <1>3, <1>4, <1>7, <2>1, <2>2 DEF DoughertyPlay, ReadStep, Indices
<1> QED
  BY <1>1, <1>5, <1>6, <1>7 DEF Step

\* Files stay.
LEMMA FilesGrow ==
    ASSUME DiskInv, PlaceInv, Step, NEW d \in Dirs
    PROVE  DOMAIN files[d] \subseteq DOMAIN files'[d]
<1>1. DiskStep
  BY DiskSteps
<1>2. CASE Quiet \/ Tick
  BY <1>2 DEF Quiet, Tick, disk
<1>3. CASE \E e \in Dirs : KillMaker(e) \/ BuildStep(e)
  BY <1>3 DEF KillMaker, BuildStep, MakesUp, MakeDir, OpenFile, CloseFile, With, disk,
     DiskInv, Shape
<1>4. CASE MakeTimeFile
  BY <1>4 DEF MakeTimeFile, With, DiskInv, Shape
<1> QED
  BY <1>1, <1>2, <1>3, <1>4 DEF DiskStep

\* What a game has read of its directory is there after a step.
LEMMA GameDirKept ==
    ASSUME DiskInv, PlaceInv, program' = program, Step, dirname # NoDir, dirname' = dirname
    PROVE  /\ made'[dirname'] = made[dirname] /\ GoodRooms(made[dirname])
           /\ maker[dirname] = "done" => maker'[dirname'] = "done"
           /\ DOMAIN files[dirname] \subseteq DOMAIN files'[dirname']
<1>1. dirname \in Dirs /\ mtime[dirname] # 0
  BY DEF PlaceInv
<1>2. maker[dirname] # "idle"
  BY <1>1 DEF DiskInv, MakerInv
<1> QED
  BY <1>1, <1>2, FilesOf, FilesGrow, RoomsStay

\* No file of a builder is called currentTime.txt.
LEMMA TimeFileNew ==
    ASSUME DiskInv, PlaceInv, program = "dougherty", Step, NEW d \in Dirs,
           CurrentTime \in DOMAIN files'[d], CurrentTime \notin DOMAIN files[d]
    PROVE  MakeTimeFile /\ d = dirname
<1>1. DiskStep
  BY DiskSteps
<1>2. Shape /\ MakerInv(d) /\ DOMAIN files = Dirs
  BY DEF DiskInv, Shape
<1>3. CASE Quiet \/ Tick
  BY <1>3 DEF Quiet, Tick, disk
<1>4. ASSUME NEW e \in Dirs, KillMaker(e) \/ BuildStep(e) PROVE FALSE
  <2>1. e = d
    BY <1>2, <1>4, OthersSame DEF SameDir
  <2>2. KillMaker(d) \/ MakesUp(d) \/ MakeDir(d) => files' = files
    BY DEF KillMaker, MakesUp, MakeDir, disk
  <2>3. ASSUME NEW f, NEW text, OpenFile(d, f) \/ CloseFile(d, f, text) PROVE f = CurrentTime
    BY <1>2, <2>3 DEF OpenFile, CloseFile, With
  <2> DEFINE f == FileName(made[d], count[d] + 1)
  <2>4. f = CurrentTime
    <3>1. OpenFile(d, f) \/ CloseFile(d, f, RoomText(made[d], count[d] + 1))
      BY <1>4, <2>1, <2>2 DEF BuildStep
    <3> HIDE DEF f
    <3> QED
      BY <2>3, <3>1
  <2>5. maker[d] \in {"open", "write"}
    BY <1>4, <2>1, <2>2 DEF BuildStep, OpenFile, CloseFile
  <2>6. GoodRooms(made[d]) /\ count[d] + 1 \in Indices
    BY <1>2, <2>5, Constants DEF MakerInv, Shape, Indices
  <2> QED
    BY <2>4, <2>6, NoTimeFileName
<1>5. CASE MakeTimeFile
  BY <1>2, <1>5 DEF MakeTimeFile
<1> QED
  BY <1>1, <1>3, <1>4, <1>5 DEF DiskStep

\* A time file is made by a game that has found all the other files.
LEMMA StepTimeFile ==
    ASSUME DiskInv, PlaceInv, TimeFileInv, program' = program, Step PROVE TimeFileInv'
<1> SUFFICES ASSUME program = "dougherty"
             PROVE  /\ \A d \in Dirs : CurrentTime \in DOMAIN files'[d] =>
                          \A k \in Indices : made'[d][k].name \in DOMAIN files'[d]
                    /\ pc' \in {"read", "play"} =>
                          \A k \in Indices : made'[dirname'][k].name \in DOMAIN files'[dirname']
  BY DEF TimeFileInv
<1>1. ASSUME pc \in {"read", "play"}, dirname' = dirname, NEW k \in Indices
      PROVE  made'[dirname'][k].name \in DOMAIN files'[dirname']
  <2>1. made[dirname][k].name \in DOMAIN files[dirname] /\ dirname # NoDir
    BY <1>1 DEF TimeFileInv, PlaceInv
  <2> QED
    BY <1>1, <2>1, GameDirKept
<1>2. ASSUME NEW d \in Dirs, CurrentTime \in DOMAIN files'[d], NEW k \in Indices
      PROVE  made'[d][k].name \in DOMAIN files'[d]
  <2>1. CASE CurrentTime \in DOMAIN files[d]
    <3>1. maker[d] # "idle"
      BY <2>1 DEF DiskInv, MakerInv
    <3>2. made'[d] = made[d]
      BY <3>1, RoomsStay
    <3>3. made[d][k].name \in DOMAIN files[d]
      BY <2>1 DEF TimeFileInv
    <3> QED
      BY <3>2, <3>3, FilesGrow
  <2>2. CASE CurrentTime \notin DOMAIN files[d]
    <3>1. MakeTimeFile /\ d = dirname
      BY <1>2, <2>2, TimeFileNew
    <3>2. pc = "play" /\ dirname' = dirname
      BY <3>1 DEF MakeTimeFile, search
    <3> QED
      BY <1>1, <3>1, <3>2
  <2> QED
    BY <2>1, <2>2
<1>3. ASSUME pc' \in {"read", "play"}, NEW k \in Indices
      PROVE  made'[dirname'][k].name \in DOMAIN files'[dirname']
  <2>1. ReadStep
    BY ReadSteps DEF DiskInv
  <2>2. CASE Dougherty!getRoomNames
    <3>1. pc' = "read" /\ dirname' = dirname /\ dirname # NoDir
      BY <1>3, <2>2, DoughertyOpens DEF search
    <3>2. made[dirname][k].name \in DOMAIN files[dirname]
      BY <2>2, <3>1, DoughertyStarts
    <3> QED
      BY <3>1, <3>2, GameDirKept
  <2>3. ASSUME NEW i \in Indices, Dougherty!formRooms(i)
        PROVE  pc = "read" /\ dirname' = dirname
    BY <2>3 DEF Dougherty!formRooms, Dougherty!search
  <2>4. CASE ~Dougherty!getRoomNames
    <3>1. pc \in {"read", "play"} /\ dirname' = dirname
      BY <1>3, <2>1, <2>3, <2>4 DEF ReadStep, Starts, Moves, search
    <3> QED
      BY <1>1, <3>1
  <2> QED
    BY <2>2, <2>4
<1> QED
  BY <1>2, <1>3

\* What has been read, after a step.
LEMMA Primed ==
    /\ LuuRead(rooms, listing, whole, made[dirname])' <=>
       LuuRead(rooms', listing', whole', made'[dirname'])
    /\ SuhRead(rooms, listing, whole, made[dirname])' <=>
       SuhRead(rooms', listing', whole', made'[dirname'])
    /\ DoughertyRead(rooms, listing, whole, made[dirname])' <=>
       DoughertyRead(rooms', listing', whole', made'[dirname'])
<1>1. LuuRead(rooms, listing, whole, made[dirname])' <=>
      LuuRead(rooms', listing', whole', made'[dirname'])
  BY DEF LuuRead, NamesDiffer, Fresh, Built, Ways, Links
<1>2. SuhRead(rooms, listing, whole, made[dirname])' <=>
      SuhRead(rooms', listing', whole', made'[dirname'])
  BY DEF SuhRead, NamesDiffer, Built, Ways, Links
<1>3. DoughertyRead(rooms, listing, whole, made[dirname])' <=>
      DoughertyRead(rooms', listing', whole', made'[dirname'])
  BY DEF DoughertyRead, NamesDiffer, Blank, Built, Ways, Links
<1> QED
  BY <1>1, <1>2, <1>3

\* No rooms are read before the directory is open.
LEMMA NothingRead ==
    ASSUME NEW made_, NEW left, NEW all
    PROVE  /\ (all => \A k \in Indices : k \in left) => LuuRead(<<>>, left, all, made_)
           /\ (all => \A k \in Indices : made_[k].name \in left) =>
                 SuhRead(<<>>, left, all, made_)
<1>1. /\ <<>> \in Seq(Room(Types, DOMAIN <<>>)) /\ <<>> \in Seq(Room(Types, Names))
      /\ DOMAIN <<>> = {}
  OBVIOUS
<1> QED
  BY <1>1 DEF LuuRead, SuhRead, NamesDiffer

\* Nothing has been read at first.
LEMMA InitRead == Init => FinishedInv /\ ReadInv
<1>1. ASSUME pc = "start", whole = FALSE, rooms = <<>>, path = <<>>, capacity = NUM_ROOMS
      PROVE  FinishedInv /\ ReadInv
  BY <1>1 DEF FinishedInv, ReadInv
<1>2. Suh!Init => FinishedInv /\ ReadInv
  BY <1>1 DEF Suh!Init, Suh!InitWorld
<1>3. Luu!Init => FinishedInv /\ ReadInv
  BY <1>1 DEF Luu!Init, Luu!InitWorld
<1>4. Dougherty!Init => FinishedInv /\ ReadInv
  BY <1>1 DEF Dougherty!Init, Dougherty!InitWorld
<1> QED
  BY <1>2, <1>3, <1>4 DEF Init

\* A step keeps what is known of a finished directory.
LEMMA StepFinished ==
    ASSUME DiskInv, PlaceInv, FinishedInv, program' = program, Step PROVE FinishedInv'
<1>1. ReadStep
  BY ReadSteps DEF DiskInv
<1>2. dirname # NoDir /\ dirname' = dirname =>
         (maker[dirname] = "done" => maker'[dirname'] = "done")
  BY GameDirKept
<1>3. CASE UNCHANGED <<pc, search, reading, walk>>
  BY <1>2, <1>3 DEF FinishedInv, search, reading, walk
<1>4. CASE pc' \in {"start", "over"} /\ NoGame
  BY <1>4 DEF FinishedInv, NoGame
<1>5. CASE pc \in {"start", "search"} /\ pc' = "search" /\ UNCHANGED <<reading, walk>>
  BY <1>5 DEF FinishedInv, reading, walk
<1>6. CASE OpenChosen
  BY <1>2, <1>6 DEF FinishedInv, OpenChosen, search, walk, makers
<1>7. CASE program = "dougherty" /\ Dougherty!getRoomNames
  <2>1. /\ pc = "search" /\ pc' \in {"read", "undefined"}
        /\ whole' = (dirname # NoDir /\ maker[dirname] = "done")
        /\ UNCHANGED <<search, walk, makers>>
    BY <1>7 DEF Dougherty!getRoomNames, Dougherty!search, search, Dougherty!walk, walk,
                Dougherty!makers, makers
  <2> QED
    BY <2>1 DEF FinishedInv, search, walk, makers
<1>8. ASSUME pc = "read", pc' \in {"read", "undefined"}, UNCHANGED <<search, whole, walk>>
      PROVE  FinishedInv'
  BY <1>2, <1>8 DEF FinishedInv, search, walk
<1>9. CASE program = "suh" /\ \E f \in listing : Suh!ReadFile(f)
  BY <1>8, <1>9 DEF Suh!ReadFile, Suh!search, search, Suh!walk, walk
<1>10. CASE program = "luu" /\ \E f \in listing : Luu!ReadRoomFromFile(f)
  BY <1>8, <1>10 DEF Luu!ReadRoomFromFile, Luu!search, search, Luu!walk, walk
<1>11. CASE program = "dougherty" /\ \E i \in Indices : Dougherty!formRooms(i)
  <2>1. PICK i \in Indices : Dougherty!formRooms(i)
    BY <1>11
  <2>2. pc = "read" /\ pc' \in {"read", "undefined"} /\ UNCHANGED <<search, whole, walk>>
    BY <2>1 DEF Dougherty!formRooms, Dougherty!search, search, Dougherty!walk, walk
  <2> QED
    BY <1>8, <2>2
<1>12. CASE Starts
  BY <1>2, <1>12 DEF Starts, FinishedInv, search, reading
<1>13. CASE Moves
  BY <1>2, <1>13 DEF Moves, FinishedInv, search, reading
<1> QED
  BY <1>1, <1>3, <1>4, <1>5, <1>6, <1>7, <1>9, <1>10, <1>11, <1>12, <1>13 DEF ReadStep

\* A step keeps what is known of the rooms that have been read.
LEMMA StepRead ==
    ASSUME DiskInv, PlaceInv, FinishedInv, TimeFileInv, ReadInv, program' = program, Step
    PROVE  ReadInv'
<1>1. ReadStep
  BY ReadSteps DEF DiskInv
<1> DEFINE made_ == made[dirname]
<1>2. ASSUME dirname' = dirname, dirname # NoDir
      PROVE  /\ made'[dirname'] = made_ /\ GoodRooms(made_)
             /\ DOMAIN files[dirname] \subseteq DOMAIN files'[dirname']
  BY <1>2, GameDirKept
<1> HIDE DEF made_
<1>3. ASSUME pc' \in {"read", "play"} =>
                /\ dirname' = dirname /\ dirname # NoDir
                /\ program = "luu" => LuuRead(rooms', listing', whole', made_)
                /\ program = "suh" => SuhRead(rooms', listing', whole', made_)
                /\ program = "dougherty" => DoughertyRead(rooms', listing', whole', made_)
                /\ program # "dougherty" => listing' \subseteq DOMAIN files[dirname]
      PROVE  ReadInv'
  BY <1>2, <1>3, Primed DEF ReadInv
<1>4. ASSUME pc \in {"read", "play"}, dirname' = dirname, UNCHANGED <<rooms, listing, whole>>
      PROVE  ReadInv'
  BY <1>3, <1>4 DEF ReadInv, PlaceInv, made_
<1>5. CASE UNCHANGED <<pc, search, reading, walk>>
  <2>1. CASE pc \in {"read", "play"}
    BY <1>4, <1>5, <2>1 DEF search, reading
  <2>2. CASE pc \notin {"read", "play"}
    BY <1>5, <2>2 DEF ReadInv
  <2> QED
    BY <2>1, <2>2
<1>6. CASE pc' \in {"start", "over", "search"}
  BY <1>6 DEF ReadInv
<1>7. CASE program # "dougherty" /\ OpenChosen
  <2>1. CASE dirname = NoDir
    BY <1>7, <2>1 DEF OpenChosen, ReadInv
  <2>2. CASE dirname # NoDir
    <3>1. /\ rooms' = <<>> /\ dirname' = dirname /\ listing' = DOMAIN files[dirname]
          /\ whole' = (maker[dirname] = "done")
      BY <1>7, <2>2 DEF OpenChosen, search
    <3>2. dirname \in Dirs /\ mtime[dirname] # 0
      BY <2>2 DEF PlaceInv
    <3>3. whole' => \A k \in Indices : FileName(made_, k) \in listing'
      BY <3>1, <3>2, FilesOf DEF made_
    <3>4. program = "luu" => \A k : FileName(made_, k) = k
      BY DEF FileName
    <3>5. program = "suh" => \A k : FileName(made_, k) = made_[k].name
      BY DEF FileName
    <3> QED
      BY <1>3, <1>7, <2>2, <3>1, <3>3, <3>4, <3>5, NothingRead
  <2> QED
    BY <2>1, <2>2
<1>8. CASE program = "dougherty" /\ Dougherty!getRoomNames
  <2>1. dirname' = dirname /\ (pc' \in {"read", "play"} => pc' = "read" /\ dirname # NoDir)
    BY <1>8, DoughertyOpens DEF search
  <2>2. pc' = "read" => DoughertyRead(rooms', listing', whole', made_)
    BY <1>8, DoughertyStarts DEF made_
  <2> QED
    BY <1>3, <1>8, <2>1, <2>2
<1>9. ASSUME program = "suh", NEW f \in listing, Suh!ReadFile(f) PROVE ReadInv'
  <2>1. /\ pc = "read" /\ dirname' = dirname /\ listing' = listing \ {f} /\ whole' = whole
        /\ dirname \in Dirs /\ dirname # NoDir /\ mtime[dirname] # 0
        /\ SuhRead(rooms, listing, whole, made_) /\ f \in DOMAIN files[dirname]
        /\ listing \subseteq DOMAIN files[dirname]
    BY <1>9 DEF Suh!ReadFile, Suh!search, PlaceInv, ReadInv, made_
  <2>2. GoodRooms(made_)
    BY <1>2, <2>1
  <2> DEFINE text == files[dirname][f]
  <2>3. CASE f = CurrentTime
    <3>1. rooms' = rooms
      BY <1>9, <2>3 DEF Suh!ReadFile, Suh!Skipped, Suh!CurrentTime, CurrentTime
    <3>2. \A k \in Indices : made_[k].name # f
      BY <1>9, <2>2, <2>3, NoTimeFileName DEF FileName
    <3>3. SuhRead(rooms, listing \ {f}, whole, made_)
      BY <2>1, <3>2 DEF SuhRead
    <3> QED
      BY <1>3, <1>9, <2>1, <3>1, <3>3
  <2>4. CASE f # CurrentTime /\ text.kind = "room"
    <3>1. PICK k \in Indices : f = made_[k].name /\ text \in {RoomText(made_, k), EmptyText}
      BY <1>9, <2>1, <2>4, FilesOf DEF FileName, made_
    <3>2. text = RoomText(made_, k)
      BY <2>4, <3>1 DEF EmptyText
    <3>3. rooms' = Append(rooms, [name |-> text.name, type |-> text.type, outs |-> text.outs])
      BY <1>9, <2>4 DEF Suh!ReadFile, Suh!Skipped, Suh!CurrentTime, CurrentTime
    <3> HIDE DEF text
    <3>4. SuhRead(rooms', listing \ {f}, whole, made_)
      BY <2>1, <2>2, <3>1, <3>2, <3>3, SuhFile
    <3> QED
      BY <1>3, <1>9, <2>1, <3>4
  <2>5. CASE f # CurrentTime /\ text.kind # "room"
    BY <1>9, <2>5 DEF Suh!ReadFile, Suh!Skipped, Suh!CurrentTime, CurrentTime, ReadInv
  <2> QED
    BY <2>3, <2>4, <2>5
<1>10. ASSUME program = "luu", NEW f \in listing, Luu!ReadRoomFromFile(f) PROVE ReadInv'
  <2>1. /\ pc = "read" /\ dirname' = dirname /\ listing' = listing \ {f} /\ whole' = whole
        /\ dirname \in Dirs /\ dirname # NoDir /\ mtime[dirname] # 0
        /\ LuuRead(rooms, listing, whole, made_) /\ f \in DOMAIN files[dirname]
        /\ listing \subseteq DOMAIN files[dirname]
    BY <1>10 DEF Luu!ReadRoomFromFile, Luu!search, PlaceInv, ReadInv, made_
  <2>2. GoodRooms(made_)
    BY <1>2, <2>1
  <2> DEFINE text == files[dirname][f]
  <2>3. PICK k \in Indices : f = k /\ text \in {RoomText(made_, k), EmptyText}
    BY <1>10, <2>1, FilesOf DEF FileName, made_
  <2>4. CASE text = RoomText(made_, k)
    <3>1. rooms' = Luu!WithFile(rooms, RoomText(made_, k))
      BY <1>10, <2>4 DEF Luu!ReadRoomFromFile, RoomText
    <3>2. LuuRead(rooms', listing \ {k}, whole, made_)
      BY <2>1, <2>2, <2>3, <3>1, LuuFile
    <3> QED
      BY <1>3, <1>10, <2>1, <2>3, <3>2
  <2>5. CASE text = EmptyText
    <3>1. rooms' = rooms
      BY <1>10, <2>5 DEF Luu!ReadRoomFromFile, EmptyText
    <3>2. ~whole
      <4>1. whole => files[dirname][FileName(made_, k)] = RoomText(made_, k)
        BY <2>1, FilesOf DEF FinishedInv, made_
      <4>2. RoomText(made_, k) # EmptyText
        BY DEF RoomText, EmptyText
      <4> QED
        BY <1>10, <2>3, <2>5, <4>1, <4>2 DEF FileName
    <3>3. LuuRead(rooms, listing \ {f}, whole, made_)
      BY <2>1, <3>2 DEF LuuRead
    <3> QED
      BY <1>3, <1>10, <2>1, <3>1, <3>3
  <2> QED
    BY <2>3, <2>4, <2>5
<1>11. ASSUME program = "dougherty", NEW i \in Indices, Dougherty!formRooms(i) PROVE ReadInv'
  <2>1. /\ pc = "read" /\ dirname' = dirname /\ listing' = listing \ {i} /\ whole' = whole
        /\ dirname \in Dirs /\ dirname # NoDir /\ mtime[dirname] # 0
    BY <1>11 DEF Dougherty!formRooms, Dougherty!search, PlaceInv
  <2>2. DoughertyRead(rooms, listing, whole, made_)
    BY <1>11, <2>1 DEF ReadInv, made_
  <2>3. GoodRooms(made_)
    BY <1>2, <2>1
  <2>4. ASSUME NEW k \in Indices
        PROVE  \/ files[dirname][made_[k].name] = RoomText(made_, k)
               \/ files[dirname][made_[k].name] = EmptyText /\ ~whole
    <3>1. made_[k].name \in DOMAIN files[dirname] /\ FileName(made_, k) = made_[k].name
      BY <1>11, <2>1 DEF TimeFileInv, FileName, made_
    <3>2. made_[k].name # CurrentTime
      BY <1>11, <2>3, <3>1, NoTimeFileName
    <3>3. PICK j \in Indices : /\ made_[k].name = FileName(made_, j)
                               /\ files[dirname][made_[k].name] \in {RoomText(made_, j), EmptyText}
      BY <2>1, <3>1, <3>2, FilesOf DEF made_
    <3>4. j = k
      BY <2>3, <3>1, <3>3, FileNamesDiffer
    <3>5. whole => files[dirname][made_[k].name] = RoomText(made_, k)
      BY <2>1, <3>1, FilesOf DEF FinishedInv, made_
    <3> QED
      BY <3>3, <3>4, <3>5
  <2>5. DoughertyRead(rooms', listing \ {i}, whole, made_)
    BY <1>11, <2>2, <2>3, <2>4, DoughertyFile
  <2> QED
    BY <1>3, <1>11, <2>1, <2>5
<1>12. CASE Starts
  BY <1>4, <1>12 DEF Starts, search, reading
<1>13. CASE Moves
  BY <1>4, <1>13 DEF Moves, search, reading
<1> QED
  BY <1>1, <1>5, <1>6, <1>7, <1>8, <1>9, <1>10, <1>11, <1>12, <1>13 DEF ReadStep

Known(rs, made_) == \A i \in DOMAIN rs : \E k \in Indices : rs[i].name = made_[k].name

\* Rooms with the names of rooms that were made up are not more than those.
LEMMA NotMore ==
    ASSUME NEW rs, NEW n \in Nat, DOMAIN rs = 1 .. n, NamesDiffer(rs),
           NEW made_, Known(rs, made_)
    PROVE  n =< NUM_ROOMS
<1> DEFINE f == [i \in 1 .. n |-> CHOOSE k \in Indices : rs[i].name = made_[k].name]
<1>1. \A i \in 1 .. n : f[i] \in Indices /\ rs[i].name = made_[f[i]].name
  BY DEF Known
<1>2. f \in [1 .. n -> Indices]
  BY <1>1
<1> HIDE DEF f
<1>3. f \in Injection(1 .. n, Indices)
  BY <1>1, <1>2 DEF Injection, IsInjective, NamesDiffer
<1>4. Cardinality(1 .. n) =< Cardinality(Indices)
  BY <1>3, IndicesFinite, FS_Injection
<1>5. Cardinality(1 .. n) = n
  BY FS_Interval
<1> QED
  BY <1>4, <1>5, IndicesFinite

\* And not less, if all the names are there.
LEMMA NotLess ==
    ASSUME NEW rs, NEW n \in Nat, DOMAIN rs = 1 .. n, NEW made_, GoodRooms(made_),
           \A k \in Indices : \E i \in DOMAIN rs : rs[i].name = made_[k].name
    PROVE  NUM_ROOMS =< n
<1> DEFINE f == [k \in Indices |-> CHOOSE i \in 1 .. n : rs[i].name = made_[k].name]
<1>1. \A k \in Indices : f[k] \in 1 .. n /\ rs[f[k]].name = made_[k].name
  OBVIOUS
<1>2. f \in [Indices -> 1 .. n]
  BY <1>1
<1> HIDE DEF f
<1>3. ASSUME NEW i \in Indices, NEW j \in Indices, f[i] = f[j] PROVE i = j
  <2>1. made_[i].name = made_[j].name
    BY <1>1, <1>3
  <2> QED
    BY <2>1 DEF GoodRooms
<1>4. f \in Injection(Indices, 1 .. n)
  BY <1>2, <1>3 DEF Injection, IsInjective
<1>5. IsFiniteSet(1 .. n) /\ Cardinality(1 .. n) = n
  BY FS_Interval
<1>6. Cardinality(Indices) =< Cardinality(1 .. n)
  BY <1>4, <1>5, FS_Injection
<1> QED
  BY <1>5, <1>6, IndicesFinite

\* The rooms that have been read are those of an array.
LEMMA RoomsCount ==
    ASSUME DiskInv, FinishedInv, ReadInv, pc # "undefined"
    PROVE  Len(rooms) \in Nat /\ DOMAIN rooms = 1 .. Len(rooms)
<1>1. CASE pc \in {"start", "search", "over"}
  BY <1>1 DEF FinishedInv
<1>2. CASE pc \in {"read", "play"} /\ program = "luu"
  BY <1>2 DEF ReadInv, LuuRead
<1>3. CASE pc \in {"read", "play"} /\ program = "suh"
  BY <1>3 DEF ReadInv, SuhRead
<1>4. CASE pc \in {"read", "play"} /\ program = "dougherty"
  <2>1. rooms \in [1 .. NUM_ROOMS -> Room(Types \cup {"unset"}, Indices)]
    BY <1>4 DEF ReadInv, DoughertyRead, Indices
  <2> QED
    BY <2>1, Constants
<1> QED
  BY <1>1, <1>2, <1>3, <1>4 DEF DiskInv, ProgramInv

\* The array of rooms has an end while the game reads and is played.
LEMMA RoomsFit ==
    ASSUME DiskInv, PlaceInv, ReadInv, pc \in {"read", "play"}
    PROVE  Len(rooms) =< NUM_ROOMS
<1>1. dirname \in Dirs /\ mtime[dirname] # 0
  BY DEF PlaceInv
<1>2. CASE program = "luu"
  <2>1. LuuRead(rooms, listing, whole, made[dirname])
    BY <1>2 DEF ReadInv
  <2>2. Len(rooms) \in Nat /\ DOMAIN rooms = 1 .. Len(rooms)
    BY <2>1 DEF LuuRead
  <2>3. NamesDiffer(rooms)
    BY <2>1 DEF LuuRead
  <2>4. Known(rooms, made[dirname])
    BY <2>1 DEF LuuRead, Known
  <2> QED
    BY <2>2, <2>3, <2>4, NotMore
<1>3. CASE program = "suh"
  <2>1. SuhRead(rooms, listing, whole, made[dirname])
    BY <1>3 DEF ReadInv
  <2>2. Len(rooms) \in Nat /\ DOMAIN rooms = 1 .. Len(rooms)
    BY <2>1 DEF SuhRead
  <2>3. Known(rooms, made[dirname])
    BY <2>1 DEF SuhRead, Built, Known
  <2>4. NamesDiffer(rooms)
    BY <2>1 DEF SuhRead
  <2> QED
    BY <2>2, <2>3, <2>4, NotMore
<1>4. CASE program = "dougherty"
  <2>1. rooms \in [1 .. NUM_ROOMS -> Room(Types \cup {"unset"}, Indices)]
    BY <1>4 DEF ReadInv, DoughertyRead, Indices
  <2>2. Len(rooms) = NUM_ROOMS
    BY <2>1, Constants
  <2> QED
    BY <2>2, Constants
<1> QED
  BY <1>2, <1>3, <1>4 DEF DiskInv, ProgramInv

\* When a game has read the whole of a finished directory it has all of its
\* rooms and no others.
AllRead(p, rs, made_) ==
    /\ DOMAIN rs = Indices /\ Len(rs) = NUM_ROOMS /\ NamesDiffer(rs)
    /\ \A k \in Indices : \E i \in Indices : Built(p, rs, i, made_, k)
    /\ \A i \in Indices : \E k \in Indices : Built(p, rs, i, made_, k)
    /\ p # "suh" => \A i \in Indices : rs[i].outs \in Seq(Indices)

\* The rooms of a finished directory have all been read.
LEMMA ReadingDone ==
    ASSUME DiskInv, PlaceInv, ReadInv, pc \in {"read", "play"}, listing = {}, whole
    PROVE  GoodRooms(made[dirname]) /\ AllRead(program, rooms, made[dirname])
<1> DEFINE made_ == made[dirname]
<1>1. dirname \in Dirs /\ mtime[dirname] # 0 /\ GoodRooms(made_)
  BY FilesOf DEF PlaceInv
<1> HIDE DEF made_
<1>2. ASSUME NEW n \in Nat, DOMAIN rooms = 1 .. n, Len(rooms) = n, NamesDiffer(rooms),
             \A k \in Indices : \E i \in DOMAIN rooms : Built(program, rooms, i, made_, k),
             Known(rooms, made_),
             program # "suh" => \A i \in DOMAIN rooms : rooms[i].outs \in Seq(DOMAIN rooms)
      PROVE  AllRead(program, rooms, made_)
  <2>1. \A k \in Indices : \E i \in DOMAIN rooms : rooms[i].name = made_[k].name
    BY <1>2 DEF Built
  <2>2. n = NUM_ROOMS
    <3>1. n =< NUM_ROOMS
      BY <1>2, NotMore
    <3>2. NUM_ROOMS =< n
      BY <1>1, <1>2, <2>1, NotLess
    <3> QED
      BY <3>1, <3>2, Constants
  <2>3. DOMAIN rooms = Indices
    BY <1>2, <2>2 DEF Indices
  <2>4. ASSUME NEW i \in Indices PROVE \E k \in Indices : Built(program, rooms, i, made_, k)
    <3>1. PICK k \in Indices : rooms[i].name = made_[k].name
      BY <1>2, <2>3 DEF Known
    <3>2. PICK j \in Indices : Built(program, rooms, j, made_, k)
      BY <1>2, <2>3
    <3>3. rooms[j].name = rooms[i].name
      BY <3>1, <3>2 DEF Built
    <3>4. j = i
      BY <1>2, <2>3, <3>3 DEF NamesDiffer
    <3> QED
      BY <3>2, <3>4
  <2> QED
    BY <1>2, <2>2, <2>3, <2>4 DEF AllRead
<1>3. CASE program = "luu"
  <2>1. LuuRead(rooms, {}, TRUE, made_)
    BY <1>3 DEF ReadInv, made_
  <2>2. /\ Len(rooms) \in Nat /\ DOMAIN rooms = 1 .. Len(rooms)
        /\ \A i \in DOMAIN rooms : rooms[i].outs \in Seq(DOMAIN rooms)
    <3>1. rooms \in Seq(Room(Types, DOMAIN rooms))
      BY <2>1 DEF LuuRead
    <3>2. Len(rooms) \in Nat /\ DOMAIN rooms = 1 .. Len(rooms)
      BY <3>1
    <3>3. \A i \in DOMAIN rooms : rooms[i] \in Room(Types, DOMAIN rooms)
      BY <3>1
    <3> QED
      BY <3>2, <3>3 DEF Room
  <2>3. Known(rooms, made_)
    BY <2>1 DEF LuuRead, Known
  <2>4. /\ NamesDiffer(rooms)
        /\ \A k \in Indices : \E i \in DOMAIN rooms : Built(program, rooms, i, made_, k)
    BY <1>3, <2>1 DEF LuuRead
  <2>5. AllRead(program, rooms, made_)
    BY <1>2, <2>2, <2>3, <2>4
  <2> QED
    BY <1>1, <2>5 DEF made_
<1>4. CASE program = "suh"
  <2>1. SuhRead(rooms, {}, TRUE, made_)
    BY <1>4 DEF ReadInv, made_
  <2>2. Len(rooms) \in Nat /\ DOMAIN rooms = 1 .. Len(rooms)
    BY <2>1 DEF SuhRead
  <2>3. Known(rooms, made_)
    BY <2>1 DEF SuhRead, Built, Known
  <2>4. /\ NamesDiffer(rooms)
        /\ \A k \in Indices : \E i \in DOMAIN rooms : Built(program, rooms, i, made_, k)
    BY <1>4, <2>1 DEF SuhRead
  <2>5. AllRead(program, rooms, made_)
    BY <1>2, <1>4, <2>2, <2>3, <2>4
  <2> QED
    BY <1>1, <2>5 DEF made_
<1>5. CASE program = "dougherty"
  <2>1. DoughertyRead(rooms, {}, TRUE, made_)
    BY <1>5 DEF ReadInv, made_
  <2>2. /\ rooms \in [Indices -> Room(Types \cup {"unset"}, Indices)] /\ NamesDiffer(rooms)
        /\ \A i \in Indices : \E k \in Indices : /\ rooms[i].name = made_[k].name
                                                 /\ Built("dougherty", rooms, i, made_, k)
        /\ \A k \in Indices : \E i \in Indices : rooms[i].name = made_[k].name
    BY <2>1 DEF DoughertyRead, Blank
  <2>3. /\ DOMAIN rooms = 1 .. NUM_ROOMS /\ Len(rooms) = NUM_ROOMS /\ NUM_ROOMS \in Nat
        /\ Indices = DOMAIN rooms
    BY <2>2, Constants DEF Indices
  <2>4. \A i \in DOMAIN rooms : rooms[i].outs \in Seq(DOMAIN rooms)
    BY <2>2, <2>3 DEF Room
  <2>5. ASSUME NEW k \in Indices PROVE \E i \in DOMAIN rooms : Built(program, rooms, i, made_, k)
    <3>1. PICK i \in Indices : rooms[i].name = made_[k].name
      BY <2>2
    <3>2. PICK l \in Indices : /\ rooms[i].name = made_[l].name
                               /\ Built("dougherty", rooms, i, made_, l)
      BY <2>2
    <3>3. l = k
      BY <1>1, <3>1, <3>2 DEF GoodRooms
    <3> QED
      BY <1>5, <2>3, <3>2, <3>3
  <2>6. Known(rooms, made_)
    BY <2>2, <2>3 DEF Known
  <2>7. AllRead(program, rooms, made_)
    BY <1>2, <2>2, <2>3, <2>4, <2>5, <2>6
  <2> QED
    BY <1>1, <2>7 DEF made_
<1> QED
  BY <1>3, <1>4, <1>5 DEF DiskInv, ProgramInv

\* The START_ROOM is among them, once.
LEMMA StartThere ==
    ASSUME NEW p, NEW rs, NEW made_, GoodRooms(made_), AllRead(p, rs, made_)
    PROVE  \E s \in Indices : \A i \in Indices : rs[i].type = "START_ROOM" <=> i = s
<1>1. PICK b \in Indices : \A k \in Indices : made_[k].type = "START_ROOM" <=> k = b
  BY DEF GoodRooms
<1>2. PICK s \in Indices : Built(p, rs, s, made_, b)
  BY DEF AllRead
<1>3. rs[s].type = "START_ROOM"
  BY <1>1, <1>2 DEF Built
<1>4. ASSUME NEW i \in Indices, rs[i].type = "START_ROOM" PROVE i = s
  <2>1. PICK k \in Indices : Built(p, rs, i, made_, k)
    BY DEF AllRead
  <2>2. k = b
    BY <1>1, <1>4, <2>1 DEF Built
  <2>3. rs[i].name = rs[s].name
    BY <1>2, <2>1, <2>2 DEF Built
  <2> QED
    BY <2>3 DEF AllRead, NamesDiffer
<1> QED
  BY <1>3, <1>4

\* With all rooms of a finished directory, the game is played: Luu's and
\* Suh's always.
LEMMA StepUndefined ==
    ASSUME DiskInv, PlaceInv, FinishedInv, ReadInv, UndefinedInv, program' = program, Step
    PROVE  UndefinedInv'
<1>1. ReadStep
  BY ReadSteps DEF DiskInv
<1>0. pc \in {"read", "play"} => Len(rooms) \in Nat /\ Len(rooms) =< NUM_ROOMS
  BY RoomsCount, RoomsFit
<1>2. CASE UNCHANGED <<pc, search, reading, walk>>
  <2>1. dirname' = dirname /\ rooms' = rooms /\ whole' = whole /\ pc' = pc
    BY <1>2 DEF search, reading
  <2>2. dirname # NoDir => DOMAIN files[dirname] \subseteq DOMAIN files'[dirname']
    BY <2>1, GameDirKept
  <2> QED
    BY <2>1, <2>2 DEF UndefinedInv
<1>3. CASE pc' # "undefined"
  BY <1>3 DEF UndefinedInv
<1>4. CASE program # "dougherty" /\ OpenChosen
  BY <1>4, Constants DEF OpenChosen, FinishedInv, UndefinedInv
<1>5. CASE program = "dougherty" /\ Dougherty!getRoomNames
  <2>1. dirname' = dirname
    BY <1>5 DEF Dougherty!getRoomNames, Dougherty!search
  <2>2. dirname # NoDir => DOMAIN files[dirname] \subseteq DOMAIN files'[dirname']
    BY <2>1, GameDirKept
  <2>3. /\ Len(rooms') \in Nat /\ Len(rooms') =< NUM_ROOMS + 1
        /\ Len(rooms') > NUM_ROOMS => dirname # NoDir /\ CurrentTime \in DOMAIN files[dirname]
    BY <1>5, DoughertyCounts
  <2> QED
    BY <1>5, <2>1, <2>2, <2>3, Constants DEF UndefinedInv
<1>6. ASSUME program = "suh", NEW f \in listing, Suh!ReadFile(f), pc' = "undefined"
      PROVE  UndefinedInv'
  <2>1. /\ pc = "read" /\ whole' = whole /\ rooms' = rooms
        /\ f # CurrentTime /\ files[dirname][f].kind # "room"
    BY <1>6 DEF Suh!ReadFile, Suh!Skipped, Suh!CurrentTime, CurrentTime
  <2>2. dirname \in Dirs /\ dirname # NoDir /\ mtime[dirname] # 0 /\ f \in DOMAIN files[dirname]
    BY <1>6, <2>1 DEF PlaceInv, ReadInv
  <2>3. ~whole
    <3>1. SUFFICES ASSUME whole PROVE FALSE
      OBVIOUS
    <3>2. maker[dirname] = "done"
      BY <3>1 DEF FinishedInv
    <3>3. PICK k \in Indices : f = FileName(made[dirname], k)
      BY <2>1, <2>2, FilesOf
    <3>4. files[dirname][f] = RoomText(made[dirname], k)
      BY <2>2, <3>2, <3>3, FilesOf
    <3> QED
      BY <2>1, <3>4 DEF RoomText
  <2> QED
    BY <1>0, <2>1, <2>3, Constants DEF UndefinedInv
<1>7. CASE program = "luu" /\ \E f \in listing : Luu!ReadRoomFromFile(f)
  BY <1>3, <1>7 DEF Luu!ReadRoomFromFile
<1>8. CASE program = "dougherty" /\ \E i \in Indices : Dougherty!formRooms(i)
  BY <1>3, <1>8 DEF Dougherty!formRooms
<1>9. CASE Starts
  <2>1. /\ Len(rooms) \in Nat /\ Len(rooms) =< NUM_ROOMS
        /\ rooms' = rooms /\ whole' = whole
    BY <1>0, <1>9 DEF Starts, reading
  <2>2. ASSUME whole, program # "dougherty", pc' = "undefined" PROVE FALSE
    <3>1. GoodRooms(made[dirname]) /\ AllRead(program, rooms, made[dirname])
      BY <1>9, <2>2, ReadingDone DEF Starts
    <3>2. \E s \in Indices : rooms[s].type = "START_ROOM"
      BY <3>1, StartThere
    <3>3. DOMAIN rooms = Indices
      BY <3>1 DEF AllRead
    <3> QED
      BY <1>9, <2>2, <3>2, <3>3 DEF Starts
  <2> QED
    BY <2>1, <2>2, Constants DEF UndefinedInv
<1>10. CASE Moves
  <2>1. /\ Len(rooms) \in Nat /\ Len(rooms) =< NUM_ROOMS
        /\ rooms' = rooms /\ whole' = whole /\ (program # "dougherty" => pc' = "play")
    BY <1>0, <1>10 DEF Moves, reading
  <2> QED
    BY <2>1, Constants DEF UndefinedInv
<1>11. pc' \in {"start", "over", "search"} => UndefinedInv'
  BY <1>3
<1> QED
  BY <1>1, <1>2, <1>3, <1>4, <1>5, <1>6, <1>7, <1>8, <1>9, <1>10, <1>11 DEF ReadStep

-----------------------------------------------------------------------------
\* Luu's array for the path grows before it is full.
LEMMA PathGrows ==
    ASSUME NEW x \in Nat, CapacityInv, program = "luu", Luu!PushBackDynIntArr(x)
    PROVE  path' \in Seq(Nat) /\ Len(path') =< capacity' /\ capacity' \in Nat \ {0}
<1>1. path \in Seq(Nat) /\ Len(path) =< capacity /\ capacity \in Nat \ {0} /\ Len(path) \in Nat
  BY DEF CapacityInv
<1>2. path' = Append(path, x) /\ Len(path') = Len(path) + 1 /\ path' \in Seq(Nat)
  BY <1>1 DEF Luu!PushBackDynIntArr
<1>3. capacity' = IF Len(path) = capacity THEN 2 * capacity ELSE capacity
  BY DEF Luu!PushBackDynIntArr
<1> QED
  BY <1>1, <1>2, <1>3

\* The least of a set of positions.
LEMMA Least ==
    ASSUME NEW S, S \subseteq Nat, S # {}
    PROVE  \E i \in S : \A j \in S : i =< j
<1>1. PICK x \in S : \A y \in S : ~(<<y, x>> \in OpToRel(<, Nat))
  BY NatLessThanWellFounded, WFMin, Zenon
<1>2. ASSUME NEW y \in S, y < x PROVE FALSE
  <2>1. x \in Nat /\ y \in Nat
    OBVIOUS
  <2>2. <<y, x>> \in OpToRel(<, Nat)
    BY <1>2, <2>1 DEF OpToRel
  <2> QED
    BY <1>1, <2>2
<1> QED
  BY <1>2

\* The first START_ROOM.
LEMMA LuuStarts ==
    ASSUME DiskInv, PlaceInv, ReadInv, program = "luu", Luu!StartPlaying, pc' = "play"
    PROVE  /\ current' \in DOMAIN rooms /\ current' \in Nat /\ rooms[current'].type = "START_ROOM"
           /\ Luu!PushBackDynIntArr(current')
<1> DEFINE S == Luu!FindStartRoomIndex
<1>1. LuuRead(rooms, listing, whole, made[dirname])
  BY DEF Luu!StartPlaying, ReadInv
<1>2. S = {i \in DOMAIN rooms : rooms[i].type = "START_ROOM"}
  BY DEF Luu!FindStartRoomIndex
<1>3. DOMAIN rooms \subseteq Nat
  BY <1>1 DEF LuuRead
<1>4. /\ S # {} /\ current' = CHOOSE i \in S : \A j \in S : i =< j
      /\ Luu!PushBackDynIntArr(current')
  BY DEF Luu!StartPlaying
<1> HIDE DEF S
<1>5. \E i \in S : \A j \in S : i =< j
  BY <1>2, <1>3, <1>4, Least
<1>6. current' \in S
  BY <1>4, <1>5
<1> QED
  BY <1>2, <1>3, <1>4, <1>6

\* The room a player of Luu's game goes to.
LEMMA LuuMoves ==
    ASSUME DiskInv, PlaceInv, ReadInv, program = "luu", NEW name, Luu!PlayGame(name)
    PROVE  /\ current' \in DOMAIN rooms /\ current' \in Nat /\ rooms[current'].name = name
           /\ \E i \in DOMAIN rooms[current].outs : rooms[rooms[current].outs[i]].name = name
           /\ Luu!PushBackDynIntArr(current')
<1>1. LuuRead(rooms, listing, whole, made[dirname])
  BY DEF Luu!PlayGame, ReadInv
<1>2. rooms \in Seq(Room(Types, DOMAIN rooms)) /\ NamesDiffer(rooms) /\ DOMAIN rooms \subseteq Nat
  BY <1>1 DEF LuuRead
<1>3. Luu!GetUserInput(name) # 0 /\ current' = Luu!GetUserInput(name)
  BY DEF Luu!PlayGame
<1>4. /\ current' = Luu!FindRoomByName(rooms, name) /\ current' # 0
      /\ \E i \in DOMAIN rooms[current].outs : rooms[rooms[current].outs[i]].name = name
  BY <1>3 DEF Luu!GetUserInput
<1>5. current' \in DOMAIN rooms /\ rooms[current'].name = name
  BY <1>2, <1>4, NameFound
<1> QED
  BY <1>2, <1>4, <1>5 DEF Luu!PlayGame

\* Luu's array for the path has room for it after every step.
LEMMA StepCapacity ==
    ASSUME DiskInv, PlaceInv, FinishedInv, ReadInv, CapacityInv, program' = program, Step
    PROVE  CapacityInv'
<1> SUFFICES ASSUME program = "luu" PROVE CapacityInv'
  BY DEF CapacityInv
<1>1. CASE UNCHANGED walk
  BY <1>1 DEF walk, CapacityInv
<1>2. CASE path' = <<>> /\ capacity' = NUM_ROOMS
  BY <1>2, Constants DEF CapacityInv
<1>3. CASE Luu!StartPlaying
  <2>1. CASE pc' = "play"
    BY <1>3, <2>1, LuuStarts, PathGrows DEF CapacityInv
  <2>2. CASE pc' # "play"
    BY <1>1, <1>3, <2>2 DEF Luu!StartPlaying, Luu!walk, walk
  <2> QED
    BY <2>1, <2>2
<1>4. ASSUME NEW name, Luu!PlayGame(name) PROVE CapacityInv'
  BY <1>4, LuuMoves, PathGrows DEF CapacityInv
<1>5. World \/ (\E d \in Dirs : BuildStep(d)) \/ UNCHANGED vars => CapacityInv'
  BY <1>1, <1>2 DEF World, Tick, PlayAgain, NoGame, KillMaker, BuildStep, MakesUp, MakeDir,
     OpenFile, CloseFile, vars
<1>6. OpenRootFrom(0) \/ OpenChosen \/ EndGame => CapacityInv'
  BY <1>1, <1>2 DEF OpenRootFrom, OpenChosen, EndGame, NoGame
<1>7. ASSUME NEW d \in Dirs, LookAt(d, mtime[d] > newest) PROVE CapacityInv'
  BY <1>1, <1>7 DEF LookAt
<1>8. ASSUME NEW f \in listing, Luu!ReadRoomFromFile(f) PROVE CapacityInv'
  BY <1>1, <1>8 DEF Luu!ReadRoomFromFile, Luu!walk, walk
<1> QED
  BY <1>3, <1>4, <1>5, <1>6, <1>7, <1>8 DEF Step, LuuPlay

\* No game has made a time file at first.
LEMMA InitTimeFile == Init => TimeFileInv
<1>1. ASSUME NEW names, InitWorld(names)
      PROVE  pc = "start" /\ \A d \in Dirs : maker[d] \in {"done", "idle"}
  BY <1>1 DEF InitWorld
<1>2. Dougherty!Init => pc = "start" /\ \A d \in Dirs : maker[d] \in {"done", "idle"}
  BY DEF Dougherty!Init, Dougherty!InitWorld
<1> SUFFICES ASSUME Init, program = "dougherty" PROVE TimeFileInv
  BY DEF TimeFileInv
<1>3. pc = "start" /\ \A d \in Dirs : maker[d] \in {"done", "idle"}
  BY <1>2 DEF Init
<1>4. ASSUME NEW d \in Dirs, CurrentTime \in DOMAIN files[d], NEW k \in Indices
      PROVE  made[d][k].name \in DOMAIN files[d]
  <2>1. MakerInv(d) /\ FileInv(d)
    BY InitDisk DEF DiskInv
  <2>2. count[d] = NUM_ROOMS
    BY <1>3, <1>4, <2>1 DEF MakerInv
  <2> QED
    BY <2>1, <2>2 DEF FileInv, FileName, Indices
<1> QED
  BY <1>3, <1>4 DEF TimeFileInv

GamesInv == /\ DiskInv /\ PlaceInv /\ FinishedInv /\ ReadInv
            /\ TimeFileInv /\ UndefinedInv /\ CapacityInv

\* What a game has read and where it keeps it, in every reachable state.
THEOREM ReadInvariance == Spec => []GamesInv
<1>1. Init => GamesInv
  <2>1. ASSUME pc = "start", path = <<>>, capacity = NUM_ROOMS PROVE UndefinedInv /\ CapacityInv
    BY <2>1, Constants DEF UndefinedInv, CapacityInv
  <2>2. Suh!Init => UndefinedInv /\ CapacityInv
    BY <2>1 DEF Suh!Init, Suh!InitWorld
  <2>3. Luu!Init => UndefinedInv /\ CapacityInv
    BY <2>1 DEF Luu!Init, Luu!InitWorld
  <2>4. Dougherty!Init => UndefinedInv /\ CapacityInv
    BY <2>1 DEF Dougherty!Init, Dougherty!InitWorld
  <2>5. Init => UndefinedInv /\ CapacityInv
    BY <2>2, <2>3, <2>4 DEF Init
  <2> QED
    BY <2>5, InitDisk, InitPlace, InitRead, InitTimeFile DEF GamesInv
<1>2. GamesInv /\ [Next]_mcVars => GamesInv'
  <2> SUFFICES ASSUME GamesInv, [Next]_mcVars PROVE GamesInv'
    OBVIOUS
  <2>1. /\ DiskInv /\ PlaceInv /\ FinishedInv /\ ReadInv
        /\ TimeFileInv /\ UndefinedInv /\ CapacityInv
    BY DEF GamesInv
  <2>2. program' = program /\ Step
    BY StepsOf
  <2>3. DiskInv' /\ PlaceInv'
    BY <2>1, <2>2, StepDisk, StepPlace
  <2>4. FinishedInv' /\ ReadInv'
    BY <2>1, <2>2, StepFinished, StepRead
  <2>5. TimeFileInv' /\ UndefinedInv' /\ CapacityInv'
    BY <2>1, <2>2, StepTimeFile, StepUndefined, StepCapacity
  <2> QED
    BY <2>3, <2>4, <2>5 DEF GamesInv
<1> QED
  BY <1>1, <1>2, PTL DEF Spec

\* In whatever order a directory is listed and whatever state its builder has
\* left it in, Suh's and Luu's games store no more rooms than their arrays have
\* elements, and Luu's array for the path has been made larger before it is
\* full.  Dougherty's stores at most one name behind its array, and only where
\* an earlier game has left its time file.
THEOREM GamesArraysHold == Spec => []ArraysHold
<1>1. GamesInv => ArraysHold
  <2> SUFFICES ASSUME GamesInv PROVE ArraysHold
    OBVIOUS
  <2>1. DiskInv /\ PlaceInv /\ FinishedInv /\ ReadInv /\ UndefinedInv /\ CapacityInv
    BY DEF GamesInv
  <2>2. pc \in {"start", "search", "read", "play", "over", "undefined"}
    BY <2>1 DEF PlaceInv, Pcs
  <2>3. pc \in {"start", "search", "over"} => Len(rooms) = 0
    BY <2>1 DEF FinishedInv
  <2>4. pc # "undefined" => Len(rooms) \in Nat /\ Len(rooms) =< NUM_ROOMS
    BY <2>1, <2>2, <2>3, RoomsFit, RoomsCount, Constants
  <2>5. Len(rooms) > NUM_ROOMS =>
           /\ program = "dougherty" /\ pc = "undefined"
           /\ Len(rooms) = NUM_ROOMS + 1 /\ CurrentTime \in DOMAIN files[dirname]
    BY <2>1, <2>4, Constants DEF UndefinedInv
  <2> QED
    BY <2>1, <2>5 DEF ArraysHold, CapacityInv
<1> QED
  BY <1>1, ReadInvariance, PTL

\* Luu's and Suh's games never come to a state without a meaning in a
\* directory that was finished when they opened it, whatever files an earlier
\* game has left there.
THEOREM FinishedPlayable == Spec => []FinishedIsPlayable
<1>1. GamesInv => FinishedIsPlayable
  BY DEF GamesInv, UndefinedInv, FinishedIsPlayable
<1> QED
  BY <1>1, ReadInvariance, PTL

\* The connections of a room as its program keeps them.
LEMMA WaysOut == ASSUME ProgramInv, NEW i PROVE OutNames(i) = Ways(program, rooms, i)
BY DEF ProgramInv, OutNames, Ways, Links, Suh!OutNames, Luu!OutNames, Dougherty!OutNames

\* The rooms that a game has read from a finished directory are those that
\* the builder made up, with their types and connections, whatever the order
\* of the files (luuph.adventure.c, suhho.adventure.c, dougherm.adventure.c).
THEOREM GameRoomsAsBuilt == Spec => []RoomsAsBuilt
<1>1. GamesInv => RoomsAsBuilt
  <2> SUFFICES ASSUME GamesInv, pc = "play", whole
               PROVE  /\ Len(rooms) = NUM_ROOMS
                      /\ \A k \in 1 .. NUM_ROOMS : \E i \in DOMAIN rooms :
                            RoomText(made[dirname], k) =
                            [kind |-> "room", name |-> rooms[i].name, type |-> rooms[i].type,
                             outs |-> OutNames(i)]
    BY DEF RoomsAsBuilt
  <2>1. DiskInv /\ PlaceInv /\ FinishedInv /\ ReadInv
    BY DEF GamesInv
  <2>2. listing = {} /\ ProgramInv
    BY <2>1 DEF FinishedInv, DiskInv
  <2>3. GoodRooms(made[dirname]) /\ AllRead(program, rooms, made[dirname])
    BY <2>1, <2>2, ReadingDone
  <2>4. ASSUME NEW k \in Indices
        PROVE  \E i \in DOMAIN rooms :
                  RoomText(made[dirname], k) =
                  [kind |-> "room", name |-> rooms[i].name, type |-> rooms[i].type,
                   outs |-> OutNames(i)]
    <3>1. PICK i \in Indices : Built(program, rooms, i, made[dirname], k)
      BY <2>3 DEF AllRead
    <3>2. i \in DOMAIN rooms
      BY <2>3 DEF AllRead
    <3>3. /\ rooms[i].name = made[dirname][k].name /\ rooms[i].type = made[dirname][k].type
          /\ OutNames(i) = Links(made[dirname], k)
      BY <2>2, <3>1, WaysOut DEF Built
    <3>4. RoomText(made[dirname], k) =
            [kind |-> "room", name |-> made[dirname][k].name, type |-> made[dirname][k].type,
             outs |-> Links(made[dirname], k)]
      BY <2>3, RoomsMade
    <3> QED
      BY <3>2, <3>3, <3>4
  <2> QED
    BY <2>3, <2>4 DEF AllRead, Indices
<1> QED
  BY <1>1, ReadInvariance, PTL

-----------------------------------------------------------------------------
(***************************************************************************)
(* The path of the player.                                                 *)
(***************************************************************************)
\* No more than one of the rooms is the START_ROOM.
OneStart(rs) ==
    \A i, j \in DOMAIN rs : rs[i].type = "START_ROOM" /\ rs[j].type = "START_ROOM" => i = j

\* So it is with those that a game has read, from a finished directory or not.
LEMMA StartsOnce ==
    ASSUME DiskInv, PlaceInv, ReadInv, pc \in {"read", "play"} PROVE OneStart(rooms)
<1> DEFINE made_ == made[dirname]
<1>1. GoodRooms(made_)
  BY FilesOf DEF PlaceInv
<1>2. ProgramInv
  BY DEF DiskInv
<1>3. /\ program = "luu" => LuuRead(rooms, listing, whole, made_)
      /\ program = "suh" => SuhRead(rooms, listing, whole, made_)
      /\ program = "dougherty" => DoughertyRead(rooms, listing, whole, made_)
  BY DEF ReadInv
<1> HIDE DEF made_
<1>4. NamesDiffer(rooms)
  BY <1>2, <1>3 DEF ProgramInv, LuuRead, SuhRead, DoughertyRead
<1>5. ASSUME NEW i \in DOMAIN rooms, rooms[i].type = "START_ROOM"
      PROVE  \E k \in Indices : rooms[i].name = made_[k].name /\ made_[k].type = "START_ROOM"
  <2>1. CASE program = "luu"
    BY <1>3, <1>5, <2>1 DEF LuuRead, Fresh, Built
  <2>2. CASE program = "suh"
    BY <1>3, <1>5, <2>2 DEF SuhRead, Built
  <2>3. CASE program = "dougherty"
    BY <1>3, <1>5, <2>3 DEF DoughertyRead, Blank, Built
  <2> QED
    BY <1>2, <2>1, <2>2, <2>3 DEF ProgramInv
<1>6. PICK s \in Indices : \A k \in Indices : made_[k].type = "START_ROOM" <=> k = s
  BY <1>1 DEF GoodRooms
<1>7. \A i \in DOMAIN rooms : rooms[i].type = "START_ROOM" => rooms[i].name = made_[s].name
  BY <1>5, <1>6
<1> QED
  BY <1>4, <1>7 DEF NamesDiffer, OneStart

\* It is where the paths begin.
LEMMA StartIs ==
    ASSUME NEW rs, OneStart(rs), NEW x \in DOMAIN rs, rs[x].type = "START_ROOM"
    PROVE  Start(rs) = x
BY DEF OneStart, Start

\* A path begins with one room.
LEMMA OneRoomWalk ==
    ASSUME NEW p, NEW rs, NEW x \in DOMAIN rs
    PROVE  IsWalk(p, rs, <<x>>, x, x)
BY DEF IsWalk

\* It goes on to a room that the last one, if not the END_ROOM, leads to.
LEMMA WalkOn ==
    ASSUME NEW p, NEW rs, NEW trail, NEW start, NEW last, IsWalk(p, rs, trail, start, last),
           rs[last].type # "END_ROOM", NEW next \in DOMAIN rs,
           rs[next].name \in Range(Ways(p, rs, last))
    PROVE  IsWalk(p, rs, Append(trail, next), start, next)
<1> DEFINE more == Append(trail, next)
           n == Len(trail)
<1>1. trail \in Seq(DOMAIN rs) /\ n \in Nat /\ n > 0 /\ trail[1] = start /\ trail[n] = last
  BY DEF IsWalk
<1>2. /\ more \in Seq(DOMAIN rs) /\ Len(more) = n + 1 /\ more[n + 1] = next
      /\ \A k \in 1 .. n : more[k] = trail[k]
  BY <1>1
<1>3. more[1] = start
  BY <1>1, <1>2
<1> HIDE DEF more
<1>4. ASSUME NEW k \in 1 .. Len(more) - 1
      PROVE  /\ rs[more[k]].type # "END_ROOM"
             /\ rs[more[k + 1]].name \in Range(Ways(p, rs, more[k]))
  <2>1. CASE k = n
    <3>1. more[k] = last /\ more[k + 1] = next
      BY <1>1, <1>2, <2>1
    <3> QED
      BY <3>1
  <2>2. CASE k # n
    <3>1. k \in 1 .. n - 1 /\ k \in 1 .. n /\ k + 1 \in 1 .. n
      BY <1>1, <1>2, <2>2
    <3>2. more[k] = trail[k] /\ more[k + 1] = trail[k + 1]
      BY <1>2, <3>1
    <3> QED
      BY <3>1, <3>2 DEF IsWalk
  <2> QED
    BY <2>1, <2>2
<1> QED
  BY <1>1, <1>2, <1>3, <1>4 DEF IsWalk, more

\* Suh's path is one name longer.
LEMMA TrailMore ==
    ASSUME NEW rs, NEW names \in Seq(Names), NEW name \in Names, NEW more,
           more = names \o [k \in 1 .. 1 |-> name]
    PROVE  /\ more \in Seq(Names)
           /\ Trail("suh", rs, more) = Append(Trail("suh", rs, names), Index(rs, name))
<1> DEFINE n == Len(names)
           t == Trail("suh", rs, names)
           u == Trail("suh", rs, more)
           S == {Index(rs, x) : x \in Names} \cup {Start(rs)}
<1>1. n \in Nat /\ names \in [1 .. n -> Names]
  OBVIOUS
<1>2. [k \in 1 .. 1 |-> name] \in Seq(Names) /\ Len([k \in 1 .. 1 |-> name]) = 1
  OBVIOUS
<1>3. /\ more \in Seq(Names) /\ Len(more) = n + 1 /\ more[n + 1] = name
      /\ \A k \in 1 .. n : more[k] = names[k]
  BY <1>1, <1>2, ConcatProperties
<1>4. ASSUME NEW ns \in Seq(Names)
      PROVE  /\ Trail("suh", rs, ns) \in Seq(S) /\ Len(Trail("suh", rs, ns)) = Len(ns) + 1
             /\ Trail("suh", rs, ns)[1] = Start(rs)
             /\ \A k \in 1 .. Len(ns) : Trail("suh", rs, ns)[k + 1] = Index(rs, ns[k])
  <2> DEFINE tail == [k \in DOMAIN ns |-> Index(rs, ns[k])]
  <2>1. Len(ns) \in Nat /\ DOMAIN ns = 1 .. Len(ns) /\ \A k \in 1 .. Len(ns) : ns[k] \in Names
    OBVIOUS
  <2>2. tail = [k \in 1 .. Len(ns) |-> Index(rs, ns[k])]
    BY <2>1
  <2>3. tail \in [1 .. Len(ns) -> S]
    BY <2>1, <2>2
  <2>4. \A k \in 1 .. Len(ns) : tail[k] = Index(rs, ns[k])
    BY <2>2
  <2>5. Trail("suh", rs, ns) = <<Start(rs)>> \o tail
    BY DEF Trail
  <2> HIDE DEF tail
  <2>6. tail \in Seq(S) /\ Len(tail) = Len(ns)
    BY <2>1, <2>3
  <2>7. <<Start(rs)>> \in Seq(S) /\ Len(<<Start(rs)>>) = 1 /\ <<Start(rs)>>[1] = Start(rs)
    OBVIOUS
  <2> DEFINE h == <<Start(rs)>>
             all == Trail("suh", rs, ns)
  <2>8. h \in Seq(S) /\ Len(h) = 1 /\ h[1] = Start(rs) /\ all = h \o tail
    BY <2>5, <2>7
  <2> HIDE DEF S, h, all
  <2>9. /\ all \in Seq(S) /\ Len(all) = Len(h) + Len(tail)
        /\ \A k \in 1 .. Len(all) : all[k] = IF k =< Len(h) THEN h[k] ELSE tail[k - Len(h)]
    <3>1. h \in Seq(S) /\ tail \in Seq(S) /\ all = h \o tail
      BY <2>6, <2>8
    <3>2. /\ h \o tail \in Seq(S) /\ Len(h \o tail) = Len(h) + Len(tail)
          /\ \A k \in 1 .. Len(h) + Len(tail) :
                (h \o tail)[k] = IF k =< Len(h) THEN h[k] ELSE tail[k - Len(h)]
      BY <3>1, ConcatProperties, Zenon
    <3> QED
      BY <3>1, <3>2, Zenon
  <2>10. Len(all) = Len(ns) + 1 /\ 1 \in 1 .. Len(all)
    BY <2>1, <2>6, <2>8, <2>9
  <2>11. all[1] = Start(rs)
    BY <2>8, <2>9, <2>10
  <2>12. ASSUME NEW k \in 1 .. Len(ns) PROVE all[k + 1] = Index(rs, ns[k])
    <3>1. k + 1 \in 1 .. Len(all) /\ ~(k + 1 =< 1) /\ (k + 1) - 1 = k
      BY <2>1, <2>10
    <3> QED
      BY <2>4, <2>8, <2>9, <3>1
  <2> QED
    BY <2>9, <2>10, <2>11, <2>12 DEF all
<1>5. Index(rs, name) \in S
  OBVIOUS
<1>6. /\ t \in Seq(S) /\ Len(t) = n + 1 /\ t[1] = Start(rs)
      /\ \A k \in 1 .. n : t[k + 1] = Index(rs, names[k])
  BY <1>4
<1>7. /\ u \in Seq(S) /\ Len(u) = n + 2 /\ u[1] = Start(rs)
      /\ \A k \in 1 .. n + 1 : u[k + 1] = Index(rs, more[k])
  <2>1. /\ u \in Seq(S) /\ Len(u) = Len(more) + 1 /\ u[1] = Start(rs)
        /\ \A k \in 1 .. Len(more) : u[k + 1] = Index(rs, more[k])
    BY <1>3, <1>4
  <2> HIDE DEF u, S
  <2> QED
    BY <1>1, <1>3, <2>1
<1> HIDE DEF t, u, S
<1>8. Append(t, Index(rs, name)) \in Seq(S) /\ Len(Append(t, Index(rs, name))) = n + 2
  BY <1>1, <1>5, <1>6
<1>9. ASSUME NEW k \in 1 .. n + 2 PROVE u[k] = Append(t, Index(rs, name))[k]
  <2>1. CASE k = 1
    BY <1>1, <1>5, <1>6, <1>7, <2>1
  <2>2. CASE k = n + 2
    <3>1. Append(t, Index(rs, name))[n + 2] = Index(rs, name)
      BY <1>1, <1>5, <1>6
    <3>2. n + 1 \in 1 .. n + 1 /\ (n + 1) + 1 = n + 2
      BY <1>1
    <3> QED
      BY <1>3, <1>7, <2>2, <3>1, <3>2
  <2>3. CASE k \in 2 .. n + 1
    <3>1. k - 1 \in 1 .. n /\ k - 1 \in 1 .. n + 1 /\ (k - 1) + 1 = k
      BY <1>1, <2>3
    <3>2. t[k] = Index(rs, names[k - 1])
      BY <1>6, <3>1
    <3>3. u[k] = Index(rs, more[k - 1])
      BY <1>7, <3>1
    <3>4. more[k - 1] = names[k - 1]
      BY <1>3, <3>1
    <3>5. Append(t, Index(rs, name))[k] = t[k]
      BY <1>1, <1>5, <1>6, <2>3
    <3> QED
      BY <3>2, <3>3, <3>4, <3>5
  <2>4. k = 1 \/ k = n + 2 \/ k \in 2 .. n + 1
    BY <1>1
  <2> QED
    BY <2>1, <2>2, <2>3, <2>4
<1>10. u = Append(t, Index(rs, name))
  BY <1>1, <1>7, <1>8, <1>9, SeqEqual
<1> QED
  BY <1>3, <1>10 DEF t, u

\* A game that has all rooms of a finished directory, and a walk in them.
Ready == /\ \E made_ : GoodRooms(made_) /\ AllRead(program, rooms, made_)
         /\ ProgramInv

\* Suh's game begins.
LEMMA SuhBegins ==
    ASSUME Ready, program = "suh", Suh!StartGame, pc' = "play", path = <<>>
    PROVE  Walking(program, rooms, path', current')
<1>1. PICK made_ : GoodRooms(made_) /\ AllRead(program, rooms, made_)
  BY DEF Ready
<1>2. PICK s \in Indices : \A i \in Indices : rooms[i].type = "START_ROOM" <=> i = s
  BY <1>1, StartThere
<1>3. DOMAIN rooms = Indices
  BY <1>1 DEF AllRead
<1>4. Suh!StartRooms = {s}
  BY <1>2, <1>3 DEF Suh!StartRooms
<1>5. /\ current' = CHOOSE i \in Suh!StartRooms : \A j \in Suh!StartRooms : j =< i
      /\ path' = <<>>
  BY DEF Suh!StartGame
<1>6. s =< s
  BY Constants DEF Indices
<1>7. current' = s
  BY <1>4, <1>5, <1>6
<1>8. Start(rooms) = s
  <2>1. OneStart(rooms)
    BY <1>2, <1>3 DEF OneStart
  <2> QED
    BY <1>2, <1>3, <2>1, StartIs
<1>9. Trail("suh", rooms, <<>>) = <<s>>
  BY <1>8 DEF Trail
<1>10. IsWalk("suh", rooms, <<s>>, s, s)
  BY <1>3, OneRoomWalk
<1>11. <<>> \in Seq(Names) /\ s \in DOMAIN rooms
  BY <1>3
<1> QED
  BY <1>5, <1>7, <1>8, <1>9, <1>10, <1>11 DEF Walking

\* Luu's game begins.
LEMMA LuuBegins ==
    ASSUME DiskInv, PlaceInv, ReadInv, program = "luu", Luu!StartPlaying, pc' = "play",
           path = <<>>
    PROVE  Walking(program, rooms, path', current')
<1>1. /\ current' \in DOMAIN rooms /\ rooms[current'].type = "START_ROOM"
      /\ Luu!PushBackDynIntArr(current')
  BY LuuStarts
<1>2. OneStart(rooms)
  BY StartsOnce DEF Luu!StartPlaying
<1>3. Start(rooms) = current'
  BY <1>1, <1>2, StartIs
<1>4. path' = <<current'>>
  BY <1>1 DEF Luu!PushBackDynIntArr
<1> QED
  BY <1>1, <1>3, <1>4, OneRoomWalk DEF Walking, Trail

\* What Dougherty's game has in its array.
DoughertyArray == rooms \in [Indices -> Room(Types \cup {"unset"}, Indices)]

\* It has it as soon as it has read the names.
LEMMA DoughertyHas ==
    ASSUME ReadInv, program = "dougherty", pc \in {"read", "play"} PROVE DoughertyArray
BY DEF ReadInv, DoughertyRead, DoughertyArray

\* Dougherty's game begins.
LEMMA DoughertyBegins ==
    ASSUME DiskInv, PlaceInv, ReadInv, program = "dougherty", Dougherty!findStartRoom, pc' = "play"
    PROVE  Walking(program, rooms, path', current')
<1>1. OneStart(rooms) /\ DoughertyArray
  BY StartsOnce, DoughertyHas DEF Dougherty!findStartRoom
<1> DEFINE begins(i) == rooms[i].type = "START_ROOM" /\
                          \A j \in 1 .. i - 1 : rooms[j].type \notin {"START_ROOM", "unset"}
<1>2. /\ \E i \in 1 .. NUM_ROOMS : begins(i)
      /\ current' = CHOOSE i \in 1 .. NUM_ROOMS : begins(i)
      /\ path' = <<current'>>
  BY DEF Dougherty!findStartRoom
<1>3. current' \in 1 .. NUM_ROOMS /\ begins(current')
  <2> HIDE DEF begins
  <2> QED
    BY <1>2
<1>4. DOMAIN rooms = Indices /\ current' \in Indices
  BY <1>1, <1>3 DEF DoughertyArray, Indices
<1>5. Start(rooms) = current'
  BY <1>1, <1>3, <1>4, StartIs
<1> QED
  BY <1>2, <1>4, <1>5, OneRoomWalk DEF Walking, Trail

\* One connection of a room leads to a name, and one room has it.
LEMMA OneWay ==
    ASSUME NEW rs, NEW made_, GoodRooms(made_), AllRead("suh", rs, made_),
           NEW i \in DOMAIN rs, NEW name, NEW m \in DOMAIN rs[i].outs, rs[i].outs[m] = name
    PROVE  /\ \A j \in DOMAIN rs[i].outs : rs[i].outs[j] = name => j = m
           /\ name \in Names
           /\ \E x \in DOMAIN rs : \A y \in DOMAIN rs : rs[y].name = name <=> y = x
<1>1. DOMAIN rs = Indices /\ NamesDiffer(rs)
  BY DEF AllRead
<1>2. PICK k \in Indices : Built("suh", rs, i, made_, k)
  BY <1>1 DEF AllRead
<1> DEFINE o == made_[k].outs
<1>3. rs[i].outs = Links(made_, k)
  BY <1>2 DEF Built, Ways
<1>4. /\ o \in Seq(Indices) /\ Links(made_, k) \in Seq(Names) /\ Len(Links(made_, k)) = Len(o)
      /\ \A j \in 1 .. Len(o) : Links(made_, k)[j] = made_[o[j]].name
  BY RoomsMade, Zenon
<1> HIDE DEF o
<1>5. DOMAIN rs[i].outs = 1 .. Len(o) /\ m \in 1 .. Len(o) /\ o[m] \in Indices
  BY <1>3, <1>4
<1>6. name = made_[o[m]].name /\ name \in Names
  BY <1>3, <1>4, <1>5 DEF GoodRooms
<1>7. ASSUME NEW j \in DOMAIN rs[i].outs, rs[i].outs[j] = name PROVE j = m
  <2>1. j \in 1 .. Len(o) /\ o[j] \in Indices /\ made_[o[j]].name = made_[o[m]].name
    BY <1>3, <1>4, <1>5, <1>6, <1>7
  <2>2. o[j] = o[m]
    BY <1>5, <2>1 DEF GoodRooms
  <2> QED
    BY <1>5, <2>1, <2>2 DEF GoodRooms, o
<1>8. PICK x \in Indices : Built("suh", rs, x, made_, o[m])
  BY <1>5 DEF AllRead
<1>9. rs[x].name = name
  BY <1>6, <1>8 DEF Built
<1>10. \A y \in DOMAIN rs : rs[y].name = name <=> y = x
  BY <1>1, <1>9 DEF NamesDiffer
<1> QED
  BY <1>1, <1>6, <1>7, <1>10

\* Suh's player goes to a room.
LEMMA SuhGoes ==
    ASSUME Ready, program = "suh", NEW name, Suh!start_game(name),
           Walking(program, rooms, path, current)
    PROVE  Walking(program, rooms, path', current')
<1>1. PICK made_ : GoodRooms(made_) /\ AllRead("suh", rooms, made_)
  BY DEF Ready
<1> DEFINE M == Suh!Matches(name)
           found == {j \in DOMAIN rooms : rooms[j].name = name}
<1>2. /\ M # {} /\ path' = path \o [k \in 1 .. Cardinality(M) |-> name]
      /\ current' = IF found = {} THEN current
                    ELSE CHOOSE j \in found : \A k \in found : k =< j
      /\ rooms[current].type # "END_ROOM"
  BY SameCardinality DEF Suh!start_game
<1>3. M = {i \in DOMAIN rooms[current].outs : rooms[current].outs[i] = name}
  BY DEF Suh!Matches
<1>4. PICK m \in DOMAIN rooms[current].outs : rooms[current].outs[m] = name
  BY <1>2, <1>3
<1>5. current \in DOMAIN rooms /\ path \in Seq(Names)
  BY DEF Walking
<1>6. /\ \A j \in DOMAIN rooms[current].outs : rooms[current].outs[j] = name => j = m
      /\ name \in Names
      /\ \E x \in DOMAIN rooms : \A y \in DOMAIN rooms : rooms[y].name = name <=> y = x
  BY <1>1, <1>4, <1>5, OneWay
<1>7. M = {m}
  BY <1>3, <1>4, <1>6
<1> HIDE DEF M
<1>8. Cardinality(M) = 1
  BY <1>7, FS_Singleton
<1>9. PICK x \in DOMAIN rooms : \A y \in DOMAIN rooms : rooms[y].name = name <=> y = x
  BY <1>6
<1>10. found = {x}
  BY <1>9
<1>11. current' = x
  <2>1. x =< x
    BY <1>1, Constants DEF AllRead, Indices
  <2> HIDE DEF found
  <2> QED
    BY <1>2, <1>10, <2>1
<1>12. Index(rooms, name) = x
  BY <1>9 DEF Index
<1>13. path' = path \o [k \in 1 .. 1 |-> name]
  BY <1>2, <1>8
<1>14. /\ path' \in Seq(Names)
       /\ Trail("suh", rooms, path') = Append(Trail("suh", rooms, path), x)
  BY <1>5, <1>6, <1>12, <1>13, TrailMore
<1>15. rooms[x].name \in Range(Ways("suh", rooms, current))
  BY <1>4, <1>9 DEF Ways, Range
<1>16. IsWalk("suh", rooms, Trail("suh", rooms, path), Start(rooms), current)
  BY DEF Walking
<1>17. IsWalk("suh", rooms, Trail("suh", rooms, path'), Start(rooms), x)
  BY <1>2, <1>14, <1>15, <1>16, WalkOn
<1> QED
  BY <1>11, <1>14, <1>17 DEF Walking

\* Luu's player goes to a room.
LEMMA LuuGoes ==
    ASSUME DiskInv, PlaceInv, ReadInv, program = "luu", NEW name, Luu!PlayGame(name),
           Walking(program, rooms, path, current)
    PROVE  Walking(program, rooms, path', current')
<1>1. /\ current' \in DOMAIN rooms /\ rooms[current'].name = name
      /\ \E i \in DOMAIN rooms[current].outs : rooms[rooms[current].outs[i]].name = name
      /\ Luu!PushBackDynIntArr(current')
  BY LuuMoves
<1>2. path' = Append(path, current') /\ rooms[current].type # "END_ROOM"
  BY <1>1 DEF Luu!PushBackDynIntArr, Luu!PlayGame
<1>3. rooms[current'].name \in Range(Ways("luu", rooms, current))
  BY <1>1 DEF Ways, Links, Range
<1>4. IsWalk("luu", rooms, path, Start(rooms), current)
  BY DEF Walking, Trail
<1>5. IsWalk("luu", rooms, path', Start(rooms), current')
  BY <1>1, <1>2, <1>3, <1>4, WalkOn
<1> QED
  BY <1>1, <1>5 DEF Walking, Trail

\* What Dougherty's loop over the connections may have after a round.
Tries == {a \in [room : Indices, path : Seq(Indices), won : BOOLEAN] :
             /\ IsWalk("dougherty", rooms, a.path, Start(rooms), a.room)
             /\ ~a.won => rooms[a.room].type # "END_ROOM"}

\* A round leads to a neighbour or nowhere.
LEMMA TryKeeps ==
    ASSUME DoughertyArray, NEW a \in Tries, NEW i \in Indices, NEW name
    PROVE  Dougherty!TryConnection(a, i, name) \in Tries
<1> DEFINE outs == rooms[a.room].outs
           next == outs[i]
           more == [room |-> next, path |-> Append(a.path, next),
                    won |-> rooms[next].type = "END_ROOM"]
<1>1. /\ a \in [room : Indices, path : Seq(Indices), won : BOOLEAN]
      /\ a.room \in Indices /\ a.path \in Seq(Indices) /\ a.won \in BOOLEAN
      /\ IsWalk("dougherty", rooms, a.path, Start(rooms), a.room)
      /\ ~a.won => rooms[a.room].type # "END_ROOM"
  BY DEF Tries
<1>2. DOMAIN rooms = Indices /\ outs \in Seq(Indices)
  BY <1>1 DEF DoughertyArray, Room
<1>3. CASE a.won \/ i > Len(outs)
  <2>1. Dougherty!TryConnection(a, i, name) = [a EXCEPT !.won = TRUE]
    BY <1>3 DEF Dougherty!TryConnection
  <2> DEFINE b == [a EXCEPT !.won = TRUE]
  <2>2. a \in [room : Indices, path : Seq(Indices), won : BOOLEAN]
    BY <1>1
  <2>3. b \in [room : Indices, path : Seq(Indices), won : BOOLEAN]
    BY <2>2
  <2>4. b.room = a.room /\ b.path = a.path /\ b.won = TRUE
    BY <2>2
  <2> HIDE DEF b
  <2>5. b \in Tries
    BY <1>1, <2>3, <2>4 DEF Tries
  <2> QED
    BY <2>1, <2>5 DEF b
<1>4. CASE ~(a.won \/ i > Len(outs)) /\ rooms[next].name # name
  BY <1>4 DEF Dougherty!TryConnection
<1>5. CASE ~(a.won \/ i > Len(outs)) /\ rooms[next].name = name
  <2>1. i \in 1 .. Len(outs) /\ i \in DOMAIN outs
    BY <1>2, <1>5, Constants DEF Indices
  <2>2. next \in Indices
    BY <1>2, <2>1
  <2>3. rooms[next].name \in Range(Ways("dougherty", rooms, a.room))
    BY <2>1 DEF Ways, Links, Range
  <2>4. Dougherty!TryConnection(a, i, name) = more
    BY <1>5 DEF Dougherty!TryConnection
  <2> HIDE DEF next
  <2>5. IsWalk("dougherty", rooms, Append(a.path, next), Start(rooms), next)
    BY <1>1, <1>2, <1>5, <2>2, <2>3, WalkOn
  <2>6. Append(a.path, next) \in Seq(Indices)
    BY <1>1, <2>2
  <2>7. more \in Tries
    BY <2>2, <2>5, <2>6 DEF Tries
  <2> QED
    BY <2>4, <2>7
<1> QED
  BY <1>3, <1>4, <1>5

\* The loop over the connections.
TryLoop(name) ==
    LET acc[i \in 0 .. NUM_ROOMS] ==
            IF i = 0 THEN [room |-> current, path |-> path, won |-> FALSE]
            ELSE Dougherty!TryConnection(acc[i - 1], i, name)
    IN  acc

\* It ends in a room that the path has come to.
LEMMA TryEnds ==
    ASSUME DoughertyArray, NEW name,
           [room |-> current, path |-> path, won |-> FALSE] \in Tries
    PROVE  Dougherty!Walk(name) \in Tries
<1> DEFINE acc == TryLoop(name)
           a == [room |-> current, path |-> path, won |-> FALSE]
           try(i, b) == Dougherty!TryConnection(b, i, name)
           n == NUM_ROOMS
           step == [i \in 1 .. n |-> [b \in Tries |-> try(i, b)]]
<1>1. n \in Nat /\ Indices = 1 .. n
  BY Constants DEF Indices
<1>2. \A i \in 1 .. n : \A b \in Tries : try(i, b) \in Tries
  BY <1>1, TryKeeps
<1>3. acc = CHOOSE acc_ : acc_ = [i \in 0 .. n |-> IF i = 0 THEN a ELSE try(i, acc_[i - 1])]
  BY DEF TryLoop
<1>4. Dougherty!Walk(name) = acc[n]
  BY DEF Dougherty!Walk, TryLoop
<1> HIDE DEF acc, n, a, try
<1>5. step \in Steps(n, Tries)
  BY <1>2 DEF Steps
<1>6. a \in Tries
  BY DEF a
<1>7. PICK f : IsLoop(f, n, Tries, a, step)
  <2> HIDE DEF step
  <2> QED
    BY <1>1, <1>5, <1>6, Rounds
<1>8. f \in [0 .. n -> Tries] /\ f[0] = a
  BY <1>7 DEF IsLoop
<1>9. ASSUME NEW i \in 1 .. n PROVE f[i] = try(i, f[i - 1])
  <2>1. i - 1 \in 0 .. n
    BY <1>1
  <2>2. f[i - 1] \in Tries
    BY <1>8, <2>1
  <2> QED
    BY <1>7, <2>2 DEF IsLoop
<1>10. f = [i \in 0 .. n |-> IF i = 0 THEN a ELSE try(i, f[i - 1])]
  <2>1. \A i \in 0 .. n : i = 0 \/ i \in 1 .. n
    BY <1>1
  <2>2. \A i \in 0 .. n : f[i] = IF i = 0 THEN a ELSE try(i, f[i - 1])
    BY <1>8, <1>9, <2>1
  <2> QED
    BY <1>8, <2>2
<1>11. acc = [i \in 0 .. n |-> IF i = 0 THEN a ELSE try(i, acc[i - 1])]
  <2> HIDE DEF step
  <2> QED
    BY <1>3, <1>10
<1> DEFINE T == {i \in 0 .. n : acc[i] \in Tries}
<1>12. 0 \in T
  <2>1. 0 \in 0 .. n
    BY <1>1
  <2>2. acc[0] = a
    BY <1>11, <2>1, Zenon
  <2> QED
    BY <1>6, <2>1, <2>2
<1>13. ASSUME NEW i \in 1 .. n, i - 1 \in T PROVE i \in T
  <2>1. i \in 0 .. n /\ i # 0
    BY <1>1
  <2>2. acc[i] = try(i, acc[i - 1])
    BY <1>11, <2>1, Zenon
  <2>3. acc[i - 1] \in Tries
    BY <1>13
  <2> QED
    BY <1>2, <2>1, <2>2, <2>3
<1>14. n \in T
  <2> HIDE DEF T
  <2>1. 0 .. n \subseteq T
    BY <1>1, <1>12, <1>13, Induction
  <2>2. n \in 0 .. n
    BY <1>1
  <2> QED
    BY <2>1, <2>2
<1> QED
  BY <1>4, <1>14

\* Dougherty's player goes to a room, or to more than one.
LEMMA DoughertyGoes ==
    ASSUME DoughertyArray, program = "dougherty", NEW name, Dougherty!gamePlay(name),
           pc' = "play", Walking(program, rooms, path, current)
    PROVE  Walking(program, rooms, path', current')
<1> DEFINE end == Dougherty!Walk(name)
<1>2. /\ rooms[current].type # "END_ROOM" /\ path' = end.path /\ current' = end.room
  BY DEF Dougherty!gamePlay
<1>3. /\ current \in Indices /\ IsWalk("dougherty", rooms, path, Start(rooms), current)
      /\ DOMAIN rooms = Indices
  BY DEF Walking, Trail, DoughertyArray
<1>4. path \in Seq(Indices)
  BY <1>3 DEF IsWalk
<1>5. [room |-> current, path |-> path, won |-> FALSE] \in Tries
  BY <1>2, <1>3, <1>4 DEF Tries
<1>6. end \in Tries
  BY <1>5, TryEnds
<1> HIDE DEF end
<1>7. end.room \in Indices /\ IsWalk("dougherty", rooms, end.path, Start(rooms), end.room)
  BY <1>6 DEF Tries
<1> QED
  BY <1>2, <1>3, <1>7 DEF Walking, Trail

\* The steps that the path depends on.
WalkStep ==
    \/ pc' # "play"
    \/ UNCHANGED <<pc, search, reading, walk>>
    \/ program = "suh" /\ (Suh!StartGame \/ \E name : Suh!start_game(name))
    \/ program = "luu" /\ (Luu!StartPlaying \/ \E name : Luu!PlayGame(name))
    \/ program = "dougherty" /\ (Dougherty!findStartRoom \/ \E name : Dougherty!gamePlay(name))

\* Every step is one of these.
LEMMA WalkSteps == ASSUME Step PROVE WalkStep
<1>1. World \/ (\E d \in Dirs : BuildStep(d)) \/ UNCHANGED vars => WalkStep
  BY DEF World, Tick, PlayAgain, KillMaker, BuildStep, MakesUp, MakeDir, OpenFile, CloseFile,
     vars, WalkStep
<1>2. EndGame \/ MakeTimeFile \/ OpenChosen => WalkStep
  BY DEF EndGame, MakeTimeFile, OpenChosen, WalkStep
<1>3. ASSUME NEW first, OpenRootFrom(first) PROVE WalkStep
  BY <1>3 DEF OpenRootFrom, WalkStep
<1>4. ASSUME NEW d, NEW better, LookAt(d, better) PROVE WalkStep
  BY <1>4 DEF LookAt, WalkStep
<1>5. ASSUME program = "suh", SuhPlay PROVE WalkStep
  <2>1. ASSUME NEW f, Suh!ReadFile(f) PROVE WalkStep
    BY <2>1 DEF Suh!ReadFile, WalkStep
  <2> QED
    BY <1>2, <1>3, <1>4, <1>5, <2>1 DEF SuhPlay, WalkStep
<1>6. ASSUME program = "luu", LuuPlay PROVE WalkStep
  <2>1. ASSUME NEW f, Luu!ReadRoomFromFile(f) PROVE WalkStep
    BY <2>1 DEF Luu!ReadRoomFromFile, WalkStep
  <2> QED
    BY <1>2, <1>3, <1>4, <1>6, <2>1 DEF LuuPlay, WalkStep
<1>7. ASSUME program = "dougherty", DoughertyPlay PROVE WalkStep
  <2>1. ASSUME NEW i, Dougherty!formRooms(i) PROVE WalkStep
    BY <2>1 DEF Dougherty!formRooms, WalkStep
  <2>2. Dougherty!getRoomNames => WalkStep
    BY DEF Dougherty!getRoomNames, WalkStep
  <2> QED
    BY <1>2, <1>3, <1>4, <1>7, <2>1, <2>2 DEF DoughertyPlay, WalkStep
<1> QED
  BY <1>1, <1>5, <1>6, <1>7 DEF Step

\* The path stays a walk.
LEMMA StepWalk ==
    ASSUME DiskInv, PlaceInv, FinishedInv, ReadInv, WalkInv, program' = program, Step
    PROVE  WalkInv'
<1>1. Walking(program, rooms', path', current') => WalkInv'
  <2>1. /\ Trail(program, rooms, path)' = Trail(program', rooms', path')
        /\ Start(rooms)' = Start(rooms')
    BY DEF Trail, Start, Index
  <2>3. WalkInv' <=> (pc' = "play" /\ (whole' \/ program' # "suh") =>
                    Walking(program', rooms', path', current'))
    BY <2>1 DEF WalkInv, Walking, IsWalk, Ways, Links, Range
  <2> QED
    BY <2>3
<1>2. WalkStep
  BY WalkSteps
<1>3. ASSUME pc \in {"read", "play"}, listing = {}, whole PROVE Ready
  BY <1>3, ReadingDone DEF Ready, DiskInv
<1>4. CASE pc' # "play"
  BY <1>4 DEF WalkInv
<1>5. CASE UNCHANGED <<pc, search, reading, walk>>
  <2>1. pc' = pc /\ whole' = whole /\ rooms' = rooms /\ path' = path /\ current' = current
    BY <1>5 DEF reading, walk
  <2>2. CASE pc = "play" /\ (whole \/ program # "suh")
    BY <1>1, <2>1, <2>2 DEF WalkInv
  <2>3. CASE ~(pc = "play" /\ (whole \/ program # "suh"))
    BY <2>1, <2>3 DEF WalkInv
  <2> QED
    BY <2>2, <2>3
<1>6. ASSUME (whole' \/ program # "suh") /\ pc' = "play" =>
                Walking(program, rooms, path', current'), rooms' = rooms
      PROVE  WalkInv'
  <2>1. CASE (whole' \/ program # "suh") /\ pc' = "play"
    BY <1>1, <1>6, <2>1
  <2>2. CASE ~((whole' \/ program # "suh") /\ pc' = "play")
    BY <2>2 DEF WalkInv
  <2> QED
    BY <2>1, <2>2
<1>7. CASE program = "suh" /\ Suh!StartGame
  <2>1. pc = "read" /\ listing = {} /\ rooms' = rooms /\ whole' = whole /\ path = <<>>
    BY <1>7 DEF Suh!StartGame, Suh!reading, FinishedInv
  <2>2. whole /\ pc' = "play" => Walking(program, rooms, path', current')
    BY <1>3, <1>7, <2>1, SuhBegins
  <2> QED
    BY <1>6, <1>7, <2>1, <2>2
<1>8. ASSUME program = "suh", NEW name, Suh!start_game(name) PROVE WalkInv'
  <2>1. pc = "play" /\ listing = {} /\ rooms' = rooms /\ whole' = whole
    BY <1>8 DEF Suh!start_game, Suh!reading, FinishedInv
  <2>2. whole => Walking(program, rooms, path', current')
    BY <1>3, <1>8, <2>1, SuhGoes DEF WalkInv
  <2> QED
    BY <1>6, <1>8, <2>1, <2>2
<1>9. CASE program = "luu" /\ Luu!StartPlaying
  <2>1. pc = "read" /\ listing = {} /\ rooms' = rooms /\ whole' = whole /\ path = <<>>
    BY <1>9 DEF Luu!StartPlaying, Luu!reading, FinishedInv
  <2>2. pc' = "play" => Walking(program, rooms, path', current')
    BY <1>9, <2>1, LuuBegins
  <2> QED
    BY <1>6, <2>1, <2>2
<1>10. ASSUME program = "luu", NEW name, Luu!PlayGame(name) PROVE WalkInv'
  <2>1. pc = "play" /\ listing = {} /\ rooms' = rooms /\ whole' = whole
    BY <1>10 DEF Luu!PlayGame, Luu!reading, FinishedInv
  <2>2. Walking(program, rooms, path', current')
    BY <1>10, <2>1, LuuGoes DEF WalkInv
  <2> QED
    BY <1>6, <2>1, <2>2
<1>11. CASE program = "dougherty" /\ Dougherty!findStartRoom
  <2>1. pc = "read" /\ listing = {} /\ rooms' = rooms /\ whole' = whole
    BY <1>11 DEF Dougherty!findStartRoom, Dougherty!reading
  <2>2. pc' = "play" => Walking(program, rooms, path', current')
    BY <1>11, <2>1, DoughertyBegins
  <2> QED
    BY <1>6, <2>1, <2>2
<1>12. ASSUME program = "dougherty", NEW name, Dougherty!gamePlay(name) PROVE WalkInv'
  <2>1. pc = "play" /\ listing = {} /\ rooms' = rooms /\ whole' = whole
    BY <1>12 DEF Dougherty!gamePlay, Dougherty!reading, FinishedInv
  <2>2. pc' = "play" => Walking(program, rooms, path', current')
    BY <1>12, <2>1, DoughertyHas, DoughertyGoes DEF WalkInv
  <2> QED
    BY <1>6, <2>1, <2>2
<1> QED
  BY <1>2, <1>4, <1>5, <1>7, <1>8, <1>9, <1>10, <1>11, <1>12 DEF WalkStep

\* The greatest of a set of positions.
LEMMA Greatest ==
    ASSUME NEW n \in Nat, NEW S, S \subseteq 1 .. n, S # {}
    PROVE  \E i \in S : \A j \in S : j =< i
<1> DEFINE T == {n - x : x \in S}
<1>1. T \subseteq Nat /\ T # {}
  <2>1. \A x \in S : x \in 1 .. n /\ n - x \in Nat
    OBVIOUS
  <2> QED
    BY <2>1
<1>2. PICK t \in T : \A u \in T : t =< u
  BY <1>1, Least
<1>3. PICK i \in S : t = n - i
  OBVIOUS
<1>4. ASSUME NEW j \in S PROVE j =< i
  <2>1. t =< n - j
    BY <1>2
  <2>2. i \in 1 .. n /\ j \in 1 .. n
    OBVIOUS
  <2> QED
    BY <1>3, <2>1, <2>2
<1> QED
  BY <1>4

\* Suh's player is in a room.
LEMMA SuhIsIn ==
    ASSUME DiskInv, FinishedInv, ReadInv, program = "suh", pc' = "play"
    PROVE  /\ Suh!StartGame => current' \in DOMAIN rooms
           /\ \A name : Suh!start_game(name) /\ current \in DOMAIN rooms =>
                 current' \in DOMAIN rooms
<1>1. ASSUME pc # "undefined", NEW S, S \subseteq DOMAIN rooms, S # {}
      PROVE  (CHOOSE i \in S : \A j \in S : j =< i) \in DOMAIN rooms
  <2>1. Len(rooms) \in Nat /\ S \subseteq 1 .. Len(rooms)
    BY <1>1, RoomsCount
  <2>2. \E i \in S : \A j \in S : j =< i
    BY <1>1, <2>1, Greatest
  <2>3. (CHOOSE i \in S : \A j \in S : j =< i) \in S
    BY <2>2
  <2> QED
    BY <1>1, <2>3
<1>2. ASSUME Suh!StartGame PROVE current' \in DOMAIN rooms
  <2> DEFINE S == Suh!StartRooms
  <2>1. pc = "read" /\ S # {} /\ current' = CHOOSE i \in S : \A j \in S : j =< i
    BY <1>2 DEF Suh!StartGame
  <2>2. S \subseteq DOMAIN rooms
    BY DEF Suh!StartRooms
  <2> HIDE DEF S
  <2> QED
    BY <1>1, <2>1, <2>2
<1>3. ASSUME NEW name, Suh!start_game(name), current \in DOMAIN rooms
      PROVE  current' \in DOMAIN rooms
  <2> DEFINE S == {j \in DOMAIN rooms : rooms[j].name = name}
  <2>1. /\ pc = "play"
        /\ current' = IF S = {} THEN current ELSE CHOOSE i \in S : \A j \in S : j =< i
    BY <1>3 DEF Suh!start_game
  <2>2. S \subseteq DOMAIN rooms
    OBVIOUS
  <2> HIDE DEF S
  <2> QED
    BY <1>1, <1>3, <2>1, <2>2
<1> QED
  BY <1>2, <1>3

\* A player has a room while the game is played.
LEMMA StepCurrent ==
    ASSUME DiskInv, PlaceInv, FinishedInv, ReadInv, CurrentInv, WalkInv', program' = program, Step
    PROVE  CurrentInv'
<1>1. ReadStep /\ WalkStep
  BY ReadSteps, WalkSteps DEF DiskInv
<1>2. ASSUME pc' = "play" PROVE current' \in DOMAIN rooms'
  <2>1. CASE program # "suh"
    BY <1>2, <2>1 DEF WalkInv, Walking
  <2>2. CASE program = "suh"
    <3>1. CASE UNCHANGED <<pc, search, reading, walk>>
      BY <1>2, <3>1 DEF reading, walk, CurrentInv
    <3>2. CASE Suh!StartGame
      <4>1. rooms' = rooms
        BY <3>2 DEF Suh!StartGame, Suh!reading
      <4> QED
        BY <1>2, <2>2, <3>2, <4>1, SuhIsIn
    <3>3. ASSUME NEW name, Suh!start_game(name) PROVE current' \in DOMAIN rooms'
      <4>1. rooms' = rooms /\ current \in DOMAIN rooms
        BY <3>3 DEF Suh!start_game, Suh!reading, CurrentInv
      <4> QED
        BY <1>2, <2>2, <3>3, <4>1, SuhIsIn
    <3> QED
      BY <1>1, <1>2, <2>2, <3>1, <3>2, <3>3 DEF WalkStep
  <2> QED
    BY <2>1, <2>2
<1>3. ASSUME pc' # "play"
      PROVE  /\ pc' \in {"start", "search", "read", "over"} => current' = 0
             /\ pc' = "undefined" => current' \in 0 .. Len(rooms')
  <2>1. ASSUME pc # "undefined" PROVE Len(rooms) \in Nat /\ DOMAIN rooms = 1 .. Len(rooms)
    BY <2>1, RoomsCount
  <2>2. ASSUME pc \in {"search", "read"}, current' = current, rooms' \in {rooms, <<>>}
        PROVE  current' = 0 /\ current' \in 0 .. Len(rooms')
    <3>1. current = 0
      BY <2>2 DEF CurrentInv
    <3>2. Len(rooms') \in Nat
      BY <2>1, <2>2
    <3> QED
      BY <2>2, <3>1, <3>2
  <2>3. CASE UNCHANGED <<pc, search, reading, walk>>
    BY <2>3 DEF reading, walk, CurrentInv
  <2>4. CASE pc' \in {"start", "over"} /\ NoGame
    BY <2>4 DEF NoGame
  <2>5. CASE pc \in {"start", "search"} /\ pc' = "search" /\ UNCHANGED <<reading, walk>>
    BY <2>5 DEF walk, CurrentInv
  <2>6. CASE program # "dougherty" /\ OpenChosen
    <3>1. pc = "search" /\ current' = current /\ rooms' = <<>> /\ pc' \in {"read", "undefined"}
      BY <2>6 DEF OpenChosen, walk
    <3> QED
      BY <2>2, <3>1
  <2>7. CASE program = "dougherty" /\ Dougherty!getRoomNames
    <3>1. pc = "search" /\ current' = current /\ pc' \in {"read", "undefined"}
      BY <2>7 DEF Dougherty!getRoomNames, Dougherty!walk
    <3>2. current' = 0
      BY <3>1 DEF CurrentInv
    <3>3. Len(rooms') \in Nat
      BY <2>7, DoughertyCounts
    <3> QED
      BY <3>1, <3>2, <3>3
  <2>8. ASSUME program = "suh", NEW f \in listing, Suh!ReadFile(f)
        PROVE  /\ pc' \in {"start", "search", "read", "over"} => current' = 0
               /\ pc' = "undefined" => current' \in 0 .. Len(rooms')
    <3>1. /\ pc = "read" /\ current' = current /\ pc' \in {"read", "undefined"}
          /\ (pc' = "undefined" => rooms' = rooms)
      BY <2>8 DEF Suh!ReadFile, Suh!walk
    <3>2. pc' = "read" => current' = 0
      BY <3>1 DEF CurrentInv
    <3> QED
      BY <2>2, <3>1, <3>2
  <2>9. CASE program = "luu" /\ \E f \in listing : Luu!ReadRoomFromFile(f)
    BY <2>9 DEF Luu!ReadRoomFromFile, Luu!walk, CurrentInv
  <2>10. CASE program = "dougherty" /\ \E i \in Indices : Dougherty!formRooms(i)
    BY <2>10 DEF Dougherty!formRooms, Dougherty!walk, CurrentInv
  <2>11. CASE Starts
    <3>1. pc = "read" /\ pc' = "undefined" /\ current' = current /\ rooms' = rooms
      BY <1>3, <2>11 DEF Starts, walk, reading
    <3> QED
      BY <2>2, <3>1
  <2>12. CASE Moves
    <3>1. pc = "play" /\ pc' = "undefined" /\ current' = current /\ rooms' = rooms
      BY <1>3, <2>12 DEF Moves, walk, reading
    <3>2. current \in 1 .. Len(rooms) /\ Len(rooms) \in Nat
      BY <2>1, <3>1 DEF CurrentInv
    <3> QED
      BY <3>1, <3>2
  <2> QED
    BY <1>1, <2>3, <2>4, <2>5, <2>6, <2>7, <2>8, <2>9, <2>10, <2>11, <2>12 DEF ReadStep
<1> QED
  BY <1>2, <1>3 DEF CurrentInv

\* Where the player is and has been, in every reachable state.
THEOREM WalkInvariance == Spec => [](GamesInv /\ WalkInv /\ CurrentInv)
<1>1. Init => WalkInv /\ CurrentInv
  BY DEF Init, Suh!Init, Suh!InitWorld, Luu!Init, Luu!InitWorld, Dougherty!Init,
         Dougherty!InitWorld, WalkInv, CurrentInv
<1>2. GamesInv /\ WalkInv /\ CurrentInv /\ [Next]_mcVars => WalkInv' /\ CurrentInv'
  BY StepsOf, StepWalk, StepCurrent DEF GamesInv
<1> QED
  BY <1>1, <1>2, ReadInvariance, PTL DEF Spec

\* The path is a walk along connections that begins in the START_ROOM, does
\* not go on from the END_ROOM and ends where the player is: in Suh's game when
\* the directory was finished as it was opened, in Luu's and Dougherty's
\* whatever their builder has left in it.
THEOREM PathsAreWalks == Spec => []PathIsWalk
<1>1. GamesInv /\ WalkInv /\ CurrentInv => PathIsWalk
  <2> SUFFICES ASSUME GamesInv, WalkInv, CurrentInv, pc \in {"play", "over"},
                      whole \/ program # "suh", current # 0
               PROVE  PathIsWalk
    BY Zenon DEF PathIsWalk
  <2>1. pc = "play" /\ ProgramInv
    BY DEF GamesInv, CurrentInv, DiskInv
  <2> DEFINE trail == Trail(program, rooms, path)
  <2>2. IsWalk(program, rooms, trail, Start(rooms), current)
    BY <2>1 DEF WalkInv, Walking
  <2>3. \A i : OutNames(i) = Ways(program, rooms, i)
    BY <2>1, WaysOut
  <2>4. /\ trail[1] = Start(rooms) /\ trail[Len(trail)] = current
        /\ \A k \in 1 .. Len(trail) - 1 :
              /\ rooms[trail[k]].type # "END_ROOM"
              /\ rooms[trail[k + 1]].name \in Range(OutNames(trail[k]))
    BY <2>2, <2>3 DEF IsWalk
  <2>5. (/\ trail[1] = Start(rooms) /\ trail[Len(trail)] = current
         /\ \A k \in 1 .. Len(trail) - 1 :
               /\ rooms[trail[k]].type # "END_ROOM"
               /\ rooms[trail[k + 1]].name \in Range(OutNames(trail[k])))
        => PathIsWalk
    BY Zenon DEF PathIsWalk, Trail, Start, Index
  <2> QED
    BY <2>4, <2>5
<1> QED
  BY <1>1, WalkInvariance, PTL

-----------------------------------------------------------------------------
(***************************************************************************)
(* The types of all variables.                                             *)
(***************************************************************************)
\* Only the clock changes the time, and only a new game the number of games.
LEMMA StepCounts ==
    ASSUME Step PROVE (now' = now \/ Tick) /\ (games' = games \/ PlayAgain)
<1>1. World \/ (\E d \in Dirs : BuildStep(d)) \/ UNCHANGED vars =>
      (now' = now \/ Tick) /\ (games' = games \/ PlayAgain)
  BY DEF World, Tick, PlayAgain, KillMaker, BuildStep, MakesUp, MakeDir, OpenFile, CloseFile, vars
<1>2. OpenChosen \/ EndGame \/ MakeTimeFile => now' = now /\ games' = games
  BY DEF OpenChosen, EndGame, MakeTimeFile
<1>3. ASSUME NEW first, OpenRootFrom(first) PROVE now' = now /\ games' = games
  BY <1>3 DEF OpenRootFrom
<1>4. ASSUME NEW d, NEW better, LookAt(d, better) PROVE now' = now /\ games' = games
  BY <1>4 DEF LookAt
<1>5. /\ Suh!StartGame => now' = now /\ games' = games
      /\ \A f : Suh!ReadFile(f) => now' = now /\ games' = games
      /\ \A name : Suh!start_game(name) => now' = now /\ games' = games
  BY DEF Suh!StartGame, Suh!ReadFile, Suh!start_game
<1>6. /\ Luu!StartPlaying => now' = now /\ games' = games
      /\ \A f : Luu!ReadRoomFromFile(f) => now' = now /\ games' = games
      /\ \A name : Luu!PlayGame(name) => now' = now /\ games' = games
  BY DEF Luu!StartPlaying, Luu!ReadRoomFromFile, Luu!PlayGame
<1>7. /\ Dougherty!getRoomNames \/ Dougherty!findStartRoom => now' = now /\ games' = games
      /\ \A i : Dougherty!formRooms(i) => now' = now /\ games' = games
      /\ \A name : Dougherty!gamePlay(name) => now' = now /\ games' = games
  BY DEF Dougherty!getRoomNames, Dougherty!findStartRoom, Dougherty!formRooms, Dougherty!gamePlay
<1>8. SuhPlay => now' = now /\ games' = games
  BY <1>2, <1>3, <1>4, <1>5 DEF SuhPlay
<1>9. LuuPlay => now' = now /\ games' = games
  BY <1>2, <1>3, <1>4, <1>6 DEF LuuPlay
<1>10. DoughertyPlay => now' = now /\ games' = games
  BY <1>2, <1>3, <1>4, <1>7 DEF DoughertyPlay
<1> QED
  BY <1>1, <1>8, <1>9, <1>10 DEF Step

\* The bounds of the model are kept.
LEMMA StepBound ==
    ASSUME DiskInv, PlaceInv, BoundInv, program' = program, Step PROVE BoundInv'
<1>1. /\ MaxTime \in Nat /\ MaxTime >= 2 /\ MaxGames \in Nat
      /\ now \in Nat /\ now # 0 /\ now =< MaxTime /\ mtime \in [Dirs -> 0 .. now]
      /\ newest =< MaxTime /\ -1 =< newest /\ games \in 1 .. MaxGames /\ root \subseteq Existing
  BY BoundAssumption DEF BoundInv, DiskInv, Shape
<1>2. now' =< MaxTime
  BY <1>1, StepCounts DEF Tick
<1>3. games' \in 1 .. MaxGames
  <2>1. CASE games' = games
    BY <1>1, <2>1
  <2>2. CASE PlayAgain
    BY <1>1, <2>2 DEF PlayAgain
  <2> QED
    BY <2>1, <2>2, StepCounts
<1>4. Existing \subseteq Existing'
  BY <1>1, TimesGrow DEF Existing
<1>5. SearchStep
  BY SearchSteps DEF DiskInv
<1>6. root' \subseteq Existing' /\ newest' =< MaxTime /\ -1 =< newest'
  <2>1. CASE UNCHANGED search
    BY <1>1, <1>4, <2>1 DEF search
  <2>2. CASE NoGame
    BY <1>1, <2>2 DEF NoGame
  <2>3. CASE OpenRootFrom(First)
    <3>1. root' = Existing /\ newest' = First
      BY <2>3 DEF OpenRootFrom
    <3>2. First \in {-1, 0}
      BY DEF First
    <3> QED
      BY <1>1, <1>4, <3>1, <3>2
  <2>4. ASSUME NEW d \in Dirs, LookAt(d, Better(d))
        PROVE  root' \subseteq Existing' /\ newest' =< MaxTime /\ -1 =< newest'
    <3>1. root' = root \ {d} /\ newest' \in {newest, mtime[d]}
      BY <2>4 DEF LookAt
    <3>2. mtime[d] \in 0 .. now
      BY <1>1
    <3> QED
      BY <1>1, <1>4, <3>1, <3>2
  <2> QED
    BY <1>5, <2>1, <2>2, <2>3, <2>4 DEF SearchStep
<1> QED
  BY <1>2, <1>3, <1>6 DEF BoundInv

\* And not passed at first.
LEMMA InitBound == Init => BoundInv
<1>1. MaxTime \in Nat /\ MaxTime >= 2 /\ MaxGames \in Nat /\ MaxGames >= 1
  BY BoundAssumption
<1>2. ASSUME now = 2, newest = 0, games = 1, root = {} PROVE BoundInv
  BY <1>1, <1>2 DEF BoundInv
<1> QED
  BY <1>2 DEF Init, Suh!Init, Suh!InitWorld, Luu!Init, Luu!InitWorld, Dougherty!Init,
              Dougherty!InitWorld

\* Every variable has its type: what is in the directories, where the search
\* has come to, and the room that the player is in.
THEOREM TypeCorrect == Spec => []TypeOK
<1>1. GamesInv /\ CurrentInv /\ SearchInv /\ BoundInv => TypeOK
  <2> SUFFICES ASSUME GamesInv, CurrentInv, SearchInv, BoundInv PROVE TypeOK
    OBVIOUS
  <2>1. DiskInv /\ PlaceInv /\ FinishedInv /\ ReadInv /\ Shape /\ UndefinedInv
    BY DEF GamesInv, DiskInv
  <2>2. /\ maker \in [Dirs -> {"idle", "dir", "open", "write", "done", "dead"}]
        /\ count \in [Dirs -> 0 .. NUM_ROOMS]
    BY <2>1 DEF Shape, Makers
  <2>3. ASSUME NEW d \in Dirs
        PROVE  /\ Len(made[d]) = IF maker[d] = "idle" THEN 0 ELSE NUM_ROOMS
               /\ \A f \in DOMAIN files[d] : files[d][f] \in Texts
    <3>1. MakerInv(d) /\ FileInv(d)
      BY <2>1 DEF DiskInv
    <3>2. CASE maker[d] = "idle"
      BY <3>1, <3>2 DEF MakerInv
    <3>3. CASE maker[d] # "idle"
      <4>1. GoodRooms(made[d])
        BY <3>1, <3>3 DEF MakerInv
      <4>2. made[d] \in [1 .. NUM_ROOMS -> [name : Names, type : Types, outs : Seq(Indices)]]
        BY <4>1 DEF GoodRooms, Indices
      <4>3. Len(made[d]) = NUM_ROOMS
        BY <4>2, Constants
      <4>4. ASSUME NEW k \in Indices PROVE RoomText(made[d], k) \in Texts
        BY <4>1, RoomsMade DEF Texts, Names
      <4>5. ASSUME NEW f \in DOMAIN files[d] PROVE files[d][f] \in Texts
        <5>1. EmptyText \in Texts /\ TimeText \in Texts
          BY DEF Texts
        <5> QED
          BY <3>1, <4>4, <5>1 DEF FileInv
      <4> QED
        BY <3>3, <4>3, <4>5
    <3> QED
      BY <3>2, <3>3
  <2>4. {now, opened} \subseteq 0 .. MaxTime /\ mtime \in [Dirs -> 0 .. now]
    <3>1. now \in Nat /\ opened \in 0 .. now /\ now =< MaxTime /\ MaxTime \in Nat
      BY <2>1, BoundAssumption DEF Shape, SearchInv, BoundInv
    <3> QED
      BY <2>1, <3>1 DEF Shape
  <2>5. /\ pc \in {"start", "search", "read", "play", "over", "undefined"}
        /\ root \subseteq Existing /\ dirname \in Existing \cup {NoDir}
    BY <2>1 DEF PlaceInv, Pcs, BoundInv, Existing
  <2>6. newest \in -1 .. MaxTime
    BY BoundAssumption DEF SearchInv, BoundInv
  <2>7. current \in 0 .. Len(rooms)
    <3>1. CASE pc = "undefined"
      BY <3>1 DEF CurrentInv
    <3>2. CASE pc # "undefined"
      <4>1. Len(rooms) \in Nat /\ DOMAIN rooms = 1 .. Len(rooms)
        BY <2>1, <3>2, RoomsCount
      <4>2. current = 0 \/ current \in DOMAIN rooms
        BY <2>5, <3>2 DEF CurrentInv
      <4> QED
        BY <4>1, <4>2
    <3> QED
      BY <3>1, <3>2
  <2>8. whole \in BOOLEAN /\ games \in 1 .. MaxGames
    BY <2>1 DEF FinishedInv, BoundInv
  <2> QED
    BY <2>2, <2>3, <2>4, <2>5, <2>6, <2>7, <2>8 DEF TypeOK
<1>2. DiskInv /\ PlaceInv /\ SearchInv /\ BoundInv /\ [Next]_mcVars => BoundInv'
  BY StepsOf, StepBound
<1>3. Spec => []BoundInv
  BY <1>2, InitBound, DiskInvariance, PTL DEF Spec
<1> QED
  BY <1>1, <1>3, DiskInvariance, WalkInvariance, PTL
=============================================================================
