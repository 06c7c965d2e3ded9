-------------------------- MODULE BuildRoomsProofs --------------------------
(***************************************************************************)
(* What is proved about the four room builders for every finite set of     *)
(* rooms: their types, that the counters count, that connections lead both *)
(* ways, that no rejection loop is entered without a way out, and that     *)
(* every step is one of RoomGraph or changes nothing there.  The programs  *)
(* differ in how they look for a connection and for a free slot; what each *)
(* of their steps comes to is stated once (BuilderStep), and the rest of   *)
(* the proof is about that.                                                *)
(***************************************************************************)
EXTENDS MCBuildRooms, FiniteSetTheorems, TLAPS

\* What the tests of all four programs come to.
Full       == \A x \in Rooms : num[x] >= MinOutbound
Open(x)    == num[x] < MaxOutbound
Fits(x, y) == Open(y) /\ x # y /\ y \notin Neighbours(x)

\* The used slots of a room are the first num[x], and hold num[x] different
\* other rooms.
RowInv(x) ==
    /\ \A i \in Slots : outbound[x][i] # -1 <=> i =< num[x]
    /\ x \notin Neighbours(x) /\ num[x] = Cardinality(Neighbours(x))

\* What the labels of a builder know about the rooms picked, and that some
\* room still lacks a connection.
PickInv ==
    /\ pc \in {"pick1", "pick2", "connect12", "connect21"} =>
          \E x \in Rooms : Cardinality(Linked(x)) < MinOutbound
    /\ pc \in {"pick2", "connect12", "connect21"} => room1 \in Rooms
    /\ pc \in {"pick2", "connect12"} => Open(room1)
    /\ pc = "connect12" => room2 \in Rooms /\ Fits(room1, room2)
    /\ pc = "connect21" =>
          /\ room2 \in Rooms /\ room1 # room2 /\ Open(room2)
          /\ room2 \in Neighbours(room1) /\ room1 \notin Neighbours(room2)

\* Connections lead both ways, but for the one being made.
AlmostBothWays ==
    \A x, y \in Rooms : y \in Neighbours(x) =>
        x \in Neighbours(y) \/ (pc = "connect21" /\ x = room1 /\ y = room2)

IInv == TypeOK /\ (\A x \in Rooms : RowInv(x)) /\ PickInv /\ AlmostBothWays

-----------------------------------------------------------------------------
(***************************************************************************)
(* The rows of the arrays.                                                 *)
(***************************************************************************)

\* MaxOutbound is a number, and the set of rooms has one element more.
LEMMA Limits ==
    /\ MaxOutbound \in Nat /\ MinOutbound \in Nat
    /\ 1 =< MinOutbound /\ MinOutbound =< MaxOutbound
    /\ Cardinality(Rooms) \in Nat
    /\ Cardinality(Rooms) = MaxOutbound + 1
<1>1. Cardinality(Rooms) \in Nat
  BY RoomsAssumption, FS_CardinalityType
<1> QED
  BY <1>1, MaxAssumption, MinAssumption

\* The neighbours of a room are a finite set.
LEMMA NeighboursFinite ==
    ASSUME NEW x \in Rooms
    PROVE  /\ IsFiniteSet(Neighbours(x))
           /\ Cardinality(Neighbours(x)) \in Nat
<1>1. Neighbours(x) \subseteq Rooms
  BY DEF Neighbours
<1> QED
  BY <1>1, RoomsAssumption, FS_Subset, FS_CardinalityType

\* The row of x gets y in its first free slot, or stays what it was.
RowGets(x, y) ==
    /\ outbound'[x] = [outbound[x] EXCEPT ![num[x] + 1] = y]
    /\ num'[x] = num[x] + 1
RowKept(x) == outbound'[x] = outbound[x] /\ num'[x] = num[x]

\* A row that gets a new room has one neighbour more and keeps its shape.
LEMMA RowAdds ==
    ASSUME TypeOK, NEW x \in Rooms, NEW y \in Rooms, x # y,
           RowInv(x), Open(x), y \notin Neighbours(x), RowGets(x, y)
    PROVE  /\ RowInv(x)' /\ Neighbours(x)' = Neighbours(x) \cup {y}
           /\ outbound'[x] \in [Slots -> Rooms \cup {-1}]
           /\ num'[x] \in 0 .. MaxOutbound
<1> DEFINE k == num[x] + 1
<1>1. /\ k \in Slots /\ num[x] \in Nat /\ outbound[x] \in [Slots -> Rooms \cup {-1}]
      /\ k \in 0 .. MaxOutbound
  BY Limits DEF TypeOK, Open, Slots
<1>2. outbound[x][k] = -1
  BY <1>1 DEF RowInv
<1>3. /\ outbound'[x] \in [Slots -> Rooms \cup {-1}]
      /\ outbound'[x][k] = y /\ num'[x] = k
      /\ \A i \in Slots \ {k} : outbound'[x][i] = outbound[x][i]
  BY <1>1 DEF RowGets
<1>4. \A i \in Slots : outbound'[x][i] # -1 <=> i =< num'[x]
  <2> SUFFICES ASSUME NEW i \in Slots PROVE outbound'[x][i] # -1 <=> i =< k
    BY <1>3
  <2>1. CASE i = k
    BY <1>1, <1>3, <2>1, RoomsAssumption
  <2>2. CASE i # k
    BY <1>1, <1>3, <2>2, Limits DEF RowInv, Slots
  <2> QED
    BY <2>1, <2>2
<1>5. Neighbours(x)' = Neighbours(x) \cup {y}
  <2>1. Neighbours(x)' \subseteq Neighbours(x) \cup {y}
    BY <1>3 DEF Neighbours
  <2>2. Neighbours(x) \cup {y} \subseteq Neighbours(x)'
    BY <1>1, <1>2, <1>3, RoomsAssumption DEF Neighbours
  <2> QED
    BY <2>1, <2>2
<1>6. Cardinality(Neighbours(x) \cup {y}) = Cardinality(Neighbours(x)) + 1
  BY NeighboursFinite, FS_AddElement
<1> QED
  BY <1>1, <1>3, <1>4, <1>5, <1>6 DEF RowInv

\* A row that is kept has the neighbours it had.
LEMMA RowStays ==
    ASSUME NEW x \in Rooms, RowKept(x)
    PROVE  Neighbours(x)' = Neighbours(x) /\ (RowInv(x) => RowInv(x)')
<1>1. Neighbours(x)' = Neighbours(x)
  BY DEF Neighbours, RowKept
<1> QED
  BY <1>1 DEF RowInv, RowKept

\* Whatever leaves the arrays alone leaves the graph alone.
LEMMA GraphKept ==
    ASSUME UNCHANGED <<outbound, num>>
    PROVE  /\ \A x \in Rooms : /\ Neighbours(x)' = Neighbours(x)
                               /\ Linked(x)' = Linked(x)
                               /\ RowInv(x) => RowInv(x)'
           /\ \A x : Open(x)' = Open(x)
<1>1. \A x \in Rooms : Neighbours(x)' = Neighbours(x) /\ (RowInv(x) => RowInv(x)')
  BY RowStays DEF RowKept
<1>2. \A x \in Rooms : Linked(x)' = Linked(x)
  BY <1>1 DEF Linked, Neighbours
<1> QED
  BY <1>1, <1>2 DEF Open

\* The linked neighbours of a room are a finite set.
LEMMA LinkedFinite ==
    ASSUME NEW x \in Rooms
    PROVE  /\ Linked(x) \subseteq Rooms /\ IsFiniteSet(Linked(x))
           /\ Cardinality(Linked(x)) \in Nat
<1>1. Linked(x) \subseteq Rooms
  BY DEF Linked, Neighbours
<1> QED
  BY <1>1, RoomsAssumption, FS_Subset, FS_CardinalityType

\* When no connection is being made, every neighbour is a linked one.
LEMMA LinkedAll ==
    ASSUME AlmostBothWays, pc # "connect21", NEW x \in Rooms
    PROVE  Linked(x) = Neighbours(x)
BY DEF AlmostBothWays, Linked, Neighbours

-----------------------------------------------------------------------------
(***************************************************************************)
(* What a step of any of the builders comes to.                            *)
(***************************************************************************)
ArraysTyped ==
    /\ outbound' \in [Rooms -> [Slots -> Rooms \cup {-1}]]
    /\ num' \in [Rooms -> 0 .. MaxOutbound]

Checks ==
    /\ pc = "check" /\ pc' = IF Full THEN "done" ELSE "pick1"
    /\ UNCHANGED <<room1, room2, outbound, num>>

Draws1(r) ==
    /\ pc = "pick1" /\ room1' = r
    /\ pc' = IF Open(r) THEN "pick2" ELSE "pick1"
    /\ UNCHANGED <<room2, outbound, num>>

Draws2(r) ==
    /\ pc = "pick2" /\ room2' = r
    /\ pc' = IF Fits(room1, r) THEN "connect12" ELSE "pick2"
    /\ UNCHANGED <<room1, outbound, num>>

\* The connection is entered for one room, for the other, or for both.
Enters12 ==
    /\ pc = "connect12" /\ pc' = "connect21" /\ UNCHANGED <<room1, room2>>
    /\ ArraysTyped
    /\ RowGets(room1, room2) /\ \A z \in Rooms \ {room1} : RowKept(z)

Enters21 ==
    /\ pc = "connect21" /\ pc' = "check" /\ UNCHANGED <<room1, room2>>
    /\ ArraysTyped
    /\ RowGets(room2, room1) /\ \A z \in Rooms \ {room2} : RowKept(z)

EntersBoth ==
    /\ pc = "connect12" /\ pc' = "check" /\ UNCHANGED <<room1, room2>>
    /\ ArraysTyped
    /\ RowGets(room1, room2) /\ RowGets(room2, room1)
    /\ \A z \in Rooms \ {room1, room2} : RowKept(z)

BuilderStep ==
    \/ Checks \/ Enters12 \/ Enters21 \/ EntersBoth
    \/ \E r \in Rooms : Draws1(r) \/ Draws2(r)
    \/ UNCHANGED vars

\* Entering y in the slot after the last used one of x is what RowGets says.
LEMMA EntersRow ==
    ASSUME TypeOK, NEW x \in Rooms, NEW y \in Rooms, Open(x),
           outbound' = [outbound EXCEPT ![x] = [@ EXCEPT ![num[x] + 1] = y]],
           num' = [num EXCEPT ![x] = @ + 1]
    PROVE  ArraysTyped /\ RowGets(x, y) /\ \A z \in Rooms \ {x} : RowKept(z)
<1>1. num[x] + 1 \in Slots /\ num[x] + 1 \in 0 .. MaxOutbound
  BY Limits DEF TypeOK, Open, Slots
<1>2. ArraysTyped
  BY <1>1 DEF ArraysTyped, TypeOK
<1> QED
  BY <1>2 DEF TypeOK, RowGets, RowKept

\* The rooms that are being connected.
LEMMA PickedRooms ==
    ASSUME IInv
    PROVE  /\ pc = "pick2" => room1 \in Rooms /\ Open(room1)
           /\ pc = "connect12" =>
                 /\ room1 \in Rooms /\ room2 \in Rooms /\ room1 # room2
                 /\ Open(room1) /\ Open(room2)
                 /\ room2 \notin Neighbours(room1)
                 /\ room1 \notin Neighbours(room2)
           /\ pc = "connect21" =>
                 /\ room1 \in Rooms /\ room2 \in Rooms /\ room1 # room2
                 /\ Open(room2)
                 /\ room2 \in Neighbours(room1)
                 /\ room1 \notin Neighbours(room2)
BY DEF IInv, PickInv, Fits, AlmostBothWays

\* The first free slot of a row with a free one is the one after the last
\* used.
LEMMA FirstFreeIs ==
    ASSUME TypeOK, NEW x \in Rooms, RowInv(x), Open(x)
    PROVE  /\ num[x] + 1 \in Slots /\ outbound[x][num[x] + 1] = -1
           /\ \A j \in 1 .. num[x] : j \in Slots /\ outbound[x][j] # -1
           /\ \A i \in Slots : outbound[x][i] = -1 /\ (\A j \in 1 .. i - 1 : outbound[x][j] # -1)
                                 => i = num[x] + 1
<1>1. num[x] \in Nat /\ num[x] + 1 \in Slots /\ MaxOutbound \in Nat
  BY Limits DEF TypeOK, Open, Slots
<1>2. \A i \in Slots : i \in Nat /\ i >= 1 /\ (outbound[x][i] # -1 <=> i =< num[x])
  BY Limits DEF RowInv, Slots
<1>3. outbound[x][num[x] + 1] = -1
  BY <1>1, <1>2
<1>4. \A j \in 1 .. num[x] : j \in Slots /\ outbound[x][j] # -1
  BY <1>1, <1>2 DEF Slots
<1>5. ASSUME NEW i \in Slots, outbound[x][i] = -1,
             \A j \in 1 .. i - 1 : outbound[x][j] # -1
      PROVE  i = num[x] + 1
  <2>1. ~(num[x] + 1 < i)
    <3> SUFFICES ASSUME num[x] + 1 < i PROVE FALSE
      OBVIOUS
    <3>1. num[x] + 1 \in 1 .. i - 1
      BY <1>1, <1>2
    <3> QED
      BY <1>3, <1>5, <3>1
  <2> QED
    BY <1>1, <1>2, <1>5, <2>1
<1> QED
  BY <1>1, <1>3, <1>4, <1>5

\* Looking at the used slots finds the neighbours.
LEMMA UsedSlots ==
    ASSUME TypeOK, NEW x \in Rooms, RowInv(x), NEW y \in Rooms
    PROVE  y \in Neighbours(x) <=> \E i \in 1 .. num[x] : outbound[x][i] = y
<1>1. num[x] \in Nat /\ num[x] =< MaxOutbound /\ MaxOutbound \in Nat
  BY Limits DEF TypeOK
<1>2. \A i \in Slots : outbound[x][i] = y => i \in 1 .. num[x]
  BY <1>1, RoomsAssumption DEF RowInv, Slots
<1>3. 1 .. num[x] \subseteq Slots
  BY <1>1 DEF Slots
<1> QED
  BY <1>2, <1>3 DEF Neighbours

\* Suh's builder.
LEMMA SuhStep ==
    ASSUME IInv, program = "suh", Suh!Next PROVE BuilderStep
<1> USE DEF BuilderStep
<1>0. TypeOK /\ \A x \in Rooms : RowInv(x)
  BY DEF IInv
<1>1. ASSUME NEW x \in Rooms, NEW y \in Rooms, Open(x), Suh!ConnectRoom(x, y)
      PROVE  ArraysTyped /\ RowGets(x, y) /\ \A z \in Rooms \ {x} : RowKept(z)
  <2>1. \A i \in Slots : Suh!FirstFree(x, i) => i = num[x] + 1
    BY <1>0, <1>1, FirstFreeIs DEF Suh!FirstFree
  <2>2. ~ \A i \in Slots : outbound[x][i] # -1
    BY <1>0, <1>1, FirstFreeIs
  <2>3. /\ outbound' = [outbound EXCEPT ![x] = [@ EXCEPT ![num[x] + 1] = y]]
        /\ num' = [num EXCEPT ![x] = @ + 1]
    BY <1>1, <2>1, <2>2 DEF Suh!ConnectRoom, Suh!Slots, Slots
  <2> QED
    BY <1>0, <1>1, <2>3, EntersRow
<1>2. CASE Suh!CheckFull
  BY <1>2 DEF Suh!CheckFull, Suh!IsGraphFull, Checks, Full
<1>3. CASE Suh!Connect12
  BY <1>1, <1>3, PickedRooms DEF Suh!Connect12, Enters12
<1>4. CASE Suh!Connect21
  BY <1>1, <1>4, PickedRooms DEF Suh!Connect21, Enters21
<1>5. ASSUME NEW r \in Rooms, Suh!PickRoom1(r) PROVE BuilderStep
  BY <1>5 DEF Suh!PickRoom1, Suh!CanAddConnectionFrom, Draws1, Open
<1>6. ASSUME NEW r \in Rooms, Suh!PickRoom2(r) PROVE BuilderStep
  BY <1>6
  DEF Suh!PickRoom2, Suh!Acceptable, Suh!CanAddConnectionFrom,
      Suh!ConnectionAlreadyExists, Suh!Slots, Draws2, Fits, Open, Neighbours, Slots
<1>7. CASE Suh!Done
  BY <1>7 DEF Suh!Done, Suh!vars, vars
<1> QED
  BY <1>2, <1>3, <1>4, <1>5, <1>6, <1>7 DEF Suh!Next

\* Luu's builder.
LEMMA LuuStep ==
    ASSUME IInv, program = "luu", Luu!Next PROVE BuilderStep
<1> USE DEF BuilderStep
<1>0. TypeOK /\ \A x \in Rooms : RowInv(x)
  BY DEF IInv
<1>1. CASE Luu!CheckComplete
  <2>1. Luu!IsGraphComplete <=> Full
    BY <1>0, Limits DEF Luu!IsGraphComplete, Full, TypeOK
  <2> QED
    BY <1>1, <2>1 DEF Luu!CheckComplete, Checks
<1>2. CASE Luu!Connect
  <2>1. PICK a \in Rooms, b \in Rooms : a = room1 /\ b = room2 /\ a # b
                                     /\ Open(a) /\ Open(b)
    BY <1>2, PickedRooms DEF Luu!Connect
  <2>2. /\ outbound' = [outbound EXCEPT
                          ![a] = [@ EXCEPT ![num[a] + 1] = b],
                          ![b] = [@ EXCEPT ![num[b] + 1] = a]]
        /\ num' = [num EXCEPT ![a] = @ + 1, ![b] = @ + 1]
    BY <1>2, <2>1 DEF Luu!Connect, Luu!ConnectRooms, Luu!CanAddOutboundFrom, Open
  <2>3. /\ num[a] + 1 \in Slots /\ num[a] + 1 \in 0 .. MaxOutbound
        /\ num[b] + 1 \in Slots /\ num[b] + 1 \in 0 .. MaxOutbound
    BY <1>0, <2>1, Limits DEF TypeOK, Open, Slots
  <2>4. ArraysTyped
    BY <1>0, <2>1, <2>2, <2>3 DEF ArraysTyped, TypeOK
  <2>5. RowGets(a, b) /\ RowGets(b, a) /\ \A z \in Rooms \ {a, b} : RowKept(z)
    BY <1>0, <2>1, <2>2 DEF TypeOK, RowGets, RowKept
  <2> QED
    BY <1>2, <2>1, <2>4, <2>5 DEF Luu!Connect, EntersBoth
<1>3. ASSUME NEW r \in Rooms, Luu!PickX(r) PROVE BuilderStep
  BY <1>3 DEF Luu!PickX, Luu!CanAddOutboundFrom, Draws1, Open
<1>4. ASSUME NEW r \in Rooms, Luu!PickY(r) PROVE BuilderStep
  <2>1. pc = "pick2" /\ room1 \in Rooms
    BY <1>4, PickedRooms DEF Luu!PickY
  <2>2. Luu!ConnectionExists(room1, r) <=> r \in Neighbours(room1)
    BY <1>0, <2>1, UsedSlots DEF Luu!ConnectionExists
  <2> QED
    BY <1>4, <2>2
    DEF Luu!PickY, Luu!Acceptable, Luu!CanAddOutboundFrom, Luu!IsSameRoom, Draws2,
        Fits, Open
<1>5. CASE Luu!Done
  BY <1>5 DEF Luu!Done, Luu!vars, vars
<1> QED
  BY <1>1, <1>2, <1>3, <1>4, <1>5 DEF Luu!Next, Luu!Step

\* Dougherty's builder.
LEMMA DoughertyStep ==
    ASSUME IInv, program = "dougherty", Dougherty!Next PROVE BuilderStep
<1> USE DEF BuilderStep
<1>0. TypeOK /\ \A x \in Rooms : RowInv(x)
  BY DEF IInv
<1>1. ASSUME NEW x \in Rooms, NEW y \in Rooms, Open(x), Dougherty!connectRoom(x, y)
      PROVE  ArraysTyped /\ RowGets(x, y) /\ \A z \in Rooms \ {x} : RowKept(z)
  <2>1. PICK i \in 1 .. MaxOutbound + 1 :
            /\ i = Dougherty!FreeIndex(x)
            /\ \A j \in 1 .. i - 1 : outbound[x][j] # -1
            /\ i \in Slots => outbound[x][i] = -1
    <3> DEFINE k == num[x] + 1
    <3>1. k \in 1 .. MaxOutbound + 1 /\ k - 1 = num[x]
      <4>1. num[x] + 1 \in Slots /\ num[x] \in 0 .. MaxOutbound
        BY <1>0, <1>1, FirstFreeIs DEF TypeOK
      <4> QED
        BY <4>1, Limits DEF Slots
    <3>2. \A j \in 1 .. k - 1 : outbound[x][j] # -1
      <4>1. \A j \in 1 .. num[x] : outbound[x][j] # -1
        BY <1>0, <1>1, FirstFreeIs
      <4> QED
        BY <3>1, <4>1
    <3>3. \E i \in 1 .. MaxOutbound + 1 :
            /\ \A j \in 1 .. i - 1 : outbound[x][j] # -1
            /\ i \in Slots => outbound[x][i] = -1
      <4>1. outbound[x][k] = -1
        BY <1>0, <1>1, FirstFreeIs
      <4> HIDE DEF k
      <4> QED
        BY <3>1, <3>2, <4>1
    <3> QED
      BY <3>3 DEF Dougherty!FreeIndex, Dougherty!Slots, Slots
  <2>2. i = num[x] + 1
    BY <1>0, <1>1, <2>1, FirstFreeIs DEF Dougherty!connectRoom, Dougherty!Slots, Slots
  <2>3. /\ outbound' = [outbound EXCEPT ![x] = [@ EXCEPT ![num[x] + 1] = y]]
        /\ num' = [num EXCEPT ![x] = @ + 1]
    BY <1>1, <2>1, <2>2 DEF Dougherty!connectRoom
  <2> QED
    BY <1>0, <1>1, <2>3, EntersRow
<1>2. CASE Dougherty!CheckFull
  <2>1. Dougherty!isGraphFull <=> Full
    BY <1>0, Limits DEF Dougherty!isGraphFull, Full, TypeOK
  <2> QED
    BY <1>2, <2>1 DEF Dougherty!CheckFull, Checks
<1>3. CASE Dougherty!ConnectXY
  BY <1>1, <1>3, PickedRooms DEF Dougherty!ConnectXY, Enters12
<1>4. CASE Dougherty!ConnectYX
  BY <1>1, <1>4, PickedRooms DEF Dougherty!ConnectYX, Enters21
<1>5. ASSUME NEW r \in Rooms, Dougherty!PickX(r) PROVE BuilderStep
  BY <1>5 DEF Dougherty!PickX, Dougherty!canAddConnectionFrom, Draws1, Open
<1>6. ASSUME NEW r \in Rooms, Dougherty!PickY(r) PROVE BuilderStep
  <2>1. pc = "pick2" /\ room1 \in Rooms /\ Open(room1)
    BY <1>6, PickedRooms DEF Dougherty!PickY
  <2>2. \A i \in Slots : outbound[room1][i] = r =>
          \A j \in 1 .. i - 1 : outbound[room1][j] # -1
    <3> SUFFICES ASSUME NEW i \in Slots, outbound[room1][i] = r,
                        NEW j \in 1 .. i - 1
                 PROVE  outbound[room1][j] # -1
      OBVIOUS
    <3>1. i =< num[room1] /\ num[room1] \in Nat /\ num[room1] =< MaxOutbound
      BY <1>0, <2>1, RoomsAssumption DEF RowInv, TypeOK
    <3>2. j \in Slots /\ j =< num[room1]
      BY <3>1, Limits DEF Slots
    <3> QED
      BY <1>0, <2>1, <3>2 DEF RowInv
  <2>3. Dougherty!connectionAlreadyExists(room1, r) <=> r \in Neighbours(room1)
    BY <2>2 DEF Dougherty!connectionAlreadyExists, Dougherty!Slots, Neighbours, Slots
  <2> QED
    BY <1>6, <2>3
    DEF Dougherty!PickY, Dougherty!Acceptable, Dougherty!canAddConnectionFrom,
        Dougherty!isSameRoom, Draws2, Fits, Open
<1>7. CASE Dougherty!Done
  BY <1>7 DEF Dougherty!Done, Dougherty!vars, vars
<1> QED
  BY <1>2, <1>3, <1>4, <1>5, <1>6, <1>7 DEF Dougherty!Next, Dougherty!Step

\* Rico's builder, which looks for the connection from the other side.
LEMMA RicoStep ==
    ASSUME IInv, program = "rico", Rico!Next PROVE BuilderStep
<1> USE DEF BuilderStep
<1>0. TypeOK /\ \A x \in Rooms : RowInv(x)
  BY DEF IInv
<1>1. ASSUME NEW x \in Rooms, NEW y \in Rooms, Open(x), Rico!connectRoom(x, y)
      PROVE  ArraysTyped /\ RowGets(x, y) /\ \A z \in Rooms \ {x} : RowKept(z)
  BY <1>0, <1>1, EntersRow DEF Rico!connectRoom
<1>2. CASE Rico!CheckFull
  <2>1. Rico!isGraphFull <=> Full
    BY <1>0, Limits DEF Rico!isGraphFull, Full, TypeOK
  <2> QED
    BY <1>2, <2>1 DEF Rico!CheckFull, Checks
<1>3. CASE Rico!ConnectAB
  BY <1>1, <1>3, PickedRooms DEF Rico!ConnectAB, Enters12
<1>4. CASE Rico!ConnectBA
  BY <1>1, <1>4, PickedRooms DEF Rico!ConnectBA, Enters21
<1>5. ASSUME NEW r \in Rooms, Rico!PickA(r) PROVE BuilderStep
  BY <1>5 DEF Rico!PickA, Rico!canAddConnectionFrom, Draws1, Open
<1>6. ASSUME NEW r \in Rooms, Rico!PickB(r) PROVE BuilderStep
  <2>1. pc = "pick2" /\ room1 \in Rooms
    BY <1>6, PickedRooms DEF Rico!PickB
  <2>2. Rico!connectionAlreadyExists(room1, r) <=> room1 \in Neighbours(r)
    BY <1>0, <2>1, UsedSlots DEF Rico!connectionAlreadyExists
  <2>3. room1 \in Neighbours(r) <=> r \in Neighbours(room1)
    BY <2>1 DEF IInv, AlmostBothWays
  <2> QED
    BY <1>6, <2>2, <2>3
    DEF Rico!PickB, Rico!Acceptable, Rico!canAddConnectionFrom, Rico!isSameRoom,
        Draws2, Fits, Open
<1>7. CASE Rico!Done
  BY <1>7 DEF Rico!Done, Rico!vars, vars
<1> QED
  BY <1>2, <1>3, <1>4, <1>5, <1>6, <1>7 DEF Rico!Next, Rico!Step

\* A step of whichever builder runs.
LEMMA AnyStep == IInv /\ [Next]_mcVars => BuilderStep
<1>1. UNCHANGED mcVars => BuilderStep
  BY DEF mcVars, BuilderStep
<1> QED
  BY <1>1, SuhStep, LuuStep, DoughertyStep, RicoStep DEF Next

-----------------------------------------------------------------------------
(***************************************************************************)
(* The invariant, and what follows from it.                                *)
(***************************************************************************)

\* The initial state of every program satisfies the invariant: nothing is
\* connected.
LEMMA InitInv == Init => IInv
<1> SUFFICES ASSUME Init PROVE IInv
  OBVIOUS
<1>1. /\ pc = "check" /\ room1 = -1 /\ room2 = -1
      /\ outbound = [x \in Rooms |-> [i \in Slots |-> -1]]
      /\ num = [x \in Rooms |-> 0]
  BY DEF Init, Suh!Init, Luu!Init, Dougherty!Init, Rico!Init, Suh!Slots, Luu!Slots,
         Dougherty!Slots, Rico!Slots, Slots
<1>2. \A x \in Rooms : Neighbours(x) = {}
  BY <1>1, RoomsAssumption DEF Neighbours
<1>3. TypeOK
  BY <1>1, Limits DEF TypeOK
<1>4. \A x \in Rooms : RowInv(x)
  <2> SUFFICES ASSUME NEW x \in Rooms PROVE RowInv(x)
    OBVIOUS
  <2>1. num[x] = 0 /\ Neighbours(x) = {} /\ Cardinality({}) = 0
    BY <1>1, <1>2, FS_EmptySet
  <2>2. \A i \in Slots : outbound[x][i] = -1 /\ ~(i =< num[x])
    BY <1>1, <2>1, Limits DEF Slots
  <2> QED
    BY <2>1, <2>2 DEF RowInv
<1> QED
  BY <1>1, <1>2, <1>3, <1>4 DEF IInv, PickInv, AlmostBothWays

\* A connection that is entered for one of its rooms is linked only when it
\* is entered for the other one, too.
LEMMA LinkedChanges ==
    ASSUME NEW a \in Rooms, NEW b \in Rooms, a # b, a \notin Neighbours(b),
           \A z \in Rooms \ {a, b} : Neighbours(z)' = Neighbours(z),
           Neighbours(a)' = Neighbours(a) \cup {b}
    PROVE  /\ Neighbours(b)' = Neighbours(b) =>
                 \A z \in Rooms : Linked(z)' = Linked(z)
           /\ Neighbours(b)' = Neighbours(b) \cup {a} =>
                 /\ Linked(a)' = Linked(a) \cup {b} /\ Linked(b)' = Linked(b) \cup {a}
                 /\ \A z \in Rooms \ {a, b} : Linked(z)' = Linked(z)
<1> SUFFICES ASSUME Neighbours(b)' \in {Neighbours(b), Neighbours(b) \cup {a}}
             PROVE  /\ Neighbours(b)' = Neighbours(b) =>
                          \A z \in Rooms : Linked(z)' = Linked(z)
                    /\ Neighbours(b)' = Neighbours(b) \cup {a} =>
                          /\ Linked(a)' = Linked(a) \cup {b}
                          /\ Linked(b)' = Linked(b) \cup {a}
                          /\ \A z \in Rooms \ {a, b} : Linked(z)' = Linked(z)
  OBVIOUS
<1>1. /\ \A z \in Rooms : Neighbours(z) \subseteq Rooms
      /\ \A z \in Rooms : Neighbours(z)' \subseteq Rooms
  BY DEF Neighbours
<1>2. /\ \A z : Linked(z) = {y \in Neighbours(z) : z \in Neighbours(y)}
      /\ \A z : Linked(z)' = {y \in Neighbours(z)' : z \in Neighbours(y)'}
  BY DEF Linked
<1> HIDE DEF Linked, Neighbours
<1>3. CASE Neighbours(b)' = Neighbours(b)
  <2>1. ASSUME NEW z \in Rooms PROVE Linked(z)' = Linked(z)
    BY <1>1, <1>2, <1>3
  <2> QED
    BY <1>3, <2>1
<1>4. CASE Neighbours(b)' = Neighbours(b) \cup {a}
  <2>1. \A z \in Rooms \ {a, b} : Linked(z)' = Linked(z)
    BY <1>1, <1>2, <1>4
  <2>2. Linked(a)' = Linked(a) \cup {b}
    BY <1>1, <1>2, <1>4
  <2>3. Linked(b)' = Linked(b) \cup {a}
    BY <1>1, <1>2, <1>4
  <2> QED
    BY <1>4, <2>1, <2>2, <2>3
<1> QED
  BY <1>3, <1>4

\* Which connection a step has added to the rows, and to the graph.
LEMMA Entered ==
    ASSUME IInv
    PROVE  /\ Enters12 =>
                /\ Neighbours(room1)' = Neighbours(room1) \cup {room2}
                /\ \A z \in Rooms \ {room1} : Neighbours(z)' = Neighbours(z)
                /\ \A z \in Rooms : Linked(z)' = Linked(z)
                /\ \A z \in Rooms \ {room1} : Open(z)' = Open(z)
           /\ Enters21 =>
                /\ Neighbours(room2)' = Neighbours(room2) \cup {room1}
                /\ \A z \in Rooms \ {room2} : Neighbours(z)' = Neighbours(z)
           /\ EntersBoth =>
                /\ Neighbours(room1)' = Neighbours(room1) \cup {room2}
                /\ Neighbours(room2)' = Neighbours(room2) \cup {room1}
                /\ \A z \in Rooms \ {room1, room2} : Neighbours(z)' = Neighbours(z)
           /\ Enters12 \/ Enters21 \/ EntersBoth =>
                \A z \in Rooms : RowInv(z)'
<1>0. TypeOK /\ \A z \in Rooms : RowInv(z)
  BY DEF IInv
<1>1. ASSUME Enters12
      PROVE  /\ Neighbours(room1)' = Neighbours(room1) \cup {room2}
             /\ \A z \in Rooms \ {room1} : Neighbours(z)' = Neighbours(z)
             /\ \A z \in Rooms : Linked(z)' = Linked(z)
             /\ \A z \in Rooms \ {room1} : Open(z)' = Open(z)
             /\ \A z \in Rooms : RowInv(z)'
  <2>1. PICK a \in Rooms, b \in Rooms :
            /\ a = room1 /\ b = room2 /\ a # b /\ Open(a)
            /\ b \notin Neighbours(a) /\ a \notin Neighbours(b)
    BY <1>1, PickedRooms DEF Enters12
  <2>2. RowGets(a, b) /\ room1' = a /\ room2' = b /\ \A z \in Rooms \ {a} : RowKept(z)
    BY <1>1, <2>1 DEF Enters12
  <2>3. Neighbours(a)' = Neighbours(a) \cup {b} /\ RowInv(a)'
    BY <1>0, <2>1, <2>2, RowAdds
  <2>4. \A z \in Rooms \ {a} : Neighbours(z)' = Neighbours(z) /\ RowInv(z)'
    BY <1>0, <2>2, RowStays
  <2>5. \A z \in Rooms : Linked(z)' = Linked(z)
    BY <2>1, <2>3, <2>4, LinkedChanges
  <2>6. \A z \in Rooms \ {a} : Open(z)' = Open(z)
    BY <2>2 DEF RowKept, Open
  <2>7. Neighbours(room1)' = Neighbours(a)'
    BY <2>1, <2>2
  <2> QED
    BY <2>1, <2>3, <2>4, <2>5, <2>6, <2>7
<1>2. ASSUME Enters21
      PROVE  /\ Neighbours(room2)' = Neighbours(room2) \cup {room1}
             /\ \A z \in Rooms \ {room2} : Neighbours(z)' = Neighbours(z)
             /\ \A z \in Rooms : RowInv(z)'
  <2>1. PICK a \in Rooms, b \in Rooms :
            /\ a = room1 /\ b = room2 /\ a # b /\ Open(b) /\ a \notin Neighbours(b)
    BY <1>2, PickedRooms DEF Enters21
  <2>2. RowGets(b, a) /\ room1' = a /\ room2' = b /\ \A z \in Rooms \ {b} : RowKept(z)
    BY <1>2, <2>1 DEF Enters21
  <2>3. Neighbours(b)' = Neighbours(b) \cup {a} /\ RowInv(b)'
    BY <1>0, <2>1, <2>2, RowAdds
  <2>4. \A z \in Rooms \ {b} : Neighbours(z)' = Neighbours(z) /\ RowInv(z)'
    BY <1>0, <2>2, RowStays
  <2>5. Neighbours(room2)' = Neighbours(b)'
    BY <2>1, <2>2
  <2> QED
    BY <2>1, <2>3, <2>4, <2>5
<1>3. ASSUME EntersBoth
      PROVE  /\ Neighbours(room1)' = Neighbours(room1) \cup {room2}
             /\ Neighbours(room2)' = Neighbours(room2) \cup {room1}
             /\ \A z \in Rooms \ {room1, room2} : Neighbours(z)' = Neighbours(z)
             /\ \A z \in Rooms : RowInv(z)'
  <2>1. PICK a \in Rooms, b \in Rooms :
            /\ a = room1 /\ b = room2 /\ a # b /\ Open(a) /\ Open(b)
            /\ b \notin Neighbours(a) /\ a \notin Neighbours(b)
    BY <1>3, PickedRooms DEF EntersBoth
  <2>2. /\ RowGets(a, b) /\ RowGets(b, a) /\ room1' = a /\ room2' = b
        /\ \A z \in Rooms \ {a, b} : RowKept(z)
    BY <1>3, <2>1 DEF EntersBoth
  <2>3. Neighbours(a)' = Neighbours(a) \cup {b} /\ RowInv(a)'
    BY <1>0, <2>1, <2>2, RowAdds
  <2>4. Neighbours(b)' = Neighbours(b) \cup {a} /\ RowInv(b)'
    BY <1>0, <2>1, <2>2, RowAdds
  <2>5. \A z \in Rooms \ {a, b} : Neighbours(z)' = Neighbours(z) /\ RowInv(z)'
    BY <1>0, <2>2, RowStays
  <2>6. Neighbours(room1)' = Neighbours(a)' /\ Neighbours(room2)' = Neighbours(b)'
    BY <2>1, <2>2
  <2> QED
    BY <2>1, <2>3, <2>4, <2>5, <2>6
<1> QED
  BY <1>1, <1>2, <1>3

\* When the builder begins to look for rooms, one of them lacks connections.
LEMMA SomeLack ==
    ASSUME IInv, pc # "connect21"
    PROVE  Full <=> \A x \in Rooms : Cardinality(Linked(x)) >= MinOutbound
BY LinkedAll DEF Full, IInv, RowInv

\* Every step preserves the invariant.
LEMMA StepInv == IInv /\ [Next]_mcVars => IInv'
<1> SUFFICES ASSUME IInv, BuilderStep PROVE IInv'
  BY AnyStep
<1>0. /\ TypeOK /\ PickInv /\ AlmostBothWays /\ \A x \in Rooms : RowInv(x)
      /\ \A x \in Rooms : Cardinality(Linked(x)) \in Nat
      /\ MinOutbound \in Nat
  BY LinkedFinite, Limits DEF IInv
<1>1. CASE Checks
  <2>1. /\ UNCHANGED <<room1, room2, outbound, num>> /\ pc = "check"
        /\ pc' = "done" \/ (pc' = "pick1" /\ ~Full)
    BY <1>1 DEF Checks
  <2>2. PickInv'
    <3>1. CASE pc' = "pick1"
      <4>1. \E x \in Rooms : Cardinality(Linked(x)) < MinOutbound
        BY <1>0, <2>1, <3>1, SomeLack
      <4>2. \A x \in Rooms : Linked(x)' = Linked(x)
        BY <2>1, GraphKept
      <4> QED
        BY <3>1, <4>1, <4>2 DEF PickInv
    <3> QED
      BY <2>1, <3>1 DEF PickInv
  <2>3. TypeOK' /\ AlmostBothWays'
    BY <1>0, <2>1, GraphKept DEF TypeOK, AlmostBothWays
  <2> QED
    BY <1>0, <2>1, <2>2, <2>3, GraphKept DEF IInv
<1>2. ASSUME NEW r \in Rooms, Draws1(r) PROVE IInv'
  <2>1. /\ UNCHANGED <<room2, outbound, num>> /\ pc = "pick1" /\ room1' = r
        /\ pc' = "pick1" \/ (pc' = "pick2" /\ Open(r))
    BY <1>2 DEF Draws1
  <2>2. PickInv'
    BY <1>0, <2>1, GraphKept DEF PickInv
  <2>3. TypeOK' /\ AlmostBothWays'
    BY <1>0, <2>1, GraphKept DEF TypeOK, AlmostBothWays
  <2> QED
    BY <1>0, <2>1, <2>2, <2>3, GraphKept DEF IInv
<1>3. ASSUME NEW r \in Rooms, Draws2(r) PROVE IInv'
  <2>1. /\ UNCHANGED <<room1, outbound, num>> /\ pc = "pick2" /\ room2' = r
        /\ pc' = "pick2" \/ (pc' = "connect12" /\ Fits(room1, r))
        /\ room1 \in Rooms
    BY <1>0, <1>3 DEF Draws2, PickInv
  <2>2. Fits(room1, r) => Fits(room1, r)'
    BY <2>1, GraphKept DEF Fits
  <2>3. PickInv'
    BY <1>0, <2>1, <2>2, GraphKept DEF PickInv
  <2>4. TypeOK' /\ AlmostBothWays'
    BY <1>0, <2>1, GraphKept DEF TypeOK, AlmostBothWays
  <2> QED
    BY <1>0, <2>1, <2>3, <2>4, GraphKept DEF IInv
<1>4. CASE Enters12
  <2>1. PICK a \in Rooms, b \in Rooms :
            /\ a = room1 /\ b = room2 /\ a # b /\ Open(b)
            /\ b \notin Neighbours(a) /\ a \notin Neighbours(b)
    BY <1>4, PickedRooms DEF Enters12
  <2>2. /\ pc = "connect12" /\ pc' = "connect21" /\ room1' = a /\ room2' = b
        /\ ArraysTyped
    BY <1>4, <2>1 DEF Enters12
  <2>3. /\ Neighbours(a)' = Neighbours(a) \cup {b}
        /\ \A z \in Rooms \ {a} : Neighbours(z)' = Neighbours(z)
        /\ \A z \in Rooms : Linked(z)' = Linked(z)
        /\ \A z \in Rooms \ {a} : Open(z)' = Open(z)
        /\ \A z \in Rooms : RowInv(z)'
    <3>1. Neighbours(room1)' = Neighbours(a)'
      BY <2>1, <2>2
    <3> QED
      BY <1>4, <2>1, <3>1, Entered
  <2>4. TypeOK'
    BY <2>2 DEF TypeOK, ArraysTyped
  <2>5. PickInv'
    BY <1>0, <2>1, <2>2, <2>3 DEF PickInv
  <2>6. AlmostBothWays'
    BY <1>0, <2>1, <2>2, <2>3 DEF AlmostBothWays
  <2> QED
    BY <2>3, <2>4, <2>5, <2>6 DEF IInv
<1>5. CASE Enters21
  <2>1. PICK a \in Rooms, b \in Rooms :
            /\ a = room1 /\ b = room2 /\ a # b
            /\ b \in Neighbours(a) /\ a \notin Neighbours(b)
    BY <1>5, PickedRooms DEF Enters21
  <2>2. /\ pc = "connect21" /\ pc' = "check" /\ room1' = a /\ room2' = b
        /\ ArraysTyped
    BY <1>5, <2>1 DEF Enters21
  <2>3. /\ Neighbours(b)' = Neighbours(b) \cup {a}
        /\ \A z \in Rooms \ {b} : Neighbours(z)' = Neighbours(z)
        /\ \A z \in Rooms : RowInv(z)'
    <3>1. Neighbours(room2)' = Neighbours(b)'
      BY <2>1, <2>2
    <3> QED
      BY <1>5, <2>1, <3>1, Entered
  <2>4. TypeOK' /\ PickInv'
    BY <2>2 DEF TypeOK, ArraysTyped, PickInv
  <2>5. AlmostBothWays'
    BY <1>0, <2>1, <2>2, <2>3 DEF AlmostBothWays
  <2> QED
    BY <2>3, <2>4, <2>5 DEF IInv
<1>6. CASE EntersBoth
  <2>1. PICK a \in Rooms, b \in Rooms : a = room1 /\ b = room2 /\ a # b
    BY <1>6, PickedRooms DEF EntersBoth
  <2>2. /\ pc = "connect12" /\ pc' = "check" /\ room1' = a /\ room2' = b
        /\ ArraysTyped
    BY <1>6, <2>1 DEF EntersBoth
  <2>3. /\ Neighbours(a)' = Neighbours(a) \cup {b}
        /\ Neighbours(b)' = Neighbours(b) \cup {a}
        /\ \A z \in Rooms \ {a, b} : Neighbours(z)' = Neighbours(z)
        /\ \A z \in Rooms : RowInv(z)'
    <3>1. Neighbours(room1)' = Neighbours(a)' /\ Neighbours(room2)' = Neighbours(b)'
      BY <2>1, <2>2
    <3> QED
      BY <1>6, <2>1, <3>1, Entered
  <2>4. TypeOK' /\ PickInv'
    BY <2>2 DEF TypeOK, ArraysTyped, PickInv
  <2>5. AlmostBothWays'
    BY <1>0, <2>1, <2>2, <2>3 DEF AlmostBothWays
  <2> QED
    BY <2>3, <2>4, <2>5 DEF IInv
<1>7. CASE UNCHANGED vars
  <2>1. UNCHANGED <<pc, room1, room2, outbound, num>>
    BY <1>7 DEF vars
  <2>2. \A x, y \in Rooms : Fits(x, y)' = Fits(x, y)
    BY <2>1, GraphKept DEF Fits
  <2>3. PickInv' /\ TypeOK' /\ AlmostBothWays'
    BY <1>0, <2>1, <2>2, GraphKept DEF PickInv, TypeOK, AlmostBothWays
  <2> QED
    BY <1>0, <2>1, <2>3, GraphKept DEF IInv
<1> QED
  BY <1>1, <1>2, <1>3, <1>4, <1>5, <1>6, <1>7 DEF BuilderStep

\* The invariant holds in every reachable state, whoever's builder runs.
THEOREM Invariance == Spec => []IInv
BY InitInv, StepInv, PTL DEF Spec

\* Every variable has its type.
THEOREM TypeCorrect == Spec => []TypeOK
<1>1. IInv => TypeOK
  BY DEF IInv
<1> QED
  BY <1>1, Invariance, PTL

\* The counter of a room is the number of different rooms it leads to.
THEOREM CountersCount == Spec => []CountsNeighbours
<1>1. IInv => CountsNeighbours
  BY DEF IInv, RowInv, CountsNeighbours
<1> QED
  BY <1>1, Invariance, PTL

\* Every finished connection leads both ways.
THEOREM ConnectionsBothWays == Spec => []BothWays
<1>1. IInv => BothWays
  BY DEF IInv, AlmostBothWays, BothWays
<1> QED
  BY <1>1, Invariance, PTL

-----------------------------------------------------------------------------
\* A room with a free slot has a partner with a free slot: since it leads to
\* fewer than all the other rooms some other room is not its neighbour, and
\* that room, not leading back, has a free slot as well.  This is where
\* MaxOutbound = Cardinality(Rooms) - 1 is needed.
LEMMA PartnerExists ==
    ASSUME IInv, pc # "connect21", NEW x \in Rooms, Open(x)
    PROVE  \E y \in Rooms : Fits(x, y)
<1>0. num[x] \in 0 .. MaxOutbound /\ \A z \in Rooms : RowInv(z)
  BY DEF IInv, TypeOK
<1>1. /\ IsFiniteSet(Rooms \ {x})
      /\ Cardinality(Rooms \ {x}) = MaxOutbound
  BY Limits, RoomsAssumption, FS_RemoveElement
<1>2. Neighbours(x) \subseteq Rooms \ {x}
  BY <1>0 DEF RowInv, Neighbours
<1>3. Cardinality(Neighbours(x)) # MaxOutbound
  BY <1>0, Limits DEF RowInv, Open
<1>4. PICK y \in Rooms \ {x} : y \notin Neighbours(x)
  BY <1>1, <1>2, <1>3
<1>5. x \notin Neighbours(y)
  BY <1>4 DEF IInv, AlmostBothWays
<1>6. Neighbours(y) \subseteq (Rooms \ {x}) \ {y}
  BY <1>0, <1>4, <1>5 DEF RowInv, Neighbours
<1>7. /\ IsFiniteSet((Rooms \ {x}) \ {y})
      /\ Cardinality((Rooms \ {x}) \ {y}) = MaxOutbound - 1
  BY <1>1, <1>4, FS_RemoveElement
<1>8. Cardinality(Neighbours(y)) =< MaxOutbound - 1
  BY <1>6, <1>7, FS_Subset
<1>9. Open(y)
  BY <1>0, <1>4, <1>8, Limits, NeighboursFinite DEF RowInv, Open
<1> QED
  BY <1>4, <1>9 DEF Fits

\* The tests of the rejection loops, whoever's they are.
LEMMA TestsAre ==
    ASSUME IInv, program \in {"suh", "luu", "dougherty", "rico"},
           NEW x \in Rooms, NEW y \in Rooms, pc = "pick2", Fits(x, y)
    PROVE  CASE program = "suh"       -> Suh!Acceptable(x, y)
             [] program = "luu"       -> Luu!Acceptable(x, y)
             [] program = "dougherty" -> Dougherty!Acceptable(x, y)
             [] program = "rico"      -> Rico!Acceptable(x, y)
<1>0. TypeOK /\ RowInv(x) /\ RowInv(y) /\ y \notin Neighbours(x) /\ x \notin Neighbours(y)
  BY DEF IInv, AlmostBothWays, Fits
<1>1. Suh!Acceptable(x, y)
  BY DEF Suh!Acceptable, Suh!CanAddConnectionFrom, Suh!ConnectionAlreadyExists,
         Suh!Slots, Slots, Fits, Open, Neighbours
<1>2. Luu!Acceptable(x, y)
  BY <1>0, UsedSlots
  DEF Luu!Acceptable, Luu!CanAddOutboundFrom, Luu!IsSameRoom, Luu!ConnectionExists,
      Fits, Open
<1>3. Dougherty!Acceptable(x, y)
  BY <1>0
  DEF Dougherty!Acceptable, Dougherty!canAddConnectionFrom, Dougherty!isSameRoom,
      Dougherty!connectionAlreadyExists, Dougherty!Slots, Slots, Fits, Open, Neighbours
<1>4. Rico!Acceptable(x, y)
  BY <1>0, UsedSlots
  DEF Rico!Acceptable, Rico!canAddConnectionFrom, Rico!isSameRoom,
      Rico!connectionAlreadyExists, Fits, Open
<1> QED
  BY <1>1, <1>2, <1>3, <1>4

\* One of the four programs runs.
ProgramInv == program \in {"suh", "luu", "dougherty", "rico"}

\* Both rejection loops of every builder can always end.
THEOREM LoopsCanEnd == Spec => []AnAcceptableDrawExists
<1>1. ASSUME IInv, ProgramInv PROVE AnAcceptableDrawExists
  <2>0. /\ num \in [Rooms -> 0 .. MaxOutbound]
        /\ \A x \in Rooms : Cardinality(Linked(x)) \in Nat
    BY <1>1, Limits, LinkedFinite DEF IInv, TypeOK
  <2>1. pc = "pick1" => \E r \in Rooms : Open(r)
    <3> SUFFICES ASSUME pc = "pick1" PROVE \E r \in Rooms : Open(r)
      OBVIOUS
    <3>1. ~Full
      BY <1>1, <2>0, Limits, SomeLack DEF IInv, PickInv
    <3> QED
      BY <3>1, Limits, <2>0 DEF Full, Open
  <2>2. pc = "pick2" => room1 \in Rooms /\ \E r \in Rooms : Fits(room1, r)
    BY <1>1, PartnerExists DEF IInv, PickInv
  <2>3. pc = "pick1" => \E r \in Rooms :
            CASE program = "suh"       -> Suh!CanAddConnectionFrom(r)
              [] program = "luu"       -> Luu!CanAddOutboundFrom(r)
              [] program = "dougherty" -> Dougherty!canAddConnectionFrom(r)
              [] program = "rico"      -> Rico!canAddConnectionFrom(r)
    BY <1>1, <2>1
    DEF ProgramInv, Suh!CanAddConnectionFrom, Luu!CanAddOutboundFrom,
        Dougherty!canAddConnectionFrom, Rico!canAddConnectionFrom, Open
  <2>4. pc = "pick2" => \E r \in Rooms :
            CASE program = "suh"       -> Suh!Acceptable(room1, r)
              [] program = "luu"       -> Luu!Acceptable(room1, r)
              [] program = "dougherty" -> Dougherty!Acceptable(room1, r)
              [] program = "rico"      -> Rico!Acceptable(room1, r)
    BY <1>1, <2>2, TestsAre DEF ProgramInv
  <2> QED
    BY <2>3, <2>4 DEF AnAcceptableDrawExists
<1>2. Init => ProgramInv
  BY DEF Init, ProgramInv
<1>3. ProgramInv /\ [Next]_mcVars => ProgramInv'
  BY DEF ProgramInv, Next, mcVars
<1> QED
  BY <1>1, <1>2, <1>3, Invariance, PTL DEF Spec

-----------------------------------------------------------------------------
(***************************************************************************)
(* The refinement of RoomGraph.                                            *)
(***************************************************************************)

\* The connections of RoomGraph, as RoomBuilder maps them.
Edges == UNION {{{x, y} : y \in Linked(x)} : x \in Rooms}

\* Two rooms are connected in RoomGraph if they are linked.
LEMMA EdgesLink ==
    /\ \A e : e \in Edges <=> \E x, y \in Rooms : e = {x, y} /\ y \in Linked(x)
    /\ \A x, y \in Rooms : {x, y} \in Edges <=> y \in Linked(x)
    /\ \A x, y \in Rooms : y \in Linked(x) <=> x \in Linked(y)
<1>1. \A x, y \in Rooms : y \in Linked(x) <=> x \in Linked(y)
  BY DEF Linked, Neighbours
<1>2. \A e : e \in Edges <=> \E x, y \in Rooms : e = {x, y} /\ y \in Linked(x)
  <2>1. \A x \in Rooms : Linked(x) \subseteq Rooms
    BY LinkedFinite
  <2> QED
    BY <2>1 DEF Edges
<1>3. ASSUME NEW x \in Rooms, NEW y \in Rooms
      PROVE  {x, y} \in Edges <=> y \in Linked(x)
  <2>1. ASSUME {x, y} \in Edges PROVE y \in Linked(x)
    <3>1. PICK u \in Rooms, v \in Rooms : {x, y} = {u, v} /\ v \in Linked(u)
      BY <1>2, <2>1
    <3>2. (x = u /\ y = v) \/ (x = v /\ y = u)
      BY <3>1
    <3> QED
      BY <1>1, <3>1, <3>2
  <2> QED
    BY <1>2, <2>1
<1> QED
  BY <1>1, <1>2, <1>3

\* The degree of a room in RoomGraph is the number of its linked neighbours.
LEMMA DegreeIs ==
    ASSUME NEW x \in Rooms, x \notin Neighbours(x)
    PROVE  Graph!Degree(x) = Cardinality(Linked(x))
<1> DEFINE E == {e \in Edges : x \in e}
           f == [y \in Linked(x) |-> {x, y}]
<1>1. Linked(x) \subseteq Rooms /\ x \notin Linked(x) /\ IsFiniteSet(Linked(x))
  BY LinkedFinite DEF Linked
<1>2. \A y \in Linked(x) : {x, y} \in E
  BY <1>1, EdgesLink
<1>3. \A e \in E : \E y \in Linked(x) : e = {x, y}
  <2> SUFFICES ASSUME NEW e \in E PROVE \E y \in Linked(x) : e = {x, y}
    OBVIOUS
  <2>1. PICK u \in Rooms, v \in Rooms : e = {u, v} /\ v \in Linked(u)
    BY EdgesLink
  <2>2. CASE x = u
    BY <2>1, <2>2
  <2>3. CASE x = v
    <3>1. u \in Linked(x) /\ e = {x, u}
      BY <2>1, <2>3, EdgesLink
    <3> QED
      BY <3>1
  <2> QED
    BY <2>1, <2>2, <2>3
<1>4. \A y, z \in Linked(x) : {x, y} = {x, z} => y = z
  BY <1>1
<1>5. f \in Bijection(Linked(x), E)
  <2>1. f \in [Linked(x) -> E]
    BY <1>2
  <2>2. \A y, z \in Linked(x) : f[y] = f[z] => y = z
    BY <1>4
  <2>3. \A e \in E : \E y \in Linked(x) : f[y] = e
    BY <1>3
  <2> HIDE DEF f, E
  <2> QED
    BY <2>1, <2>2, <2>3 DEF Bijection, Injection, Surjection, IsInjective
<1>6. Cardinality(E) = Cardinality(Linked(x))
  BY <1>1, <1>5, FS_Bijection DEF ExistsBijection
<1> QED
  BY <1>6 DEF Graph!Degree, Graph!Cardinality, Cardinality, Edges

\* RoomGraph is complete exactly if no room lacks a linked neighbour.
LEMMA CompleteIs ==
    ASSUME IInv
    PROVE  Graph!Complete <=> \A x \in Rooms : Cardinality(Linked(x)) >= MinOutbound
<1>1. \A x \in Rooms : x \notin Neighbours(x)
  BY DEF IInv, RowInv
<1> QED
  BY <1>1, DegreeIs DEF Graph!Complete

\* A step that links no rooms adds no connection.
LEMMA EdgesKept ==
    ASSUME \A x \in Rooms : Linked(x)' = Linked(x) PROVE Edges' = Edges
BY DEF Edges

\* A step that links a and b adds this connection.
LEMMA EdgesGrow ==
    ASSUME NEW a \in Rooms, NEW b \in Rooms,
           Linked(a)' = Linked(a) \cup {b}, Linked(b)' = Linked(b) \cup {a},
           \A z \in Rooms \ {a, b} : Linked(z)' = Linked(z)
    PROVE  Edges' = Edges \cup {{a, b}}
<1>1. \A e : e \in Edges' <=> \E x, y \in Rooms : e = {x, y} /\ y \in Linked(x)'
  <2>1. \A x \in Rooms : Linked(x)' \subseteq Rooms
    BY DEF Linked, Neighbours
  <2> QED
    BY <2>1 DEF Edges
<1>2. \A e : e \in Edges <=> \E x, y \in Rooms : e = {x, y} /\ y \in Linked(x)
  BY EdgesLink
<1>3. \A x, y \in Rooms : y \in Linked(x)' <=>
         y \in Linked(x) \/ (x = a /\ y = b) \/ (x = b /\ y = a)
  OBVIOUS
<1>4. ASSUME NEW e PROVE e \in Edges' <=> e \in Edges \cup {{a, b}}
  BY <1>1, <1>2, <1>3, {a, b} = {b, a}
<1> QED
  BY <1>4

\* A builder starts without a connection.
LEMMA GraphInit == Init => Graph!Init
<1> SUFFICES ASSUME Init PROVE Graph!Init
  OBVIOUS
<1>1. pc = "check" /\ outbound = [x \in Rooms |-> [i \in Slots |-> -1]]
  BY DEF Init, Suh!Init, Luu!Init, Dougherty!Init, Rico!Init, Suh!Slots, Luu!Slots,
         Dougherty!Slots, Rico!Slots, Slots
<1>2. \A x \in Rooms : Linked(x) = {}
  BY <1>1, RoomsAssumption DEF Linked, Neighbours
<1>3. Edges = {}
  BY <1>2 DEF Edges
<1> QED
  BY <1>1, <1>3 DEF Graph!Init, Edges

\* Every step of a builder is a step of RoomGraph, or changes nothing there.
LEMMA GraphStep == IInv /\ [Next]_mcVars => [Graph!Next]_(Graph!graphVars)
<1> SUFFICES ASSUME IInv, BuilderStep PROVE [Graph!Next]_(Graph!graphVars)
  BY AnyStep
<1>0. /\ PickInv /\ \A x \in Rooms : Cardinality(Linked(x)) \in Nat
      /\ MinOutbound \in Nat
  BY LinkedFinite, Limits DEF IInv
<1>1. CASE \/ UNCHANGED vars \/ \E r \in Rooms : Draws1(r) \/ Draws2(r)
  <2>1. UNCHANGED <<outbound, num>> /\ (pc = "done")' = (pc = "done")
    BY <1>1 DEF vars, Draws1, Draws2
  <2>2. Edges' = Edges
    BY <2>1, GraphKept, EdgesKept
  <2> QED
    BY <2>1, <2>2 DEF Graph!graphVars, Edges
<1>2. CASE Checks
  <2>1. Edges' = Edges
    BY <1>2, GraphKept, EdgesKept DEF Checks
  <2>2. CASE Full
    <3>1. Graph!Complete
      BY <1>2, <2>2, SomeLack, CompleteIs DEF Checks
    <3>2. pc # "done" /\ pc' = "done"
      BY <1>2, <2>2 DEF Checks
    <3> QED
      BY <2>1, <3>1, <3>2 DEF Graph!Next, Graph!Finish, Edges
  <2>3. CASE ~Full
    BY <1>2, <2>1, <2>3 DEF Checks, Graph!graphVars, Edges
  <2> QED
    BY <2>2, <2>3
<1>3. CASE Enters12
  <2>1. Edges' = Edges
    BY <1>3, Entered, EdgesKept
  <2> QED
    BY <1>3, <2>1 DEF Enters12, Graph!graphVars, Edges
<1>4. CASE Enters21 \/ EntersBoth
  <2>1. PICK a \in Rooms, b \in Rooms : a = room1 /\ b = room2 /\ a # b
                                     /\ a \notin Neighbours(b)
    BY <1>4, PickedRooms DEF Enters21, EntersBoth
  <2>2. pc \in {"connect12", "connect21"} /\ pc' = "check" /\ room1' = a /\ room2' = b
    BY <1>4, <2>1 DEF Enters21, EntersBoth
  <2>3. /\ Neighbours(a)' = Neighbours(a) \cup {b}
        /\ Neighbours(b)' = Neighbours(b) \cup {a}
        /\ \A z \in Rooms \ {a, b} : Neighbours(z)' = Neighbours(z)
    <3>1. Neighbours(room1)' = Neighbours(a)' /\ Neighbours(room2)' = Neighbours(b)'
      BY <2>1, <2>2
    <3>2. CASE EntersBoth
      BY <2>1, <3>1, <3>2, Entered
    <3>3. CASE Enters21
      <4>1. b \in Neighbours(a)
        BY <2>1, <3>3, PickedRooms DEF Enters21
      <4> QED
        BY <2>1, <3>1, <3>3, <4>1, Entered
    <3> QED
      BY <1>4, <3>2, <3>3
  <2>4. Edges' = Edges \cup {{a, b}}
    BY <2>1, <2>3, LinkedChanges, EdgesGrow
  <2>5. {a, b} \notin Edges
    BY <2>1, EdgesLink DEF Linked
  <2>6. ~Graph!Complete
    BY <1>0, <2>2, CompleteIs DEF PickInv
  <2>7. Graph!Connect
    BY <2>1, <2>2, <2>4, <2>5, <2>6 DEF Graph!Connect, Edges
  <2> QED
    BY <2>7 DEF Graph!Next
<1> QED
  BY <1>1, <1>2, <1>3, <1>4 DEF BuilderStep

\* Each of the four builders implements RoomGraph, but for the promise that
\* it ends: connections are made whole, one at a time, between two different
\* rooms that had none, and only while some room lacks one.
THEOREM BuildsRoomGraph == Spec => Graph!SafeSpec
BY Invariance, GraphInit, GraphStep, PTL DEF Spec, Graph!SafeSpec
=============================================================================
