----------------------------- MODULE DynPidArr -----------------------------
(***************************************************************************)
(* The dynamic array of PIDs of program3_smallsh/utility.c, as operators   *)
(* on a record [pids, size, capacity].  Heap slots that were never written *)
(* hold 0.  Slots stands for the largest block realloc() ever returns;     *)
(* only the first "capacity" of them belong to the array.                  *)
(***************************************************************************)
EXTENDS Integers

CONSTANTS Pids,     \* the process ids the kernel hands out
          MaxCap    \* bound: no block grows beyond MaxCap slots

ASSUME PidsAssumption == \A p \in Pids : p # 0
ASSUME MaxCapAssumption == MaxCap \in Nat \ {0}

Slots == 0 .. MaxCap - 1
Heap  == [Slots -> Pids \cup {0}]

\* The record: size is an int and can go below zero, capacity cannot.
DynPidArrType == [pids : Heap, size : Int, capacity : Nat]

InitDynPidArr(cap) ==
    [pids |-> [i \in Slots |-> 0], size |-> 0, capacity |-> cap]

\* What a read of pids[i] returns.  The word before the block is the upper
\* half of malloc's size field, which is 0.
SlotAt(arr, i) == IF i \in Slots THEN arr.pids[i] ELSE 0

Listed(arr, target) == \E i \in 0 .. arr.size - 1 : SlotAt(arr, i) = target

\* The index that IndexOfDynPidArr finds, the first one: a set of one
\* element, or empty where the function returns -1.
IndexOf(arr, target) ==
    {i \in 0 .. arr.size - 1 :
        /\ SlotAt(arr, i) = target
        /\ \A j \in 0 .. i - 1 : SlotAt(arr, j) # target}

\* Mutant: the last PID is dropped instead of moved to the hole.
PopAtForgetting(arr, index) ==
    [arr EXCEPT !.pids = [@ EXCEPT ![index] = 0], !.size = @ - 1]

PopAt(arr, index) ==
    [pids     |-> [arr.pids EXCEPT ![index] = SlotAt(arr, arr.size - 1)],
     size     |-> arr.size - 1,
     capacity |-> arr.capacity]
=============================================================================
