--------------------------- MODULE SmallshProofs ---------------------------
(***************************************************************************)
(* What is proved about Smallsh for every set of PIDs, initial capacity    *)
(* and bound: the types, the bounds of the bg_children array and that a    *)
(* live background job stays listed as long as no handler raced a push.    *)
(***************************************************************************)
EXTENDS Smallsh, TLAPS

\* From fork() to the end of the iteration spawnpid holds a PID.
ChildPcs == {"decide", "setfg", "wait", "sleep", "reset"} \cup PushPcs

TypeInv ==
    /\ TypeOK
    /\ pc \in ChildPcs => spawnpid \in Pids

-----------------------------------------------------------------------------
(***************************************************************************)
(* Lemmas about the array.                                                 *)
(***************************************************************************)

\* A new array has the type of one.
LEMMA InitType ==
    ASSUME NEW cap \in Nat PROVE InitDynPidArr(cap) \in DynPidArrType
BY DEF InitDynPidArr, DynPidArrType, Heap

\* Reading a slot gives a PID or 0.
LEMMA SlotType ==
    ASSUME NEW arr \in DynPidArrType, NEW i \in Int
    PROVE  SlotAt(arr, i) \in Pids \cup {0}
BY DEF SlotAt, DynPidArrType, Heap

\* A pop keeps the type and the capacity and takes one off the size.
LEMMA PopType ==
    ASSUME NEW arr \in DynPidArrType, NEW i \in Int
    PROVE  /\ PopAt(arr, i) \in DynPidArrType
           /\ PopAt(arr, i).pids = [arr.pids EXCEPT ![i] = SlotAt(arr, arr.size - 1)]
           /\ PopAt(arr, i).size = arr.size - 1
           /\ PopAt(arr, i).capacity = arr.capacity
<1>0. SlotAt(arr, arr.size - 1) \in Pids \cup {0}
  <2>1. arr.size - 1 \in Int
    BY DEF DynPidArrType
  <2> QED
    BY <2>1, SlotType
<1>1. [arr.pids EXCEPT ![i] = SlotAt(arr, arr.size - 1)] \in Heap
  BY <1>0 DEF Heap, DynPidArrType
<1> QED
  BY <1>1 DEF PopAt, DynPidArrType

-----------------------------------------------------------------------------
(***************************************************************************)
(* Types.                                                                  *)
(***************************************************************************)

\* The shell starts with every variable in its type.
LEMMA TypeInit == Init => TypeInv
<1> SUFFICES ASSUME Init PROVE TypeInv
  OBVIOUS
<1>1. ArrayOK
  <2>1. InitDynPidArr(InitCap) \in DynPidArrType
    BY InitType, InitCapAssumption, MaxCapAssumption
  <2> QED
    BY <2>1 DEF Init, ArrayOK, Heap
<1>2. procs \in [Pids -> Proc]
  BY DEF Init, NoProc, Proc, Statuses
<1>3. ControlOK /\ pc \notin ChildPcs
  BY DEF Init, ControlOK, Statuses, Pcs, ChildPcs, PushPcs
<1>4. FlagsOK
  BY Zenon DEF Init, FlagsOK
<1>5. keys \in 0 .. MaxKeys
  BY MaxKeysAssumption DEF Init
<1> QED
  BY <1>1, <1>2, <1>3, <1>4, <1>5, Zenon DEF TypeInv, TypeOK


\* An unused entry of the process table is well-formed.
LEMMA NoProcType == NoProc \in Proc
BY DEF NoProc, Proc, Statuses

\* A zombie's entry is one of the process table's.
LEMMA CorpseType ==
    ASSUME NEW ws \in Statuses, NEW role \in {"none", "fg", "bg"}
    PROVE  Corpse(ws, role) \in Proc
BY DEF Corpse, NoProc, Proc

\* When processes die, by a signal or by themselves, their entries keep
\* the table's type.
LEMMA DieType ==
    ASSUME TypeOK, NEW dead \in SUBSET Pids, NEW ws \in Statuses, Die(dead, ws)
    PROVE  procs' \in [Pids -> Proc] /\ child_end' \in Statuses
<1>1. \A p \in Pids : Corpse(ws, procs[p].role) \in Proc
  BY CorpseType DEF TypeOK, Proc
<1> QED
  BY <1>1 DEF Die, TypeOK, ControlOK

\* Reaping a process keeps the table's type.
LEMMA ReapType ==
    ASSUME TypeOK, NEW p \in Pids, Reap(p)
    PROVE  procs' \in [Pids -> Proc]
BY NoProcType DEF Reap, TypeOK

\* The foreground waitpid() stores a status it found in the table.
LEMMA WaitType ==
    ASSUME TypeOK, NEW p \in Pids, WaitForFg(p)
    PROVE  procs' \in [Pids -> Proc] /\ fg_exit_status' \in Statuses
<1>1. procs[p].ws \in Statuses
  BY DEF TypeOK, Proc
<1> QED
  BY <1>1, ReapType DEF WaitForFg, TypeOK, ControlOK

\* The child that fork() enters in the table has a well-formed entry.
LEMMA ForkedType ==
    ASSUME NEW bg \in BOOLEAN, NEW mode \in BOOLEAN
    PROVE  [NoProc EXCEPT !.st = "forked", !.bg = bg, !.mode = mode] \in Proc
BY DEF NoProc, Proc, Statuses

\* The definitions that the frame conditions of the actions use.
USE DEF shell, locals, vars, PushRest, ExitRest, ChildRest, At, Goto,
        EndOfIteration

\* The environment's steps, the kernel's delivery included.
Environment == Deliver \/ User \/ (\E p \in Pids : Child(p))

\* Every step keeps the Boolean locals and globals Boolean.
LEMMA FlagsStep ==
    ASSUME FlagsOK, Next PROVE FlagsOK'
<1>1. CASE MainStep
  BY <1>1, Zenon
  DEF MainStep, FlagsOK, Fork, Decide, SetForeground, Sleep, Waited,
      ResetForeground, PushBack, PushCheckFull, PushRealloc, PushSwap,
      PushLoadSize, PushStoreSize, PushStorePid, ExitLoop, ExitCheckEmpty,
      ExitLoadSize, ExitStoreSize, ExitLoadAddress, ExitKill
<1>2. CASE HandlerStep
  BY <1>2, Zenon
  DEF HandlerStep, CatchSIGINT, CatchSIGTSTP, CatchSIGCHLD, FlagsOK
<1>3. CASE Environment \/ Terminated
  BY <1>3, Zenon
  DEF Environment, Deliver, User, RunCommand, ExitCommand, CtrlC, CtrlZ,
      Child, ChildExec, ChildEnds, Terminated, FlagsOK
<1> QED
  BY <1>1, <1>2, <1>3 DEF Next, Environment

\* No step lets the key presses exceed their bound.
LEMMA KeysStep ==
    ASSUME keys \in 0 .. MaxKeys, Next PROVE keys' \in 0 .. MaxKeys
<1>1. CASE MainStep
  BY <1>1
  DEF MainStep, Fork, Decide, SetForeground, Sleep, Waited,
      ResetForeground, PushBack, PushCheckFull, PushRealloc, PushSwap,
      PushLoadSize, PushStoreSize, PushStorePid, ExitLoop, ExitCheckEmpty,
      ExitLoadSize, ExitStoreSize, ExitLoadAddress, ExitKill
<1>2. CASE HandlerStep
  BY <1>2 DEF HandlerStep, CatchSIGINT, CatchSIGTSTP, CatchSIGCHLD
<1>3. CASE CtrlC \/ CtrlZ
  BY <1>3, MaxKeysAssumption DEF CtrlC, CtrlZ, Press
<1>4. CASE (Environment \/ Terminated) /\ ~CtrlC /\ ~CtrlZ
  BY <1>4
  DEF Environment, Deliver, User, RunCommand, ExitCommand, Child,
      ChildExec, ChildEnds, Terminated
<1> QED
  BY <1>1, <1>2, <1>3, <1>4 DEF Next, Environment

\* While the main loop works on a child it forked, spawnpid is its PID.
LEMMA SpawnpidStep ==
    ASSUME TypeInv, Next PROVE pc' \in ChildPcs => spawnpid' \in Pids
<1> USE DEF TypeInv, ChildPcs, PushPcs
<1>1. CASE MainStep
  BY <1>1
  DEF MainStep, Fork, Decide, SetForeground, Sleep, Waited,
      ResetForeground, PushBack, PushCheckFull, PushRealloc, PushSwap,
      PushLoadSize, PushStoreSize, PushStorePid, ExitLoop, ExitCheckEmpty,
      ExitLoadSize, ExitStoreSize, ExitLoadAddress, ExitKill
<1>2. CASE HandlerStep
  BY <1>2 DEF HandlerStep, CatchSIGINT, CatchSIGTSTP, CatchSIGCHLD
<1>3. CASE Environment \/ Terminated
  BY <1>3
  DEF Environment, Deliver, User, RunCommand, ExitCommand, CtrlC, CtrlZ,
      Child, ChildExec, ChildEnds, Terminated
<1> QED
  BY <1>1, <1>2, <1>3 DEF Next, Environment

\* Every step of shell, handlers, children and user keeps the process table
\* well-formed.
LEMMA ProcsStep ==
    ASSUME TypeInv, Next PROVE procs' \in [Pids -> Proc]
<1>1. CASE Fork
  <2>1. CASE UNCHANGED procs
    BY <2>1 DEF TypeInv, TypeOK
  <2>2. ASSUME NEW p \in Pids,
               procs' = [procs EXCEPT ![p] =
                           [NoProc EXCEPT !.st = "forked", !.bg = is_bg,
                                          !.mode = is_fg_only_mode]]
        PROVE  procs' \in [Pids -> Proc]
    <3>1. [NoProc EXCEPT !.st = "forked", !.bg = is_bg,
                         !.mode = is_fg_only_mode] \in Proc
      BY ForkedType DEF TypeInv, TypeOK, FlagsOK
    <3> QED
      BY <2>2, <3>1 DEF TypeInv, TypeOK
  <2> QED
    BY <1>1, <2>1, <2>2 DEF Fork
<1>2. CASE Decide
  <2>1. spawnpid \in Pids
    BY <1>2 DEF Decide, TypeInv, ChildPcs
  <2>2. \A role \in {"fg", "bg"} : [procs[spawnpid] EXCEPT !.role = role] \in Proc
    BY <2>1 DEF TypeInv, TypeOK, Proc
  <2> QED
    BY <1>2, <2>1, <2>2 DEF Decide, TypeInv, TypeOK
<1>3. CASE Waited
  <2>1. spawnpid \in Pids
    BY <1>3 DEF Waited, TypeInv, ChildPcs
  <2> QED
    BY <1>3, <2>1, WaitType DEF Waited, TypeInv
<1>4. CASE ExitKill
  BY <1>4, DieType DEF ExitKill, TypeInv, Statuses
<1>5. CASE CatchSIGINT \/ CatchSIGTSTP
  <2>1. fg_childpid # JUNK_VAL => fg_childpid \in Pids
    BY DEF TypeInv, TypeOK, ControlOK
  <2> QED
    BY <1>5, <2>1, WaitType DEF CatchSIGINT, CatchSIGTSTP, TypeInv, TypeOK
<1>6. CASE CatchSIGCHLD
  BY <1>6, ReapType DEF CatchSIGCHLD, TypeInv, TypeOK
<1>7. CASE CtrlC
  BY <1>7, DieType DEF CtrlC, TypeInv, Statuses
<1>8. CASE CtrlZ
  <2>1. \A p \in Pids : [procs[p] EXCEPT !.mode = ~@] \in Proc
    BY DEF TypeInv, TypeOK, Proc
  <2> QED
    BY <1>8, <2>1 DEF CtrlZ, TypeInv, TypeOK
<1>9. ASSUME NEW p \in Pids, Child(p) PROVE procs' \in [Pids -> Proc]
  <2>1. CASE ChildExec(p)
    <3>1. TakesBackground(p) \in BOOLEAN
      BY Zenon DEF TakesBackground
    <3>2. \A b \in BOOLEAN :
            [procs[p] EXCEPT !.st = "running", !.ign = b, !.bg = FALSE,
                             !.mode = FALSE] \in Proc
      BY DEF TypeInv, TypeOK, Proc
    <3> QED
      BY <2>1, <3>1, <3>2 DEF ChildExec, TypeInv, TypeOK
  <2>2. CASE ChildEnds(p)
    BY <2>2, DieType DEF ChildEnds, TypeInv, Statuses
  <2> QED
    BY <1>9, <2>1, <2>2 DEF Child
<1>10. CASE UNCHANGED procs
  BY <1>10 DEF TypeInv, TypeOK
<1> QED
  BY <1>1, <1>2, <1>3, <1>4, <1>5, <1>6, <1>7, <1>8, <1>9, <1>10
  DEF Next, MainStep, SetForeground, Sleep, ResetForeground, PushBack,
      PushCheckFull, PushRealloc, PushSwap, PushLoadSize, PushStoreSize,
      PushStorePid, ExitLoop, ExitCheckEmpty, ExitLoadSize, ExitStoreSize,
      ExitLoadAddress, HandlerStep, Deliver, User, RunCommand, ExitCommand,
      Terminated

\* Every step keeps program counter, handler, pending signals, statuses and
\* fg_childpid in their types.
LEMMA ControlStep ==
    ASSUME TypeInv, Next PROVE ControlOK'
<1> USE DEF TypeInv, TypeOK, ControlOK, Statuses, Signals, Pcs, PushPcs, ExitPcs
<1>1. CASE Waited
  BY <1>1, WaitType DEF Waited, ChildPcs
<1>2. CASE ExitKill
  <2>1. child_end' \in Statuses
    BY <1>2, DieType DEF ExitKill
  <2> QED
    BY <1>2, <2>1 DEF ExitKill, Raise, ChldIf
<1>3. CASE MainStep /\ ~Waited /\ ~ExitKill
  BY <1>3
  DEF MainStep, Fork, Decide, SetForeground, Sleep, ResetForeground,
      PushBack, PushCheckFull, PushRealloc, PushSwap, PushLoadSize,
      PushStoreSize, PushStorePid, ExitLoop, ExitCheckEmpty, ExitLoadSize,
      ExitStoreSize, ExitLoadAddress
<1>4. CASE HandlerStep
  BY <1>4, WaitType DEF HandlerStep, CatchSIGINT, CatchSIGTSTP, CatchSIGCHLD
<1>5. CASE CtrlC
  <2>1. child_end' \in Statuses
    BY <1>5, DieType DEF CtrlC
  <2> QED
    BY <1>5, <2>1 DEF CtrlC, Press, Raise, ChldIf
<1>6. ASSUME NEW p \in Pids, Child(p) PROVE ControlOK'
  <2>1. CASE ChildEnds(p)
    <3>1. child_end' \in Statuses
      BY <2>1, DieType DEF ChildEnds
    <3> QED
      BY <2>1, <3>1 DEF ChildEnds, Raise
  <2> QED
    BY <1>6, <2>1 DEF Child, ChildExec
<1>7. CASE Deliver \/ RunCommand \/ ExitCommand \/ CtrlZ \/ Terminated
  BY <1>7 DEF Deliver, RunCommand, ExitCommand, CtrlZ, Press, Raise, Terminated
<1> QED
  BY <1>1, <1>2, <1>3, <1>4, <1>5, <1>6, <1>7 DEF Next, User

\* Every step of a push, of a pop or of a handler keeps bg_children, the
\* register and the new block in their types.
LEMMA ArrayStep ==
    ASSUME TypeInv, Next PROVE ArrayOK'
<1> USE DEF TypeInv, TypeOK, ArrayOK
<1>1. CASE PushStorePid
  BY <1>1 DEF PushStorePid, ChildPcs, PushPcs, DynPidArrType, Heap
<1>2. CASE PushSwap
  <2>1. 2 * bg_children.capacity \in Nat
    BY DEF DynPidArrType
  <2> QED
    BY <1>2, <2>1 DEF PushSwap, DynPidArrType, Heap
<1>3. CASE MainStep /\ ~PushStorePid /\ ~PushSwap
  BY <1>3
  DEF MainStep, Fork, Decide, SetForeground, Sleep, Waited,
      ResetForeground, PushBack, PushCheckFull, PushRealloc, PushLoadSize,
      PushStoreSize, ExitLoop, ExitCheckEmpty, ExitLoadSize, ExitStoreSize,
      ExitLoadAddress, ExitKill, DynPidArrType
<1>4. CASE HandlerStep
  <2>1. \A i \in Int : PopAt(bg_children, i) \in DynPidArrType
    BY PopType
  <2>2. \A p \in Pids : IndexOf(bg_children, p) \subseteq Int
    BY DEF IndexOf, DynPidArrType
  <2> QED
    BY <1>4, <2>1, <2>2
    DEF HandlerStep, CatchSIGINT, CatchSIGTSTP, CatchSIGCHLD
<1>5. CASE Environment \/ Terminated
  BY <1>5
  DEF Environment, Deliver, User, RunCommand, ExitCommand, CtrlC, CtrlZ,
      Child, ChildExec, ChildEnds, Terminated
<1> QED
  BY <1>1, <1>2, <1>3, <1>4, <1>5 DEF Next, Environment

\* The type invariant is inductive.
LEMMA TypeStep == TypeInv /\ [Next]_vars => TypeInv'
<1> SUFFICES ASSUME TypeInv, [Next]_vars PROVE TypeInv'
  OBVIOUS
<1>1. CASE Next
  BY <1>1, FlagsStep, KeysStep, SpawnpidStep, ProcsStep, ControlStep,
     ArrayStep, Zenon DEF TypeInv, TypeOK
<1>2. CASE UNCHANGED vars
  BY <1>2
  DEF TypeInv, TypeOK, ControlOK, FlagsOK, ArrayOK
<1> QED
  BY <1>1, <1>2

\* Every variable has its type in every reachable state.
THEOREM TypeCorrect == Spec => []TypeOK
<1>1. Spec => []TypeInv
  BY TypeInit, TypeStep, PTL DEF Spec
<1>2. TypeInv => TypeOK
  BY DEF TypeInv
<1> QED
  BY <1>1, <1>2, PTL

-----------------------------------------------------------------------------
(***************************************************************************)
(* The bounds of the array.  The size that PushBackDynPidArr has loaded    *)
(* may be stale, but a handler only ever makes the size smaller, so the    *)
(* slot it goes with is inside the block.                                  *)
(***************************************************************************)
BoundsInv ==
    /\ bg_children.capacity =< MaxCap
    /\ pc # "dead" => bg_children.capacity >= 1
    /\ pc \notin ExitPcs \cup {"dead"} =>
           bg_children.size >= 0 /\ bg_children.size =< bg_children.capacity
    /\ pc \in {"fork", "decide"} => (is_bg => RoomToGrow)
    /\ pc = "push" => RoomToGrow
    /\ pc \in {"realloc", "swap"} => 2 * bg_children.capacity =< MaxCap
    /\ pc = "load" => bg_children.size < bg_children.capacity
    /\ pc = "storesize" => idx >= 0 /\ idx < bg_children.capacity
    /\ pc = "storepid" =>
           idx >= 0 /\ idx < bg_children.capacity /\ bg_children.size =< idx + 1

\* The empty array of Init lies inside its bounds.
LEMMA BoundsInit == Init => BoundsInv
BY InitCapAssumption, MaxCapAssumption
DEF Init, BoundsInv, InitDynPidArr, RoomToGrow, ExitPcs

\* A handler that pops keeps the bounds.
LEMMA PopBounds ==
    ASSUME TypeOK, BoundsInv, NEW p \in Pids, NEW i \in IndexOf(bg_children, p),
           bg_children' = PopAt(bg_children, i), UNCHANGED <<pc, idx, is_bg>>
    PROVE  BoundsInv'
<1>1. /\ i \in Int
      /\ bg_children.size >= 1
      /\ bg_children.size \in Int
      /\ bg_children.capacity \in Nat
  BY DEF IndexOf, TypeOK, ArrayOK, DynPidArrType
<1>2. /\ bg_children'.size = bg_children.size - 1
      /\ bg_children'.capacity = bg_children.capacity
  BY <1>1, PopType DEF TypeOK, ArrayOK
<1>3. pc \notin ExitPcs \cup {"dead"} => RoomToGrow'
  BY <1>1, <1>2 DEF BoundsInv, RoomToGrow
<1> QED
  BY <1>1, <1>2, <1>3 DEF BoundsInv, TypeOK, ArrayOK, ExitPcs

\* Every step of main loop and handlers keeps the bounds of bg_children.
LEMMA BoundsStep ==
    ASSUME TypeInv, BoundsInv, [Next]_vars PROVE BoundsInv'
<1> USE MaxCapAssumption DEF BoundsInv, RoomToGrow, ExitPcs
<1>0. /\ bg_children.size \in Int
      /\ bg_children.capacity \in Nat
      /\ idx \in Int
  BY DEF TypeInv, TypeOK, ArrayOK, DynPidArrType
<1>1. CASE RunCommand
  BY <1>1 DEF RunCommand
<1>2. CASE Fork \/ Decide \/ SetForeground \/ Sleep \/ Waited \/ ResetForeground
  BY <1>2 DEF Fork, Decide, SetForeground, Sleep, Waited, ResetForeground
<1>3. CASE PushCheckFull \/ PushLoadSize
  BY <1>0, <1>3 DEF PushCheckFull, PushLoadSize
<1>4. CASE PushRealloc \/ PushSwap \/ PushStoreSize \/ PushStorePid
  <2>1. /\ bg_children \in DynPidArrType
        /\ 2 * bg_children.capacity \in Nat
    BY <1>0 DEF TypeInv, TypeOK, ArrayOK
  <2>2. CASE PushRealloc
    BY <1>0, <2>1, <2>2 DEF PushRealloc, DynPidArrType
  <2>3. CASE PushSwap
    BY <1>0, <2>1, <2>3 DEF PushSwap, DynPidArrType
  <2>4. CASE PushStoreSize
    BY <1>0, <2>1, <2>4 DEF PushStoreSize, DynPidArrType
  <2>5. CASE PushStorePid
    BY <1>0, <2>1, <2>5 DEF PushStorePid, DynPidArrType
  <2> QED
    BY <1>4, <2>2, <2>3, <2>4, <2>5
<1>5. CASE ExitLoop
  <2>1. bg_children \in DynPidArrType
    BY DEF TypeInv, TypeOK, ArrayOK
  <2> QED
    BY <1>0, <1>5, <2>1
    DEF ExitLoop, ExitCheckEmpty, ExitLoadSize, ExitStoreSize,
        ExitLoadAddress, ExitKill, DynPidArrType
<1>6. CASE HandlerStep
  BY <1>6, PopBounds
  DEF HandlerStep, CatchSIGINT, CatchSIGTSTP, CatchSIGCHLD, TypeInv
<1>7. CASE ExitCommand \/ Deliver
  BY <1>7 DEF ExitCommand, Deliver
<1>8. CASE CtrlC \/ CtrlZ \/ (\E p \in Pids : Child(p)) \/ Terminated
  <2>1. UNCHANGED <<pc, bg_children, idx, is_bg>>
    BY <1>8
    DEF CtrlC, CtrlZ, Press, Child, ChildExec, ChildEnds,
        Terminated
  <2> QED
    BY <2>1
<1>9. CASE UNCHANGED vars
  BY <1>9
<1> QED
  BY <1>1, <1>2, <1>3, <1>4, <1>5, <1>6, <1>7, <1>8, <1>9
  DEF Next, MainStep, PushBack, User

\* PushBackDynPidArr never writes outside its block and the size stays
\* between 0 and the capacity until Exit() runs.
THEOREM ArrayBounds == Spec => []ArrayInBounds
<1>1. TypeInv /\ BoundsInv /\ [Next]_vars => (TypeInv /\ BoundsInv)'
  BY TypeStep, BoundsStep
<1>2. TypeInv /\ BoundsInv => ArrayInBounds
  BY DEF TypeInv, TypeOK, ArrayOK, DynPidArrType, BoundsInv, ArrayInBounds
<1> QED
  BY TypeInit, BoundsInit, <1>1, <1>2, PTL DEF Spec

-----------------------------------------------------------------------------
(***************************************************************************)
(* The foreground child.                                                   *)
(***************************************************************************)
\* Only the child forked in this iteration can be the foreground child, from
\* the parent's decision to the end of waitpid().
ForegroundInv ==
    \A p \in Pids :
      /\ procs[p].role = "fg" => p = spawnpid /\ pc \in {"setfg", "wait", "sleep"}
      /\ procs[p].st = "none" => procs[p].role = "none"

\* An unused entry of the table says so and has no role.
LEMMA NoProcFields == NoProc.st = "none" /\ NoProc.role = "none"
BY DEF NoProc

\* No process exists at the start, so none in the foreground.
LEMMA ForegroundInit == Init => ForegroundInv
BY NoProcFields DEF Init, ForegroundInv

\* What the steps of a child, of the keyboard and of Exit()'s kill leave
\* alone in p's entry of the process table.
Kept(p) ==
    /\ procs'[p].role = procs[p].role
    /\ procs'[p].st = "none" => procs[p].st = "none"
    /\ procs'[p].st \in {"forked", "running"} => Live(p)

\* What keyboard, Exit()'s kill and the children do keeps each process's
\* role, and revives nobody.
LEMMA RoleKept ==
    ASSUME TypeOK, CtrlC \/ CtrlZ \/ ExitKill \/ (\E p \in Pids : Child(p))
    PROVE  \A p \in Pids : Kept(p)
<1>1. \A ws \in Statuses, role \in {"none", "fg", "bg"} :
        Corpse(ws, role).role = role /\ Corpse(ws, role).st = "zombie"
  BY DEF Corpse, NoProc
<1>2. \A dead \in SUBSET Pids, ws \in Statuses :
        Die(dead, ws) => \A p \in Pids : Kept(p)
  BY <1>1 DEF Die, TypeOK, Proc, Kept, Live
<1>3. CASE CtrlC \/ ExitKill
  BY <1>2, <1>3 DEF CtrlC, ExitKill, Statuses
<1>4. CASE CtrlZ
  BY <1>4 DEF CtrlZ, TypeOK, Proc, Kept, Live
<1>5. ASSUME NEW q \in Pids, Child(q)
      PROVE  \A p \in Pids : Kept(p)
  <2>1. CASE ChildEnds(q)
    BY <1>2, <2>1 DEF ChildEnds, Statuses
  <2>2. CASE ChildExec(q)
    <3>1. PICK new :
            /\ procs' = [procs EXCEPT ![q] = new]
            /\ new.role = procs[q].role
            /\ new.st = "running"
      <4>1. TakesBackground(q) \in BOOLEAN
        BY Zenon DEF TakesBackground
      <4>2. \A b \in BOOLEAN :
              /\ [procs[q] EXCEPT !.st = "running", !.ign = b, !.bg = FALSE,
                                  !.mode = FALSE].role = procs[q].role
              /\ [procs[q] EXCEPT !.st = "running", !.ign = b, !.bg = FALSE,
                                  !.mode = FALSE].st = "running"
        BY DEF TypeOK, Proc
      <4> QED
        BY <2>2, <4>1, <4>2 DEF ChildExec
    <3>2. Live(q)
      BY <2>2 DEF ChildExec, Live
    <3> QED
      BY <3>1, <3>2 DEF TypeOK, Kept, Live
  <2> QED
    BY <1>5, <2>1, <2>2 DEF Child
<1> QED
  BY <1>3, <1>4, <1>5

\* Every step keeps the foreground child under the main loop's control
\* until it is reaped.
LEMMA ForegroundStep ==
    ASSUME TypeInv, ForegroundInv, [Next]_vars PROVE ForegroundInv'
<1> USE DEF ForegroundInv
<1>1. CASE Fork
  BY <1>1 DEF Fork, TypeInv, TypeOK, NoProc
<1>2. CASE Decide
  BY <1>2 DEF Decide, TypeInv, TypeOK, ChildPcs, Proc
<1>3. CASE Waited
  BY <1>3 DEF Waited, WaitForFg, Reap, TypeInv, TypeOK, ChildPcs, NoProc
<1>4. CASE HandlerStep
  BY <1>4
  DEF HandlerStep, CatchSIGINT, CatchSIGTSTP, CatchSIGCHLD, WaitForFg, Reap,
      TypeInv, TypeOK, ControlOK, NoProc
<1>5. CASE CtrlC \/ CtrlZ \/ ExitKill \/ (\E p \in Pids : Child(p))
  <2>1. pc' = pc \/ pc \in ExitPcs
    BY <1>5
    DEF CtrlC, CtrlZ, ExitKill, Child, ChildExec, ChildEnds,
        ExitPcs
  <2>2. UNCHANGED spawnpid
    BY <1>5
    DEF CtrlC, CtrlZ, ExitKill, Child, ChildExec, ChildEnds
  <2> QED
    BY <1>5, <2>1, <2>2, RoleKept DEF TypeInv, ExitPcs, Kept
<1>6. CASE Deliver \/ SetForeground \/ Sleep
  BY <1>6 DEF Deliver, SetForeground, Sleep
<1>7. CASE \/ RunCommand \/ ExitCommand \/ ResetForeground \/ PushBack
           \/ ExitLoop /\ ~ExitKill
  BY <1>7
  DEF RunCommand, ExitCommand, ResetForeground, PushBack, PushCheckFull,
      PushRealloc, PushSwap, PushLoadSize, PushStoreSize, PushStorePid,
      ExitLoop, ExitCheckEmpty, ExitLoadSize, ExitStoreSize, ExitLoadAddress
<1>8. CASE UNCHANGED vars
  BY <1>8
<1> QED
  BY <1>1, <1>2, <1>3, <1>4, <1>5, <1>6, <1>7, <1>8
  DEF Next, MainStep, User, Terminated

\* No foreground child is left behind when the prompt is back.
THEOREM PromptReaped == Spec => []PromptMeansReaped
<1>1. TypeInv /\ ForegroundInv /\ [Next]_vars => (TypeInv /\ ForegroundInv)'
  BY TypeStep, ForegroundStep
<1>2. ForegroundInv => PromptMeansReaped
  BY DEF ForegroundInv, PromptMeansReaped
<1> QED
  BY TypeInit, ForegroundInit, <1>1, <1>2, PTL DEF Spec

\* The only step that toggles the mode waits for the child it knows of.
LEMMA ToggleStep ==
    ASSUME TypeInv, Next, is_fg_only_mode' # is_fg_only_mode,
           fg_childpid # JUNK_VAL
    PROVE  procs'[fg_childpid].st = "none"
<1>1. CASE CatchSIGTSTP
  <2>1. fg_childpid \in Pids
    BY DEF TypeInv, TypeOK, ControlOK
  <2> QED
    BY <1>1, <2>1, NoProcFields
    DEF CatchSIGTSTP, WaitForFg, Reap, TypeInv, TypeOK
<1>2. CASE ~CatchSIGTSTP
  <2>1. UNCHANGED is_fg_only_mode
    <3>1. CASE MainStep
      BY <3>1, Zenon
      DEF MainStep, Fork, Decide, SetForeground, Sleep, Waited,
          ResetForeground, PushBack, PushCheckFull, PushRealloc, PushSwap,
          PushLoadSize, PushStoreSize, PushStorePid, ExitLoop,
          ExitCheckEmpty, ExitLoadSize, ExitStoreSize, ExitLoadAddress,
          ExitKill
    <3>2. CASE CatchSIGINT \/ CatchSIGCHLD
      BY <3>2, Zenon DEF CatchSIGINT, CatchSIGCHLD
    <3>3. CASE Environment \/ Terminated
      BY <3>3, Zenon
      DEF Environment, Deliver, User, RunCommand, ExitCommand, CtrlC, CtrlZ,
          Child, ChildExec, ChildEnds, Terminated
    <3> QED
      BY <1>2, <3>1, <3>2, <3>3 DEF Next, HandlerStep, Environment
  <2> QED
    BY <2>1
<1> QED
  BY <1>1, <1>2

\* CatchSIGTSTP toggles the mode only after the foreground child it knows of
\* has been reaped.
THEOREM TogglesAfterReaping == Spec => TogglesAfterKnownChild
<1>1. TypeInv /\ [Next]_vars =>
        [is_fg_only_mode' # is_fg_only_mode /\ fg_childpid # JUNK_VAL
           => procs'[fg_childpid].st = "none"]_vars
  BY ToggleStep
<1> QED
  BY <1>1, TypeInit, TypeStep, PTL DEF Spec, TogglesAfterKnownChild

-----------------------------------------------------------------------------
(***************************************************************************)
(* The list of background jobs, as long as no handler raced an update.     *)
(***************************************************************************)
LiveJob(p) == Live(p) /\ procs[p].role = "bg"

ListedInv ==
    ~raced =>
      /\ pc = "swap" => fresh = bg_children.pids
      /\ pc = "storesize" => idx = bg_children.size
      /\ pc = "storepid" =>
           /\ bg_children.size = idx + 1
           /\ \A p \in Pids : LiveJob(p) /\ p # spawnpid =>
                \E i \in 0 .. idx - 1 : bg_children.pids[i] = p
      /\ pc \notin ExitPcs \cup {"dead"} =>
           \A p \in Pids : LiveJob(p) =>
             \/ \E i \in 0 .. bg_children.size - 1 : bg_children.pids[i] = p
             \/ p = spawnpid /\ pc \in PushPcs

\* At the start there is no live job to be listed.
LEMMA ListedInit == Init => ListedInv
BY DEF Init, ListedInv, LiveJob, Live, NoProc

\* Inside the bounds, SlotAt reads the slot.
LEMMA SlotInBounds ==
    ASSUME TypeOK, BoundsInv, pc \notin ExitPcs \cup {"dead"},
           NEW i \in 0 .. bg_children.size - 1
    PROVE  i \in Slots /\ SlotAt(bg_children, i) = bg_children.pids[i]
BY MaxCapAssumption
DEF BoundsInv, Slots, SlotAt, TypeOK, ArrayOK, DynPidArrType

\* A step that only ends or reaps processes keeps ListedInv.
LEMMA ListedKept ==
    ASSUME ListedInv, ~raced' => ~raced,
           UNCHANGED <<pc, bg_children, fresh, idx, spawnpid>>,
           \A p \in Pids : LiveJob(p)' => LiveJob(p)
    PROVE  ListedInv'
BY DEF ListedInv

\* A reaped process is no live job, and the others are what they were.
LEMMA ReapJobs ==
    ASSUME TypeOK, NEW q \in Pids, Reap(q)
    PROVE  \A p \in Pids : LiveJob(p)' => LiveJob(p) /\ p # q
BY NoProcFields DEF Reap, LiveJob, Live, TypeOK

\* A pop of q's entry keeps the entries of all others.
LEMMA PopKeeps ==
    ASSUME TypeOK, BoundsInv, pc \notin ExitPcs \cup {"dead"},
           NEW q \in Pids, NEW k \in IndexOf(bg_children, q),
           bg_children' = PopAt(bg_children, k),
           NEW p \in Pids, p # q,
           \E i \in 0 .. bg_children.size - 1 : bg_children.pids[i] = p
    PROVE  \E i \in 0 .. bg_children'.size - 1 : bg_children'.pids[i] = p
<1> DEFINE last == bg_children.size - 1
<1>1. /\ bg_children \in DynPidArrType
      /\ last \in Int
      /\ k \in 0 .. last
      /\ bg_children.pids[k] = q
  BY SlotInBounds DEF TypeOK, ArrayOK, DynPidArrType, IndexOf
<1>2. PICK i \in 0 .. last : bg_children.pids[i] = p
  OBVIOUS
<1>3. i # k
  BY <1>1, <1>2
<1>4. /\ bg_children'.size = last
      /\ bg_children'.pids = [bg_children.pids EXCEPT ![k] = bg_children.pids[last]]
  <2>1. last \in 0 .. last
    BY <1>1
  <2>2. SlotAt(bg_children, last) = bg_children.pids[last]
    BY <2>1, SlotInBounds
  <2> QED
    BY <1>1, <2>2, PopType
<1>5. k \in DOMAIN bg_children.pids /\ i \in DOMAIN bg_children.pids
  BY <1>1, <1>2, SlotInBounds DEF DynPidArrType, Heap
<1>6. CASE i = last
  <2>1. k \in 0 .. last - 1
    BY <1>1, <1>3, <1>6
  <2> QED
    BY <1>2, <1>4, <1>5, <1>6, <2>1
<1>7. CASE i # last
  <2>1. i \in 0 .. last - 1
    BY <1>1, <1>2, <1>7
  <2> QED
    BY <1>2, <1>3, <1>4, <1>5, <2>1
<1> QED
  BY <1>6, <1>7

\* Every step keeps live jobs in bg_children, on their way there, or marked
\* as raced.
LEMMA ListedStep ==
    ASSUME TypeInv, BoundsInv, ListedInv, [Next]_vars PROVE ListedInv'
<1> USE DEF ListedInv
<1>1. CASE RunCommand \/ ExitCommand \/ SetForeground \/ Sleep \/ Deliver
           \/ ResetForeground \/ PushCheckFull \/ PushLoadSize
  BY <1>1
  DEF RunCommand, ExitCommand, SetForeground, Sleep, Deliver, ResetForeground,
      PushCheckFull, PushLoadSize, LiveJob, Live, PushPcs, ExitPcs
<1>2. CASE Fork
  <2>1. \A p \in Pids : LiveJob(p)' => LiveJob(p)
    BY <1>2, NoProcFields DEF Fork, LiveJob, Live, TypeInv, TypeOK, NoProc
  <2> QED
    BY <1>2, <2>1 DEF Fork, PushPcs, ExitPcs
<1>3. CASE Decide
  <2>1. /\ spawnpid \in Pids
        /\ \A p \in Pids : p # spawnpid /\ LiveJob(p)' => LiveJob(p)
        /\ LiveJob(spawnpid)' => pc' = "push"
    BY <1>3 DEF Decide, LiveJob, Live, TypeInv, TypeOK, Proc, ChildPcs
  <2> QED
    BY <1>3, <2>1 DEF Decide, PushPcs, ExitPcs
<1>4. CASE Waited
  <2>1. \A p \in Pids : LiveJob(p)' => LiveJob(p)
    BY <1>4, ReapJobs
    DEF Waited, WaitForFg, LiveJob, Live, TypeInv, ChildPcs
  <2> QED
    BY <1>4, <2>1 DEF Waited, PushPcs, ExitPcs
<1>5. CASE PushRealloc
  BY <1>5
  DEF PushRealloc, LiveJob, Live, TypeInv, TypeOK, ArrayOK, DynPidArrType,
      PushPcs, ExitPcs
<1>6. CASE PushSwap
  BY <1>6
  DEF PushSwap, LiveJob, Live, TypeInv, TypeOK, ArrayOK, DynPidArrType,
      PushPcs, ExitPcs
<1>7. CASE PushStoreSize
  BY <1>7
  DEF PushStoreSize, LiveJob, Live, TypeInv, TypeOK, ArrayOK, DynPidArrType,
      PushPcs, ExitPcs
<1>8. CASE PushStorePid
  <2> SUFFICES ASSUME ~raced
               PROVE  \A p \in Pids : LiveJob(p) =>
                        \E i \in 0 .. bg_children'.size - 1 :
                          bg_children'.pids[i] = p
    BY <1>8 DEF PushStorePid, LiveJob, Live, PushPcs, ExitPcs
  <2>1. /\ idx \in Slots
        /\ bg_children.size = idx + 1
        /\ bg_children.pids \in Heap
    BY <1>8, MaxCapAssumption
    DEF PushStorePid, BoundsInv, Slots, TypeInv, TypeOK, ArrayOK, DynPidArrType
  <2>2. /\ bg_children'.size = idx + 1
        /\ bg_children'.pids = [bg_children.pids EXCEPT ![idx] = spawnpid]
    BY <1>8, <2>1 DEF PushStorePid, TypeInv, TypeOK, ArrayOK, DynPidArrType
  <2>3. bg_children'.pids[idx] = spawnpid /\ idx \in 0 .. idx
    <3>1. idx \in DOMAIN bg_children.pids
      BY <2>1 DEF Heap
    <3>2. idx \in 0 .. idx
      BY <2>1 DEF Slots
    <3> QED
      BY <2>2, <3>1, <3>2
  <2>4. \A i \in 0 .. idx - 1 : bg_children'.pids[i] = bg_children.pids[i]
    BY <2>1, <2>2 DEF Heap, Slots
  <2>5. \A p \in Pids : LiveJob(p) /\ p # spawnpid =>
          \E i \in 0 .. idx - 1 : bg_children.pids[i] = p
    BY <1>8 DEF PushStorePid
  <2>6. 0 .. idx - 1 \subseteq 0 .. idx
    BY <2>1 DEF Slots
  <2> QED
    BY <2>1, <2>2, <2>3, <2>4, <2>5, <2>6
<1>9. CASE ExitLoop
  BY <1>9
  DEF ExitLoop, ExitCheckEmpty, ExitLoadSize, ExitStoreSize, ExitLoadAddress,
      ExitKill, ExitPcs
<1>10. CASE CatchSIGINT \/ CatchSIGTSTP
  <2>1. \A p \in Pids : LiveJob(p)' => LiveJob(p)
    BY <1>10, ReapJobs
    DEF CatchSIGINT, CatchSIGTSTP, WaitForFg, LiveJob, Live, TypeInv, TypeOK,
        ControlOK
  <2> QED
    BY <1>10, <2>1, ListedKept DEF CatchSIGINT, CatchSIGTSTP
<1>11. CASE CatchSIGCHLD
  <2>1. CASE UNCHANGED <<bg_children, raced>>
    <3>1. \A p \in Pids : LiveJob(p)' => LiveJob(p)
      BY <1>11, ReapJobs DEF CatchSIGCHLD, LiveJob, Live, TypeInv
    <3> QED
      BY <1>11, <2>1, <3>1, ListedKept DEF CatchSIGCHLD
  <2>2. ASSUME NEW q \in Pids, Reap(q), NEW k \in IndexOf(bg_children, q),
               bg_children' = PopAt(bg_children, k),
               raced' = (raced \/ InsideUpdate), ~raced'
        PROVE  ListedInv'
    <3>1. UNCHANGED <<pc, fresh, idx, spawnpid>>
      BY <1>11 DEF CatchSIGCHLD
    <3>2. /\ ~raced
          /\ pc \notin {"swap", "storesize", "storepid"}
      BY <2>2, Zenon DEF InsideUpdate
    <3>3. \A p \in Pids : LiveJob(p)' => LiveJob(p) /\ p # q
      BY <2>2, ReapJobs DEF TypeInv
    <3>4. CASE pc \notin ExitPcs \cup {"dead"}
      BY <2>2, <3>1, <3>2, <3>3, <3>4, PopKeeps DEF TypeInv
    <3>5. CASE pc \in ExitPcs \cup {"dead"}
      BY <3>1, <3>2, <3>5
    <3> QED
      BY <3>4, <3>5
  <2> QED
    BY <1>11, <2>1, <2>2 DEF CatchSIGCHLD
<1>12. CASE CtrlC \/ CtrlZ \/ (\E p \in Pids : Child(p))
  <2>1. \A p \in Pids : LiveJob(p)' => LiveJob(p)
    BY <1>12, RoleKept DEF TypeInv, Kept, LiveJob, Live
  <2>2. UNCHANGED <<pc, bg_children, fresh, idx, spawnpid, raced>>
    BY <1>12
    DEF CtrlC, CtrlZ, Press, Child, ChildExec, ChildEnds
  <2> QED
    BY <2>1, <2>2, ListedKept
<1>13. CASE UNCHANGED vars
  BY <1>13, ListedKept DEF LiveJob, Live
<1> QED
  BY <1>1, <1>2, <1>3, <1>4, <1>5, <1>6, <1>7, <1>8, <1>9, <1>10, <1>11,
     <1>12, <1>13
  DEF Next, MainStep, HandlerStep, PushBack, User, Terminated

\* Unless a handler has popped inside a push or a pop, every live background
\* job is in bg_children.
THEOREM JobsListed == Spec => []LiveJobsListed
<1>1. /\ TypeInv /\ BoundsInv /\ ListedInv /\ [Next]_vars
           => (TypeInv /\ BoundsInv /\ ListedInv)'
      /\ Init => TypeInv /\ BoundsInv /\ ListedInv
  BY TypeInit, BoundsInit, ListedInit, TypeStep, BoundsStep, ListedStep
<1>2. TypeInv /\ BoundsInv /\ ListedInv => LiveJobsListed
  <2> SUFFICES ASSUME TypeInv, BoundsInv, ListedInv PROVE LiveJobsListed
    OBVIOUS
  <2> QED
    BY SlotInBounds DEF ListedInv, LiveJobsListed, LiveJob, Listed, TypeInv
<1> QED
  BY <1>1, <1>2, PTL DEF Spec

-----------------------------------------------------------------------------
(***************************************************************************)
(* Exit() kills every job, as long as no handler raced an update.  Between *)
(* its loads and stores the jobs still to be killed are in the slots that  *)
(* the loop has not passed, and no such slot holds 0 or -7.                *)
(***************************************************************************)
\* A process that runs has been taken for the foreground or the background
\* as soon as the parent has decided.
RoleInv ==
    \A p \in Pids : Live(p) /\ procs[p].role = "none" =>
                      p = spawnpid /\ pc = "decide"

Filled(arr, slots) == \A i \in slots : arr.pids[i] \in Pids
Holds(arr, slots, p) == \E i \in slots : arr.pids[i] = p

\* The slots with jobs that Exit() still has to kill.
Unkilled ==
    CASE pc = "exit_addr" -> 0 .. bg_children.size
      [] pc = "exit_kill" -> (0 .. bg_children.size - 1) \cup {idx}
      [] OTHER            -> 0 .. bg_children.size - 1

\* The slots that hold PIDs.
Written ==
    CASE pc = "storepid"   -> 0 .. idx - 1
      [] pc = "exit_store" -> (0 .. bg_children.size - 1) \cup (0 .. idx)
      [] OTHER             -> Unkilled

ExitInv ==
    ~raced =>
      /\ pc # "dead" => Filled(bg_children, Written)
      /\ pc \in ExitPcs =>
           /\ exit_code \in {"0", "1"}
           /\ bg_children.size >= 0 /\ bg_children.size =< bg_children.capacity
           /\ \A p \in Pids : Live(p) => Holds(bg_children, Unkilled, p)
      /\ pc = "exit_load" => bg_children.size >= 1
      /\ pc = "exit_store" =>
           /\ idx >= 0 /\ idx < bg_children.capacity
           /\ bg_children.size =< idx + 1
      /\ pc = "exit_addr" => bg_children.size < bg_children.capacity
      /\ pc = "exit_kill" =>
           /\ bg_children.size =< idx /\ idx < bg_children.capacity
      /\ pc = "dead" =>
           /\ exit_code \in {"0", "1"}
           /\ \A p \in Pids : ~Live(p)

\* No process exists at the start.
LEMMA RoleInit == Init => RoleInv
BY NoProcFields DEF Init, RoleInv, Live

\* The array of Init is empty.
LEMMA ExitInit == Init => ExitInv
BY DEF Init, ExitInv, InitDynPidArr, Filled, Written, Unkilled, ExitPcs

\* Every step keeps undecided children in the hands of the main loop.
LEMMA RoleStep ==
    ASSUME TypeInv, RoleInv, [Next]_vars PROVE RoleInv'
<1> USE DEF RoleInv
<1>1. CASE Fork
  BY <1>1 DEF Fork, TypeInv, TypeOK, NoProc, Live
<1>2. CASE Decide
  BY <1>2 DEF Decide, TypeInv, TypeOK, ChildPcs, Proc, Live
<1>3. CASE Waited
  BY <1>3, NoProcFields
  DEF Waited, WaitForFg, Reap, TypeInv, TypeOK, ChildPcs, Live
<1>4. CASE HandlerStep
  BY <1>4, NoProcFields
  DEF HandlerStep, CatchSIGINT, CatchSIGTSTP, CatchSIGCHLD, WaitForFg, Reap,
      TypeInv, TypeOK, ControlOK, Live
<1>5. CASE CtrlC \/ CtrlZ \/ (\E p \in Pids : Child(p))
  <2>1. UNCHANGED <<pc, spawnpid>>
    BY <1>5 DEF CtrlC, CtrlZ, Press, Child, ChildExec, ChildEnds
  <2> QED
    BY <1>5, <2>1, RoleKept DEF TypeInv, Kept, Live
<1>6. CASE ExitKill
  <2>1. UNCHANGED spawnpid /\ pc # "decide"
    BY <1>6 DEF ExitKill
  <2> QED
    BY <1>6, <2>1, RoleKept DEF TypeInv, Kept, Live
<1>7. CASE \/ Deliver \/ SetForeground \/ Sleep \/ RunCommand \/ ExitCommand
           \/ ResetForeground \/ PushBack \/ (ExitLoop /\ ~ExitKill)
  BY <1>7
  DEF Deliver, SetForeground, Sleep, RunCommand, ExitCommand, ResetForeground,
      PushBack, PushCheckFull, PushRealloc, PushSwap, PushLoadSize,
      PushStoreSize, PushStorePid, ExitLoop, ExitCheckEmpty, ExitLoadSize,
      ExitStoreSize, ExitLoadAddress, Live
<1>8. CASE UNCHANGED vars
  BY <1>8 DEF Live
<1> QED
  BY <1>1, <1>2, <1>3, <1>4, <1>5, <1>6, <1>7, <1>8
  DEF Next, MainStep, User, Terminated

\* A pop of the slot k, where q was found, fills it with the last PID.
LEMMA PopFields ==
    ASSUME NEW arr \in DynPidArrType, arr.size =< MaxCap,
           NEW q \in Pids, NEW k \in IndexOf(arr, q)
    PROVE  /\ arr.size \in Int /\ k \in 0 .. arr.size - 1
           /\ 0 .. arr.size - 1 \subseteq Slots
           /\ arr.pids[k] = q
           /\ PopAt(arr, k).size = arr.size - 1
           /\ PopAt(arr, k).capacity = arr.capacity
           /\ PopAt(arr, k).pids = [arr.pids EXCEPT ![k] = arr.pids[arr.size - 1]]
           /\ arr.pids \in [Slots -> Pids \cup {0}]
<1>1. arr.size \in Int /\ k \in 0 .. arr.size - 1 /\ SlotAt(arr, k) = q
  BY DEF IndexOf, DynPidArrType
<1>2. 0 .. arr.size - 1 \subseteq Slots /\ k \in Slots /\ arr.size - 1 \in Slots
  BY <1>1, MaxCapAssumption DEF Slots
<1>3. SlotAt(arr, k) = arr.pids[k] /\ SlotAt(arr, arr.size - 1) = arr.pids[arr.size - 1]
  BY <1>2 DEF SlotAt
<1> QED
  BY <1>1, <1>2, <1>3 DEF PopAt, DynPidArrType, Heap

\* A pop of q's slot keeps the others in the array.
LEMMA PopHolds ==
    ASSUME NEW arr \in DynPidArrType, arr.size =< MaxCap,
           NEW q \in Pids, NEW k \in IndexOf(arr, q),
           NEW p \in Pids, p # q, Holds(arr, 0 .. arr.size - 1, p)
    PROVE  Holds(PopAt(arr, k), 0 .. PopAt(arr, k).size - 1, p)
<1> DEFINE last == arr.size - 1
           new == PopAt(arr, k)
<1>1. /\ last \in Int /\ k \in 0 .. last /\ arr.pids[k] = q
      /\ new.size = last /\ new.pids = [arr.pids EXCEPT ![k] = arr.pids[last]]
      /\ 0 .. last \subseteq DOMAIN arr.pids
  BY PopFields
<1>2. PICK i \in 0 .. last : arr.pids[i] = p
  BY DEF Holds
<1>3. i # k
  BY <1>1, <1>2
<1>4. CASE i = last
  <2>1. k \in 0 .. last - 1 /\ new.pids[k] = p
    BY <1>1, <1>2, <1>3, <1>4
  <2> QED
    BY <1>1, <2>1 DEF Holds
<1>5. CASE i # last
  <2>1. i \in 0 .. last - 1 /\ new.pids[i] = p
    BY <1>1, <1>2, <1>3, <1>5
  <2> QED
    BY <1>1, <2>1 DEF Holds
<1> QED
  BY <1>4, <1>5

\* A step that only ends or reaps processes keeps ExitInv.
LEMMA ExitKept ==
    ASSUME ExitInv, ~raced' => ~raced,
           UNCHANGED <<pc, bg_children, idx, exit_code>>,
           \A p \in Pids : Live(p)' => Live(p)
    PROVE  ExitInv'
BY DEF ExitInv, Filled, Holds, Written, Unkilled

\* A reaped process does not live, and the others are what they were.
LEMMA ReapLives ==
    ASSUME TypeOK, NEW q \in Pids, Reap(q)
    PROVE  \A p \in Pids : Live(p)' => Live(p) /\ p # q
BY NoProcFields DEF Reap, Live, TypeOK

\* When Exit() begins, every process that lives is a listed job.
LEMMA AllListed ==
    ASSUME TypeInv, BoundsInv, ForegroundInv, ListedInv, RoleInv, ~raced,
           pc \in {"prompt", "fork"}, NEW p \in Pids, Live(p)
    PROVE  Holds(bg_children, 0 .. bg_children.size - 1, p)
<1>1. procs[p].role = "bg"
  BY DEF TypeInv, TypeOK, Proc, ForegroundInv, RoleInv
<1> QED
  BY <1>1 DEF ListedInv, LiveJob, Holds, ExitPcs, PushPcs

\* CatchSIGCHLD pops the job it has reaped: the other jobs stay where Exit()
\* looks for them.
LEMMA ExitPop ==
    ASSUME TypeInv, BoundsInv, ListedInv, ExitInv,
           NEW q \in Pids, Reap(q), NEW k \in IndexOf(bg_children, q),
           bg_children' = PopAt(bg_children, k),
           raced' = (raced \/ InsideUpdate),
           UNCHANGED <<pc, idx, exit_code>>
    PROVE  ExitInv'
<1> SUFFICES ASSUME ~raced' PROVE ExitInv'
  BY DEF ExitInv
<1>1. /\ ~raced
      /\ pc \notin {"swap", "storesize", "storepid", "exit_load", "exit_addr"}
  BY Zenon DEF InsideUpdate
<1>2. \A p \in Pids : Live(p)' => Live(p) /\ p # q
  BY ReapLives DEF TypeInv
<1>3. CASE pc = "dead"
  BY <1>1, <1>2, <1>3 DEF ExitInv, ExitPcs
<1>4. CASE pc # "dead"
  <2> DEFINE last == bg_children.size - 1
  <2>1. /\ bg_children \in DynPidArrType
        /\ bg_children.size =< bg_children.capacity
        /\ bg_children.size =< MaxCap
        /\ bg_children.capacity =< MaxCap
        /\ bg_children.capacity \in Nat /\ idx \in Int
    <3>1. bg_children \in DynPidArrType /\ idx \in Int
      BY DEF TypeInv, TypeOK, ArrayOK
    <3>2. bg_children.size \in Int /\ bg_children.capacity \in Nat
      BY <3>1 DEF DynPidArrType
    <3>3. bg_children.size =< bg_children.capacity
      BY <1>1, <1>4 DEF BoundsInv, ExitInv
    <3> QED
      BY <3>1, <3>2, <3>3, MaxCapAssumption DEF BoundsInv
  <2>2. /\ bg_children.size \in Int /\ k \in 0 .. last
        /\ 0 .. last \subseteq Slots
        /\ bg_children'.size = last
        /\ bg_children'.capacity = bg_children.capacity
        /\ bg_children'.pids = [bg_children.pids EXCEPT ![k] = bg_children.pids[last]]
        /\ bg_children.pids \in [Slots -> Pids \cup {0}]
    BY <2>1, PopFields
  <2>3. Filled(bg_children, Written) /\ last \in Written /\ 0 .. last \subseteq Written
    <3>1. Written \in {0 .. last, 0 .. last \cup 0 .. idx, 0 .. last \cup {idx}}
      BY <1>1 DEF Written, Unkilled
    <3>2. last \in 0 .. last
      BY <2>2
    <3> QED
      BY <1>1, <1>4, <3>1, <3>2 DEF ExitInv
  <2>4. Written' \subseteq Written /\ Written \subseteq Slots
    <3>1. pc = "exit_store" => idx < MaxCap
      BY <1>1, <2>1, MaxCapAssumption DEF ExitInv, ExitPcs
    <3>2. pc = "exit_kill" => idx \in Slots
      BY <1>1, <2>1, <2>2, MaxCapAssumption DEF ExitInv, ExitPcs, Slots
    <3>3. 0 .. idx \subseteq Slots \/ pc # "exit_store"
      BY <3>1, <2>1, MaxCapAssumption DEF Slots
    <3>4. 0 .. last - 1 \subseteq 0 .. last
      BY <2>2
    <3> QED
      BY <1>1, <2>2, <3>2, <3>3, <3>4 DEF Written, Unkilled
  <2>5. Filled(bg_children', Written')
    BY <2>2, <2>3, <2>4 DEF Filled
  <2>6. ASSUME pc \in ExitPcs, NEW p \in Pids, Live(p)'
        PROVE  Holds(bg_children', Unkilled', p)
    <3>1. Holds(bg_children, Unkilled, p) /\ p # q
      BY <1>1, <1>2, <2>6 DEF ExitInv
    <3>2. CASE Holds(bg_children, 0 .. last, p)
      <4>1. Holds(bg_children', 0 .. last - 1, p)
        BY <2>1, <2>2, <3>1, <3>2, PopHolds
      <4> QED
        BY <1>1, <2>2, <4>1 DEF Unkilled, Holds
    <3>3. CASE pc = "exit_kill" /\ bg_children.pids[idx] = p
      <4>1. idx # k /\ idx \in Slots
        BY <1>1, <2>1, <2>2, <3>3, MaxCapAssumption DEF ExitInv, ExitPcs, Slots
      <4> QED
        BY <2>2, <3>3, <4>1 DEF Unkilled, Holds
    <3> QED
      BY <1>1, <3>1, <3>2, <3>3 DEF Unkilled, Holds
  <2>7. pc = "exit_store" =>
            /\ idx >= 0 /\ idx < bg_children'.capacity
            /\ bg_children'.size =< idx + 1
    BY <1>1, <2>1, <2>2 DEF ExitInv, ExitPcs
  <2>8. pc = "exit_kill" => bg_children'.size =< idx /\ idx < bg_children'.capacity
    BY <1>1, <2>1, <2>2 DEF ExitInv, ExitPcs
  <2>9. pc \in ExitPcs => /\ exit_code \in {"0", "1"}
                          /\ bg_children'.size >= 0
                          /\ bg_children'.size =< bg_children'.capacity
    BY <1>1, <2>1, <2>2 DEF ExitInv
  <2> QED
    BY <1>1, <1>4, <2>5, <2>6, <2>7, <2>8, <2>9 DEF ExitInv
<1> QED
  BY <1>3, <1>4

\* Each step of Exit() passes one slot and kills what it holds.
LEMMA ExitLoopStep ==
    ASSUME TypeInv, BoundsInv, ExitInv, ExitLoop PROVE ExitInv'
<1> SUFFICES ASSUME ~raced' PROVE ExitInv'
  BY DEF ExitInv
<1>1. /\ ~raced /\ pc \in ExitPcs
      /\ UNCHANGED <<handler, raced>>
  BY DEF ExitLoop, ExitCheckEmpty, ExitLoadSize, ExitStoreSize, ExitLoadAddress,
         ExitKill, ExitPcs
<1>2. /\ bg_children \in DynPidArrType
      /\ bg_children.size \in Int /\ bg_children.capacity \in Nat /\ idx \in Int
      /\ bg_children.capacity =< MaxCap
      /\ bg_children.size >= 0 /\ bg_children.size =< bg_children.capacity
      /\ exit_code \in {"0", "1"}
  BY <1>1 DEF TypeInv, TypeOK, ArrayOK, BoundsInv, ExitInv, DynPidArrType
<1>3. CASE ExitCheckEmpty
  <2>1. CASE bg_children.size = 0
    <3>1. \A p \in Pids : ~Live(p)
      BY <1>1, <1>3, <2>1 DEF ExitCheckEmpty, ExitInv, Unkilled, Holds, ExitPcs
    <3> QED
      BY <1>2, <1>3, <2>1, <3>1 DEF ExitCheckEmpty, ExitInv, ExitPcs, Live
  <2>2. CASE bg_children.size # 0
    BY <1>1, <1>2, <1>3, <2>2
    DEF ExitCheckEmpty, ExitInv, Unkilled, Written, Holds, Filled, ExitPcs, Live
  <2> QED
    BY <2>1, <2>2
<1>4. CASE ExitLoadSize
  BY <1>1, <1>2, <1>4
  DEF ExitLoadSize, ExitInv, Unkilled, Written, Holds, Filled, ExitPcs, Live
<1>5. CASE ExitStoreSize
  <2>1. /\ bg_children'.size = idx
        /\ bg_children'.capacity = bg_children.capacity
        /\ bg_children'.pids = bg_children.pids
    BY <1>2, <1>5 DEF ExitStoreSize, DynPidArrType
  <2>2. /\ idx >= 0 /\ idx < bg_children.capacity
        /\ bg_children.size =< idx + 1
        /\ Filled(bg_children, Written)
        /\ \A p \in Pids : Live(p) => Holds(bg_children, Unkilled, p)
    BY <1>1, <1>5 DEF ExitStoreSize, ExitInv
  <2>3. pc = "exit_store" /\ pc' = "exit_addr" /\ UNCHANGED <<exit_code, procs>>
    BY <1>5 DEF ExitStoreSize
  <2>4. Unkilled' = 0 .. idx /\ Written' = 0 .. idx
    BY <2>1, <2>3 DEF Unkilled, Written
  <2>5. Unkilled \subseteq 0 .. idx /\ 0 .. idx \subseteq Written
    BY <1>2, <2>2, <2>3 DEF Unkilled, Written
  <2>6. \A p \in Pids : Live(p)' => Holds(bg_children', Unkilled', p)
    BY <2>1, <2>2, <2>3, <2>4, <2>5 DEF Live, Holds
  <2>7. Filled(bg_children', Written')
    BY <2>1, <2>2, <2>4, <2>5 DEF Filled
  <2> QED
    BY <1>2, <2>1, <2>2, <2>3, <2>6, <2>7 DEF ExitInv, ExitPcs
<1>6. CASE ExitLoadAddress
  <2>1. Unkilled' = Unkilled /\ Written' = Unkilled' /\ Written = Unkilled
    BY <1>2, <1>6 DEF ExitLoadAddress, Unkilled, Written
  <2> QED
    BY <1>1, <1>2, <1>6, <2>1 DEF ExitLoadAddress, ExitInv, Holds, Filled, ExitPcs, Live
<1>7. CASE ExitKill
  <2>1. /\ bg_children.size =< idx /\ idx < bg_children.capacity
        /\ \A i \in (0 .. bg_children.size - 1) \cup {idx} : bg_children.pids[i] \in Pids
        /\ \A p \in Pids : Live(p) =>
             \E i \in (0 .. bg_children.size - 1) \cup {idx} : bg_children.pids[i] = p
    BY <1>1, <1>7 DEF ExitKill, ExitInv, Unkilled, Written, Filled, Holds, ExitPcs
  <2>2. PICK target \in Pids : target = SlotAt(bg_children, idx)
                             /\ target = bg_children.pids[idx] /\ target # 0
    BY <1>2, <2>1, MaxCapAssumption, PidsAssumption DEF SlotAt, Slots
  <2>3. /\ pc' = "exit_check" /\ UNCHANGED <<bg_children, exit_code>>
        /\ Die({p \in Pids : Live(p) /\ target \in {0, p}}, "SIGKILL")
    BY <1>7, <2>2 DEF ExitKill
  <2>4. \A p \in Pids : Live(p)' => Live(p) /\ p # target
    <3>1. \A p \in Pids : Live(p)' => Live(p)
      BY <1>7, RoleKept DEF TypeInv, Kept, Live
    <3>2. Live(target) => procs'[target].st = "zombie"
      BY <2>2, <2>3 DEF Die, Corpse, NoProc, TypeInv, TypeOK
    <3> QED
      BY <3>1, <3>2 DEF Live
  <2> QED
    BY <1>2, <2>1, <2>2, <2>3, <2>4
    DEF ExitInv, Unkilled, Written, Filled, Holds, ExitPcs
<1> QED
  BY <1>3, <1>4, <1>5, <1>6, <1>7 DEF ExitLoop

\* Every step keeps every job where Exit() will find it.
LEMMA ExitStep ==
    ASSUME TypeInv, BoundsInv, ForegroundInv, ListedInv, RoleInv, ExitInv,
           [Next]_vars
    PROVE  ExitInv'
<1>0. /\ bg_children \in DynPidArrType
      /\ bg_children.size \in Int /\ bg_children.capacity \in Nat /\ idx \in Int
      /\ bg_children.pids \in [Slots -> Pids \cup {0}]
      /\ bg_children.capacity =< MaxCap
  BY DEF TypeInv, TypeOK, ArrayOK, DynPidArrType, BoundsInv, Heap
<1>1. CASE ExitCommand \/ (Fork /\ pc' \in ExitPcs)
  <2> SUFFICES ASSUME ~raced' PROVE ExitInv'
    BY DEF ExitInv
  <2>1. /\ pc \in {"prompt", "fork"} /\ pc' = "exit_check"
        /\ exit_code' \in {"0", "1"}
        /\ UNCHANGED <<raced, procs, bg_children>>
    BY <1>1, Zenon DEF ExitCommand, Fork, ExitPcs
  <2>2. \A p \in Pids : Live(p)' => Holds(bg_children, 0 .. bg_children.size - 1, p)
    BY <2>1, AllListed DEF Live
  <2>3. bg_children.size >= 0 /\ bg_children.size =< bg_children.capacity
    BY <2>1 DEF BoundsInv, ExitPcs
  <2>4. Filled(bg_children, 0 .. bg_children.size - 1)
    BY <2>1 DEF ExitInv, Written, Unkilled
  <2> QED
    BY <2>1, <2>2, <2>3, <2>4 DEF ExitInv, Unkilled, Written, ExitPcs, Holds, Filled
<1>2. CASE RunCommand \/ (Fork /\ pc' = "decide") \/ Decide \/ SetForeground
           \/ Sleep \/ Waited \/ ResetForeground \/ Deliver \/ PushCheckFull
           \/ PushLoadSize
  BY <1>2
  DEF RunCommand, Fork, Decide, SetForeground, Sleep, Waited, ResetForeground,
      Deliver, PushCheckFull, PushLoadSize, ExitInv, Filled, Written, Unkilled, Holds, Live,
      ExitPcs
<1>3. CASE PushRealloc \/ PushSwap
  <2>1. pc' \in {"load", "swap"} /\ pc \in {"realloc", "swap"}
    BY <1>3 DEF PushRealloc, PushSwap
  <2>2. /\ UNCHANGED raced
        /\ ~raced => bg_children'.pids = bg_children.pids
        /\ bg_children'.size = bg_children.size
    BY <1>0, <1>3 DEF PushRealloc, PushSwap, ListedInv, DynPidArrType
  <2> QED
    BY <2>1, <2>2 DEF ExitInv, Filled, Written, Unkilled, ExitPcs
<1>4. CASE PushStoreSize
  <2>1. /\ pc = "storesize" /\ pc' = "storepid" /\ UNCHANGED <<raced, idx>>
        /\ bg_children'.pids = bg_children.pids
    BY <1>0, <1>4 DEF PushStoreSize, DynPidArrType
  <2>2. ~raced => idx = bg_children.size
    BY <2>1 DEF ListedInv
  <2> QED
    BY <2>1, <2>2 DEF ExitInv, Filled, Written, Unkilled, ExitPcs
<1>5. CASE PushStorePid
  <2> SUFFICES ASSUME ~raced PROVE ExitInv'
    BY <1>5 DEF ExitInv, PushStorePid
  <2>1. /\ pc = "storepid" /\ pc' = "prompt" /\ spawnpid \in Pids
        /\ bg_children'.pids = [bg_children.pids EXCEPT ![idx] = spawnpid]
        /\ bg_children'.size = idx + 1
    BY <1>0, <1>5
    DEF PushStorePid, DynPidArrType, ListedInv, TypeInv, ChildPcs, PushPcs
  <2>2. \A i \in 0 .. idx - 1 : bg_children.pids[i] \in Pids
    BY <2>1 DEF ExitInv, Written, Filled
  <2>3. idx \in Slots /\ 0 .. idx \subseteq Slots
    BY <1>0, <2>1, MaxCapAssumption DEF BoundsInv, Slots
  <2>4. \A i \in 0 .. idx : bg_children'.pids[i] \in Pids
    BY <1>0, <2>1, <2>2, <2>3
  <2> QED
    BY <2>1, <2>4, <1>0 DEF ExitInv, Filled, Written, Unkilled, ExitPcs
<1>6. CASE ExitLoop
  BY <1>6, ExitLoopStep
<1>7. CASE CatchSIGINT \/ CatchSIGTSTP
  <2>1. \A p \in Pids : Live(p)' => Live(p)
    BY <1>7, ReapLives
    DEF CatchSIGINT, CatchSIGTSTP, WaitForFg, Live, TypeInv, TypeOK, ControlOK
  <2> QED
    BY <1>7, <2>1, ExitKept DEF CatchSIGINT, CatchSIGTSTP
<1>8. CASE CatchSIGCHLD
  <2>1. CASE UNCHANGED <<bg_children, raced>>
    <3>1. \A p \in Pids : Live(p)' => Live(p)
      BY <1>8, ReapLives DEF CatchSIGCHLD, Live, TypeInv
    <3> QED
      BY <1>8, <2>1, <3>1, ExitKept DEF CatchSIGCHLD
  <2>2. ASSUME NEW q \in Pids, Reap(q), NEW k \in IndexOf(bg_children, q),
               bg_children' = PopAt(bg_children, k),
               raced' = (raced \/ InsideUpdate)
        PROVE  ExitInv'
    BY <1>8, <2>2, ExitPop DEF CatchSIGCHLD
  <2> QED
    BY <1>8, <2>1, <2>2 DEF CatchSIGCHLD
<1>9. CASE CtrlC \/ CtrlZ \/ (\E p \in Pids : Child(p))
  <2>1. \A p \in Pids : Live(p)' => Live(p)
    BY <1>9, RoleKept DEF TypeInv, Kept, Live
  <2>2. UNCHANGED <<pc, bg_children, idx, exit_code, raced>>
    BY <1>9 DEF CtrlC, CtrlZ, Press, Child, ChildExec, ChildEnds
  <2> QED
    BY <2>1, <2>2, ExitKept
<1>10. CASE UNCHANGED vars
  BY <1>10, ExitKept DEF Live
<1>11. Fork => pc' \in ExitPcs \/ pc' = "decide"
  BY DEF Fork, ExitPcs
<1> QED
  BY <1>1, <1>2, <1>3, <1>4, <1>5, <1>6, <1>7, <1>8, <1>9, <1>10, <1>11
  DEF Next, MainStep, HandlerStep, PushBack, User, Terminated

\* Unless a handler has popped inside a push or a pop, Exit() leaves no job
\* running and never kills its own process group.
THEOREM ExitKillsAll == Spec => []ExitKillsUnlessRaced
<1> DEFINE IInv == /\ TypeInv /\ BoundsInv /\ ForegroundInv /\ ListedInv
                   /\ RoleInv /\ ExitInv
<1>1. Init => IInv
  BY TypeInit, BoundsInit, ForegroundInit, ListedInit, RoleInit, ExitInit
<1>2. IInv /\ [Next]_vars => IInv'
  BY TypeStep, BoundsStep, ForegroundStep, ListedStep, RoleStep, ExitStep
<1>3. IInv => ExitKillsUnlessRaced
  BY DEF ExitInv, ExitKillsUnlessRaced
<1> QED
  BY <1>1, <1>2, <1>3, PTL DEF Spec

=============================================================================
