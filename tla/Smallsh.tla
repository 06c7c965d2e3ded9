------------------------------ MODULE Smallsh ------------------------------
(***************************************************************************)
(* The shell of program3_smallsh (main.c, builtins.c, utility.c): its main *)
(* loop, its three signal handlers, the children it forks up to their      *)
(* execvp(), and the keyboard.  The handlers interrupt the main loop       *)
(* between any two machine steps, PushBackDynPidArr and PopBackDynPidArr   *)
(* included, so those two are split the way gcc compiles them (no          *)
(* optimisation, as the Makefile builds): load size, store size, access    *)
(* the slot.  sa_mask is full, so a handler is itself never interrupted.   *)
(*                                                                         *)
(* The kernel's share (process table, pending signals, waitpid) is         *)
(* external: it does what POSIX promises and nothing more.                 *)
(***************************************************************************)
EXTENDS DynPidArr

CONSTANTS InitCap,    \* INIT_CHILDREN_CAP
          MaxKeys     \* bound: how often Ctrl-C or Ctrl-Z is pressed

ASSUME InitCapAssumption == InitCap \in 1 .. MaxCap
ASSUME MaxKeysAssumption == MaxKeys \in Nat
ASSUME JunkAssumption == \A p \in Pids : p # -7

VARIABLES
    pc,                \* where the main loop is
    handler,           \* the signal whose handler runs, or "none"
    pending,           \* signals sent to the shell and not yet delivered
    procs,             \* the kernel's process table
    bg_children,       \* the DynPidArr
    fresh,             \* realloc()'s new block until it is assigned
    idx,               \* the register holding a loaded size or address
    spawnpid, is_bg,   \* locals of the main loop
    fg_childpid, fg_exit_status, is_fg_only_mode,
    exit_code,         \* what the shell's parent will see
    keys,              \* key presses so far
    child_end,         \* history: how the child forked last ended
    raced              \* history: a handler popped inside a push or a pop

shell  == <<fg_childpid, fg_exit_status, is_fg_only_mode>>
locals == <<fresh, idx, spawnpid, is_bg, exit_code>>
vars   == <<pc, handler, pending, procs, bg_children, shell, locals, keys,
            child_end, raced>>

JUNK_VAL == -7
Signals  == {"INT", "TSTP", "CHLD"}
Statuses == {"exit0", "exit1", "SIGINT", "SIGKILL"}
ExitPcs  == {"exit_check", "exit_load", "exit_store", "exit_addr", "exit_kill"}
PushPcs  == {"push", "realloc", "swap", "load", "storesize", "storepid"}
Pcs      == {"prompt", "fork", "decide", "setfg", "wait", "sleep", "reset",
             "dead"} \cup PushPcs \cup ExitPcs

(***************************************************************************)
(* The kernel.                                                             *)
(***************************************************************************)
\* bg and mode are the child's copies of is_bg and is_fg_only_mode, ign says
\* that it ignores SIGINT, and role (a history field) what the parent took
\* it for.
Proc == [st : {"none", "forked", "running", "zombie"},
         bg : BOOLEAN, mode : BOOLEAN, ign : BOOLEAN,
         ws : Statuses, role : {"none", "fg", "bg"}]

NoProc == [st |-> "none", bg |-> FALSE, mode |-> FALSE,
           ign |-> FALSE, ws |-> "exit0", role |-> "none"]

Live(p)   == procs[p].st \in {"forked", "running"}
Zombie(p) == procs[p].st = "zombie"

Corpse(ws, role) == [NoProc EXCEPT !.st = "zombie", !.ws = ws, !.role = role]

\* The processes of dead end with status ws; the shell, if there still is
\* one, gets a SIGCHLD (one, however many died).
Die(dead, ws) ==
    /\ procs' = [p \in Pids |->
                    IF p \in dead THEN Corpse(ws, procs[p].role) ELSE procs[p]]
    /\ child_end' = IF spawnpid \in dead THEN ws ELSE child_end

Raise(sigs) == pending' = IF pc = "dead" THEN pending ELSE pending \cup sigs

ChldIf(dead) == IF dead = {} THEN {} ELSE {"CHLD"}

Reap(p) == procs' = [procs EXCEPT ![p] = NoProc]

\* Mutant: the call made with WNOHANG, which also returns while p runs.
WaitForFgNoHang(p) ==
    \/ /\ Zombie(p)
       /\ Reap(p)
       /\ fg_exit_status' = procs[p].ws
    \/ /\ ~Zombie(p)
       /\ UNCHANGED <<procs, fg_exit_status>>

\* waitpid(p, &fg_exit_status, 0): it blocks while p runs, reaps a zombie,
\* and fails with ECHILD when somebody reaped p before.
WaitForFg(p) ==
    \/ /\ Zombie(p)
       /\ Reap(p)
       /\ fg_exit_status' = procs[p].ws
    \/ /\ procs[p].st = "none"
       /\ UNCHANGED <<procs, fg_exit_status>>
Init ==
    /\ pc = "prompt" /\ handler = "none" /\ pending = {}
    /\ procs = [p \in Pids |-> NoProc]
    /\ bg_children = InitDynPidArr(InitCap)
    /\ fresh = [i \in Slots |-> 0] /\ idx = 0
    /\ spawnpid = JUNK_VAL /\ is_bg = FALSE
    /\ fg_childpid = JUNK_VAL /\ fg_exit_status = "exit0"
    /\ is_fg_only_mode = FALSE
    /\ exit_code = "none" /\ keys = 0
    /\ child_end = "exit0" /\ raced = FALSE

(***************************************************************************)
(* The main loop.  It runs when no handler does.                           *)
(***************************************************************************)
At(label) == pc = label /\ handler = "none"
Goto(label) == pc' = label

\* Bound: a job goes to the background only while the block may still grow.
RoomToGrow ==
    bg_children.size = bg_children.capacity => 2 * bg_children.capacity =< MaxCap

\* spawnpid and is_bg are locals of the loop's body.
EndOfIteration ==
    /\ Goto("prompt")
    /\ spawnpid' = JUNK_VAL /\ is_bg' = FALSE /\ child_end' = "exit0"

RunCommand ==
    /\ At("prompt")
    /\ \E bg \in BOOLEAN : (bg => RoomToGrow) /\ is_bg' = bg
    /\ Goto("fork")
    /\ UNCHANGED <<handler, pending, procs, bg_children, shell, fresh, idx,
                   spawnpid, exit_code, keys, child_end, raced>>

ExitCommand ==
    /\ At("prompt")
    /\ Goto("exit_check")
    /\ exit_code' = "0"
    /\ UNCHANGED <<handler, pending, procs, bg_children, shell, fresh, idx,
                   spawnpid, is_bg, keys, child_end, raced>>

\* fork() fails when the process table is full, and the shell then exits.
Fork ==
    /\ At("fork")
    /\ \/ \E p \in Pids :
            /\ procs[p].st = "none"
            /\ procs' = [procs EXCEPT ![p] =
                           [NoProc EXCEPT !.st = "forked", !.bg = is_bg,
                                          !.mode = is_fg_only_mode]]
            /\ spawnpid' = p
            /\ Goto("decide")
            /\ UNCHANGED exit_code
       \/ /\ \A p \in Pids : procs[p].st # "none"
          /\ exit_code' = "1"
          /\ Goto("exit_check")
          /\ UNCHANGED <<procs, spawnpid>>
    /\ UNCHANGED <<handler, pending, bg_children, shell, fresh, idx, is_bg,
                   keys, child_end, raced>>

\* The parent's own reading of is_fg_only_mode.
Decide ==
    /\ At("decide")
    /\ LET role == IF is_bg /\ ~is_fg_only_mode THEN "bg" ELSE "fg" IN
       /\ Goto(IF role = "bg" THEN "push" ELSE "setfg")
       /\ procs' = IF procs[spawnpid].st = "none" THEN procs
                   ELSE [procs EXCEPT ![spawnpid].role = role]
    /\ UNCHANGED <<handler, pending, bg_children, shell, locals, keys,
                   child_end, raced>>

SetForeground ==
    /\ At("setfg")
    /\ fg_childpid' = spawnpid
    /\ Goto("wait")
    /\ UNCHANGED <<handler, pending, procs, bg_children, fg_exit_status,
                   is_fg_only_mode, locals, keys, child_end, raced>>

\* waitpid() enters the kernel and goes to sleep while the child lives.
Sleep ==
    /\ At("wait")
    /\ Live(spawnpid)
    /\ Goto("sleep")
    /\ UNCHANGED <<handler, pending, procs, bg_children, shell, locals, keys,
                   child_end, raced>>

\* waitpid() returns.
Waited ==
    /\ At("wait") \/ At("sleep")
    /\ WaitForFg(spawnpid)
    /\ Goto("reset")
    /\ UNCHANGED <<handler, pending, bg_children, fg_childpid,
                   is_fg_only_mode, locals, keys, child_end, raced>>

ResetForeground ==
    /\ At("reset")
    /\ fg_childpid' = JUNK_VAL
    /\ EndOfIteration
    /\ UNCHANGED <<handler, pending, procs, bg_children, fg_exit_status,
                   is_fg_only_mode, fresh, idx, exit_code, keys, raced>>

(***************************************************************************)
(* PushBackDynPidArr(&bg_children, spawnpid), step by step.                *)
(***************************************************************************)
PushRest == <<handler, pending, procs, shell, spawnpid, is_bg, exit_code,
              keys, child_end, raced>>

\* Mutant: the array counts as full one element too late.
PushCheckFullLate ==
    /\ At("push")
    /\ Goto(IF bg_children.size > bg_children.capacity THEN "realloc" ELSE "load")
    /\ UNCHANGED <<bg_children, fresh, idx, PushRest>>

PushCheckFull ==
    /\ At("push")
    /\ Goto(IF bg_children.size = bg_children.capacity THEN "realloc" ELSE "load")
    /\ UNCHANGED <<bg_children, fresh, idx, PushRest>>

\* realloc() extends the block where it is, or copies it elsewhere and
\* frees it; the struct still points to the old block until "swap".
PushRealloc ==
    /\ At("realloc")
    /\ \/ /\ bg_children' = [bg_children EXCEPT !.capacity = 2 * @]
          /\ Goto("load")
          /\ UNCHANGED fresh
       \/ /\ fresh' = bg_children.pids
          /\ Goto("swap")
          /\ UNCHANGED bg_children
    /\ UNCHANGED <<idx, PushRest>>

PushSwap ==
    /\ At("swap")
    /\ bg_children' = [bg_children EXCEPT !.pids = fresh, !.capacity = 2 * @]
    /\ fresh' = [i \in Slots |-> 0]
    /\ Goto("load")
    /\ UNCHANGED <<idx, PushRest>>

PushLoadSize ==
    /\ At("load")
    /\ idx' = bg_children.size
    /\ Goto("storesize")
    /\ UNCHANGED <<bg_children, fresh, PushRest>>

PushStoreSize ==
    /\ At("storesize")
    /\ bg_children' = [bg_children EXCEPT !.size = idx + 1]
    /\ Goto("storepid")
    /\ UNCHANGED <<idx, fresh, PushRest>>

\* Mutant: the wrong pid is pushed.
PushStoreForeground ==
    /\ At("storepid")
    /\ bg_children' = [bg_children EXCEPT !.pids = [@ EXCEPT ![idx] = fg_childpid]]
    /\ idx' = 0
    /\ EndOfIteration
    /\ UNCHANGED <<fresh, handler, pending, procs, shell, exit_code, keys, raced>>

PushStorePid ==
    /\ At("storepid")
    /\ bg_children' = [bg_children EXCEPT !.pids = [@ EXCEPT ![idx] = spawnpid]]
    /\ idx' = 0
    /\ EndOfIteration
    /\ UNCHANGED <<fresh, handler, pending, procs, shell, exit_code, keys, raced>>

PushBack == PushCheckFull \/ PushRealloc \/ PushSwap \/ PushLoadSize
              \/ PushStoreSize \/ PushStorePid
(***************************************************************************)
(* Exit(): pop and kill until the array is empty, then exit().             *)
(***************************************************************************)
ExitRest == <<handler, shell, fresh, spawnpid, is_bg, keys, raced>>

\* Mutant: the loop stops one job early.
ExitCheckLast ==
    /\ At("exit_check")
    /\ IF bg_children.size \in {0, 1}
       THEN /\ bg_children' = [bg_children EXCEPT !.capacity = 0]
            /\ pending' = {}
            /\ Goto("dead")
       ELSE /\ Goto("exit_load")
            /\ UNCHANGED <<bg_children, pending>>
    /\ UNCHANGED <<procs, idx, exit_code, child_end, ExitRest>>

\* PopBackDynPidArr's test; an empty array is deleted and the shell exits.
ExitCheckEmpty ==
    /\ At("exit_check")
    /\ IF bg_children.size = 0
       THEN /\ bg_children' = [bg_children EXCEPT !.capacity = 0]
            /\ pending' = {}
            /\ Goto("dead")
       ELSE /\ Goto("exit_load")
            /\ UNCHANGED <<bg_children, pending>>
    /\ UNCHANGED <<procs, idx, exit_code, child_end, ExitRest>>

ExitLoadSize ==
    /\ At("exit_load")
    /\ idx' = bg_children.size - 1
    /\ Goto("exit_store")
    /\ UNCHANGED <<pending, procs, bg_children, exit_code, child_end, ExitRest>>

ExitStoreSize ==
    /\ At("exit_store")
    /\ bg_children' = [bg_children EXCEPT !.size = idx]
    /\ Goto("exit_addr")
    /\ UNCHANGED <<pending, procs, idx, exit_code, child_end, ExitRest>>

\* The address of the popped slot is computed from the size loaded again.
ExitLoadAddress ==
    /\ At("exit_addr")
    /\ idx' = bg_children.size
    /\ Goto("exit_kill")
    /\ UNCHANGED <<pending, procs, bg_children, exit_code, child_end, ExitRest>>

\* kill(*childpid, SIGKILL).  Pid 0 is the whole process group, the shell
\* included.
ExitKill ==
    /\ At("exit_kill")
    /\ LET target == SlotAt(bg_children, idx)
           dead   == {p \in Pids : Live(p) /\ target \in {0, p}}
       IN /\ Die(dead, "SIGKILL")
          /\ IF target = 0
             THEN /\ exit_code' = "SIGKILL"
                  /\ pending' = {}
                  /\ Goto("dead")
             ELSE /\ Raise(ChldIf(dead))
                  /\ Goto("exit_check")
                  /\ UNCHANGED exit_code
    /\ idx' = 0
    /\ UNCHANGED <<bg_children, ExitRest>>

ExitLoop == ExitCheckEmpty \/ ExitLoadSize \/ ExitStoreSize
              \/ ExitLoadAddress \/ ExitKill

(***************************************************************************)
(* Signal delivery and the handlers.                                       *)
(***************************************************************************)
\* A pending signal interrupts the main loop anywhere.  Inside waitpid() the
\* kernel first looks for the child it waits for, and restarts the call
\* after the handler.
Deliver ==
    /\ handler = "none" /\ pc # "dead"
    /\ pc = "sleep" => Live(spawnpid)
    /\ \E sig \in pending : handler' = sig /\ pending' = pending \ {sig}
    /\ pc' = IF pc = "sleep" THEN "wait" ELSE pc
    /\ UNCHANGED <<procs, bg_children, shell, locals, keys, child_end, raced>>

\* Mutant: "while" for "if": fg_childpid does not change in the loop.
CatchSIGINTWhile ==
    /\ handler = "INT"
    /\ IF fg_childpid # JUNK_VAL THEN WaitForFg(fg_childpid) /\ UNCHANGED handler
       ELSE handler' = "none" /\ UNCHANGED <<procs, fg_exit_status>>
    /\ UNCHANGED <<pc, pending, bg_children, fg_childpid, is_fg_only_mode,
                   locals, keys, child_end, raced>>

CatchSIGINT ==
    /\ handler = "INT"
    /\ handler' = "none"
    /\ IF fg_childpid # JUNK_VAL THEN WaitForFg(fg_childpid)
       ELSE UNCHANGED <<procs, fg_exit_status>>
    /\ UNCHANGED <<pc, pending, bg_children, fg_childpid, is_fg_only_mode,
                   locals, keys, child_end, raced>>

\* Mutant: the handler does not wait for the foreground child.
CatchSIGTSTPAtOnce ==
    /\ handler = "TSTP"
    /\ handler' = "none"
    /\ is_fg_only_mode' = ~is_fg_only_mode
    /\ UNCHANGED <<pc, pending, procs, bg_children, fg_childpid,
                   fg_exit_status, locals, keys, child_end, raced>>

CatchSIGTSTP ==
    /\ handler = "TSTP"
    /\ handler' = "none"
    /\ IF fg_childpid # JUNK_VAL THEN WaitForFg(fg_childpid)
       ELSE UNCHANGED <<procs, fg_exit_status>>
    /\ is_fg_only_mode' = ~is_fg_only_mode
    /\ UNCHANGED <<pc, pending, bg_children, fg_childpid, locals, keys,
                   child_end, raced>>

\* The five windows in which a pop by the handler goes wrong.  At the other
\* labels of a push or a pop it is harmless.
InsideUpdate == pc \in {"swap", "storesize", "storepid", "exit_load", "exit_addr"}

\* One waitpid(-1, &exit_status, WNOHANG): any one zombie, or none.
CatchSIGCHLD ==
    /\ handler = "CHLD"
    /\ handler' = "none"
    /\ \/ \E p \in Pids :
            /\ Zombie(p)
            /\ Reap(p)
            /\ \/ \E i \in IndexOf(bg_children, p) :
                    /\ bg_children' = PopAt(bg_children, i)
                    /\ raced' = (raced \/ InsideUpdate)
               \/ /\ ~Listed(bg_children, p)
                  /\ UNCHANGED <<bg_children, raced>>
       \/ /\ \A p \in Pids : ~Zombie(p)
          /\ UNCHANGED <<procs, bg_children, raced>>
    /\ UNCHANGED <<pc, pending, shell, locals, keys, child_end>>

(***************************************************************************)
(* The children.                                                           *)
(***************************************************************************)
ChildRest == <<pc, handler, bg_children, shell, locals, keys, raced>>

\* is_bg && !is_fg_only_mode, as the child sees them now.
TakesBackground(p) == procs[p].bg /\ ~procs[p].mode

\* The redirections, the SIGINT and SIGTSTP dispositions and a successful
\* execvp().  What stdin and stdout become is not modelled.
ChildExec(p) ==
    /\ procs[p].st = "forked"
    /\ procs' = [procs EXCEPT ![p] =
                   [@ EXCEPT !.st = "running", !.ign = TakesBackground(p),
                             !.bg = FALSE, !.mode = FALSE]]
    /\ UNCHANGED <<pending, child_end, ChildRest>>

\* open() or execvp() fails and the child exits with 1, or the program ends.
ChildEnds(p) ==
    /\ Live(p)
    /\ \/ Die({p}, "exit1")
       \/ procs[p].st = "running" /\ Die({p}, "exit0")
    /\ Raise({"CHLD"})
    /\ UNCHANGED ChildRest

(***************************************************************************)
(* The keyboard: the terminal signals every process of the group.  Before  *)
(* its execvp() a child still has the shell's handlers (its fg_childpid is *)
(* JUNK_VAL): Ctrl-C does nothing to it, Ctrl-Z toggles its copy of the    *)
(* mode.  After it, SIGTSTP is ignored and SIGINT kills unless ignored.    *)
(***************************************************************************)
Press ==
    /\ pc # "dead"
    /\ keys < MaxKeys
    /\ keys' = keys + 1

CtrlC ==
    /\ Press
    /\ LET dead == {p \in Pids : procs[p].st = "running" /\ ~procs[p].ign}
       IN Die(dead, "SIGINT") /\ Raise({"INT"} \cup ChldIf(dead))
    /\ UNCHANGED <<pc, handler, bg_children, shell, locals, raced>>

CtrlZ ==
    /\ Press
    /\ procs' = [p \in Pids |->
                    IF procs[p].st = "forked"
                    THEN [procs[p] EXCEPT !.mode = ~@] ELSE procs[p]]
    /\ Raise({"TSTP"})
    /\ UNCHANGED <<pc, handler, bg_children, shell, locals, child_end, raced>>

(***************************************************************************)
(* The specification.                                                      *)
(***************************************************************************)
\* The shell, once fed a command: its main loop and its handlers.
MainStep == Fork \/ Decide \/ SetForeground \/ Sleep \/ Waited
              \/ ResetForeground \/ PushBack \/ ExitLoop
HandlerStep == CatchSIGINT \/ CatchSIGTSTP \/ CatchSIGCHLD
User == RunCommand \/ ExitCommand \/ CtrlC \/ CtrlZ
Child(p) == ChildExec(p) \/ ChildEnds(p)

\* The shell has ended and so have its children.
Terminated ==
    /\ pc = "dead"
    /\ \A p \in Pids : ~Live(p)
    /\ UNCHANGED vars

Next == \/ MainStep \/ Deliver \/ HandlerStep \/ User
        \/ \E p \in Pids : Child(p)
        \/ Terminated

Spec == Init /\ [][Next]_vars

\* The scheduler runs the shell and every child, the kernel delivers what is
\* pending, and every command ends some day.  Nothing is asked of the user.
Fairness == /\ WF_vars(MainStep) /\ WF_vars(HandlerStep) /\ WF_vars(Deliver)
            /\ \A p \in Pids : WF_vars(ChildExec(p))
            /\ \A p \in Pids : WF_vars(ChildEnds(p))

FairSpec == Spec /\ Fairness
(***************************************************************************)
(* Properties.                                                             *)
(***************************************************************************)
ControlOK ==
    /\ pc \in Pcs
    /\ handler \in Signals \cup {"none"}
    /\ pending \in SUBSET Signals
    /\ spawnpid \in Pids \cup {JUNK_VAL}
    /\ fg_childpid \in Pids \cup {JUNK_VAL}
    /\ fg_exit_status \in Statuses
    /\ exit_code \in {"none", "0", "1", "SIGKILL"}
    /\ child_end \in Statuses

FlagsOK ==
    is_bg \in BOOLEAN /\ is_fg_only_mode \in BOOLEAN /\ raced \in BOOLEAN

ArrayOK ==
    bg_children \in DynPidArrType /\ fresh \in Heap /\ idx \in Int

\* Every variable has its type.
TypeOK ==
    /\ ControlOK /\ FlagsOK /\ procs \in [Pids -> Proc] /\ ArrayOK
    /\ keys \in 0 .. MaxKeys

\* Whatever the handlers do in between, PushBackDynPidArr writes inside the
\* block that realloc() returned, and until Exit() runs the size of
\* bg_children stays between 0 and the capacity.
ArrayInBounds ==
    /\ pc = "storepid" => idx \in 0 .. bg_children.capacity - 1
    /\ pc \notin ExitPcs \cup {"dead"} => bg_children.size \in 0 .. bg_children.capacity
    /\ bg_children.capacity =< MaxCap

\* The prompt only comes back when the child waited for is gone: with no
\* handler in between, nobody's foreground child lives or is a zombie.
PromptMeansReaped ==
    pc = "prompt" => \A p \in Pids : procs[p].role # "fg"

\* As long as no handler has popped inside a push or a pop, every live job
\* that the shell took to the background is in bg_children, so Exit() can
\* kill it.  (The job whose push is under way is the one exception.)
LiveJobsListed ==
    ~raced /\ pc \notin ExitPcs \cup {"dead"} =>
        \A p \in Pids : Live(p) /\ procs[p].role = "bg" =>
            Listed(bg_children, p) \/ (p = spawnpid /\ pc \in PushPcs)

\* Under the same condition Exit() leaves no job running and ends the shell
\* with the code it was given.
ExitKillsUnlessRaced ==
    ~raced /\ pc = "dead" =>
        /\ exit_code \in {"0", "1"}
        /\ \A p \in Pids : ~Live(p)

\* CatchSIGTSTP toggles the mode only after the foreground child it knows of
\* has been reaped, by itself or by somebody else.
TogglesAfterKnownChild ==
    [][is_fg_only_mode' # is_fg_only_mode /\ fg_childpid # JUNK_VAL
         => procs'[fg_childpid].st = "none"]_vars

\* The shell always comes back to its prompt, or ends, and no handler hangs.
ReturnsToPrompt == []<>(pc \in {"prompt", "dead"} /\ handler = "none")

(***************************************************************************)
(* Statements of the source that the code does not keep.                   *)
(***************************************************************************)
\* main.c:38: fg_exit_status is the exit status of the latest foreground
\* child (read when its waitpid() has returned).
StatusIsOfLatestChild == pc = "reset" => fg_exit_status = child_end

\* main.c:150: the shell exits with code 0 (or 1 after a failed fork()).
ExitCodeAsGiven == pc = "dead" => exit_code \in {"0", "1"}
=============================================================================
