---------------------------- MODULE ShellsProofs ----------------------------
(***************************************************************************)
(* What is proved about the four shells for any number of processes, jobs, *)
(* lines and keys: what a prompt, Ctrl-C and exit mean, and who reads      *)
(* lines.  The programs differ in what their handlers and children do;     *)
(* what each of their steps comes to is stated once (WorldStep), and the   *)
(* rest of the proof is about that.                                        *)
(***************************************************************************)
EXTENDS MCShells, TLAPS

Places == {"none", "stopped", "zombie", "over", "undefined"} \cup CommandPcs
          \cup ShellPcs
Kin    == Procs \cup {NoProc}

\* The types that matter here.
Typed ==
    /\ pc \in [Procs -> Places] /\ parent \in [Procs -> Kin]
    /\ bg \in [Procs -> BOOLEAN] /\ waits \in [Procs -> Kin]
    /\ int \in [Procs -> {"default", "ignore", "handler"}]
    /\ result \in [Procs -> Endings]

ProgramInv == program \in {"final", "draft", "dougherty", "rico"}

\* The first shell is not a child of anybody, and nobody waits for itself.
PlaceInv ==
    /\ pc[Shell] \in ShellPcs \cup {"over", "undefined"}
    /\ \A s \in Procs : waits[s] # s
    /\ \A s \in Procs : pc[s] \in {"wait", "poll"} => waits[s] \in Procs

\* A child that has just been forked has no children.
ChildlessInv == \A p, q \in Procs : pc[p] = "child" => parent[q] # p

\* A living shell has no foreground child but the one it waits for.
ForegroundInv ==
    program # "rico" => \A s \in Procs : \A p \in Children(s) :
        Alive(s) /\ ~bg[p] => pc[s] = "wait" /\ waits[s] = p

\* Whoever may fork background jobs does not end on SIGINT, nor do those.
InterruptInv ==
    program # "rico" => \A p \in Procs :
        /\ Alive(p) \/ pc[p] = "child" =>
              /\ int[p] # "default"
              /\ program = "dougherty" => int[p] = "ignore"
        /\ pc[p] = "command" /\ bg[p] => int[p] # "default"
        /\ Spared(p)

Listed(p) == \E i \in DOMAIN jobs[Shell] : jobs[Shell][i] = p

\* A running job is in Dougherty's array, or about to be put there.
JobsInv ==
    program = "dougherty" =>
        /\ jobs \in [Procs -> Seq(Kin)]
        /\ Alive(Shell) => \A p \in Children(Shell) :
              pc[p] \in CommandPcs =>
                  Listed(p) \/ (pc[Shell] \in {"wait", "poll"} /\ waits[Shell] = p)
        /\ JobsEndWith(Shell)

IInv ==
    /\ Typed /\ ProgramInv /\ PlaceInv /\ ChildlessInv
    /\ ForegroundInv /\ InterruptInv /\ JobsInv /\ OneReader

-----------------------------------------------------------------------------
(***************************************************************************)
(* What the steps of all four programs come to.                            *)
(***************************************************************************)

kept == <<parent, bg, result, int, waits>>

\* The shell s goes on after a line or with its search for zombies.
GoesOn(s) ==
    /\ pc[s] \in {"prompt", "reap"}
    /\ \E place \in {"prompt", "reap", "undefined"} : pc' = [pc EXCEPT ![s] = place]
    /\ UNCHANGED <<kept, jobs>>

\* It forks p, and waits for a foreground child.
Starts(s, p) ==
    /\ pc[s] = "prompt"
    /\ \E inBg \in BOOLEAN, place \in {"wait", "poll", "reap"} :
          /\ Forks(s, p, inBg, place)
          /\ ~inBg => place = "wait"
          /\ inBg /\ program = "dougherty" => place = "poll"
    /\ UNCHANGED result

\* It is told of the end of p, and goes on if it has waited for that.
Collects(s, p) ==
    /\ Alive(s) /\ pc[p] = "zombie"
    /\ \E place \in ShellPcs :
          /\ Reaps(s, p, place)
          /\ place = pc[s] \/ (pc[s] = "wait" /\ p = waits[s])
    /\ program = "dougherty" => UNCHANGED jobs
    /\ UNCHANGED kept

\* The child it waits for is no longer there.
GivesUp(s) ==
    /\ pc[s] = "wait" /\ program # "dougherty"
    /\ parent[waits[s]] # s \/ pc[waits[s]] = "none"
    /\ pc' = [pc EXCEPT ![s] = "prompt"]
    /\ UNCHANGED <<kept, jobs>>

\* It puts its background child into the array, and may be told of its end.
Records(s) ==
    /\ pc[s] = "poll"
    /\ \E place \in {"prompt", "reap", "undefined"} :
          /\ \/ pc' = [pc EXCEPT ![s] = place]
             \/ pc[waits[s]] = "zombie" /\ pc' = [pc EXCEPT ![waits[s]] = "none", ![s] = place]
          /\ program = "dougherty" =>
                \/ place = "undefined" /\ UNCHANGED jobs
                \/ jobs' = [jobs EXCEPT ![s] = Append(@, waits[s])]
    /\ UNCHANGED kept

\* The child p becomes its command, or a shell.
Turns(p) ==
    /\ pc[p] = "child"
    /\ \E action \in {"default", "ignore", "handler"} :
          /\ int' = [int EXCEPT ![p] = action]
          /\ \/ pc' = [pc EXCEPT ![p] = "command"]
             \/ pc' = [pc EXCEPT ![p] = "prompt"] /\ program = "final" /\ action # "default"
          /\ bg[p] /\ program # "rico" => action # "default"
    /\ UNCHANGED <<parent, bg, result, waits, jobs>>

\* Some processes end or stop; Rico's shell may be interrupted.
Ended(p)  == pc'[p] = IF p = Shell THEN "over" ELSE "zombie"
Leaves(p) ==
    \/ pc'[p] = pc[p] /\ result'[p] = result[p]
    \/ program = "rico" /\ Alive(p) /\ pc'[p] \in {"prompt", "reap", "undefined"}
    \/ pc[p] = "command" /\ pc'[p] = "stopped"
    \/ /\ Alive(p) \/ p \in Running
       /\ Ended(p)
       /\ bg[p] /\ program # "rico" => result'[p] # "SIGINT"

SomeLeave ==
    /\ pc' \in [Procs -> Places] /\ result' \in [Procs -> Endings]
    /\ \A p \in Procs : Leaves(p)
    /\ program = "dougherty" /\ Alive(Shell) /\ ~Alive(Shell)' =>
          /\ pc[Shell] = "prompt"
          /\ \A p \in Running : Listed(p) => pc'[p] \notin CommandPcs
    /\ UNCHANGED <<parent, bg, int, waits, jobs>>

\* A zombie nobody waits for disappears.
Vanishes(p) ==
    /\ pc[p] = "zombie" /\ pc' = [pc EXCEPT ![p] = "none"]
    /\ UNCHANGED <<kept, jobs>>

WorldStep ==
    /\ program' = program
    /\ \/ \E s \in Procs : GoesOn(s) \/ GivesUp(s) \/ Records(s)
       \/ \E s, p \in Procs : Starts(s, p) \/ Collects(s, p)
       \/ \E p \in Procs : Turns(p) \/ Vanishes(p)
       \/ SomeLeave
       \/ UNCHANGED <<pc, kept, jobs>>

-----------------------------------------------------------------------------
(***************************************************************************)
(* Every such step keeps the invariant.                                    *)
(***************************************************************************)

\* A shell that is not waiting goes on: nothing is forked or reaped.
LEMMA KeepGoesOn ==
    ASSUME IInv, program' = program, NEW s \in Procs, GoesOn(s) PROVE IInv'
<1> USE ProcAssumption
    DEF IInv, GoesOn, kept, ShellPcs, CommandPcs, Places, Kin, Alive, Children
<1>1. Typed' /\ ProgramInv' /\ PlaceInv' /\ ChildlessInv'
  BY DEF Typed, ProgramInv, PlaceInv, ChildlessInv
<1>2. ForegroundInv'
  BY DEF ForegroundInv, Typed
<1>3. InterruptInv'
  BY DEF InterruptInv, Typed, Spared
<1>4. JobsInv'
  BY DEF JobsInv, Typed, PlaceInv, Listed, JobsEndWith
<1>5. OneReader'
  BY DEF OneReader, Typed
<1> QED
  BY <1>1, <1>2, <1>3, <1>4, <1>5

\* waitpid() fails only for a child that is gone, so none is left to wait for.
LEMMA KeepGivesUp ==
    ASSUME IInv, program' = program, NEW s \in Procs, GivesUp(s) PROVE IInv'
<1> USE ProcAssumption
    DEF IInv, GivesUp, kept, ShellPcs, CommandPcs, Places, Kin, Alive, Children
<1>1. Typed' /\ ProgramInv' /\ PlaceInv' /\ ChildlessInv'
  BY DEF Typed, ProgramInv, PlaceInv, ChildlessInv
<1>2. ForegroundInv'
  BY DEF ForegroundInv, Typed
<1>3. InterruptInv'
  BY DEF InterruptInv, Typed, Spared
<1>4. JobsInv'
  BY DEF JobsInv
<1>5. OneReader'
  BY DEF OneReader, Typed
<1> QED
  BY <1>1, <1>2, <1>3, <1>4, <1>5

\* The job started last is put into the array, which Dougherty's exit relies on.
LEMMA KeepRecords ==
    ASSUME IInv, program' = program, NEW s \in Procs, Records(s) PROVE IInv'
<1> USE ProcAssumption
    DEF IInv, Records, kept, ShellPcs, CommandPcs, Places, Kin, Alive, Children
<1>1. Typed' /\ ProgramInv' /\ PlaceInv' /\ ChildlessInv'
  BY DEF Typed, ProgramInv, PlaceInv, ChildlessInv
<1>2. ForegroundInv'
  BY DEF ForegroundInv, Typed
<1>3. InterruptInv'
  BY DEF InterruptInv, Typed, Spared
<1>4. JobsInv'
  <2> SUFFICES ASSUME program = "dougherty" PROVE JobsInv'
    BY DEF JobsInv
  <2>1. s = Shell
    BY DEF OneReader
  <2>2. CASE UNCHANGED jobs /\ ~Alive(Shell)'
    BY <2>1, <2>2 DEF JobsInv, Typed, PlaceInv, JobsEndWith
  <2>3. CASE jobs' = [jobs EXCEPT ![s] = Append(@, waits[s])]
    <3>1. jobs[s] \in Seq(Kin) /\ waits[s] \in Kin
      BY DEF JobsInv, Typed
    <3>2. Append(jobs[s], waits[s]) \in Seq(Kin)
      BY <3>1
    <3>3. \A p \in Procs : Listed(p) => Listed(p)'
      BY <2>1, <2>3, <3>1 DEF Listed, JobsInv
    <3>4. waits[s] \in Procs => Listed(waits[s])'
      BY <2>1, <2>3, <3>1 DEF Listed, JobsInv
    <3>5. jobs' \in [Procs -> Seq(Kin)]
      BY <2>3, <3>2 DEF JobsInv
    <3>6. \A p \in Children(Shell) : pc[p] \in CommandPcs => Listed(p)'
      BY <2>1, <3>3, <3>4 DEF JobsInv
    <3>7. \A p \in Children(Shell)' : pc'[p] \in CommandPcs => Listed(p)'
      BY <2>1, <3>6 DEF Typed
    <3>8. JobsEndWith(Shell)'
      BY <2>1 DEF Typed, JobsEndWith
    <3> QED
      BY <3>5, <3>7, <3>8 DEF JobsInv
  <2> QED
    BY <2>1, <2>2, <2>3 DEF Typed
<1>5. OneReader'
  BY DEF OneReader, Typed
<1> QED
  BY <1>1, <1>2, <1>3, <1>4, <1>5

\* The new child is the only one that may be in the foreground.
LEMMA KeepStarts ==
    ASSUME IInv, program' = program, NEW s \in Procs, NEW p \in Procs, Starts(s, p)
    PROVE  IInv'
<1> USE ProcAssumption
    DEF IInv, Starts, Forks, ShellPcs, CommandPcs, Places, Kin, Alive, Children
<1>1. Typed' /\ ProgramInv' /\ PlaceInv' /\ ChildlessInv'
  BY DEF Typed, ProgramInv, PlaceInv, ChildlessInv
<1>2. ForegroundInv'
  BY DEF ForegroundInv, Typed
<1>3. InterruptInv'
  BY DEF InterruptInv, Typed, Spared
<1>4. JobsInv'
  <2> SUFFICES ASSUME program = "dougherty" PROVE JobsInv'
    BY DEF JobsInv
  <2>1. s = Shell /\ p # Shell
    BY DEF OneReader, PlaceInv
  <2>2. jobs' \in [Procs -> Seq(Kin)] /\ jobs'[Shell] = jobs[Shell]
    BY <2>1 DEF JobsInv
  <2>3. \A q \in Procs : Listed(q)' <=> Listed(q)
    BY <2>2 DEF Listed
  <2>4. \A q \in Children(Shell) \ {p} : pc[q] \in CommandPcs => Listed(q)
    BY <2>1 DEF JobsInv
  <2>5. waits'[Shell] = p /\ pc'[Shell] \in {"wait", "poll"}
    BY <2>1 DEF Typed
  <2>6. \A q \in Children(Shell)' \ {p} :
            pc'[q] \in CommandPcs => q \in Children(Shell) /\ pc'[q] = pc[q]
    BY <2>1, <2>5 DEF Typed, PlaceInv
  <2> QED
    BY <2>2, <2>3, <2>4, <2>5, <2>6 DEF JobsInv, JobsEndWith
<1>5. OneReader'
  BY DEF OneReader, Typed
<1> QED
  BY <1>1, <1>2, <1>3, <1>4, <1>5

\* Who reaps a zombie goes on only if it was the one waited for.
LEMMA KeepCollects ==
    ASSUME IInv, program' = program, NEW s \in Procs, NEW p \in Procs, Collects(s, p)
    PROVE  IInv'
<1> USE ProcAssumption
    DEF IInv, Collects, Reaps, kept, ShellPcs, CommandPcs, Places, Kin, Alive, Children
<1>1. Typed' /\ ProgramInv' /\ PlaceInv' /\ ChildlessInv'
  BY DEF Typed, ProgramInv, PlaceInv, ChildlessInv
<1>2. ForegroundInv'
  BY DEF ForegroundInv, Typed
<1>3. InterruptInv'
  BY DEF InterruptInv, Typed, Spared
<1>4. JobsInv'
  <2> SUFFICES ASSUME program = "dougherty" PROVE JobsInv'
    BY DEF JobsInv
  <2>1. s = Shell /\ p # Shell
    BY DEF OneReader, PlaceInv
  <2>2. UNCHANGED <<jobs, parent, waits>> /\ \A q \in Procs : Listed(q)' <=> Listed(q)
    BY DEF Listed
  <2>3. \A q \in Children(Shell)' : pc'[q] \in CommandPcs =>
            /\ q \in Children(Shell) /\ pc[q] \in CommandPcs /\ q # p
            /\ pc[Shell] = "wait" /\ waits[Shell] = q => pc'[Shell] = "wait"
    BY <2>1, <2>2 DEF Typed
  <2>4. pc[Shell] = "poll" => pc'[Shell] = "poll"
    BY <2>1 DEF Typed
  <2> QED
    BY <2>1, <2>2, <2>3, <2>4 DEF JobsInv, JobsEndWith, Typed
<1>5. OneReader'
  BY DEF OneReader, Typed
<1> QED
  BY <1>1, <1>2, <1>3, <1>4, <1>5

\* What a background child does on SIGINT survives exec().
LEMMA KeepTurns ==
    ASSUME IInv, program' = program, NEW p \in Procs, Turns(p) PROVE IInv'
<1> USE ProcAssumption
    DEF IInv, Turns, ShellPcs, CommandPcs, Places, Kin, Alive, Children
<1>1. Typed' /\ ProgramInv' /\ PlaceInv' /\ ChildlessInv'
  BY DEF Typed, ProgramInv, PlaceInv, ChildlessInv
<1>2. ForegroundInv'
  BY DEF ForegroundInv, Typed, ChildlessInv
<1>3. InterruptInv'
  BY DEF InterruptInv, Typed, Spared
<1>4. JobsInv'
  BY DEF JobsInv, Typed, PlaceInv, Listed, JobsEndWith
<1>5. OneReader'
  BY DEF OneReader, Typed
<1> QED
  BY <1>1, <1>2, <1>3, <1>4, <1>5

\* init reaps zombies only.
LEMMA KeepVanishes ==
    ASSUME IInv, program' = program, NEW p \in Procs, Vanishes(p) PROVE IInv'
<1> USE ProcAssumption
    DEF IInv, Vanishes, kept, ShellPcs, CommandPcs, Places, Kin, Alive, Children
<1>1. Typed' /\ ProgramInv' /\ PlaceInv' /\ ChildlessInv'
  BY DEF Typed, ProgramInv, PlaceInv, ChildlessInv
<1>2. ForegroundInv'
  BY DEF ForegroundInv, Typed
<1>3. InterruptInv'
  BY DEF InterruptInv, Typed, Spared
<1>4. JobsInv'
  BY DEF JobsInv, Typed, PlaceInv, Listed, JobsEndWith
<1>5. OneReader'
  BY DEF OneReader, Typed
<1> QED
  BY <1>1, <1>2, <1>3, <1>4, <1>5

\* Ends and stops add no child, and exit ends all of Dougherty's jobs.
LEMMA KeepSomeLeave ==
    ASSUME IInv, program' = program, SomeLeave PROVE IInv'
<1> USE ProcAssumption
    DEF IInv, SomeLeave, Leaves, Ended, Running, ShellPcs, CommandPcs, Places, Kin, Alive,
        Children
<1>1. Typed' /\ ProgramInv' /\ PlaceInv' /\ ChildlessInv'
  BY DEF Typed, ProgramInv, PlaceInv, ChildlessInv
<1>2. ForegroundInv'
  BY DEF ForegroundInv, Typed
<1>3. InterruptInv'
  BY DEF InterruptInv, Typed, Spared
<1>4. JobsInv'
  BY DEF JobsInv, Typed, PlaceInv, Listed, JobsEndWith, ForegroundInv
<1>5. OneReader'
  BY DEF OneReader, Typed
<1> QED
  BY <1>1, <1>2, <1>3, <1>4, <1>5

-----------------------------------------------------------------------------
(***************************************************************************)
(* The steps of the programs.                                              *)
(***************************************************************************)

\* The steps of smallsh.final.c.
LEMMA FinalSteps ==
    ASSUME IInv, program = "final", program' = program, Final!SuhNext
    PROVE  WorldStep
<1> USE ProcAssumption
    DEF IInv, Typed, PlaceInv, kept, Final!family, Final!acts, Final!shell, Final!user,
        Final!Goto, ShellPcs, CommandPcs, Alive, Final!ShellPcs, Final!CommandPcs, Final!Alive
<1>1. ASSUME NEW s \in Procs, Final!NoCommand(s) PROVE GoesOn(s)
  BY <1>1 DEF Final!NoCommand, Final!TypesLine, GoesOn
<1>2. ASSUME NEW s \in Procs, Final!Exit(s) PROVE SomeLeave
  BY <1>2
  DEF Final!Exit, Final!TypesLine, Final!ShellEnds, Final!End, Final!Kill_Process,
      Final!Running, SomeLeave, Leaves, Ended, Running, Places, Endings
<1>3. ASSUME NEW s \in Procs, Final!ForkFails(s) PROVE SomeLeave
  BY <1>3
  DEF Final!ForkFails, Final!TypesLine, Final!ShellEnds, Final!End, SomeLeave, Leaves,
      Ended, Places, Endings
<1>4. ASSUME NEW s \in Procs, NEW p \in Procs, NEW ampersand \in BOOLEAN,
             Final!Command(s, p, ampersand)
      PROVE  Starts(s, p)
  BY <1>4 DEF Final!Command, Final!TypesLine, Final!Forks, Starts, Forks
<1>5. ASSUME NEW s \in Procs, Final!WaitForeground(s)
      PROVE  GivesUp(s) \/ \E p \in Procs : Collects(s, p)
  BY <1>5
  DEF Final!WaitForeground, Final!NoSuchChild, Final!Reaps, GivesUp, Collects, Reaps
<1>6. ASSUME NEW s \in Procs, Final!PutInBackground(s) PROVE Records(s)
  BY <1>6 DEF Final!PutInBackground, Final!NoSuchChild, Records
<1>7. ASSUME NEW s \in Procs, Final!CatchSignal(s)
      PROVE  (\E p \in Procs : Collects(s, p)) \/ UNCHANGED <<pc, kept, jobs>>
  BY <1>7
  DEF Final!CatchSignal, Final!Zombies, Final!Children, Final!Reaps, Collects, Reaps
<1>8. ASSUME NEW p \in Procs, Final!ChildExecs(p) \/ Final!ChildBecomesShell(p)
      PROVE  Turns(p)
  BY <1>8
  DEF Final!ChildExecs, Final!Execs, Final!AfterExec, Final!ChildBecomesShell, Turns,
      InterruptInv
<1>9. ASSUME NEW p \in Procs, Final!ChildFails(p) \/ Final!CommandEnds(p)
      PROVE  SomeLeave
  BY <1>9
  DEF Final!ChildFails, Final!CommandEnds, Final!End, SomeLeave, Leaves, Ended, Running,
      Places, Endings
<1>10. ASSUME NEW p \in Procs, Final!InitReaps(p) PROVE Vanishes(p)
  BY <1>10 DEF Final!InitReaps, Vanishes
<1>11. ASSUME Final!CtrlC(pc) PROVE SomeLeave
  BY <1>11
  DEF Final!CtrlC, Final!End, Final!Running, SomeLeave, Leaves, Ended, Running, Places,
      Endings, InterruptInv
<1>12. ASSUME Final!CtrlZ(pc) PROVE SomeLeave
  BY <1>12 DEF Final!CtrlZ, SomeLeave, Leaves, Places
<1> QED
  BY <1>1, <1>2, <1>3, <1>4, <1>5, <1>6, <1>7, <1>8, <1>9, <1>10, <1>11, <1>12
  DEF Final!SuhNext, Final!Line, Final!Step, WorldStep

\* The steps of the drafts of Suh's shell.
LEMMA DraftSteps ==
    ASSUME IInv, program = "draft", program' = program, Draft!DraftNext
    PROVE  WorldStep
<1> USE ProcAssumption
    DEF IInv, Typed, PlaceInv, kept, Draft!family, Draft!acts, Draft!shell, Draft!user,
        Draft!Goto, ShellPcs, CommandPcs, Alive, Draft!ShellPcs, Draft!CommandPcs, Draft!Alive
<1>1. ASSUME NEW s \in Procs, Draft!DraftNoCommand(s) \/ Draft!DraftEndOfInput(s)
      PROVE  GoesOn(s)
  BY <1>1 DEF Draft!DraftNoCommand, Draft!DraftEndOfInput, Draft!TypesLine, GoesOn
<1>2. ASSUME NEW s \in Procs, Draft!DraftExit(s) \/ Draft!ForkFails(s)
      PROVE  SomeLeave
  BY <1>2
  DEF Draft!DraftExit, Draft!ForkFails, Draft!TypesLine, Draft!ShellEnds, Draft!End,
      SomeLeave, Leaves, Ended, Places, Endings
<1>3. ASSUME NEW s \in Procs, NEW p \in Procs, NEW ampersand \in BOOLEAN,
             Draft!Command(s, p, ampersand)
      PROVE  Starts(s, p)
  BY <1>3 DEF Draft!Command, Draft!TypesLine, Draft!Forks, Starts, Forks
<1>4. ASSUME NEW s \in Procs, Draft!WaitForeground(s)
      PROVE  GivesUp(s) \/ \E p \in Procs : Collects(s, p)
  BY <1>4
  DEF Draft!WaitForeground, Draft!NoSuchChild, Draft!Reaps, GivesUp, Collects, Reaps
<1>5. ASSUME NEW s \in Procs, Draft!PutInBackground(s) PROVE Records(s)
  BY <1>5 DEF Draft!PutInBackground, Draft!NoSuchChild, Records
<1>6. ASSUME NEW s \in Procs, Draft!CatchSignal(s)
      PROVE  (\E p \in Procs : Collects(s, p)) \/ UNCHANGED <<pc, kept, jobs>>
  BY <1>6
  DEF Draft!CatchSignal, Draft!Zombies, Draft!Children, Draft!Reaps, Collects, Reaps
<1>7. ASSUME NEW p \in Procs, Draft!DraftChildExecs(p) PROVE Turns(p)
  BY <1>7
  DEF Draft!DraftChildExecs, Draft!Execs, Draft!AfterExec, Turns, InterruptInv
<1>8. ASSUME NEW p \in Procs, Draft!DraftChildEnds(p) \/ Draft!CommandEnds(p)
      PROVE  SomeLeave
  BY <1>8
  DEF Draft!DraftChildEnds, Draft!ChildFails, Draft!CommandEnds, Draft!End, SomeLeave,
      Leaves, Ended, Running, Places, Endings
<1>9. ASSUME NEW p \in Procs, Draft!InitReaps(p) PROVE Vanishes(p)
  BY <1>9 DEF Draft!InitReaps, Vanishes
<1>10. ASSUME Draft!CtrlC(pc) PROVE SomeLeave
  BY <1>10
  DEF Draft!CtrlC, Draft!End, Draft!Running, SomeLeave, Leaves, Ended, Running, Places,
      Endings, InterruptInv
<1>11. ASSUME Draft!CtrlZ(pc) PROVE SomeLeave
  BY <1>11 DEF Draft!CtrlZ, SomeLeave, Leaves, Places
<1> QED
  BY <1>1, <1>2, <1>3, <1>4, <1>5, <1>6, <1>7, <1>8, <1>9, <1>10, <1>11
  DEF Draft!DraftNext, Draft!DraftLine, Draft!Step, WorldStep

\* The steps of Dougherty's shell.
LEMMA DoughertySteps ==
    ASSUME IInv, program = "dougherty", program' = program, Dougherty!DoughertyNext
    PROVE  WorldStep
<1> USE ProcAssumption
    DEF IInv, Typed, PlaceInv, kept, Dougherty!family, Dougherty!acts, Dougherty!shell,
        Dougherty!user, Dougherty!Goto, ShellPcs, CommandPcs, Alive, Dougherty!ShellPcs,
        Dougherty!CommandPcs, Dougherty!Alive
<1>1. ASSUME NEW s \in Procs, Dougherty!DoNothing(s) \/ Dougherty!BlankLine(s)
      PROVE  GoesOn(s)
  BY <1>1 DEF Dougherty!DoNothing, Dougherty!BlankLine, Dougherty!TypesLine, GoesOn
<1>2. ASSUME NEW s \in Procs, Dougherty!exit(s) \/ Dougherty!HullBreach(s)
      PROVE  SomeLeave
  <2>1. s = Shell /\ pc[s] = "prompt"
    BY <1>2 DEF Dougherty!exit, Dougherty!HullBreach, Dougherty!KillAndEnd,
                Dougherty!TypesLine, OneReader
  <2>2. \A p \in Running : Listed(p) => p \in Dougherty!killBackground(s)
    BY <2>1 DEF Dougherty!killBackground, Dougherty!Running, Running, Listed
  <2>3. Dougherty!killBackground(s) \subseteq Running
    BY DEF Dougherty!killBackground, Dougherty!Running, Running
  <2>4. Dougherty!ShellEnds(s, "0", Dougherty!killBackground(s))
        /\ UNCHANGED <<parent, bg, int, waits, jobs>>
    BY <1>2 DEF Dougherty!exit, Dougherty!HullBreach, Dougherty!KillAndEnd
  <2> HIDE <1>2
  <2> QED
    BY <2>1, <2>2, <2>3, <2>4
    DEF Dougherty!ShellEnds, Dougherty!End, SomeLeave, Leaves, Ended, Running, Places, Endings
<1>3. ASSUME NEW s \in Procs, NEW p \in Procs, NEW ampersand \in BOOLEAN,
             Dougherty!Command(s, p, ampersand)
      PROVE  Starts(s, p)
  BY <1>3 DEF Dougherty!Command, Dougherty!TypesLine, Dougherty!Forks, Starts, Forks
<1>4. ASSUME NEW s \in Procs, Dougherty!WaitForeground(s)
      PROVE  \E p \in Procs : Collects(s, p)
  BY <1>4 DEF Dougherty!WaitForeground, Dougherty!Reaps, Collects, Reaps
<1>5. ASSUME NEW s \in Procs, Dougherty!PutInBackground(s) PROVE Records(s)
  <2>0. jobs = [jobs EXCEPT ![s] = @]
    BY DEF JobsInv
  <2>1. CASE Len(jobs[s]) = MaxJobs
    BY <1>5, <2>0, <2>1 DEF Dougherty!PutInBackground, Records
  <2>2. CASE Len(jobs[s]) # MaxJobs
    BY <1>5, <2>2 DEF Dougherty!PutInBackground, Records
  <2> QED
    BY <2>1, <2>2
<1>6. ASSUME NEW s \in Procs, Dougherty!CheckCompleted(s)
      PROVE  GoesOn(s) \/ \E p \in Procs : Collects(s, p)
  BY <1>6
  DEF Dougherty!CheckCompleted, Dougherty!Zombies, Dougherty!Children, Dougherty!Reaps,
      Collects, Reaps, GoesOn
<1>7. ASSUME NEW p \in Procs, Dougherty!ChildExecs(p) PROVE Turns(p)
  BY <1>7
  DEF Dougherty!ChildExecs, Dougherty!Execs, Dougherty!AfterExec, Turns, InterruptInv
<1>8. ASSUME NEW p \in Procs, Dougherty!ChildExits(p) \/ Dougherty!CommandEnds(p)
      PROVE  SomeLeave
  BY <1>8
  DEF Dougherty!ChildExits, Dougherty!ChildFails, Dougherty!CommandEnds, Dougherty!End,
      SomeLeave, Leaves, Ended, Running, Places, Endings
<1>9. ASSUME NEW p \in Procs, Dougherty!InitReaps(p) PROVE Vanishes(p)
  BY <1>9 DEF Dougherty!InitReaps, Vanishes
<1>10. ASSUME Dougherty!CtrlC(pc) PROVE SomeLeave
  BY <1>10
  DEF Dougherty!CtrlC, Dougherty!End, Dougherty!Running, SomeLeave, Leaves, Ended, Running,
      Places, Endings, InterruptInv
<1>11. ASSUME Dougherty!CtrlZ(pc) PROVE SomeLeave
  BY <1>11 DEF Dougherty!CtrlZ, SomeLeave, Leaves, Places
<1> QED
  BY <1>1, <1>2, <1>3, <1>4, <1>5, <1>6, <1>7, <1>8, <1>9, <1>10, <1>11
  DEF Dougherty!DoughertyNext, Dougherty!Line, Dougherty!Step, WorldStep

\* The steps of Rico's shell.
LEMMA RicoSteps ==
    ASSUME IInv, program = "rico", program' = program, Rico!RicoNext
    PROVE  WorldStep
<1> USE ProcAssumption
    DEF IInv, Typed, PlaceInv, kept, Rico!family, Rico!acts, Rico!shell, Rico!user,
        Rico!Goto, ShellPcs, CommandPcs, Alive, Rico!ShellPcs, Rico!CommandPcs, Rico!Alive
<1>1. ASSUME NEW s \in Procs, \/ Rico!SkipLine(s) \/ Rico!EndOfInput(s)
                              \/ Rico!BuiltIn(s) \/ Rico!ForkError(s)
      PROVE  GoesOn(s)
  BY <1>1
  DEF Rico!SkipLine, Rico!EndOfInput, Rico!NoInput, Rico!BuiltIn, Rico!ForkError,
      Rico!TypesLine, GoesOn
<1>2. ASSUME NEW s \in Procs, Rico!Exit(s) PROVE SomeLeave
  BY <1>2
  DEF Rico!Exit, Rico!TypesLine, Rico!ShellEnds, Rico!End, SomeLeave, Leaves, Ended, Places,
      Endings
<1>3. ASSUME NEW s \in Procs, NEW p \in Procs, NEW ampersand \in BOOLEAN,
             Rico!Command(s, p, ampersand)
      PROVE  Starts(s, p)
  BY <1>3 DEF Rico!Command, Rico!TypesLine, Rico!Forks, Starts, Forks
<1>4. ASSUME NEW s \in Procs, Rico!WaitForeground(s)
      PROVE  \E p \in Procs : Collects(s, p)
  BY <1>4 DEF Rico!WaitForeground, Rico!Reaps, Collects, Reaps
<1>5. ASSUME NEW s \in Procs, Rico!CheckCompleted(s)
      PROVE  GoesOn(s) \/ \E p \in Procs : Collects(s, p)
  BY <1>5
  DEF Rico!CheckCompleted, Rico!Zombies, Rico!Children, Rico!Reaps, Collects, Reaps, GoesOn
<1>6. ASSUME NEW p \in Procs, Rico!ChildExecs(p) PROVE Turns(p)
  BY <1>6 DEF Rico!ChildExecs, Rico!Execs, Rico!AfterExec, Turns
<1>7. ASSUME NEW p \in Procs, Rico!ChildExits(p) \/ Rico!CommandEnds(p)
      PROVE  SomeLeave
  BY <1>7
  DEF Rico!ChildExits, Rico!ChildFails, Rico!CommandEnds, Rico!End, SomeLeave, Leaves, Ended,
      Running, Places, Endings
<1>8. ASSUME NEW p \in Procs, Rico!InitReaps(p) PROVE Vanishes(p)
  BY <1>8 DEF Rico!InitReaps, Vanishes
<1>9. \A p \in Procs :
          \/ Rico!Interrupted[p] = pc[p]
          \/ Alive(p) /\ Rico!Interrupted[p] \in {"prompt", "reap", "undefined"}
  BY DEF Rico!Interrupted, Rico!NoInput
<1>10. ASSUME Rico!catchSIGINT PROVE SomeLeave
  BY <1>9, <1>10
  DEF Rico!catchSIGINT, Rico!CtrlC, Rico!End, Rico!Running, SomeLeave, Leaves, Ended, Running,
      Places, Endings
<1>11. ASSUME Rico!catchSIGSTOP PROVE SomeLeave
  BY <1>9, <1>11 DEF Rico!catchSIGSTOP, Rico!CtrlZ, SomeLeave, Leaves, Places
<1> QED
  BY <1>1, <1>2, <1>3, <1>4, <1>5, <1>6, <1>7, <1>8, <1>10, <1>11
  DEF Rico!RicoNext, Rico!Line, Rico!Step, WorldStep

-----------------------------------------------------------------------------
(***************************************************************************)
(* The theorems.                                                           *)
(***************************************************************************)

\* A user starts one shell, which has no children.
LEMMA InitInv == MCInit => IInv
<1> SUFFICES ASSUME MCInit PROVE IInv
  OBVIOUS
<1>1. /\ ProgramInv
      /\ \E action \in {"ignore", "handler"} :
            StartShell(action) /\ (program = "dougherty" => action = "ignore")
  BY DEF MCInit, ProgramInv, Final!SuhInit, Draft!SuhInit, Dougherty!DoughertyInit,
         Rico!RicoInit, Final!StartShell, Draft!StartShell, Dougherty!StartShell,
         Rico!StartShell, StartShell
<1>2. PICK action \in {"ignore", "handler"} :
          StartShell(action) /\ (program = "dougherty" => action = "ignore")
  BY <1>1
<1> USE <1>2, ProcAssumption
    DEF StartShell, ShellPcs, CommandPcs, Places, Kin, Alive, Children
<1>3. Typed /\ PlaceInv /\ ChildlessInv /\ ForegroundInv /\ InterruptInv /\ OneReader
  BY DEF Typed, PlaceInv, ChildlessInv, ForegroundInv, InterruptInv, Spared, OneReader,
         Endings
<1>4. JobsInv
  BY DEF JobsInv, JobsEndWith
<1> QED
  BY <1>1, <1>3, <1>4 DEF IInv

\* Every step of every program keeps the invariant.
LEMMA StepInv == IInv /\ [MCNext]_<<vars, program>> => IInv'
<1> SUFFICES ASSUME IInv, [MCNext]_<<vars, program>> PROVE IInv'
  OBVIOUS
<1>1. WorldStep
  <2>1. CASE UNCHANGED <<vars, program>>
    BY <2>1 DEF WorldStep, kept, vars, family, acts, shell
  <2>2. CASE MCNext
    BY <2>2, FinalSteps, DraftSteps, DoughertySteps, RicoSteps DEF MCNext
  <2> QED
    BY <2>1, <2>2
<1>2. CASE UNCHANGED <<pc, kept, jobs>>
  BY <1>1, <1>2
  DEF WorldStep, IInv, Typed, ProgramInv, PlaceInv, ChildlessInv, ForegroundInv,
      InterruptInv, JobsInv, OneReader, kept, Children, Alive, Spared, Listed, JobsEndWith
<1> QED
  BY <1>1, <1>2, KeepGoesOn, KeepGivesUp, KeepRecords, KeepStarts, KeepCollects, KeepTurns,
     KeepVanishes, KeepSomeLeave
  DEF WorldStep

\* The invariant holds in every reachable state.
THEOREM Invariance == MCSpec => []IInv
BY InitInv, StepInv, PTL DEF MCSpec

\* At its prompt, every shell but Rico's has waited for its foreground child,
\* however the end of that child reached it.
THEOREM ForegroundReaped == MCSpec => []PromptMeansReaped
<1>1. IInv => PromptMeansReaped
  BY DEF IInv, ForegroundInv, PromptMeansReaped, WaitedFor, Alive, ShellPcs, Children
<1> QED
  BY <1>1, Invariance, PTL

\* No key ends a background job of Suh's and Dougherty's shells, not even
\* between fork() and exec().
THEOREM JobsSpared == MCSpec => []CtrlCSparesJobs
<1>1. IInv => CtrlCSparesJobs
  BY DEF IInv, InterruptInv, CtrlCSparesJobs
<1> QED
  BY <1>1, Invariance, PTL

\* Dougherty's exit leaves no running job behind.
THEOREM ExitKillsJobs == MCSpec => []ExitTermsJobs
<1>1. IInv => ExitTermsJobs
  BY DEF IInv, JobsInv, ExitTermsJobs
<1> QED
  BY <1>1, Invariance, PTL

\* But in smallsh.final.c, nobody except the first shell ever reads a line.
THEOREM OnlyShellReads == MCSpec => []OneReader
<1>1. IInv => OneReader
  BY DEF IInv
<1> QED
  BY <1>1, Invariance, PTL

-----------------------------------------------------------------------------
(***************************************************************************)
(* The types of the rest of the state.                                     *)
(***************************************************************************)

\* What a shell keeps: its array of jobs never grows beyond its end.
DataInv ==
    /\ chld \in [Procs -> BOOLEAN] /\ fgOnly \in [Procs -> BOOLEAN]
    /\ status \in [Procs -> Endings]
    /\ jobs \in [Procs -> Seq(Kin)]
    /\ \A p \in Procs : Len(jobs[p]) =< MaxJobs

\* The array of s, with some of its slots cleared.
Clear(s, slots) ==
    [jobs EXCEPT ![s] = [k \in DOMAIN jobs[s] |-> IF k \in slots THEN NoProc ELSE jobs[s][k]]]

\* Copying, a number more where there is room, or clearing slots.
JobsKept ==
    \/ UNCHANGED jobs
    \/ \E s, p \in Procs : jobs' = [jobs EXCEPT ![p] = jobs[s]]
    \/ \E s \in Procs, x \in Kin :
          Len(jobs[s]) # MaxJobs /\ jobs' = [jobs EXCEPT ![s] = Append(jobs[s], x)]
    \/ \E s \in Procs, slots \in SUBSET Nat : jobs' = Clear(s, slots)

StatusKept ==
    \/ UNCHANGED status
    \/ \E s \in Procs, how \in Endings : status' = [status EXCEPT ![s] = how]

FlagsKept ==
    /\ chld' \in [Procs -> BOOLEAN]
    /\ fgOnly' \in [Procs -> BOOLEAN]

DataStep == JobsKept /\ StatusKept /\ FlagsKept

\* No such step makes an array too long.
LEMMA KeepJobs ==
    ASSUME DataInv, JobsKept
    PROVE  jobs' \in [Procs -> Seq(Kin)] /\ \A p \in Procs : Len(jobs'[p]) =< MaxJobs
<1> USE DEF DataInv
<1>1. CASE UNCHANGED jobs
  BY <1>1
<1>2. ASSUME NEW s \in Procs, NEW p \in Procs, jobs' = [jobs EXCEPT ![p] = jobs[s]]
      PROVE  jobs' \in [Procs -> Seq(Kin)] /\ \A q \in Procs : Len(jobs'[q]) =< MaxJobs
  BY <1>2
<1>3. ASSUME NEW s \in Procs, NEW x \in Kin, Len(jobs[s]) # MaxJobs,
             jobs' = [jobs EXCEPT ![s] = Append(jobs[s], x)]
      PROVE  jobs' \in [Procs -> Seq(Kin)] /\ \A q \in Procs : Len(jobs'[q]) =< MaxJobs
  <2>1. MaxJobs \in Nat
    BY BoundAssumption
  <2>2. /\ Append(jobs[s], x) \in Seq(Kin)
        /\ Len(Append(jobs[s], x)) = Len(jobs[s]) + 1
        /\ Len(jobs[s]) \in Nat
    OBVIOUS
  <2> QED
    BY <1>3, <2>1, <2>2
<1>4. ASSUME NEW s \in Procs, NEW slots \in SUBSET Nat, jobs' = Clear(s, slots)
      PROVE  jobs' \in [Procs -> Seq(Kin)] /\ \A q \in Procs : Len(jobs'[q]) =< MaxJobs
  <2> DEFINE js == [k \in DOMAIN jobs[s] |-> IF k \in slots THEN NoProc ELSE jobs[s][k]]
  <2>1. js \in Seq(Kin) /\ Len(js) = Len(jobs[s])
    BY DEF Kin
  <2> QED
    BY <1>4, <2>1 DEF Clear
<1> QED
  BY <1>1, <1>2, <1>3, <1>4 DEF JobsKept

\* What a step does to the data keeps their types.
LEMMA KeepData == ASSUME DataInv, DataStep PROVE DataInv'
<1>1. status' \in [Procs -> Endings]
  BY DEF DataInv, DataStep, StatusKept
<1> QED
  BY <1>1, KeepJobs DEF DataInv, DataStep, FlagsKept

\* The steps of smallsh.final.c.
LEMMA FinalData ==
    ASSUME IInv, DataInv, program = "final", Final!SuhNext PROVE DataStep
<1> USE DEF DataInv, Final!family, Final!acts, Final!shell, Final!user, Final!Goto,
            DataStep, JobsKept, StatusKept, FlagsKept
<1>0. Typed /\ PlaceInv
  BY DEF IInv
<1>1. ASSUME NEW s \in Procs, Final!NoCommand(s) PROVE DataStep
  BY <1>0, <1>1 DEF Final!NoCommand, Final!TypesLine
<1>2. ASSUME NEW s \in Procs, Final!Exit(s) \/ Final!ForkFails(s) PROVE DataStep
  BY <1>0, <1>2
  DEF Final!Exit, Final!ForkFails, Final!TypesLine, Final!ShellEnds, Final!End
<1>3. ASSUME NEW s \in Procs, NEW p \in Procs, NEW ampersand \in BOOLEAN,
             Final!Command(s, p, ampersand)
      PROVE  DataStep
  BY <1>0, <1>3 DEF Final!Command, Final!TypesLine, Final!Forks
<1>4. ASSUME NEW s \in Procs, Final!WaitForeground(s) PROVE DataStep
  BY <1>0, <1>4 DEF Final!WaitForeground, Typed, PlaceInv
<1>5. ASSUME NEW s \in Procs, Final!PutInBackground(s) PROVE DataStep
  BY <1>0, <1>5 DEF Final!PutInBackground, Typed, PlaceInv
<1>6. ASSUME NEW s \in Procs, Final!CatchSignal(s) PROVE DataStep
  <2>1. UNCHANGED <<fgOnly, status>> /\ chld' \in [Procs -> BOOLEAN]
    BY <1>6 DEF Final!CatchSignal
  <2>2. CASE UNCHANGED jobs
    BY <2>1, <2>2
  <2>3. ASSUME NEW p \in Procs, jobs' = [jobs EXCEPT ![s] = Final!Cleared(@, p)]
        PROVE  DataStep
    <3> DEFINE found == {i \in DOMAIN jobs[s] : i % 2 = 1 /\ jobs[s][i] = p}
               first == CHOOSE i \in found : \A k \in found : i =< k
               slots == {k \in Nat : k = first + 1}
    <3>1. Final!Cleared(jobs[s], p) =
            IF found = {} THEN jobs[s]
            ELSE [i \in DOMAIN jobs[s] |-> IF i = first + 1 THEN NoProc ELSE jobs[s][i]]
      BY DEF Final!Cleared
    <3>2. CASE found = {}
      <4>1. jobs' = [jobs EXCEPT ![s] = jobs[s]]
        BY <2>3, <3>1, <3>2
      <4> QED
        BY <2>1, <4>1
    <3>3. CASE found # {}
      <4>1. \A i \in DOMAIN jobs[s] : i = first + 1 <=> i \in slots
        OBVIOUS
      <4> HIDE DEF found, first, slots
      <4>2. [i \in DOMAIN jobs[s] |-> IF i = first + 1 THEN NoProc ELSE jobs[s][i]] =
            [i \in DOMAIN jobs[s] |-> IF i \in slots THEN NoProc ELSE jobs[s][i]]
        BY <4>1
      <4>3. jobs' = Clear(s, slots)
        BY <2>3, <3>1, <3>3, <4>2 DEF Clear
      <4>4. slots \in SUBSET Nat
        BY DEF slots
      <4> QED
        BY <2>1, <4>3, <4>4
    <3> QED
      BY <3>2, <3>3
  <2> QED
    BY <1>6, <2>2, <2>3 DEF Final!CatchSignal, Final!Zombies, Final!Children
<1>7. ASSUME NEW p \in Procs, Final!ChildExecs(p) \/ Final!ChildBecomesShell(p)
      PROVE  DataStep
  BY <1>0, <1>7 DEF Final!ChildExecs, Final!ChildBecomesShell, Final!Execs
<1>8. ASSUME NEW p \in Procs, Final!ChildFails(p) \/ Final!CommandEnds(p) PROVE DataStep
  BY <1>0, <1>8 DEF Final!ChildFails, Final!ChildFails, Final!CommandEnds, Final!End
<1>9. ASSUME NEW p \in Procs, Final!InitReaps(p) PROVE DataStep
  BY <1>0, <1>9 DEF Final!InitReaps
<1>10. ASSUME Final!CtrlC(pc) PROVE DataStep
  BY <1>0, <1>10 DEF Final!CtrlC, Final!End
<1>11. ASSUME Final!CtrlZ(pc) PROVE DataStep
  BY <1>0, <1>11 DEF Final!CtrlZ, Final!Toggled
<1> QED
  BY <1>1, <1>2, <1>3, <1>4, <1>5, <1>6, <1>7, <1>8, <1>9, <1>10, <1>11
  DEF Final!SuhNext, Final!Line, Final!Step

\* The steps of the drafts of Suh's shell.
LEMMA DraftData ==
    ASSUME IInv, DataInv, program = "draft", Draft!DraftNext PROVE DataStep
<1> USE DEF DataInv, Draft!family, Draft!acts, Draft!shell, Draft!user, Draft!Goto,
            DataStep, JobsKept, StatusKept, FlagsKept
<1>0. Typed /\ PlaceInv
  BY DEF IInv
<1>1. ASSUME NEW s \in Procs, Draft!DraftNoCommand(s) \/ Draft!DraftEndOfInput(s)
      PROVE  DataStep
  BY <1>0, <1>1 DEF Draft!DraftNoCommand, Draft!DraftEndOfInput, Draft!TypesLine
<1>2. ASSUME NEW s \in Procs, Draft!DraftExit(s) \/ Draft!ForkFails(s) PROVE DataStep
  BY <1>0, <1>2
  DEF Draft!DraftExit, Draft!ForkFails, Draft!TypesLine, Draft!ShellEnds, Draft!End
<1>3. ASSUME NEW s \in Procs, NEW p \in Procs, NEW ampersand \in BOOLEAN,
             Draft!Command(s, p, ampersand)
      PROVE  DataStep
  BY <1>0, <1>3 DEF Draft!Command, Draft!TypesLine, Draft!Forks
<1>4. ASSUME NEW s \in Procs, Draft!WaitForeground(s) PROVE DataStep
  BY <1>0, <1>4 DEF Draft!WaitForeground, Typed, PlaceInv
<1>5. ASSUME NEW s \in Procs, Draft!PutInBackground(s) PROVE DataStep
  BY <1>0, <1>5 DEF Draft!PutInBackground, Typed, PlaceInv
<1>6. ASSUME NEW s \in Procs, Draft!CatchSignal(s) PROVE DataStep
  <2>1. UNCHANGED <<fgOnly, status>> /\ chld' \in [Procs -> BOOLEAN]
    BY <1>6 DEF Draft!CatchSignal
  <2>2. CASE UNCHANGED jobs
    BY <2>1, <2>2
  <2>3. ASSUME NEW p \in Procs, jobs' = [jobs EXCEPT ![s] = Draft!Cleared(@, p)]
        PROVE  DataStep
    <3> DEFINE found == {i \in DOMAIN jobs[s] : i % 2 = 1 /\ jobs[s][i] = p}
               first == CHOOSE i \in found : \A k \in found : i =< k
               slots == {k \in Nat : k = first + 1}
    <3>1. Draft!Cleared(jobs[s], p) =
            IF found = {} THEN jobs[s]
            ELSE [i \in DOMAIN jobs[s] |-> IF i = first + 1 THEN NoProc ELSE jobs[s][i]]
      BY DEF Draft!Cleared
    <3>2. CASE found = {}
      <4>1. jobs' = [jobs EXCEPT ![s] = jobs[s]]
        BY <2>3, <3>1, <3>2
      <4> QED
        BY <2>1, <4>1
    <3>3. CASE found # {}
      <4>1. \A i \in DOMAIN jobs[s] : i = first + 1 <=> i \in slots
        OBVIOUS
      <4> HIDE DEF found, first, slots
      <4>2. [i \in DOMAIN jobs[s] |-> IF i = first + 1 THEN NoProc ELSE jobs[s][i]] =
            [i \in DOMAIN jobs[s] |-> IF i \in slots THEN NoProc ELSE jobs[s][i]]
        BY <4>1
      <4>3. jobs' = Clear(s, slots)
        BY <2>3, <3>1, <3>3, <4>2 DEF Clear
      <4>4. slots \in SUBSET Nat
        BY DEF slots
      <4> QED
        BY <2>1, <4>3, <4>4
    <3> QED
      BY <3>2, <3>3
  <2> QED
    BY <1>6, <2>2, <2>3 DEF Draft!CatchSignal, Draft!Zombies, Draft!Children
<1>7. ASSUME NEW p \in Procs, Draft!DraftChildExecs(p) PROVE DataStep
  BY <1>0, <1>7 DEF Draft!Execs, Draft!DraftChildExecs
<1>8. ASSUME NEW p \in Procs, Draft!DraftChildEnds(p) \/ Draft!CommandEnds(p)
      PROVE  DataStep
  BY <1>0, <1>8 DEF Draft!DraftChildEnds, Draft!ChildFails, Draft!CommandEnds, Draft!End
<1>9. ASSUME NEW p \in Procs, Draft!InitReaps(p) PROVE DataStep
  BY <1>0, <1>9 DEF Draft!InitReaps
<1>10. ASSUME Draft!CtrlC(pc) PROVE DataStep
  BY <1>0, <1>10 DEF Draft!CtrlC, Draft!End
<1>11. ASSUME Draft!CtrlZ(pc) PROVE DataStep
  BY <1>0, <1>11 DEF Draft!CtrlZ, Draft!Toggled
<1> QED
  BY <1>1, <1>2, <1>3, <1>4, <1>5, <1>6, <1>7, <1>8, <1>9, <1>10, <1>11
  DEF Draft!DraftNext, Draft!DraftLine, Draft!Step

\* The steps of Dougherty's shell.
LEMMA DoughertyData ==
    ASSUME IInv, DataInv, program = "dougherty", Dougherty!DoughertyNext PROVE DataStep
<1> USE DEF DataInv, Dougherty!family, Dougherty!acts, Dougherty!shell,
            Dougherty!user, Dougherty!Goto, DataStep, JobsKept, StatusKept, FlagsKept
<1>0. Typed /\ PlaceInv
  BY DEF IInv
<1>1. ASSUME NEW s \in Procs, Dougherty!DoNothing(s) \/ Dougherty!BlankLine(s)
      PROVE  DataStep
  BY <1>0, <1>1 DEF Dougherty!DoNothing, Dougherty!BlankLine, Dougherty!TypesLine
<1>2. ASSUME NEW s \in Procs, Dougherty!exit(s) \/ Dougherty!HullBreach(s)
      PROVE  DataStep
  BY <1>0, <1>2
  DEF Dougherty!exit, Dougherty!HullBreach, Dougherty!KillAndEnd, Dougherty!TypesLine,
      Dougherty!ShellEnds, Dougherty!End
<1>3. ASSUME NEW s \in Procs, NEW p \in Procs, NEW ampersand \in BOOLEAN,
             Dougherty!Command(s, p, ampersand)
      PROVE  DataStep
  BY <1>0, <1>3 DEF Dougherty!Command, Dougherty!TypesLine, Dougherty!Forks
<1>4. ASSUME NEW s \in Procs, Dougherty!WaitForeground(s) PROVE DataStep
  BY <1>0, <1>4 DEF Dougherty!WaitForeground, Typed, PlaceInv
<1>5. ASSUME NEW s \in Procs, Dougherty!PutInBackground(s) PROVE DataStep
  BY <1>0, <1>5 DEF Dougherty!PutInBackground, Typed, PlaceInv
<1>6. ASSUME NEW s \in Procs, Dougherty!CheckCompleted(s) PROVE DataStep
  BY <1>0, <1>6
  DEF Dougherty!CheckCompleted, Dougherty!Zombies, Dougherty!Children, Typed, PlaceInv
<1>7. ASSUME NEW p \in Procs, Dougherty!ChildExecs(p) PROVE DataStep
  BY <1>0, <1>7 DEF Dougherty!Execs, Dougherty!ChildExecs
<1>8. ASSUME NEW p \in Procs, Dougherty!ChildExits(p) \/ Dougherty!CommandEnds(p)
      PROVE  DataStep
  BY <1>0, <1>8
  DEF Dougherty!ChildExits, Dougherty!ChildFails, Dougherty!CommandEnds, Dougherty!End
<1>9. ASSUME NEW p \in Procs, Dougherty!InitReaps(p) PROVE DataStep
  BY <1>0, <1>9 DEF Dougherty!InitReaps
<1>10. ASSUME Dougherty!CtrlC(pc) PROVE DataStep
  BY <1>0, <1>10 DEF Dougherty!CtrlC, Dougherty!End
<1>11. ASSUME Dougherty!CtrlZ(pc) PROVE DataStep
  BY <1>0, <1>11 DEF Dougherty!CtrlZ, Dougherty!Toggled
<1> QED
  BY <1>1, <1>2, <1>3, <1>4, <1>5, <1>6, <1>7, <1>8, <1>9, <1>10, <1>11
  DEF Dougherty!DoughertyNext, Dougherty!Line, Dougherty!Step

\* The steps of Rico's shell.
LEMMA RicoData ==
    ASSUME IInv, DataInv, program = "rico", Rico!RicoNext PROVE DataStep
<1> USE DEF DataInv, Rico!family, Rico!acts, Rico!shell, Rico!user, Rico!Goto,
            DataStep, JobsKept, StatusKept, FlagsKept
<1>0. Typed /\ PlaceInv
  BY DEF IInv
<1>1. ASSUME NEW s \in Procs, Rico!SkipLine(s) \/ Rico!EndOfInput(s) \/ Rico!BuiltIn(s)
      PROVE  DataStep
  BY <1>0, <1>1 DEF Rico!SkipLine, Rico!EndOfInput, Rico!BuiltIn, Rico!TypesLine
<1>2. ASSUME NEW s \in Procs, Rico!ForkError(s) PROVE DataStep
  BY <1>0, <1>2 DEF Rico!ForkError, Rico!TypesLine, Endings
<1>3. ASSUME NEW s \in Procs, Rico!Exit(s) PROVE DataStep
  BY <1>0, <1>3 DEF Rico!Exit, Rico!TypesLine, Rico!ShellEnds, Rico!End
<1>4. ASSUME NEW s \in Procs, NEW p \in Procs, NEW ampersand \in BOOLEAN,
             Rico!Command(s, p, ampersand)
      PROVE  DataStep
  BY <1>0, <1>4 DEF Rico!Command, Rico!TypesLine, Rico!Forks
<1>5. ASSUME NEW s \in Procs, Rico!WaitForeground(s) PROVE DataStep
  BY <1>0, <1>5 DEF Rico!WaitForeground, Typed, PlaceInv
<1>6. ASSUME NEW s \in Procs, Rico!CheckCompleted(s) PROVE DataStep
  BY <1>0, <1>6 DEF Rico!CheckCompleted, Rico!Zombies, Rico!Children, Typed, PlaceInv
<1>7. ASSUME NEW p \in Procs, Rico!ChildExecs(p) PROVE DataStep
  BY <1>0, <1>7 DEF Rico!Execs, Rico!ChildExecs
<1>8. ASSUME NEW p \in Procs, Rico!ChildExits(p) \/ Rico!CommandEnds(p) PROVE DataStep
  BY <1>0, <1>8 DEF Rico!ChildExits, Rico!ChildFails, Rico!CommandEnds, Rico!End
<1>9. ASSUME NEW p \in Procs, Rico!InitReaps(p) PROVE DataStep
  BY <1>0, <1>9 DEF Rico!InitReaps
<1>10. ASSUME Rico!catchSIGINT PROVE DataStep
  BY <1>0, <1>10 DEF Rico!catchSIGINT, Rico!CtrlC, Rico!End
<1>11. ASSUME Rico!catchSIGSTOP PROVE DataStep
  BY <1>0, <1>11 DEF Rico!catchSIGSTOP, Rico!CtrlZ, Rico!Toggled
<1> QED
  BY <1>1, <1>2, <1>3, <1>4, <1>5, <1>6, <1>7, <1>8, <1>9, <1>10, <1>11
  DEF Rico!RicoNext, Rico!Line, Rico!Step

\* The array of jobs is empty at first.
LEMMA InitData == MCInit => DataInv
<1> SUFFICES ASSUME MCInit PROVE DataInv
  OBVIOUS
<1>1. \E action \in {"ignore", "handler"} : StartShell(action)
  BY DEF MCInit, Final!SuhInit, Draft!SuhInit, Dougherty!DoughertyInit,
         Rico!RicoInit, Final!StartShell, Draft!StartShell, Dougherty!StartShell,
         Rico!StartShell, StartShell
<1> QED
  BY <1>1, BoundAssumption DEF StartShell, DataInv, Endings, Kin

\* Every process is at a place of its program and has ended in a way that
\* can be reported; no array of jobs is longer than the code has declared it.
THEOREM TypeCorrect == MCSpec => []TypeOK
<1>1. IInv /\ DataInv /\ [MCNext]_<<vars, program>> => DataInv'
  <2> SUFFICES ASSUME IInv, DataInv, [MCNext]_<<vars, program>> PROVE DataInv'
    OBVIOUS
  <2>1. CASE UNCHANGED <<vars, program>>
    BY <2>1 DEF DataInv, vars, shell
  <2>2. CASE MCNext
    BY <2>2, FinalData, DraftData, DoughertyData, RicoData, KeepData DEF MCNext
  <2> QED
    BY <2>1, <2>2
<1>2. IInv /\ DataInv => TypeOK
  BY DEF IInv, Typed, DataInv, TypeOK, Places, Kin
<1> QED
  BY <1>1, <1>2, InitData, Invariance, PTL DEF MCSpec
=============================================================================
