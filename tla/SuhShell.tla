------------------------------ MODULE SuhShell ------------------------------
(***************************************************************************)
(* smallsh.final.c.  jobs is pidarray[] with numpids, fgOnly is            *)
(* ignore_signal, status is exit_status, waits the variable pid of         *)
(* Command_Handler().  All handlers are installed with SA_RESTART, so that *)
(* waitpid() goes on after one.                                            *)
(***************************************************************************)
EXTENDS ShellWorld

SuhInit == StartShell("handler")

\* A blank line, the end of the input, "#", cd and status.
NoCommand(s) ==
    /\ TypesLine(s)
    /\ UNCHANGED <<pc, family, result, acts, chld, shell>>

\* The processes killed: "kill_pid = 0" is an assignment, so that neither
\* branch is taken while there are jobs.
Kill_Process(kill_pid) == {}

\* Then SIGTERM for the number found in a variable that is not initialised:
\* any process, all of the group, or none.
Exit(s) ==
    /\ TypesLine(s)
    /\ \E hit \in {{}, Procs} \cup {{p} : p \in Procs} :
          ShellEnds(s, "0", Kill_Process(NoProc) \cup {p \in hit : Alive(p) \/ p \in Running})
    /\ UNCHANGED <<family, acts, shell>>

\* fork() fails.
ForkFails(s) ==
    /\ TypesLine(s)
    /\ ShellEnds(s, "1", {})
    /\ UNCHANGED <<family, acts, shell>>

Command(s, p, ampersand) ==
    /\ TypesLine(s)
    /\ LET inBg == ampersand /\ ~fgOnly[s] IN
       Forks(s, p, inBg, IF inBg THEN "poll" ELSE "wait")
    /\ UNCHANGED <<result, argument>>

\* Its child has been waited for by the handler: waitpid() fails.
NoSuchChild(s) == parent[waits[s]] # s \/ pc[waits[s]] = "none"

\* Mutant: the foreground child is not waited for, either.
WaitForegroundNoHang(s) ==
    /\ pc[s] = "wait"
    /\ Goto(s, "prompt")
    /\ UNCHANGED <<family, result, acts, chld, shell, user>>

\* waitpid(pid, &exit_status, 0).
WaitForeground(s) ==
    /\ pc[s] = "wait"
    /\ \/ /\ pc[waits[s]] = "zombie" /\ ~NoSuchChild(s)
          /\ Reaps(s, waits[s], "prompt")
          /\ status' = [status EXCEPT ![s] = result[waits[s]]]
       \/ /\ NoSuchChild(s)
          /\ Goto(s, "prompt")
          /\ UNCHANGED status
    /\ UNCHANGED <<family, result, acts, chld, fgOnly, jobs, waits, argument, user>>

\* waitpid(pid, &exit_status, WNOHANG), and the array, which never shrinks:
\* the number after the last slot is written somewhere else.
PutInBackground(s) ==
    /\ pc[s] = "poll"
    /\ LET p    == waits[s]
           done == pc[p] = "zombie" /\ ~NoSuchChild(s)
           full == Len(jobs[s]) = MaxJobs
       IN  /\ pc' = [pc EXCEPT ![p] = IF done THEN "none" ELSE @,
                               ![s] = IF full THEN "undefined" ELSE "prompt"]
           /\ status' = [status EXCEPT ![s] = IF done THEN result[p] ELSE @]
           /\ jobs' = [jobs EXCEPT ![s] = IF full THEN @ ELSE Append(@, p)]
    /\ UNCHANGED <<family, result, acts, chld, fgOnly, waits, argument, user>>

\* The search looks at every other slot, and clears the one after it.
Cleared(js, p) ==
    LET found == {i \in DOMAIN js : i % 2 = 1 /\ js[i] = p}
        first == CHOOSE i \in found : \A k \in found : i =< k
    IN  IF found = {} THEN js ELSE [i \in DOMAIN js |-> IF i = first + 1 THEN NoProc ELSE js[i]]

\* The handler of SIGCHLD: one waitpid(-1, .., WNOHANG), whose status stays
\* in a local variable.
CatchSignal(s) ==
    /\ Alive(s) /\ chld[s]
    /\ chld' = [chld EXCEPT ![s] = FALSE]
    /\ \/ Zombies(s) = {} /\ UNCHANGED <<pc, jobs>>
       \/ \E p \in Zombies(s) :
             /\ Reaps(s, p, pc[s])
             /\ jobs' = [jobs EXCEPT ![s] = Cleared(@, p)]
    /\ UNCHANGED <<family, result, acts, fgOnly, waits, status, argument, user>>

\* Mutants: a background child is left with SIGINT; a child stops on SIGTSTP.
ChildExecsNoIgnore(p) == Execs(p, int[p], "ignore")
ChildExecsStoppable(p) == Execs(p, IF bg[p] THEN "ignore" ELSE int[p], tstp[p])

\* The child ignores SIGTSTP, and SIGINT in the background.
ChildExecs(p) == Execs(p, IF bg[p] THEN "ignore" ELSE int[p], "ignore")

\* execvp() fails: the child returns into the loop of main(), a second shell.
ChildBecomesShell(p) ==
    /\ pc[p] = "child"
    /\ Goto(p, "prompt")
    /\ int' = [int EXCEPT ![p] = IF bg[p] THEN "ignore" ELSE @]
    /\ tstp' = [tstp EXCEPT ![p] = "ignore"]
    /\ UNCHANGED <<family, result, chld, shell, user>>

Line(s) ==
    \/ NoCommand(s) \/ Exit(s) \/ ForkFails(s)
    \/ \E p \in Procs, ampersand \in BOOLEAN : Command(s, p, ampersand)

Step(s) == WaitForeground(s) \/ PutInBackground(s) \/ CatchSignal(s)

SuhNext ==
    \/ \E s \in Procs : Line(s) \/ Step(s)
    \/ \E p \in Procs : \/ ChildExecs(p) \/ ChildBecomesShell(p) \/ ChildFails(p)
                        \/ CommandEnds(p) \/ InitReaps(p)
    \/ CtrlC(pc) \/ CtrlZ(pc)   \* the handlers: a message, and fgOnly
=============================================================================
