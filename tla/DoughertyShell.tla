--------------------------- MODULE DoughertyShell ---------------------------
(***************************************************************************)
(* CS344 -ref/Assignment_3/smallsh.c.  The shell ignores SIGINT, toggles   *)
(* fgOnly on SIGTSTP (with SA_RESTART), and looks for finished background  *)
(* processes after every line; it has no handler of SIGCHLD.  jobs is      *)
(* backPids[] with numPids, waits the variable pid.                        *)
(***************************************************************************)
EXTENDS ShellWorld

DoughertyInit == StartShell("ignore")

\* A comment, cd, status, or a line with "&" only.
DoNothing(s) ==
    /\ TypesLine(s)
    /\ Goto(s, "reap")
    /\ UNCHANGED <<family, result, acts, chld, shell>>

\* A blank line, or the end of the input: argArray[-1] is looked at, which
\* may be unreadable, or a string to compare with.
BlankLine(s) ==
    /\ TypesLine(s)
    /\ \E place \in {"reap", "undefined"} : Goto(s, place)
    /\ UNCHANGED <<family, result, acts, chld, shell>>

\* Mutant: the last job is forgotten.
killBackgroundButLast(s) ==
    {p \in Running : \E i \in DOMAIN jobs[s] \ {Len(jobs[s])} : jobs[s][i] = p}

\* kill(.., SIGTERM) for every number in the array, whoever has it now.
killBackground(s) == {p \in Running : \E i \in DOMAIN jobs[s] : jobs[s][i] = p}

KillAndEnd(s, code) ==
    /\ TypesLine(s)
    /\ ShellEnds(s, code, killBackground(s))
    /\ UNCHANGED <<family, acts, shell>>

\* The command exit, and a failed fork(), after which main() returns.
exit(s) == KillAndEnd(s, "0")
HullBreach(s) == KillAndEnd(s, "0")

Command(s, p, ampersand) ==
    /\ TypesLine(s)
    /\ LET background == ampersand /\ ~fgOnly[s] IN
       Forks(s, p, background, IF background THEN "poll" ELSE "wait")
    /\ UNCHANGED <<result, argument>>

\* waitpid(pid, &status, 0).
WaitForeground(s) ==
    /\ pc[s] = "wait" /\ pc[waits[s]] = "zombie"
    /\ Reaps(s, waits[s], "reap")
    /\ status' = [status EXCEPT ![s] = result[waits[s]]]
    /\ UNCHANGED <<family, result, acts, chld, fgOnly, jobs, waits, argument, user>>

\* waitpid(pid, &status, WNOHANG) and the array, which never shrinks.
PutInBackground(s) ==
    /\ pc[s] = "poll"
    /\ LET p    == waits[s]
           done == pc[p] = "zombie"
           full == Len(jobs[s]) = MaxJobs
       IN  /\ pc' = [pc EXCEPT ![p] = IF done THEN "none" ELSE @,
                               ![s] = IF full THEN "undefined" ELSE "reap"]
           /\ status' = [status EXCEPT ![s] = IF done THEN result[p] ELSE @]
           /\ jobs' = [jobs EXCEPT ![s] = IF full THEN @ ELSE Append(@, p)]
    /\ UNCHANGED <<family, result, acts, chld, fgOnly, waits, argument, user>>

\* waitpid(-1, &status, WNOHANG), again and again.
CheckCompleted(s) ==
    /\ pc[s] = "reap"
    /\ \/ \E p \in Zombies(s) :
             /\ Reaps(s, p, "reap")
             /\ status' = [status EXCEPT ![s] = result[p]]
       \/ Zombies(s) = {} /\ Goto(s, "prompt") /\ UNCHANGED status
    /\ UNCHANGED <<family, result, acts, chld, fgOnly, jobs, waits, argument, user>>

\* The child: only a foreground one listens to SIGINT.
ChildExecs(p) == Execs(p, IF bg[p] THEN int[p] ELSE "default", tstp[p])

\* A file cannot be opened, or execvp() fails: the child exits.
ChildExits(p) == ChildFails(p)

Line(s) ==
    \/ DoNothing(s) \/ BlankLine(s) \/ exit(s) \/ HullBreach(s)
    \/ \E p \in Procs, ampersand \in BOOLEAN : Command(s, p, ampersand)

Step(s) == WaitForeground(s) \/ PutInBackground(s) \/ CheckCompleted(s)

DoughertyNext ==
    \/ \E s \in Procs : Line(s) \/ Step(s)
    \/ \E p \in Procs : ChildExecs(p) \/ ChildExits(p) \/ CommandEnds(p) \/ InitReaps(p)
    \/ CtrlC(pc) \/ CtrlZ(pc)   \* sigtstpFunc(): fgOnly
=============================================================================
