----------------------------- MODULE RicoShell -----------------------------
(***************************************************************************)
(* CS344- ans1/pg3/smallsh.c.  Both handlers are installed without         *)
(* SA_RESTART: a key ends the waitpid() for a foreground process and the   *)
(* fgets() at the prompt.  fgOnly is ignoreBg, waits the variable cpid.    *)
(***************************************************************************)
EXTENDS ShellWorld

RicoInit == StartShell("handler")

\* A line that is empty or a comment: continue, with a null pointer or a
\* comment for argument[0]; finished processes are not looked at.
SkipLine(s) ==
    /\ TypesLine(s)
    /\ argument' = [argument EXCEPT ![s] = "skip"]
    /\ UNCHANGED <<pc, family, result, acts, chld, fgOnly, jobs, waits, status>>

\* getInput() without a line: argument[0] is that of the line before, which
\* has been freed, or was never set, unless that line was skipped.
NoInput(s) == IF argument[s] = "skip" THEN "prompt" ELSE "undefined"

EndOfInput(s) ==
    /\ TypesLine(s)
    /\ Goto(s, NoInput(s))
    /\ UNCHANGED <<family, result, acts, chld, shell>>

\* cd and status.  The end of the iteration frees the words.
BuiltIn(s) ==
    /\ TypesLine(s)
    /\ Goto(s, "reap")
    /\ argument' = [argument EXCEPT ![s] = "freed"]
    /\ UNCHANGED <<family, result, acts, chld, fgOnly, jobs, waits, status>>

\* The background processes are left to themselves.
Exit(s) ==
    /\ TypesLine(s)
    /\ ShellEnds(s, "0", {})
    /\ UNCHANGED <<family, acts, shell>>

Command(s, p, ampersand) ==
    /\ TypesLine(s)
    /\ LET foregroundProc == ~ampersand \/ fgOnly[s] IN
       Forks(s, p, ~foregroundProc, IF foregroundProc THEN "wait" ELSE "reap")
    /\ argument' = [argument EXCEPT ![s] = "freed"]
    /\ UNCHANGED result

\* fork() fails.
ForkError(s) ==
    /\ TypesLine(s)
    /\ Goto(s, "reap")
    /\ status' = [status EXCEPT ![s] = "1"]
    /\ argument' = [argument EXCEPT ![s] = "freed"]
    /\ UNCHANGED <<family, result, acts, chld, fgOnly, jobs, waits>>

\* waitpid(cpid, &status, 0).
WaitForeground(s) ==
    /\ pc[s] = "wait" /\ pc[waits[s]] = "zombie"
    /\ Reaps(s, waits[s], "reap")
    /\ status' = [status EXCEPT ![s] = result[waits[s]]]
    /\ UNCHANGED <<family, result, acts, chld, fgOnly, jobs, waits, argument, user>>

\* waitpid(-1, &status, WNOHANG), again and again.
CheckCompleted(s) ==
    /\ pc[s] = "reap"
    /\ \/ \E p \in Zombies(s) :
             /\ Reaps(s, p, "reap")
             /\ status' = [status EXCEPT ![s] = result[p]]
       \/ Zombies(s) = {} /\ Goto(s, "prompt") /\ UNCHANGED status
    /\ UNCHANGED <<family, result, acts, chld, fgOnly, jobs, waits, argument, user>>

\* Every child listens to SIGINT.
ChildExecs(p) == Execs(p, "default", tstp[p])

\* Mutant: without _Exit() the child goes on after the switch.
ChildGoesOn(p) ==
    /\ pc[p] = "child"
    /\ Goto(p, "reap")
    /\ UNCHANGED <<family, result, acts, chld, shell, user>>

\* A file cannot be opened, or execvp() fails: _Exit(1).
ChildExits(p) == ChildFails(p)

\* A key ends the system call that the shell is in.
Interrupted ==
    [p \in Procs |-> CASE pc[p] = "wait"   -> "reap"
                       [] pc[p] = "prompt" -> NoInput(p)
                       [] OTHER            -> pc[p]]

catchSIGINT  == CtrlC(Interrupted)
catchSIGSTOP == CtrlZ(Interrupted)

Line(s) ==
    \/ SkipLine(s) \/ EndOfInput(s) \/ BuiltIn(s) \/ Exit(s) \/ ForkError(s)
    \/ \E p \in Procs, ampersand \in BOOLEAN : Command(s, p, ampersand)

Step(s) == WaitForeground(s) \/ CheckCompleted(s)

RicoNext ==
    \/ \E s \in Procs : Line(s) \/ Step(s)
    \/ \E p \in Procs : ChildExecs(p) \/ ChildExits(p) \/ CommandEnds(p) \/ InitReaps(p)
    \/ catchSIGINT \/ catchSIGSTOP
=============================================================================
