----------------------------- MODULE ShellWorld -----------------------------
(***************************************************************************)
(* What the shells of SuhShell, SuhDraftShell, DoughertyShell and RicoShell *)
(* run on: the process table, the signals of the terminal, and the user.   *)
(* A shell and all it forks are one process group, so that a key reaches   *)
(* every one of them.                                                      *)
(*                                                                         *)
(* External: a child starts with a copy of its parent's variables and      *)
(* signal actions; exec() resets what is handled, not what is ignored; a   *)
(* process that ends stays a zombie until it is waited for; a stopped one  *)
(* is ended by neither SIGINT nor SIGTERM; process numbers are used again. *)
(***************************************************************************)
EXTENDS Integers, Sequences, FiniteSets

CONSTANTS Procs,       \* process numbers
          Shell,       \* that of the shell the user starts
          NoProc,      \* no process
          MaxJobs,     \* length of the array of job numbers, 100 or 512
          MaxLines,    \* bound: lines typed
          MaxKeys      \* bound: Ctrl-C and Ctrl-Z pressed

ASSUME ProcAssumption  == IsFiniteSet(Procs) /\ Shell \in Procs /\ NoProc \notin Procs
ASSUME BoundAssumption == {MaxJobs, MaxLines, MaxKeys} \subseteq Nat

VARIABLES
    pc,        \* where every process is: "none", "child" between fork() and
               \* exec(), "command", "stopped", "zombie", or a place in a shell
    parent, bg,   \* who has forked it, and whether to be in the background
    result,    \* how it ended
    int, tstp, \* what it does on SIGINT and SIGTSTP
    chld,      \* SIGCHLD is pending
    fgOnly,    \* the shell ignores "&"
    jobs,      \* the shell's array of background children
    waits,     \* the child it has started last
    status,    \* what the status command prints
    argument,  \* where Rico's pointers to the words of a line point to
    lines, keys   \* what the user has typed so far

family == <<parent, bg>>
acts   == <<int, tstp>>
shell  == <<fgOnly, jobs, waits, status, argument>>
user   == <<lines, keys>>
vars   == <<pc, family, result, acts, chld, shell, user>>

ShellPcs   == {"prompt", "wait", "poll", "reap"}
CommandPcs == {"child", "command"}
Endings    == {"0", "1", "SIGINT", "SIGTERM"}

\* The user has started the shell, which does sigint on SIGINT.
StartShell(sigint) ==
    /\ pc     = [p \in Procs |-> IF p = Shell THEN "prompt" ELSE "none"]
    /\ parent = [p \in Procs |-> NoProc]
    /\ bg     = [p \in Procs |-> FALSE]
    /\ result = [p \in Procs |-> "0"]
    /\ int    = [p \in Procs |-> sigint]
    /\ tstp   = [p \in Procs |-> "handler"]
    /\ chld   = [p \in Procs |-> FALSE]
    /\ fgOnly = [p \in Procs |-> FALSE]
    /\ jobs   = [p \in Procs |-> <<>>]
    /\ waits  = [p \in Procs |-> NoProc]
    /\ status = [p \in Procs |-> "0"]
    /\ argument = [p \in Procs |-> "unset"]
    /\ lines = 0 /\ keys = 0

-----------------------------------------------------------------------------
Goto(p, place) == pc' = [pc EXCEPT ![p] = place]

Children(s) == {p \in Procs : parent[p] = s /\ pc[p] # "none"}
Zombies(s)  == {p \in Children(s) : pc[p] = "zombie"}
Alive(s)    == pc[s] \in ShellPcs
Running     == {p \in Procs : pc[p] \in CommandPcs}

\* Every process p of the domain of how ends with how[p], and its parent is
\* told; the others are at place[p].
End(how, place) ==
    /\ pc' = [p \in Procs |-> IF p \notin DOMAIN how THEN place[p]
                              ELSE IF p = Shell THEN "over" ELSE "zombie"]
    /\ result' = [p \in Procs |-> IF p \in DOMAIN how THEN how[p] ELSE result[p]]
    /\ chld' = [s \in Procs |-> chld[s] \/ \E p \in DOMAIN how : parent[p] = s]

\* The shell s ends with how, after it has killed others.
ShellEnds(s, how, killed) ==
    End([p \in killed \cup {s} |-> IF p \in killed THEN "SIGTERM" ELSE how], pc)

\* waitpid() returns p to s.
Reaps(s, p, place) ==
    pc' = [pc EXCEPT ![p] = "none", ![s] = place]

\* s forks p, a copy of s, and goes on at place.  The children of an earlier
\* process p have become those of init.
Forks(s, p, inBg, place) ==
    /\ pc[p] = "none"
    /\ pc' = [pc EXCEPT ![s] = place, ![p] = "child"]
    /\ parent' = [q \in Procs |-> IF q = p THEN s ELSE
                                  IF parent[q] = p THEN NoProc ELSE parent[q]]
    /\ bg' = [bg EXCEPT ![p] = inBg]
    /\ int' = [int EXCEPT ![p] = int[s]] /\ tstp' = [tstp EXCEPT ![p] = tstp[s]]
    /\ chld' = [chld EXCEPT ![p] = FALSE]
    /\ fgOnly' = [fgOnly EXCEPT ![p] = fgOnly[s]]
    /\ jobs' = [jobs EXCEPT ![p] = jobs[s]]
    /\ waits' = [waits EXCEPT ![s] = p, ![p] = NoProc]
    /\ status' = [status EXCEPT ![p] = status[s]]

\* exec() resets what is handled.
AfterExec(action) == IF action = "handler" THEN "default" ELSE action

\* The child p, which has set its actions to sigint and sigtstp, becomes its
\* command.
Execs(p, sigint, sigtstp) ==
    /\ pc[p] = "child"
    /\ Goto(p, "command")
    /\ int' = [int EXCEPT ![p] = AfterExec(sigint)]
    /\ tstp' = [tstp EXCEPT ![p] = AfterExec(sigtstp)]
    /\ UNCHANGED <<family, result, chld, shell, user>>

\* The child p gives up.
ChildFails(p) ==
    /\ pc[p] = "child"
    /\ End([q \in {p} |-> "1"], pc)
    /\ UNCHANGED <<family, acts, shell, user>>

CommandEnds(p) ==
    /\ pc[p] = "command"
    /\ \E how \in {"0", "1"} : End([q \in {p} |-> how], pc)
    /\ UNCHANGED <<family, acts, shell, user>>

\* Nobody is left to wait for the children of a shell that has ended.
InitReaps(p) ==
    /\ pc[p] = "zombie" /\ ~(parent[p] \in Procs /\ Alive(parent[p]))
    /\ Goto(p, "none")
    /\ UNCHANGED <<family, result, acts, chld, shell, user>>

\* A shell at its prompt reads a line.
TypesLine(s) == pc[s] = "prompt" /\ lines < MaxLines /\ lines' = lines + 1 /\ UNCHANGED keys

PressesKey == keys < MaxKeys /\ keys' = keys + 1 /\ UNCHANGED lines

\* The keys; place is where every process is when its handler has returned.
CtrlC(place) ==
    /\ PressesKey
    /\ End([p \in {q \in Running : int[q] = "default"} |-> "SIGINT"], place)
    /\ UNCHANGED <<family, acts, shell>>

Toggled == [p \in Procs |-> IF tstp[p] = "handler" /\ (Alive(p) \/ pc[p] = "child")
                            THEN ~fgOnly[p] ELSE fgOnly[p]]

\* A process that stops raises SIGCHLD, too.
CtrlZ(place) ==
    /\ PressesKey
    /\ LET stops == {p \in Procs : pc[p] = "command" /\ tstp[p] = "default"} IN
       /\ pc' = [p \in Procs |-> IF p \in stops THEN "stopped" ELSE place[p]]
       /\ chld' = [s \in Procs |-> chld[s] \/ \E p \in stops : parent[p] = s]
    /\ fgOnly' = Toggled
    /\ UNCHANGED <<family, result, acts, jobs, waits, status, argument>>

-----------------------------------------------------------------------------
\* Type correctness, and no more job numbers than the array has room for.
TypeOK ==
    /\ pc \in [Procs -> {"none", "stopped", "zombie", "over", "undefined"}
                        \cup CommandPcs \cup ShellPcs]
    /\ parent \in [Procs -> Procs \cup {NoProc}]
    /\ bg \in [Procs -> BOOLEAN] /\ chld \in [Procs -> BOOLEAN] /\ fgOnly \in [Procs -> BOOLEAN]
    /\ result \in [Procs -> Endings] /\ status \in [Procs -> Endings]
    /\ \A p \in Procs : Len(jobs[p]) =< MaxJobs /\ waits[p] \in Procs \cup {NoProc}

\* The foreground children of the shell s are waited for when it is at its
\* prompt.
WaitedFor(s) == pc[s] = "prompt" => \A p \in Children(s) : bg[p]

\* Ctrl-C ends no background job.
Spared(p) == bg[p] /\ pc[p] = "zombie" => result[p] # "SIGINT"

\* No job of s that would have to be ended by SIGTERM outlives s.
JobsEndWith(s) == pc[s] = "over" => \A p \in Children(s) : pc[p] \notin CommandPcs
=============================================================================
