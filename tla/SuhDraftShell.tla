--------------------------- MODULE SuhDraftShell ---------------------------
(***************************************************************************)
(* CS344 project 3/smallsh.c, the draft that smallsh.final.c was made      *)
(* from: a command may be stopped, one that is not found ends its process, *)
(* and exit leaves the loop without killing anything.                      *)
(***************************************************************************)
EXTENDS SuhShell

\* A blank line, "#", cd and status.
DraftNoCommand(s) ==
    /\ TypesLine(s)
    /\ UNCHANGED <<pc, family, result, acts, chld, shell>>

\* fgets() leaves the buffer, which is not initialised, at the end of the input.
DraftEndOfInput(s) ==
    /\ TypesLine(s)
    /\ \E place \in {"prompt", "undefined"} : Goto(s, place)
    /\ UNCHANGED <<family, result, acts, chld, shell>>

\* Kill_Process(0) kills nothing; the loop ends.
DraftExit(s) ==
    /\ TypesLine(s)
    /\ ShellEnds(s, "0", {})
    /\ UNCHANGED <<family, acts, shell>>

\* Only a background child ignores SIGINT, none SIGTSTP.
DraftChildExecs(p) == Execs(p, IF bg[p] THEN "ignore" ELSE int[p], tstp[p])

\* Mutant: the child goes on in the loop of the shell.
DraftChildGoesOn(p) ==
    /\ pc[p] = "child"
    /\ Goto(p, "prompt")
    /\ UNCHANGED <<family, result, acts, chld, shell, user>>

\* A redirection or execvp() fails: exit(1), exit(-1).
DraftChildEnds(p) == ChildFails(p)

DraftLine(s) ==
    \/ DraftNoCommand(s) \/ DraftEndOfInput(s) \/ DraftExit(s) \/ ForkFails(s)
    \/ \E p \in Procs, ampersand \in BOOLEAN : Command(s, p, ampersand)

DraftNext ==
    \/ \E s \in Procs : DraftLine(s) \/ Step(s)
    \/ \E p \in Procs : DraftChildExecs(p) \/ DraftChildEnds(p) \/ CommandEnds(p) \/ InitReaps(p)
    \/ CtrlC(pc) \/ CtrlZ(pc)
=============================================================================
