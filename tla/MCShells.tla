------------------------------ MODULE MCShells ------------------------------
(***************************************************************************)
(* The four shells, each from its own initial states.                      *)
(***************************************************************************)
EXTENDS ShellWorld

CONSTANTS p0, p1, p2, none

VARIABLE program   \* which shell runs

MCProcs == {p0, p1, p2}

Final     == INSTANCE SuhShell
Draft     == INSTANCE SuhDraftShell
Dougherty == INSTANCE DoughertyShell
Rico      == INSTANCE RicoShell

MCInit ==
    \/ program = "final" /\ Final!SuhInit
    \/ program = "draft" /\ Draft!SuhInit
    \/ program = "dougherty" /\ Dougherty!DoughertyInit
    \/ program = "rico" /\ Rico!RicoInit

MCNext ==
    /\ \/ program = "final" /\ Final!SuhNext
       \/ program = "draft" /\ Draft!DraftNext
       \/ program = "dougherty" /\ Dougherty!DoughertyNext
       \/ program = "rico" /\ Rico!RicoNext
    /\ UNCHANGED program

\* A system call that can return does, a child goes on, and commands end.
Fairness ==
    /\ WF_vars(program = "final" /\ \E s \in Procs : Final!Step(s))
    /\ \A p \in Procs : /\ WF_vars(program = "final" /\ Final!ChildExecs(p))
                        /\ WF_vars(CommandEnds(p))

MCSpec     == MCInit /\ [][MCNext]_<<vars, program>>
MCFairSpec == MCSpec /\ Fairness

\* A shell that comes back to its prompt has waited for its foreground child
\* (smallsh.final.c:269, dougherm: smallsh.c:455).  Rico's does not, when a key
\* ends the waitpid().
PromptMeansReaped == program # "rico" => \A s \in Procs : WaitedFor(s)

\* Suh's and Dougherty's background jobs survive Ctrl-C, whenever it is
\* pressed between fork() and exec() (smallsh.final.c:247-251).
CtrlCSparesJobs == program # "rico" => \A p \in Procs : Spared(p)

\* Dougherty's exit, and its failed fork(), leave no running job behind
\* (killBackground()), though the array holds numbers that are in use again.
ExitTermsJobs == program = "dougherty" => JobsEndWith(Shell)

\* The process that the user started is the only one that reads lines, except
\* in smallsh.final.c, whose children return from Command_Handler().
OneReader == program # "final" => \A p \in Procs \ {Shell} : ~Alive(p)

\* The final shell comes back from waiting for a command that Ctrl-Z cannot
\* stop (smallsh.final.c:253-255).
WaitEnds ==
    (program = "final" /\ pc[Shell] = "wait" /\ pc[waits[Shell]] = "command")
        ~> (pc[Shell] # "wait")
=============================================================================
