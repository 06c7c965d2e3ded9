---------------------------- MODULE JoinedClock ----------------------------
(***************************************************************************)
(* The time commands of luuph.adventure.c and dougherm.adventure.c: every  *)
(* command creates a thread that writes currentTime.txt, joins it and then *)
(* reads the file.  Luu's thread takes the mutex, in Dougherty's program   *)
(* the game holds it for the thread.  The state is that of AdventureClock, *)
(* whose set_mutex stands for time_mutex and timeMutex.                    *)
(***************************************************************************)
EXTENDS AdventureClock

VARIABLE program    \* whose game is played

JoinedInit == program \in {"luu", "dougherty"} /\ Init

\* No thread is created before there is a time command.
StartPlaying ==
    /\ game = "loading"
    /\ game' = "prompt" /\ set_mutex' = "free"
    /\ UNCHANGED <<clock, file, MY_TIME, shown, history, now, torn, sessions>>

\* A room that is reached, or a name that is not understood.
EnterRoom == TypeName

VictoryOrKill ==
    /\ game \notin {"over", "crashed"}
    /\ game' = "over" /\ clock' = "none" /\ set_mutex' = "game"
    /\ torn' = (torn \/ file = Empty)
    /\ UNCHANGED <<file, MY_TIME, shown, history, now, sessions>>

\* "time" is typed: pthread_create(), in Dougherty's createNewThread() with
\* the mutex taken first.
CreateTimeThread ==
    /\ game = "prompt"
    /\ game' = "waiting" /\ asked' = now /\ turn' = FALSE
    /\ IF program = "luu"
       THEN clock' = "lock" /\ UNCHANGED set_mutex
       ELSE clock' = "open" /\ set_mutex' = "game"
    /\ UNCHANGED <<file, MY_TIME, shown, now, torn, sessions>>

\* MainTimeThread() locks; nobody else ever does.
LockTime ==
    /\ clock = "lock" /\ set_mutex = "free"
    /\ clock' = "open" /\ set_mutex' = "clock"
    /\ UNCHANGED <<game, file, MY_TIME, shown, history, now, torn, sessions>>

\* PrintTimeToFile(), getTimeFile(): the file is opened before the clock is
\* asked.
OpenTimeFile ==
    /\ clock = "open"
    /\ clock' = "time" /\ file' = Empty
    /\ UNCHANGED <<game, set_mutex, MY_TIME, shown, history, now, torn, sessions>>

AskTime ==
    /\ clock = "time"
    /\ clock' = "close" /\ MY_TIME' = now
    /\ UNCHANGED <<game, set_mutex, file, shown, history, now, torn, sessions>>

CloseTimeFile ==
    /\ clock = "close"
    /\ clock' = IF program = "luu" THEN "unlock" ELSE "none"
    /\ file' = MY_TIME /\ turn' = TRUE /\ torn' = FALSE
    /\ UNCHANGED <<game, set_mutex, MY_TIME, shown, asked, now, sessions>>

UnlockTime ==
    /\ clock = "unlock"
    /\ clock' = "none" /\ set_mutex' = "free"
    /\ UNCHANGED <<game, file, MY_TIME, shown, history, now, torn, sessions>>

\* Mutant: the thread is not waited for.
JoinAtOnce ==
    /\ game = "waiting"
    /\ game' = "open" /\ set_mutex' = "free"
    /\ UNCHANGED <<clock, file, MY_TIME, shown, history, now, torn, sessions>>

\* pthread_join(); Dougherty's game unlocks after it.
Join ==
    /\ game = "waiting" /\ clock = "none"
    /\ game' = "open" /\ set_mutex' = "free"
    /\ UNCHANGED <<clock, file, MY_TIME, shown, history, now, torn, sessions>>

\* GetTimeFromFile(), printTime().
ReadTimeFile ==
    /\ game = "open"
    /\ game' = "prompt" /\ shown' = file
    /\ UNCHANGED <<clock, set_mutex, file, MY_TIME, history, now, torn, sessions>>

TimeThread == LockTime \/ OpenTimeFile \/ AskTime \/ CloseTimeFile \/ UnlockTime

JoinedNext ==
    /\ \/ StartPlaying \/ EnterRoom \/ VictoryOrKill \/ CreateTimeThread
       \/ TimeThread \/ Join \/ ReadTimeFile
       \/ PlayAgain \/ Tick \/ NoMoreGames
    /\ UNCHANGED program

-----------------------------------------------------------------------------
\* What the join is for: a game that waits for its thread reads what was
\* written after the question, whoever takes the mutex.
ReadAfterWrite == program # "suh" /\ game = "open" => turn /\ file \in asked .. now
=============================================================================
