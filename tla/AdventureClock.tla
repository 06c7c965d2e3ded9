--------------------------- MODULE AdventureClock ---------------------------
(***************************************************************************)
(* The time command of suhho.adventure.c: the game (the main thread) and   *)
(* get_time() (a second thread) share currentTime.txt in the newest room   *)
(* directory.  set_mutex is held by the game all the time but for a short  *)
(* sleep, in which get_time() may write the file.  The file outlives the   *)
(* game, which the user may kill and play again.                           *)
(*                                                                         *)
(* What the player types is a move, a name that is no connection, or       *)
(* "time"; how the moves get to the END_ROOM is left out.  The clock on    *)
(* the wall, the file system and the mutex are external.                   *)
(***************************************************************************)
EXTENDS Integers

CONSTANTS MaxTime,       \* bound: how far the wall clock runs
          MaxSessions    \* bound: how often the game is played

ASSUME TimeAssumption    == MaxTime \in Nat
ASSUME SessionAssumption == MaxSessions \in Nat \ {0}

VARIABLES
    game,        \* where the main thread is
    clock,       \* where get_time() is
    set_mutex,   \* who holds it
    file,        \* currentTime.txt: absent, emptied, or the time it holds
    MY_TIME,     \* what get_time() is about to write
    shown,       \* history: what the last time command printed
    asked,       \* history: when the last time command was typed
    turn,        \* history: get_time() has written the file since
    now,         \* the wall clock
    torn,        \* history: a killed session has left the file emptied
    sessions     \* history: games started so far

history == <<asked, turn>>
vars == <<game, clock, set_mutex, file, MY_TIME, shown, history, now, torn,
          sessions>>

Times  == 0 .. MaxTime
Absent == -1    \* no such file, nothing shown
Empty  == -2    \* an emptied file, and the garbage read from it

\* currentTime.txt may be left from any earlier day.
Init ==
    /\ game = "loading" /\ clock = "none"
    /\ set_mutex = "game"
    /\ file \in {Absent, 0}
    /\ MY_TIME = 0 /\ shown = Absent /\ now = 0
    /\ asked = 0 /\ turn = FALSE /\ torn = FALSE /\ sessions = 1

-----------------------------------------------------------------------------
(* The main thread: main() and start_game(). *)

\* The rooms have been read and the thread is created.
CreateThread ==
    /\ game = "loading"
    /\ game' = "prompt" /\ clock' = "lock"
    /\ UNCHANGED <<set_mutex, file, MY_TIME, shown, history, now,
                   torn, sessions>>

\* A move or a name that start_game() does not understand: it calls itself.
\* Typed after a time command, "time" is such a name, too.
TypeName ==
    /\ game \in {"prompt", "again"}
    /\ game' = "prompt"
    /\ UNCHANGED <<clock, set_mutex, file, MY_TIME, shown, history, now,
                   torn, sessions>>

\* A move to the END_ROOM: exit(0) ends both threads.
FindEndRoom ==
    /\ game \in {"prompt", "again"}
    /\ game' = "over" /\ clock' = "none" /\ set_mutex' = "game"
    /\ UNCHANGED <<file, MY_TIME, shown, history, now,
                   torn, sessions>>

TypeTime ==
    /\ game = "prompt"
    /\ game' = "waiting" /\ set_mutex' = "free"
    /\ asked' = now /\ turn' = FALSE
    /\ UNCHANGED <<clock, file, MY_TIME, shown, now, torn, sessions>>

\* Mutant: the file is read without the mutex.
RelockMissing ==
    /\ game = "waiting"
    /\ game' = "open"
    /\ UNCHANGED <<clock, set_mutex, file, MY_TIME, shown, history, now,
                   torn, sessions>>

\* After the sleep, whether get_time() had its turn or not.
Relock ==
    /\ game = "waiting" /\ set_mutex = "free"
    /\ game' = "open" /\ set_mutex' = "game"
    /\ UNCHANGED <<clock, file, MY_TIME, shown, history, now,
                   torn, sessions>>

\* fopen(.., "r") and the fscanf() after it, which cannot do without a file
\* and leaves the buffers as they are if it is empty.
ReadTime ==
    /\ game = "open"
    /\ IF file = Absent
       THEN game' = "crashed" /\ clock' = "none" /\ UNCHANGED shown
       ELSE game' = "again" /\ shown' = file /\ UNCHANGED clock
    /\ UNCHANGED <<set_mutex, file, MY_TIME, history, now, torn, sessions>>

-----------------------------------------------------------------------------
(* get_time(). *)

ClockLock ==
    /\ clock = "lock" /\ set_mutex = "free"
    /\ clock' = "time" /\ set_mutex' = "clock"
    /\ UNCHANGED <<game, file, MY_TIME, shown, history, now,
                   torn, sessions>>

\* Mutant: the time is one ahead.
ClockTimeAhead ==
    /\ clock = "time"
    /\ MY_TIME' = now + 1
    /\ clock' = "open"
    /\ UNCHANGED <<game, set_mutex, file, shown, history, now, torn, sessions>>

\* Mutant: the time is asked for before the loop only.
ClockTimeOnce ==
    /\ clock = "time"
    /\ MY_TIME' = IF MY_TIME = 0 THEN now ELSE MY_TIME
    /\ clock' = "open"
    /\ UNCHANGED <<game, set_mutex, file, shown, history, now, torn, sessions>>

\* time(), localtime(), strftime().
ClockTime ==
    /\ clock = "time"
    /\ MY_TIME' = now
    /\ clock' = "open"
    /\ UNCHANGED <<game, set_mutex, file, shown, history, now,
                   torn, sessions>>

\* fopen(.., "w").
ClockOpen ==
    /\ clock = "open"
    /\ file' = Empty
    /\ clock' = "close"
    /\ UNCHANGED <<game, set_mutex, MY_TIME, shown, history, now,
                   torn, sessions>>

\* fprintf() fills the buffer, fclose() writes it.
ClockClose ==
    /\ clock = "close"
    /\ file' = MY_TIME
    /\ clock' = "unlock"
    /\ turn' = TRUE /\ torn' = FALSE
    /\ UNCHANGED <<game, set_mutex, MY_TIME, shown, asked, now, sessions>>

\* Mutant: the unlock is forgotten.
ClockKeepsLock ==
    /\ clock = "unlock"
    /\ clock' = "lock"
    /\ UNCHANGED <<game, set_mutex, file, MY_TIME, shown, history, now,
                   torn, sessions>>

ClockUnlock ==
    /\ clock = "unlock"
    /\ clock' = "lock" /\ set_mutex' = "free"
    /\ UNCHANGED <<game, file, MY_TIME, shown, history, now,
                   torn, sessions>>

-----------------------------------------------------------------------------
(* The world. *)

Tick ==
    /\ now < MaxTime
    /\ now' = now + 1
    /\ UNCHANGED <<game, clock, set_mutex, file, MY_TIME, shown, history,
                   torn, sessions>>

\* Ctrl-C.  What get_time() has not yet written is lost.
Kill ==
    /\ game \notin {"over", "crashed"}
    /\ game' = "over" /\ clock' = "none" /\ set_mutex' = "game"
    /\ torn' = (torn \/ file = Empty)
    /\ UNCHANGED <<file, MY_TIME, shown, history, now, sessions>>

\* The game is played again, in the same room directory or in a new one.
PlayAgain ==
    /\ game \in {"over", "crashed"} /\ sessions < MaxSessions
    /\ game' = "loading" /\ set_mutex' = "game"
    /\ sessions' = sessions + 1
    /\ \/ UNCHANGED <<file, torn>>
       \/ file' = Absent /\ torn' = FALSE
    /\ UNCHANGED <<clock, MY_TIME, shown, history, now>>

NoMoreGames ==
    /\ game \in {"over", "crashed"} /\ sessions = MaxSessions /\ now = MaxTime
    /\ UNCHANGED vars

GameStep == CreateThread \/ Relock \/ ReadTime
Player   == TypeName \/ FindEndRoom \/ TypeTime \/ Kill \/ PlayAgain
GetTime  == ClockLock \/ ClockTime \/ ClockOpen \/ ClockClose \/ ClockUnlock

Next == GameStep \/ Player \/ GetTime \/ Tick \/ NoMoreGames

Spec == Init /\ [][Next]_vars

\* Both threads run; and the game, which tries again and again while
\* get_time() sleeps between unlock and lock, gets the mutex some day.
FairSpec == Spec /\ WF_vars(GameStep) /\ SF_vars(Relock) /\ WF_vars(GetTime)

-----------------------------------------------------------------------------
FlagsOK == turn \in BOOLEAN /\ torn \in BOOLEAN

\* Every variable has its type.
TypeOK ==
    /\ game \in {"loading", "prompt", "waiting", "open", "again", "over",
                 "crashed"}
    /\ clock \in {"none", "lock", "time", "open", "close", "unlock"}
    /\ set_mutex \in {"free", "game", "clock"}
    /\ {file, shown} \subseteq {Absent, Empty} \cup Times
    /\ MY_TIME \in Times
    /\ asked \in Times /\ now \in Times
    /\ FlagsOK
    /\ sessions \in 1 .. MaxSessions

\* A time command never catches get_time() between emptying the file and
\* filling it: it prints garbage only from a file a killed game left behind.
GarbageOnlyAfterKill ==
    [][game = "open" /\ game' \in {"again", "prompt"} /\ shown' = Empty => torn]_vars

\* The game ends in the END_ROOM only with get_time() outside the file, so
\* the next game in this directory finds no emptied one.
FileWholeBetweenGames ==
    game \in {"loading", "over", "crashed"} /\ file = Empty => torn

\* If get_time() has written the file since "time" was typed, what the game
\* prints is no older than the question, and never lies in the future.
FreshAfterItsTurn ==
    [][game = "open" /\ game' \in {"again", "prompt"} /\ turn => shown' \in asked .. now]_vars

\* A time command comes to an end, though get_time() competes for the mutex.
TimeCommandEnds == game = "waiting" ~> game # "waiting"

=============================================================================
