------------------------ MODULE AdventureClockProofs ------------------------
(***************************************************************************)
(* The safety of the time commands of three games for every run of the     *)
(* wall clock and every number of games.  In Suh's game, all of it comes   *)
(* from who holds set_mutex: get_time() is inside the file only while the  *)
(* game is inside its usleep().  In the other two it comes from the join:  *)
(* there is a thread only while the game waits for it.                     *)
(***************************************************************************)
EXTENDS MCAdventureClock, TLAPS

InsideFile == {"time", "open", "close", "unlock"}

\* The game holds set_mutex whenever it does not sleep, and the thread exists
\* as long as the game is played.
MutexInv ==
    /\ set_mutex = "game" <=> game # "waiting"
    /\ set_mutex = "clock" <=> clock \in InsideFile
    /\ game \in {"loading", "over", "crashed"} => clock = "none"

\* An emptied file is being filled, or a killed game left it.
FileInv == file = Empty => clock = "close" \/ torn

\* What get_time() writes after the question is no older than the question.
FreshInv ==
    /\ asked =< now
    /\ clock \in {"open", "close", "unlock"} => MY_TIME \in asked .. now
    /\ turn /\ clock # "close" /\ game \in {"waiting", "open"} =>
          file \in asked .. now

IInv == TypeOK /\ MutexInv /\ FileInv /\ FreshInv

\* A first game starts with the mutex and a file nobody is writing.
LEMMA InitInv == Init => IInv
<1>1. Init => FlagsOK
  BY Zenon DEF Init, FlagsOK
<1> QED
  BY <1>1, TimeAssumption, SessionAssumption
  DEF Init, IInv, TypeOK, MutexInv, FileInv, FreshInv, InsideFile, Times, Absent,
      Empty

\* No step makes a flag anything but TRUE or FALSE.
LEMMA FlagsStep ==
    ASSUME FlagsOK, Next PROVE FlagsOK'
BY Zenon
DEF FlagsOK, Next, GameStep, Player, GetTime, CreateThread, Relock, ReadTime,
    TypeName, FindEndRoom, TypeTime, Kill, PlayAgain, ClockLock, ClockTime,
    ClockOpen, ClockClose, ClockUnlock, Tick, NoMoreGames, vars, history

\* Every step of game, get_time(), player and clock keeps the invariant.
LEMMA StepInv == IInv /\ [Next]_vars => IInv'
<1> SUFFICES ASSUME IInv, [Next]_vars PROVE IInv'
  OBVIOUS
<1>0. FlagsOK'
  BY FlagsStep, Zenon DEF IInv, TypeOK, FlagsOK, vars, history
<1> USE <1>0, TimeAssumption, SessionAssumption
    DEF IInv, TypeOK, MutexInv, FileInv, FreshInv, InsideFile, Times, Absent,
        Empty, history
<1>1. CASE CreateThread
  BY <1>1 DEF CreateThread
<1>2. CASE Relock
  BY <1>2 DEF Relock
<1>3. CASE ReadTime
  BY <1>3 DEF ReadTime
<1>4. CASE TypeName
  BY <1>4 DEF TypeName
<1>5. CASE FindEndRoom
  BY <1>5 DEF FindEndRoom
<1>6. CASE TypeTime
  BY <1>6 DEF TypeTime
<1>7. CASE Kill
  BY <1>7 DEF Kill
<1>8. CASE PlayAgain
  BY <1>8 DEF PlayAgain
<1>9. CASE ClockLock
  BY <1>9 DEF ClockLock
<1>10. CASE ClockTime
  BY <1>10 DEF ClockTime
<1>11. CASE ClockOpen
  BY <1>11 DEF ClockOpen
<1>12. CASE ClockClose
  BY <1>12 DEF ClockClose
<1>13. CASE ClockUnlock
  BY <1>13 DEF ClockUnlock
<1>14. CASE Tick
  BY <1>14 DEF Tick
<1>15. CASE NoMoreGames \/ UNCHANGED vars
  BY <1>15 DEF NoMoreGames, vars
<1> QED
  BY <1>1, <1>2, <1>3, <1>4, <1>5, <1>6, <1>7, <1>8, <1>9, <1>10, <1>11,
     <1>12, <1>13, <1>14, <1>15 DEF Next, GameStep, Player, GetTime

\* The invariant holds in every reachable state.
THEOREM Invariance == Spec => []IInv
BY InitInv, StepInv, PTL DEF Spec

\* Every variable has its type.
THEOREM TypeCorrect == Spec => []TypeOK
<1>1. IInv => TypeOK
  BY DEF IInv
<1> QED
  BY <1>1, Invariance, PTL

\* No game ends in the END_ROOM with get_time() inside the file, so the next
\* one finds no emptied file that a kill does not explain.
THEOREM FileLeftWhole == Spec => []FileWholeBetweenGames
<1>1. IInv => FileWholeBetweenGames
  BY DEF IInv, MutexInv, FileInv, FileWholeBetweenGames
<1> QED
  BY <1>1, Invariance, PTL

\* Only ReadTime goes on from "open", and it shows the file.
LEMMA OnlyReadTimeShows ==
    ASSUME IInv, Next, game = "open", game' \in {"again", "prompt"}
    PROVE  ReadTime /\ shown' = file /\ now' = now
BY DEF Next, GameStep, Player, GetTime, CreateThread, Relock, ReadTime,
       TypeName, FindEndRoom, TypeTime, Kill, PlayAgain, ClockLock, ClockTime,
       ClockOpen, ClockClose, ClockUnlock, Tick, NoMoreGames, vars

\* A time command never reads what get_time() has emptied and not yet filled.
THEOREM NeverReadsHalf == Spec => GarbageOnlyAfterKill
<1>1. IInv /\ [Next]_vars =>
        [game = "open" /\ game' \in {"again", "prompt"} /\ shown' = Empty => torn]_vars
  BY OnlyReadTimeShows DEF IInv, MutexInv, FileInv, InsideFile
<1> QED
  BY <1>1, Invariance, PTL DEF Spec, GarbageOnlyAfterKill

\* If get_time() had its turn, the answer is no older than the question.
THEOREM AnswersAreFresh == Spec => FreshAfterItsTurn
<1>1. IInv /\ [Next]_vars =>
        [game = "open" /\ game' \in {"again", "prompt"} /\ turn =>
            shown' \in asked .. now]_vars
  BY OnlyReadTimeShows DEF IInv, MutexInv, FreshInv, InsideFile
<1> QED
  BY <1>1, Invariance, PTL DEF Spec, FreshAfterItsTurn
-----------------------------------------------------------------------------
(***************************************************************************)
(* The games that join their thread.                                       *)
(***************************************************************************)

\* A thread exists only while the game waits for it; once it is done, the
\* file holds a time that is no older than the question.
JoinInv ==
    /\ game \notin {"again", "crashed"}
    /\ clock # "none" => game = "waiting"
    /\ asked =< now
    /\ clock = "close" => MY_TIME \in asked .. now
    /\ game = "open" \/ (game = "waiting" /\ clock \in {"none", "unlock"}) =>
          turn /\ file \in asked .. now
    /\ file = Empty => clock \in {"time", "close"} \/ torn

JoinedInv == TypeOK /\ JoinInv

\* What holds of all three games.
MCInv ==
    /\ program = "suh" => IInv
    /\ program # "suh" => JoinedInv

\* A first game has no thread, and a file nobody is writing.
LEMMA JoinedInitInv == JoinedInit => JoinedInv
<1>1. Init => TypeOK
  BY InitInv DEF IInv
<1> QED
  BY <1>1, TimeAssumption
  DEF JoinedInit, Init, JoinedInv, JoinInv, Times, Absent, Empty

\* No step makes a flag anything but TRUE or FALSE.
LEMMA JoinedFlagsStep ==
    ASSUME FlagsOK, JoinedNext PROVE FlagsOK'
BY Zenon
DEF FlagsOK, JoinedNext, StartPlaying, EnterRoom, TypeName, VictoryOrKill,
    CreateTimeThread, TimeThread, LockTime, OpenTimeFile, AskTime,
    CloseTimeFile, UnlockTime, Join, ReadTimeFile, PlayAgain, Tick,
    NoMoreGames, vars, history

\* Every step of a game that joins its thread keeps the invariant.
LEMMA JoinedStepInv == JoinedInv /\ [JoinedNext]_mcVars => JoinedInv'
<1> SUFFICES ASSUME JoinedInv, [JoinedNext]_mcVars PROVE JoinedInv'
  OBVIOUS
<1>0. FlagsOK'
  BY JoinedFlagsStep, Zenon DEF JoinedInv, TypeOK, FlagsOK, mcVars, vars, history
<1> USE <1>0, TimeAssumption, SessionAssumption
    DEF JoinedInv, TypeOK, JoinInv, Times, Absent, Empty, history
<1>1. CASE StartPlaying
  BY <1>1 DEF StartPlaying
<1>2. CASE EnterRoom
  BY <1>2 DEF EnterRoom, TypeName
<1>3. CASE VictoryOrKill
  BY <1>3 DEF VictoryOrKill
<1>4. CASE CreateTimeThread
  BY <1>4 DEF CreateTimeThread
<1>5. CASE LockTime
  BY <1>5 DEF LockTime
<1>6. CASE OpenTimeFile
  BY <1>6 DEF OpenTimeFile
<1>7. CASE AskTime
  BY <1>7 DEF AskTime
<1>8. CASE CloseTimeFile
  BY <1>8 DEF CloseTimeFile
<1>9. CASE UnlockTime
  BY <1>9 DEF UnlockTime
<1>10. CASE Join
  BY <1>10 DEF Join
<1>11. CASE ReadTimeFile
  BY <1>11 DEF ReadTimeFile
<1>12. CASE PlayAgain
  BY <1>12 DEF PlayAgain
<1>13. CASE Tick
  BY <1>13 DEF Tick
<1>14. CASE NoMoreGames \/ UNCHANGED mcVars
  BY <1>14 DEF NoMoreGames, mcVars, vars
<1> QED
  BY <1>1, <1>2, <1>3, <1>4, <1>5, <1>6, <1>7, <1>8, <1>9, <1>10, <1>11,
     <1>12, <1>13, <1>14 DEF JoinedNext, TimeThread

\* A game keeps its program, and takes its steps.
LEMMA StepsOf ==
    ASSUME [MCNext]_mcVars
    PROVE  /\ program' = program
           /\ program = "suh" => [Next]_vars
           /\ program # "suh" => [JoinedNext]_mcVars
BY DEF MCNext, JoinedNext, mcVars

\* Whichever game is played, its invariant holds in every reachable state.
THEOREM MCInvariance == MCSpec => []MCInv
<1>1. MCInit => MCInv
  BY InitInv, JoinedInitInv DEF MCInit, JoinedInit, MCInv
<1>2. MCInv /\ [MCNext]_mcVars => MCInv'
  BY StepsOf, StepInv, JoinedStepInv DEF MCInv
<1> QED
  BY <1>1, <1>2, PTL DEF MCSpec

\* Every variable has its type, in all three games.
THEOREM AllTypesCorrect == MCSpec => []TypeOK
<1>1. MCInv => TypeOK
  BY DEF MCInv, IInv, JoinedInv
<1> QED
  BY <1>1, MCInvariance, PTL

\* A game that has joined its thread reads what was written after the
\* question, whoever takes the mutex.
THEOREM JoinedReadsAfterWrite == MCSpec => []ReadAfterWrite
<1>1. MCInv => ReadAfterWrite
  BY DEF MCInv, JoinedInv, JoinInv, ReadAfterWrite
<1> QED
  BY <1>1, MCInvariance, PTL

\* Only ReadTimeFile goes on from "open", and it shows the file.
LEMMA OnlyReadTimeFileShows ==
    ASSUME JoinedInv, JoinedNext, game = "open", game' \in {"again", "prompt"}
    PROVE  shown' = file /\ now' = now
BY DEF JoinedInv, JoinInv, JoinedNext, StartPlaying, EnterRoom, TypeName,
       VictoryOrKill, CreateTimeThread, TimeThread, LockTime, OpenTimeFile,
       AskTime, CloseTimeFile, UnlockTime, Join, ReadTimeFile, PlayAgain, Tick,
       NoMoreGames, vars

\* What a time command of any of the three games reads: nothing emptied but by
\* a kill, and nothing older than the question if the thread had its turn.
LEMMA WhatIsShown ==
    ASSUME MCInv, [MCNext]_mcVars, game = "open", game' \in {"again", "prompt"}
    PROVE  /\ shown' = Empty => torn
           /\ turn => shown' \in asked .. now
<1>1. CASE program = "suh"
  <2>1. IInv /\ Next
    BY <1>1, StepsOf DEF MCInv, vars
  <2> QED
    BY <2>1, OnlyReadTimeShows
    DEF IInv, MutexInv, FileInv, FreshInv, InsideFile
<1>2. CASE program # "suh"
  <2>1. JoinedInv /\ JoinedNext
    BY <1>2, StepsOf DEF MCInv, mcVars, vars
  <2>2. shown' = file
    BY <2>1, OnlyReadTimeFileShows
  <2>3. clock = "none" /\ (file = Empty => torn) /\ file \in asked .. now
    BY <2>1 DEF JoinedInv, JoinInv
  <2> QED
    BY <2>2, <2>3
<1> QED
  BY <1>1, <1>2

\* No time command of any of the three games reads a file that is emptied and
\* not yet filled, unless a kill has left it so.
THEOREM NoneReadsHalf == MCSpec => GarbageOnlyAfterKill
<1>1. MCInv /\ [MCNext]_mcVars =>
        [game = "open" /\ game' \in {"again", "prompt"} /\ shown' = Empty => torn]_vars
  BY WhatIsShown
<1> QED
  BY <1>1, MCInvariance, PTL DEF MCSpec, GarbageOnlyAfterKill

\* Once the thread had its turn, the answer of any of the three games is no
\* older than the question.
THEOREM AllAnswersAreFresh == MCSpec => FreshAfterItsTurn
<1>1. MCInv /\ [MCNext]_mcVars =>
        [game = "open" /\ game' \in {"again", "prompt"} /\ turn =>
            shown' \in asked .. now]_vars
  BY WhatIsShown
<1> QED
  BY <1>1, MCInvariance, PTL DEF MCSpec, FreshAfterItsTurn
=============================================================================
