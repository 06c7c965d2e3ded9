-------------------------- MODULE MCAdventureClock --------------------------
(***************************************************************************)
(* The TLC instance of the time commands of three games, one of which is   *)
(* played: AdventureClock is Suh's, JoinedClock the other two.             *)
(***************************************************************************)
EXTENDS JoinedClock

mcVars == <<program, vars>>

MCInit == JoinedInit \/ (program = "suh" /\ Init)

MCNext ==
    \/ program = "suh" /\ Next /\ UNCHANGED program
    \/ program # "suh" /\ JoinedNext

MCSpec == MCInit /\ [][MCNext]_mcVars

\* Both threads run; and Suh's game, which tries again and again while
\* get_time() sleeps between unlock and lock, gets the mutex some day.
MCFairSpec ==
    /\ MCSpec
    /\ WF_mcVars(program = "suh" /\ UNCHANGED program /\ GameStep)
    /\ SF_mcVars(program = "suh" /\ UNCHANGED program /\ Relock)
    /\ WF_mcVars(program = "suh" /\ UNCHANGED program /\ GetTime)
    /\ WF_mcVars(program # "suh" /\ UNCHANGED program /\ (TimeThread \/ Join))
=============================================================================
