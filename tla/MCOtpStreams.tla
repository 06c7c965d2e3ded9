---------------------------- MODULE MCOtpStreams ---------------------------
(***************************************************************************)
(* The four otp implementations that read their sockets with bare recv()   *)
(* calls, each with a client of either kind at a daemon of either kind:    *)
(* texts of none to five letters, parts of five bytes, every way to cut    *)
(* the streams.                                                            *)
(***************************************************************************)
EXTENDS OtpWire

VARIABLE program   \* whose programs run

MCTexts == {<<>>, <<2>>, <<26, 2>>, <<7, 0, 13, 1, 26>>, <<1, Bad>>, <<0, Lower>>}
MCKeys  == {<<2>>, <<4, 26, 2, 9, 11>>, <<3, Star, Bad>>, <<Star, 5, 1>>}

\* The number of characters that fprintf() has written, and its failure.
MCUnreturned == {39, -1}

Rico      == INSTANCE RicoOtp
Prog4     == INSTANCE Prog4Otp
Dougherty == INSTANCE DoughertyOtp

MCInit == WireInit /\ program \in {"rico", "prog4", "dougherty", "suh"}

MCNext ==
    /\ \/ program = "rico" /\ Rico!RicoNext
       \/ program = "prog4" /\ Prog4!Prog4Next
       \/ program = "dougherty" /\ Dougherty!DoughertyNext
       \/ program = "suh" /\ Dougherty!SuhNext
    /\ UNCHANGED program

\* A process goes on whenever it can.
Fairness ==
    /\ WF_vars(program = "rico" /\ Rico!RicoClientNext)
    /\ WF_vars(program = "rico" /\ Rico!RicoChildNext)

MCSpec == MCInit /\ [][MCNext]_<<vars, program>> /\ Fairness

-----------------------------------------------------------------------------
\* Both have a letter at i.
Enciphers(i) == {text[i], key[i]} \subseteq Letters

\* The answer has the letters that it should have; it may end early only in a
\* byte that iToC() has found before its array.
LettersRight(answer) ==
    /\ Len(answer) =< Len(text)
    /\ \A i \in DOMAIN answer : Enciphers(i) => RightAt(answer, i)
    /\ kind = "dec" \/ (\A i \in DOMAIN text : Enciphers(i)) => Len(answer) = Len(text)

\* What Rico's client prints is its text, enciphered or deciphered, however the
\* two strings are cut on their way.  A character that is accepted and has no
\* number costs its own place in the answer and no other, or all that follow
\* when the place becomes a NUL (otp_enc.c:73-109, otp_enc_d.c:156-202).  With
\* no text, or a key that begins with a star, strtok_r() takes other strings.
RicoAnswerRight ==
    (program = "rico" /\ c.at = "done" /\ text # <<>> /\ key[1] # Star) => LettersRight(c.answer)

\* Rico's daemon answers a client with files that can be served; or the client
\* is killed (otp_enc_d.c:112-203).
RicoAnswers ==
    (program = "rico" /\ c.at = "auth" /\ kind = daemon /\ text # <<>> /\ ~Rico!FilesRefused)
      ~> c.at \in {"done", "killed"}

\* What the client of program 4 prints is wrong only if some recv() returned
\* less than it asked for (otp_enc_d.c:111-134, otp_enc.c:168).
Prog4WrongOnlyIfSplit ==
    (program = "prog4" /\ c.at = "done" /\ ~split) => IsAnswer(c.answer)

\* Dougherty's and Suh's client and child wait for each other only if the loop
\* that receives the text has taken bytes of the key (otp_enc_d.c:104-124).
WaitOnlyAfterOverread ==
    (/\ program \in {"dougherty", "suh"}
     /\ c.at = "answer" /\ down = <<>> /\ d.at \in {"text", "key"}
     /\ d.count < d.size /\ up = <<>>)
      => d.taken > 1 + Len(Dougherty!SendFile(Append(text, Nl), Len(text)))

\* A key that arrives in parts is whole when the loop is left (OSU-CS344_Prog4,
\* otp_enc_d.c:128-134).
KeyWhole == (program = "prog4" /\ d.at = "key" /\ d.count >= d.size) => d.pad = key
=============================================================================
