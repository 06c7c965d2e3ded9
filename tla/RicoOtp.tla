------------------------------ MODULE RicoOtp ------------------------------
(***************************************************************************)
(* otp_enc.c and otp_dec.c with otp_enc_d.c and otp_dec_d.c of CS344-      *)
(* ans1/otp.  The client shows a token, then sends its files as one string *)
(* "text*key" behind the string's length; the answer comes back behind its *)
(* length.  Both sides count what they receive against that length.        *)
(***************************************************************************)
EXTENDS OtpWire

(* The ciphers. *)

\* The remainder in C has the sign of the dividend.
Remainder(a, b) == IF a >= 0 THEN a % b ELSE -((-a) % b)

\* The numbers that cToI() finds for the bytes of a string: it says so when a
\* byte is no letter, but ends without a return.
cToI(string) ==
    {[i \in DOMAIN string |-> IF string[i] \in Letters THEN string[i] ELSE left[i]] :
        left \in [{i \in DOMAIN string : string[i] \notin Letters} -> Unreturned]}

\* For a negative number iToC() takes what is in memory before its array.
iToC(n, before) == IF n >= 0 THEN n ELSE before

\* The bytes of the key at n places.  Behind its end its array is empty.
KeyBytes(pad, n) == [i \in 1 .. n |-> IF i \in DOMAIN pad THEN pad[i] ELSE Nul]

encryptText(message, pad) ==
    {[i \in DOMAIN message |-> iToC(Remainder(t[i] + k[i], 27), before[i])] :
        t \in cToI(message), k \in cToI(KeyBytes(pad, Len(message))),
        before \in [DOMAIN message -> {Junk, Nul}]}

\* Mutant: a negative number is not wrapped.
decryptTextUnwrapped(message, pad) ==
    {[i \in DOMAIN message |-> iToC(Remainder(t[i] - k[i], 27), before[i])] :
        t \in cToI(message), k \in cToI(KeyBytes(pad, Len(message))),
        before \in [DOMAIN message -> {Junk, Nul}]}

Wrapped(n) == IF n < 0 THEN n + 27 ELSE n

decryptText(message, pad) ==
    {[i \in DOMAIN message |-> Wrapped(Remainder(t[i] - k[i], 27))] :
        t \in cToI(message), k \in cToI(KeyBytes(pad, Len(message)))}

-----------------------------------------------------------------------------
(* The client. *)

RicoConnect ==
    /\ c.at = "start"
    /\ c' = [c EXCEPT !.at = "auth"]
    /\ up' = Append(up, Token(kind))
    /\ UNCHANGED <<input, d, down, split>>

RicoAuthorised ==
    /\ c.at = "auth"
    /\ \E bytes \in AnyBytes :
          /\ ClientReceives(bytes, 1, ChildGone)
          /\ c' = [c EXCEPT !.at = IF bytes = <<Token(kind)>> THEN "files" ELSE "refused"]
    /\ UNCHANGED <<input, d, up>>

\* isalpha() and isspace() take more than letters, and nothing looks at the key.
FilesRefused == Len(text) > Len(key) \/ \E i \in DOMAIN text : text[i] \in {Bad, Star}

\* The files are looked at only now.  The newline of the text gives way to
\* the star, the one of the key is sent.
sendToServer ==
    /\ c.at = "files"
    /\ IF FilesRefused
       THEN c' = [c EXCEPT !.at = "failed"] /\ UNCHANGED up
       ELSE LET string == text \o <<Star>> \o key \o <<Nl>>
            IN /\ c' = [c EXCEPT !.at = "length"]
               /\ up' = up \o <<Length(Len(string))>> \o string
    /\ UNCHANGED <<input, d, down, split>>

\* Without a length numBytes is whatever it was: with 0 there is nothing to
\* wait for, otherwise the loop never ends.
RicoAnswerLength ==
    /\ c.at = "length"
    /\ \E bytes \in AnyBytes :
          /\ ClientReceives(bytes, 1, ChildGone)
          /\ c' \in IF bytes # <<>> THEN {[c EXCEPT !.at = "answer", !.size = bytes[1] - Length(0)]}
                    ELSE {[c EXCEPT !.at = "spins"], [c EXCEPT !.at = "answer", !.size = 0]}
    /\ UNCHANGED <<input, d, up>>

RicoAnswer ==
    /\ c.at = "answer" /\ Len(c.answer) # c.size
    /\ \E bytes \in AnyBytes :
          /\ ClientReceives(bytes, c.size, ChildGone)
          /\ c' = [c EXCEPT !.answer = @ \o bytes]
    /\ UNCHANGED <<input, d, up>>

RicoPrint ==
    /\ c.at = "answer" /\ Len(c.answer) = c.size
    /\ c' = [c EXCEPT !.at = "done"]
    /\ UNCHANGED <<input, d, up, down, split>>

-----------------------------------------------------------------------------
(* The daemon. *)

RicoAccept ==
    /\ d.at = "accept" /\ ~NeverConnected
    /\ d' = [d EXCEPT !.at = "auth"]
    /\ UNCHANGED <<input, c, up, down, split>>

\* The child goes on whatever it has answered.
RicoAuthorise ==
    /\ d.at = "auth"
    /\ \E bytes \in AnyBytes :
          /\ ChildReceives(bytes, 1)
          /\ down' = Append(down, IF bytes = <<Token(daemon)>> THEN Token(daemon) ELSE
                                  IF bytes = <<Token(Other(daemon))>> THEN Plus ELSE Question)
    /\ d' = [d EXCEPT !.at = "length"]
    /\ UNCHANGED <<input, c>>

\* With the client gone numBytes is whatever it was: with 0 there is no
\* message to encrypt, otherwise the loop never ends.
RicoLength ==
    /\ d.at = "length"
    /\ \E bytes \in AnyBytes :
          /\ ChildReceives(bytes, 1)
          /\ IF bytes = <<>> THEN d' \in {[d EXCEPT !.at = p] : p \in {"spins", "crashed"}}
             ELSE d' = [d EXCEPT !.at = "text", !.size = bytes[1] - Length(0)]
    /\ UNCHANGED <<input, c, down>>

RicoText ==
    /\ d.at = "text" /\ d.count # d.size
    /\ \E bytes \in AnyBytes :
          /\ ChildReceives(bytes, d.size)
          /\ d' = [d EXCEPT !.buffer = @ \o bytes, !.count = @ + Len(bytes)]
    /\ UNCHANGED <<input, c, down>>

\* strtok_r() skips the stars that a string begins with.
Skipped(string) ==
    LET others == {i \in DOMAIN string : string[i] # Star}
    IN IF others = {} THEN <<>> ELSE SubSeq(string, Min(others), Len(string))

\* The next star ends the first token, and the second one begins behind it.
\* Where it ends is no matter: cipherers look only at its bytes.
Stars(string) == {i \in DOMAIN string : string[i] = Star}
MessageOf(string) ==
    IF Stars(string) = {} THEN string ELSE SubSeq(string, 1, Min(Stars(string)) - 1)
KeyOf(string) ==
    IF Stars(string) = {} THEN <<>>
    ELSE Skipped(SubSeq(string, Min(Stars(string)) + 1, Len(string)))

\* Mutant: the length counts the NUL, which is not sent.
SentCountsNul(answer) == <<Length(Len(answer) + 1)>> \o answer

Sent(answer) == <<Length(Len(answer))>> \o answer

\* Without a second token there is no key to read.
RicoServe ==
    /\ d.at = "text" /\ d.count = d.size
    /\ LET message == MessageOf(Skipped(d.buffer))
           pad     == KeyOf(Skipped(d.buffer))
       IN IF pad = <<>>
          THEN d' = [d EXCEPT !.at = "crashed"] /\ UNCHANGED down
          ELSE /\ d' = [d EXCEPT !.at = "exited"]
               /\ \E answer \in IF daemon = "enc" THEN encryptText(message, pad)
                                                  ELSE decryptText(message, pad) :
                     down' = down \o Sent(CString(answer))
    /\ UNCHANGED <<input, c, up, split>>

-----------------------------------------------------------------------------
RicoClientNext ==
    RicoConnect \/ RicoAuthorised \/ sendToServer \/ RicoAnswerLength \/ RicoAnswer \/ RicoPrint
RicoChildNext ==
    RicoAccept \/ RicoAuthorise \/ RicoLength \/ RicoText \/ RicoServe
RicoNext == RicoClientNext \/ RicoChildNext \/ Kill
=============================================================================
