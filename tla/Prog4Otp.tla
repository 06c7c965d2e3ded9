------------------------------ MODULE Prog4Otp -----------------------------
(***************************************************************************)
(* otp_enc.c and otp_dec.c with otp_enc_d.c and otp_dec_d.c of             *)
(* OSU-CS344_Prog4-master.  The daemon tells what it is; the client sends  *)
(* the text and the key, each behind its length, without waiting between   *)
(* them, and asks for its answer once.  The daemon's parent never closes   *)
(* the connection, so that the client never sees the end of it.            *)
(***************************************************************************)
EXTENDS OtpWire

(* The ciphers: a key shorter than the message is used again. *)

\* Mutant: the key starts at its second letter.
RepeatedFromSecond(pad, i) == pad[(i % Len(pad)) + 1]

Repeated(pad, i) == pad[((i - 1) % Len(pad)) + 1]

encrypt(message, pad) ==
    [i \in DOMAIN message |-> (message[i] + Repeated(pad, i)) % 27]

decrypt(message, pad) ==
    [i \in DOMAIN message |->
        LET n == message[i] - Repeated(pad, i) IN IF n < 0 THEN 27 + n ELSE n]

-----------------------------------------------------------------------------
(* The client. *)

\* Both files are read, trimmed and validated first.  strtok() finds no token
\* in an empty line.
Prog4Connect ==
    /\ c.at = "start"
    /\ c' = [c EXCEPT !.at =
                IF Len(key) < Len(text) \/ text = <<>> \/ HasBad(text) \/ HasBad(key)
                THEN "unconnected" ELSE "type"]
    /\ UNCHANGED <<input, d, up, down, split>>

Prog4Send ==
    /\ c.at = "type"
    /\ \E bytes \in AnyBytes :
          /\ ClientReceives(bytes, 1, FALSE)
          /\ IF bytes = <<Token(Other(kind))>>
             THEN c' = [c EXCEPT !.at = "refused"] /\ UNCHANGED up
             ELSE /\ c' = [c EXCEPT !.at = "answer"]
                  /\ up' = up \o <<Length(Len(text))>> \o text
                              \o <<Length(Len(key))>> \o key
    /\ UNCHANGED <<input, d>>

Prog4Answer ==
    /\ c.at = "answer"
    /\ \E bytes \in AnyBytes :
          /\ ClientReceives(bytes, Len(text), FALSE)
          /\ c' = [c EXCEPT !.at = "done", !.answer = bytes]
    /\ UNCHANGED <<input, d, up>>

-----------------------------------------------------------------------------
(* The daemon. *)

Prog4Accept ==
    /\ d.at = "accept" /\ ~NeverConnected
    /\ d' = [d EXCEPT !.at = "length"]
    /\ down' = Append(down, Token(daemon))
    /\ UNCHANGED <<input, c, up, split>>

\* What follows when a length was not received: the loops spin, the memory is
\* not there, or both lengths happen to be 0.
NoLength == d' \in {[d EXCEPT !.at = p] : p \in {"spins", "crashed", "exited"}}

Prog4Length ==
    /\ d.at = "length"
    /\ \E bytes \in AnyBytes :
          /\ ChildReceives(bytes, 1)
          /\ IF bytes = <<>> THEN NoLength
             ELSE d' = [d EXCEPT !.at = "text", !.size = bytes[1] - Length(0), !.count = 0]
    /\ UNCHANGED <<input, c, down>>

\* Every recv() asks for the whole length, and may get bytes that follow.
Prog4Text ==
    /\ d.at = "text" /\ d.count < d.size
    /\ \E bytes \in AnyBytes :
          /\ ChildReceives(bytes, d.size)
          /\ d' = [d EXCEPT !.message = @ \o bytes, !.count = @ + Len(bytes)]
    /\ UNCHANGED <<input, c, down>>

Prog4KeyLength ==
    /\ d.at = "text" /\ d.count >= d.size
    /\ \E bytes \in AnyBytes :
          /\ ChildReceives(bytes, 1)
          /\ IF bytes = <<>> \/ ~IsLength(bytes[1]) THEN NoLength
             ELSE LET n == bytes[1] - Length(0)
                  IN d' = [d EXCEPT !.at = "key", !.size = n, !.count = 0, !.pad = Zeros(n)]
    /\ UNCHANGED <<input, c, down>>

\* Every part of the key is stored at the beginning.
Prog4Key ==
    /\ d.at = "key" /\ d.count < d.size
    /\ \E bytes \in AnyBytes :
          /\ ChildReceives(bytes, d.size)
          /\ d' = [d EXCEPT !.pad = Over(bytes, @), !.count = @ + Len(bytes)]
    /\ UNCHANGED <<input, c, down>>

\* Both arrays are allocated without a byte for the NUL.  What strlen() counts
\* behind them is left out: it makes the answer longer than the client asks for,
\* and no letter of it different, as the key is not shorter than the text.
Prog4Serve ==
    /\ d.at = "key" /\ d.count >= d.size
    /\ LET message == CString(d.message)
           pad     == CString(d.pad)
       IN down' = down \o IF daemon = "enc" THEN encrypt(message, pad)
                                            ELSE decrypt(message, pad)
    /\ d' = [d EXCEPT !.at = "exited"]
    /\ UNCHANGED <<input, c, up, split>>

-----------------------------------------------------------------------------
Prog4Next ==
    \/ Prog4Connect \/ Prog4Send \/ Prog4Answer \/ Kill
    \/ Prog4Accept \/ Prog4Length \/ Prog4Text \/ Prog4KeyLength \/ Prog4Key \/ Prog4Serve
=============================================================================
