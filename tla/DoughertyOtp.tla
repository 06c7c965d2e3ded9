---------------------------- MODULE DoughertyOtp ---------------------------
(***************************************************************************)
(* Dougherty's programs of Assignment_4, and Suh's of assignment4, which   *)
(* use the same protocol with other words and another cipher.  The client  *)
(* shows a word and waits for "yes"; then it sends the length of the text  *)
(* in a buffer of Chunk + 1 bytes, and both files in parts of Chunk bytes, *)
(* without waiting between them.  The child receives Chunk bytes at a time *)
(* and has nothing but the length to tell where the text ends.             *)
(***************************************************************************)
EXTENDS OtpWire

\* What the client's loop sends of a file: parts of Chunk bytes until more
\* than length bytes are sent.  The last part is filled with what the buffer
\* still holds of the one before.
SendFile(file, length) ==
    LET parts == length \div Chunk + 1
        total == IF parts = 1 THEN Min({Chunk, Len(file)}) ELSE parts * Chunk
    IN [j \in 1 .. total |-> IF j \in DOMAIN file THEN file[j] ELSE file[j - Chunk]]

(* The ciphers. *)

Combine(m, k) ==
    IF {m, k} \subseteq Letters
    THEN IF daemon = "enc" THEN (m + k) % 27 ELSE IF m < k THEN m - k + 27 ELSE m - k
    ELSE Junk

\* Up to the newline, which becomes the end of the string.
encode(message, pad) ==
    LET n == Min({i \in DOMAIN message : message[i] = Nl})
    IN [i \in DOMAIN message |->
            IF i < n THEN Combine(message[i], IF i \in DOMAIN pad THEN pad[i] ELSE Nul)
            ELSE IF i = n THEN Nul ELSE message[i]]

\* The whole string, the newline with it, and the key again when it is short.
encript_Otp(message, pad) ==
    [i \in DOMAIN message |-> Combine(message[i], pad[((i - 1) % Len(pad)) + 1])]

-----------------------------------------------------------------------------
(* The client. *)

\* The files are looked at when the connection is made.
DoughertyConnect ==
    /\ c.at = "start"
    /\ IF HasBad(text) \/ HasBad(key) \/ Len(text) > Len(key)
       THEN c' = [c EXCEPT !.at = "failed"] /\ UNCHANGED up
       ELSE /\ c' = [c EXCEPT !.at = "handshake", !.size = Len(text), !.buffer = Zeros(Chunk)]
            /\ up' = Append(up, Token(kind))
    /\ UNCHANGED <<input, d, down, split>>

\* The child answers before it ends.
DoughertySendLength ==
    /\ c.at = "handshake"
    /\ \E bytes \in AnyBytes :
          /\ ClientReceives(bytes, Chunk, ChildGone)
          /\ IF bytes = <<No>>
             THEN c' = [c EXCEPT !.at = "refused"] /\ UNCHANGED up
             ELSE c' = [c EXCEPT !.at = "text"] /\ up' = up \o <<Length(c.size), Nul>>
    /\ UNCHANGED <<input, d>>

DoughertySendText ==
    /\ c.at = "text"
    /\ c' = [c EXCEPT !.at = "key"]
    /\ up' = up \o SendFile(Append(text, Nl), c.size)
    /\ UNCHANGED <<input, d, down, split>>

DoughertySendKey ==
    /\ c.at = "key"
    /\ c' = [c EXCEPT !.at = "answer"]
    /\ up' = up \o SendFile(Append(key, Nl), c.size)
    /\ UNCHANGED <<input, d, down, split>>

\* At the end of the connection the buffer is appended for ever.
DoughertyAnswer ==
    /\ c.at = "answer" /\ c.count < c.size
    /\ \E bytes \in AnyBytes :
          /\ ClientReceives(bytes, Chunk, ChildGone)
          /\ c' = IF bytes = <<>> THEN [c EXCEPT !.at = "spins"]
                  ELSE [c EXCEPT !.buffer = Over(bytes, @), !.count = @ + Len(bytes),
                                 !.answer = @ \o CString(Over(bytes, c.buffer))]
    /\ UNCHANGED <<input, d, up>>

DoughertyPrint ==
    /\ c.at = "answer" /\ c.count >= c.size
    /\ c' = [c EXCEPT !.at = "done"]
    /\ UNCHANGED <<input, d, up, down, split>>

-----------------------------------------------------------------------------
(* The daemon. *)

\* The child's two arrays are not initialised.
DoughertyAccept ==
    /\ d.at = "accept" /\ ~NeverConnected
    /\ \E memory \in {<<>>, <<Junk>>} :
          d' = [d EXCEPT !.at = "auth", !.message = memory, !.pad = memory]
    /\ UNCHANGED <<input, c, up, down, split>>

DoughertyHandshake ==
    /\ d.at = "auth"
    /\ \E bytes \in AnyBytes :
          /\ ChildReceives(bytes, Chunk)
          /\ CASE bytes = <<>> -> d' = [d EXCEPT !.at = "spins"] /\ UNCHANGED down
               [] bytes = <<Token(daemon)>> ->
                     d' = [d EXCEPT !.at = "length"] /\ down' = Append(down, Yes)
               [] OTHER -> d' = [d EXCEPT !.at = "exited"] /\ down' = Append(down, No)
    /\ UNCHANGED <<input, c>>

\* One byte of the client's buffer is left behind.  Only otp_enc_d.c clears
\* the buffer, where a digit of the length is left by otp_dec_d.c.
DoughertyLength ==
    /\ d.at = "length"
    /\ \E bytes \in AnyBytes :
          /\ ChildReceives(bytes, 1)
          /\ d' = IF bytes = <<>> THEN [d EXCEPT !.at = "spins"]
                  ELSE [d EXCEPT !.at = "text", !.size = bytes[1] - Length(0),
                                 !.buffer = IF daemon = "enc" THEN Zeros(Chunk)
                                            ELSE Over(bytes, Zeros(Chunk))]
    /\ UNCHANGED <<input, c, down>>

\* At the end of the connection the buffer is appended for ever.
DoughertyText ==
    /\ d.at = "text" /\ d.count < d.size
    /\ \E bytes \in AnyBytes :
          /\ ChildReceives(bytes, Chunk)
          /\ d' = IF bytes = <<>> THEN [d EXCEPT !.at = "spins"]
                  ELSE [d EXCEPT !.buffer = Over(bytes, @), !.count = @ + Len(bytes),
                                 !.message = @ \o CString(Over(bytes, d.buffer))]
    /\ UNCHANGED <<input, c, down>>

DoughertyTextEnds ==
    /\ d.at = "text" /\ d.count >= d.size
    /\ d' = [d EXCEPT !.at = "key", !.taken = d.count, !.count = 0, !.buffer = Zeros(Chunk)]
    /\ UNCHANGED <<input, c, up, down, split>>

\* Mutant: what the last recv() returned is not added up.
DoughertyKeyNotSummed ==
    /\ d.at = "key" /\ d.count < d.size
    /\ \E bytes \in AnyBytes :
          /\ ChildReceives(bytes, Chunk)
          /\ d' = IF bytes = <<>> THEN [d EXCEPT !.at = "spins"]
                  ELSE [d EXCEPT !.buffer = Over(bytes, @), !.count = Len(bytes),
                                 !.pad = @ \o CString(Over(bytes, d.buffer))]
    /\ UNCHANGED <<input, c, down>>

DoughertyKey ==
    /\ d.at = "key" /\ d.count < d.size
    /\ \E bytes \in AnyBytes :
          /\ ChildReceives(bytes, Chunk)
          /\ d' = IF bytes = <<>> THEN [d EXCEPT !.at = "spins"]
                  ELSE [d EXCEPT !.buffer = Over(bytes, @), !.count = @ + Len(bytes),
                                 !.pad = @ \o CString(Over(bytes, d.buffer))]
    /\ UNCHANGED <<input, c, down>>

\* The whole array is sent, if there is anything to send; the parent only
\* looks whether the child has ended already.
Exits(message) ==
    /\ d' = [d EXCEPT !.at = "exited"]
    /\ down' = IF d.size = 0 THEN down ELSE down \o message \o Zeros(Chunk)

\* Without a newline encode() runs on beyond the array.
DoughertyServe ==
    /\ d.at = "key" /\ d.count >= d.size
    /\ IF Nl \in Range(d.message) THEN Exits(encode(d.message, d.pad))
       ELSE \/ Exits(<<Junk>>)
            \/ d' = [d EXCEPT !.at = "crashed"] /\ UNCHANGED down
    /\ UNCHANGED <<input, c, up, split>>

\* strlen(key) may be 0, and is what the index is divided by.
SuhServe ==
    /\ d.at = "key" /\ d.count >= d.size
    /\ IF d.message = <<>> \/ d.pad # <<>> THEN Exits(encript_Otp(d.message, d.pad))
       ELSE d' = [d EXCEPT !.at = "crashed"] /\ UNCHANGED down
    /\ UNCHANGED <<input, c, up, split>>

-----------------------------------------------------------------------------
ClientNext ==
    \/ DoughertyConnect \/ DoughertySendLength \/ DoughertySendText \/ DoughertySendKey
    \/ DoughertyAnswer \/ DoughertyPrint \/ Kill
ReceiveNext ==
    \/ DoughertyAccept \/ DoughertyHandshake \/ DoughertyLength
    \/ DoughertyText \/ DoughertyTextEnds \/ DoughertyKey

DoughertyNext == ClientNext \/ ReceiveNext \/ DoughertyServe
SuhNext       == ClientNext \/ ReceiveNext \/ SuhServe
=============================================================================
