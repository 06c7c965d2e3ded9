------------------------------ MODULE OtpWire ------------------------------
(***************************************************************************)
(* What the otp programs of RicoOtp, Prog4Otp and DoughertyOtp run on: one *)
(* client, the child that a daemon has forked to serve it, and the         *)
(* connection between them.                                                *)
(*                                                                         *)
(* External: a connection is a stream of bytes in each direction, without  *)
(* boundaries.  recv() returns some of the bytes that are under way, at    *)
(* most as many as it asks for, and 0 when there are none and the other    *)
(* side is closed.  A send() is through at once: what has arrived of it is *)
(* what recv() chooses to return.                                          *)
(*                                                                         *)
(* A byte is a number: a letter by its index, the space as 26.  A token    *)
(* and a length, which are sent and asked for as a whole, are one each.    *)
(***************************************************************************)
EXTENDS Integers, Sequences, SequencesExt, FiniteSetsExt

CONSTANTS Texts, Keys,   \* bound: what the two files hold before the newline
          Chunk,         \* sizeof(buffer) - 1, 1023 in the code
          Unreturned     \* what a function may leave that ends without a return

ASSUME ChunkAssumption == Chunk \in Nat \ {0}
ASSUME UnreturnedAssumption == Unreturned \subseteq Int /\ Unreturned # {}

VARIABLES
    kind,       \* the client is otp_enc, "enc", or otp_dec, "dec"
    daemon,     \* the daemon at the port it was given
    text, key,  \* its files
    c,          \* the client
    d,          \* the daemon's child
    up, down,   \* the bytes under way from and to the client
    split       \* a recv() has returned less than it asked for

input == <<kind, daemon, text, key>>
vars  == <<input, c, d, up, down, split>>

Letters  == 0 .. 26
Nl       == 27
Nul      == 28
Star     == 29
Bad      == 30      \* a character that no program takes for text
Junk     == 31      \* whatever is in memory that was never written
Plus     == 32
Question == 33
Yes      == 34
No       == 35
Token(k)  == IF k = "enc" THEN 36 ELSE 37
Lower    == 38      \* a lower case letter or a tab: isalpha() or isspace(), but no letter
Length(n) == 40 + n
IsLength(b) == b >= 40

\* The files are lines of text: letters, and characters that are none.
Characters == Letters \cup {Bad, Lower, Star}
ASSUME FilesAssumption == Texts \cup Keys \subseteq Seq(Characters)

Other(k) == IF k = "enc" THEN "dec" ELSE "enc"

WireInit ==
    /\ kind \in {"enc", "dec"} /\ daemon \in {"enc", "dec"}
    /\ text \in Texts /\ key \in Keys
    /\ c = [at |-> "start", answer |-> <<>>, buffer |-> <<>>, size |-> 0, count |-> 0]
    /\ d = [at |-> "accept", message |-> <<>>, pad |-> <<>>, buffer |-> <<>>,
            size |-> 0, count |-> 0, taken |-> 0]
    /\ up = <<>> /\ down = <<>> /\ split = FALSE

-----------------------------------------------------------------------------
NeverConnected == c.at \in {"start", "unconnected"}
ClientGone     == c.at \in {"done", "refused", "failed", "crashed", "killed"}
ChildGone      == d.at \in {"exited", "crashed"}

\* The bytes that recv(..., max) may return from a stream.
Arrived(stream, max, closed) ==
    {SubSeq(stream, 1, n) : n \in 1 .. Min({max, Len(stream)})}
        \cup (IF stream = <<>> /\ closed THEN {<<>>} ELSE {})

Rest(stream, bytes) == SubSeq(stream, Len(bytes) + 1, Len(stream))

\* The child's recv() returns bytes, of max that it asks for.
ChildReceives(bytes, max) ==
    /\ bytes \in Arrived(up, max, ClientGone)
    /\ up' = Rest(up, bytes)
    /\ split' = (split \/ Len(bytes) < max)

\* The client's.  The connection is open as long as a process of the daemon
\* holds it.
ClientReceives(bytes, max, closed) ==
    /\ bytes \in Arrived(down, max, closed)
    /\ down' = Rest(down, bytes)
    /\ split' = (split \/ Len(bytes) < max)

AnyBytes == UNION {Arrived(s, Len(s), TRUE) : s \in {up, down}} \cup {<<>>}

Kill ==
    /\ ~NeverConnected /\ ~ClientGone
    /\ c' = [c EXCEPT !.at = "killed"]
    /\ UNCHANGED <<input, d, up, down, split>>

-----------------------------------------------------------------------------
\* What strlen() and strcat() see of an array.
CString(bytes) ==
    LET ends == {i \in DOMAIN bytes : bytes[i] = Nul \/ IsLength(bytes[i])}
    IN IF ends = {} THEN bytes ELSE SubSeq(bytes, 1, Min(ends) - 1)

\* The bytes are written over the beginning of the array.
Over(bytes, array) == bytes \o SubSeq(array, Len(bytes) + 1, Len(array))

HasBad(file)  == \E i \in DOMAIN file : file[i] \notin Letters
Zeros(n)      == [i \in 1 .. n |-> Nul]

-----------------------------------------------------------------------------
\* Letter i of the text enciphered or deciphered.
RightAt(answer, i) ==
    IF kind = "enc" THEN answer[i] = (text[i] + key[i]) % 27
                    ELSE answer[i] \in Letters /\ (answer[i] + key[i]) % 27 = text[i]

IsAnswer(answer) == Len(answer) = Len(text) /\ \A i \in DOMAIN answer : RightAt(answer, i)
=============================================================================
