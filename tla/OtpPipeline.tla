---------------------------- MODULE OtpPipeline ----------------------------
(***************************************************************************)
(* program4_otp from file to file: keygen writes a key, otp_enc reads a    *)
(* text and the key and has otp_enc_d encrypt, its output is redirected to *)
(* a file, and otp_dec and otp_dec_d turn that file into text again.       *)
(*                                                                         *)
(* A character is its index in CHAR_POOL; a newline and everything else    *)
(* have numbers beyond.  What a client sends is what the daemon receives   *)
(* (sockets and processes are the subject of OtpDaemon).                   *)
(***************************************************************************)
EXTENDS Integers, Sequences

CONSTANTS MAX_BUFFER_SIZE,   \* of the clients' buffers, 100000 in the code
          TextFiles,         \* bound: the files the user may have encrypted
          KeyLengths,        \* bound: the lengths keygen is called with
          Pool               \* bound: the characters rand() draws

CHAR_RANGE == 27
Chars      == 0 .. CHAR_RANGE - 1
Newline    == CHAR_RANGE
Other      == CHAR_RANGE + 1
FileType   == Seq(0 .. CHAR_RANGE + 1)

ASSUME BufferAssumption == MAX_BUFFER_SIZE \in Nat /\ MAX_BUFFER_SIZE > 2
ASSUME FilesAssumption  == TextFiles \subseteq FileType
ASSUME KeysAssumption   == KeyLengths \subseteq Nat \ {0}
ASSUME PoolAssumption   == Pool \subseteq Chars

VARIABLES stage, textfile, keyfile, text, key, result, cipherfile, outfile

vars == <<stage, textfile, keyfile, text, key, result, cipherfile, outfile>>

-----------------------------------------------------------------------------
\* fgets(buffer, size - 1) stores at most size - 2 characters, and strcspn()
\* ends the string where the first newline is.
IsLine(file, line) ==
    \E n \in 0 .. Len(file) :
        /\ n =< MAX_BUFFER_SIZE - 2
        /\ \A i \in 1 .. n : file[i] # Newline
        /\ n < MAX_BUFFER_SIZE - 2 /\ n < Len(file) => file[n + 1] = Newline
        /\ line = SubSeq(file, 1, n)

\* What ValidateAndReadFile lets pass.
IsValid(line) == line # <<>> /\ \A i \in 1 .. Len(line) : line[i] \in Chars

Accepted(line, padding) ==
    IsValid(line) /\ IsValid(padding) /\ Len(padding) >= Len(line)

\* Mutant: the sum is not wrapped.
EncryptCharUnwrapped(p, k) == p + k

EncryptChar(p, k) == (p + k) % CHAR_RANGE

\* Mutant: a negative index is negated instead of wrapped.
DecryptCharNegated(c, k) ==
    IF c - k < 0 THEN k - c ELSE (c - k) % CHAR_RANGE

DecryptChar(c, k) ==
    IF c - k < 0 THEN c - k + CHAR_RANGE ELSE (c - k) % CHAR_RANGE

EncryptOtp(plaintext, padding) ==
    [i \in 1 .. Len(plaintext) |-> EncryptChar(plaintext[i], padding[i])]

DecryptOtp(ciphertext, padding) ==
    [i \in 1 .. Len(ciphertext) |-> DecryptChar(ciphertext[i], padding[i])]

Printed(line) == Append(line, Newline)

-----------------------------------------------------------------------------
Init ==
    /\ stage = "keygen"
    /\ textfile \in TextFiles
    /\ keyfile = <<>> /\ text = <<>> /\ key = <<>> /\ result = <<>>
    /\ cipherfile = <<>> /\ outfile = <<>>

\* keygen keylength > keyfile.
Keygen ==
    /\ stage = "keygen"
    /\ \E n \in KeyLengths : \E k \in [1 .. n -> Pool] : keyfile' = Printed(k)
    /\ stage' = "enc_read"
    /\ UNCHANGED <<textfile, text, key, result, cipherfile, outfile>>

\* A client's main() up to its connection: both files are read and checked.
Client(file, from, to) ==
    /\ stage = from
    /\ IsLine(file, text') /\ IsLine(keyfile, key')
    /\ stage' = IF Accepted(text', key') THEN to ELSE "exit1"
    /\ UNCHANGED <<textfile, keyfile, result, cipherfile, outfile>>

OtpEnc == Client(textfile, "enc_read", "enc_serve")
OtpDec == Client(cipherfile, "dec_read", "dec_serve")

OtpEncD ==
    /\ stage = "enc_serve"
    /\ result' = EncryptOtp(text, key)
    /\ stage' = "enc_print"
    /\ UNCHANGED <<textfile, keyfile, text, key, cipherfile, outfile>>

OtpEncPrint ==
    /\ stage = "enc_print"
    /\ cipherfile' = Printed(result)
    /\ stage' = "dec_read"
    /\ UNCHANGED <<textfile, keyfile, text, key, result, outfile>>

OtpDecD ==
    /\ stage = "dec_serve"
    /\ result' = DecryptOtp(text, key)
    /\ stage' = "dec_print"
    /\ UNCHANGED <<textfile, keyfile, text, key, cipherfile, outfile>>

OtpDecPrint ==
    /\ stage = "dec_print"
    /\ outfile' = Printed(result)
    /\ stage' = "exit0"
    /\ UNCHANGED <<textfile, keyfile, text, key, result, cipherfile>>

Done == stage \in {"exit0", "exit1"} /\ UNCHANGED vars

Next == Keygen \/ OtpEnc \/ OtpEncD \/ OtpEncPrint
          \/ OtpDec \/ OtpDecD \/ OtpDecPrint \/ Done

Spec == Init /\ [][Next]_vars

-----------------------------------------------------------------------------
Stages == {"keygen", "enc_read", "enc_serve", "enc_print",
           "dec_read", "dec_serve", "dec_print", "exit0", "exit1"}

\* Every variable has its type.
TypeOK ==
    /\ stage \in Stages
    /\ textfile \in TextFiles
    /\ {keyfile, text, key, cipherfile, outfile} \subseteq FileType
    /\ result \in Seq(Chars)

\* A text of one line that fits the buffers comes back as it was, character
\* by character, through both daemons.
SameAsOriginal ==
    stage = "exit0" =>
        \A line \in {SubSeq(textfile, 1, Len(textfile) - 1)} :
            textfile = Printed(line) /\ IsLine(textfile, line)
              => outfile = textfile

\* Whatever otp_enc printed, otp_dec accepts with the same key: only the
\* encryption can be refused.
DecryptionNeverRefused == stage = "exit1" => cipherfile = <<>>
=============================================================================
