------------------------- MODULE OtpPipelineProofs -------------------------
(***************************************************************************)
(* What is proved about OtpPipeline for every text, every key and every    *)
(* buffer size: decryption undoes encryption character by character, what  *)
(* a program prints the next one reads, and so a text of one line survives *)
(* both daemons.                                                           *)
(***************************************************************************)
EXTENDS OtpPipeline, SequenceTheorems, TLAPS

\* t and k are what otp_enc read from the two files and accepted.
Agreed(t, k) ==
    /\ IsLine(textfile, t) /\ IsLine(keyfile, k)
    /\ Accepted(t, k)

\* What the programs after otp_enc know about them.
LaterInv ==
    stage \in {"dec_read", "dec_serve", "dec_print", "exit0"} =>
        \E t, k \in FileType :
            /\ Agreed(t, k)
            /\ cipherfile = Printed(EncryptOtp(t, k))
            /\ stage = "dec_serve" => text = EncryptOtp(t, k) /\ key = k
            /\ stage = "dec_print" => result = t
            /\ stage = "exit0" => outfile = Printed(t)

IInv ==
    /\ TypeOK
    /\ stage \in {"enc_serve", "enc_print"} => Agreed(text, key)
    /\ stage = "enc_print" => result = EncryptOtp(text, key)
    /\ stage \in {"keygen", "enc_read", "enc_serve", "enc_print", "exit1"} =>
          cipherfile = <<>>
    /\ LaterInv

-----------------------------------------------------------------------------
\* One character: the sum stays in CHAR_POOL and the difference undoes it.
LEMMA CharRoundTrip ==
    ASSUME NEW p \in Chars, NEW k \in Chars
    PROVE  /\ EncryptChar(p, k) \in Chars
           /\ DecryptChar(EncryptChar(p, k), k) = p
<1>1. CASE p + k < CHAR_RANGE
  <2>1. EncryptChar(p, k) = p + k
    BY <1>1 DEF EncryptChar, Chars, CHAR_RANGE
  <2> QED
    BY <1>1, <2>1 DEF DecryptChar, Chars, CHAR_RANGE
<1>2. CASE p + k >= CHAR_RANGE
  <2>1. EncryptChar(p, k) = p + k - CHAR_RANGE
    BY <1>2 DEF EncryptChar, Chars, CHAR_RANGE
  <2> QED
    BY <1>2, <2>1 DEF DecryptChar, Chars, CHAR_RANGE
<1> QED
  BY <1>1, <1>2 DEF Chars, CHAR_RANGE

\* DecryptChar never leaves CHAR_POOL either.
LEMMA DecryptCharType ==
    ASSUME NEW c \in Chars, NEW k \in Chars
    PROVE  DecryptChar(c, k) \in Chars
BY DEF DecryptChar, Chars, CHAR_RANGE

\* A whole text: DecryptOtp undoes EncryptOtp under every key that is long
\* enough.
LEMMA OtpRoundTrip ==
    ASSUME NEW t \in Seq(Chars), NEW k \in Seq(Chars), Len(k) >= Len(t)
    PROVE  /\ EncryptOtp(t, k) \in Seq(Chars)
           /\ Len(EncryptOtp(t, k)) = Len(t)
           /\ DecryptOtp(EncryptOtp(t, k), k) = t
<1>1. \A i \in 1 .. Len(t) : t[i] \in Chars /\ k[i] \in Chars
  BY ElementOfSeq, LenProperties
<1>2. /\ EncryptOtp(t, k) \in Seq(Chars)
      /\ Len(EncryptOtp(t, k)) = Len(t)
  BY <1>1, CharRoundTrip DEF EncryptOtp
<1>3. \A i \in 1 .. Len(t) : DecryptOtp(EncryptOtp(t, k), k)[i] = t[i]
  BY <1>1, <1>2, CharRoundTrip DEF EncryptOtp, DecryptOtp
<1>4. DecryptOtp(EncryptOtp(t, k), k) \in Seq(Chars)
  BY <1>1, <1>2, <1>3 DEF DecryptOtp
<1>5. Len(DecryptOtp(EncryptOtp(t, k), k)) = Len(t)
  BY <1>2 DEF DecryptOtp
<1> QED
  BY <1>2, <1>3, <1>4, <1>5, SeqEqual

\* What DecryptOtp returns is a text.
LEMMA DecryptType ==
    ASSUME NEW c \in Seq(Chars), NEW k \in Seq(Chars), Len(k) >= Len(c)
    PROVE  DecryptOtp(c, k) \in Seq(Chars)
<1>1. \A i \in 1 .. Len(c) : c[i] \in Chars /\ k[i] \in Chars
  BY ElementOfSeq, LenProperties
<1> QED
  BY <1>1, DecryptCharType DEF DecryptOtp

\* A line is a piece of the file without its newline.
LEMMA LineType ==
    ASSUME NEW f \in FileType, NEW l, IsLine(f, l)
    PROVE  l \in FileType /\ Len(l) =< MAX_BUFFER_SIZE - 2
<1>1. PICK n \in 0 .. Len(f) :
        n =< MAX_BUFFER_SIZE - 2 /\ l = SubSeq(f, 1, n)
  BY DEF IsLine
<1>2. Len(f) \in Nat /\ \A i \in 1 .. n : f[i] \in 0 .. CHAR_RANGE + 1
  <2> DEFINE T == 0 .. CHAR_RANGE + 1
  <2>1. f \in Seq(T)
    BY DEF FileType
  <2> HIDE DEF T
  <2>2. Len(f) \in Nat /\ \A i \in 1 .. Len(f) : f[i] \in T
    BY <2>1
  <2>3. \A i \in 1 .. n : f[i] \in T
    BY <1>1, <2>2
  <2> QED
    BY <2>2, <2>3 DEF T
<1>3. Len(l) = n /\ l = [i \in 1 .. n |-> f[i]]
  BY <1>1, <1>2 DEF FileType
<1> QED
  BY <1>1, <1>2, <1>3 DEF FileType

\* A file has one first line.
LEMMA LineUnique ==
    ASSUME NEW f \in FileType, NEW l, NEW m, IsLine(f, l), IsLine(f, m)
    PROVE  l = m
<1>1. PICK a \in 0 .. Len(f) :
        /\ a =< MAX_BUFFER_SIZE - 2
        /\ \A i \in 1 .. a : f[i] # Newline
        /\ a < MAX_BUFFER_SIZE - 2 /\ a < Len(f) => f[a + 1] = Newline
        /\ l = SubSeq(f, 1, a)
  BY DEF IsLine
<1>2. PICK b \in 0 .. Len(f) :
        /\ b =< MAX_BUFFER_SIZE - 2
        /\ \A i \in 1 .. b : f[i] # Newline
        /\ b < MAX_BUFFER_SIZE - 2 /\ b < Len(f) => f[b + 1] = Newline
        /\ m = SubSeq(f, 1, b)
  BY DEF IsLine
<1>3. Len(f) \in Nat
  BY DEF FileType
<1>4. ~(a < b) /\ ~(b < a)
  BY <1>1, <1>2, <1>3, BufferAssumption
<1> QED
  BY <1>1, <1>2, <1>3, <1>4

\* What one program prints, the next one reads.
LEMMA PrintedIsRead ==
    ASSUME NEW c \in Seq(Chars), Len(c) =< MAX_BUFFER_SIZE - 2
    PROVE  Printed(c) \in FileType /\ IsLine(Printed(c), c)
<1>1. Printed(c) \in FileType
  BY DEF Printed, FileType, Chars, Newline, CHAR_RANGE
<1>2. Len(Printed(c)) = Len(c) + 1 /\ Len(c) \in Nat
  BY DEF Printed
<1>3. \A i \in 1 .. Len(c) : Printed(c)[i] = c[i] /\ c[i] # Newline
  <2> TAKE i \in 1 .. Len(c)
  <2>1. c[i] \in Chars
    BY ElementOfSeq
  <2>2. Printed(c)[i] = c[i]
    BY AppendProperties DEF Printed
  <2>3. \A x \in Chars : x # Newline
    BY DEF Chars, Newline, CHAR_RANGE
  <2> QED
    BY <2>1, <2>2, <2>3
<1>4. Printed(c)[Len(c) + 1] = Newline
  BY DEF Printed
<1>5. SubSeq(Printed(c), 1, Len(c)) = c
  BY DEF Printed
<1>6. Len(c) \in 0 .. Len(Printed(c))
  BY <1>2
<1> QED
  BY <1>1, <1>3, <1>4, <1>5, <1>6 DEF IsLine

\* A line that a client accepts is made of the characters of CHAR_POOL.
LEMMA AcceptedType ==
    ASSUME NEW t \in FileType, NEW k \in FileType, Accepted(t, k)
    PROVE  t \in Seq(Chars) /\ k \in Seq(Chars) /\ Len(k) >= Len(t)
<1>1. \A s \in FileType : IsValid(s) => s \in Seq(Chars)
  BY DEF IsValid, FileType
<1> QED
  BY <1>1 DEF Accepted
----------------------------------------------------------------
-----------------------------------------------------------------------------
\* The programs start with nothing written and nothing read.
LEMMA InitInv == Init => IInv
BY FilesAssumption
DEF Init, IInv, TypeOK, Stages, LaterInv, FileType

\* keygen's file is a line of CHAR_POOL's characters.
LEMMA KeygenType ==
    ASSUME NEW n \in KeyLengths, NEW k \in [1 .. n -> Pool]
    PROVE  Printed(k) \in FileType
<1>1. k \in Seq(0 .. CHAR_RANGE + 1)
  <2>1. n \in Nat
    BY KeysAssumption
  <2>2. Pool \subseteq 0 .. CHAR_RANGE + 1
    BY PoolAssumption DEF Chars, CHAR_RANGE
  <2>3. k \in [1 .. n -> 0 .. CHAR_RANGE + 1]
    BY <2>2
  <2> QED
    BY <2>1, <2>3, SeqDef, Zenon
<1> QED
  BY <1>1 DEF Printed, Newline, FileType, CHAR_RANGE

\* Every step preserves the invariant.
LEMMA StepInv == IInv /\ [Next]_vars => IInv'
<1> SUFFICES ASSUME IInv, [Next]_vars PROVE IInv'
  OBVIOUS
<1> USE DEF IInv
<1>0. /\ textfile \in FileType /\ keyfile \in FileType /\ cipherfile \in FileType
      /\ text \in FileType /\ key \in FileType /\ outfile \in FileType
      /\ result \in Seq(Chars)
  BY FilesAssumption DEF TypeOK
<1>1. CASE Keygen
  <2>1. keyfile' \in FileType
    BY <1>1, KeygenType DEF Keygen
  <2> QED
    BY <1>1, <2>1 DEF Keygen, TypeOK, Stages, LaterInv
<1>2. CASE OtpEnc
  <2>1. /\ IsLine(textfile, text') /\ IsLine(keyfile, key')
        /\ stage' = IF Accepted(text', key') THEN "enc_serve" ELSE "exit1"
        /\ UNCHANGED <<textfile, keyfile, result, cipherfile, outfile>>
        /\ stage = "enc_read"
    BY <1>2 DEF OtpEnc, Client
  <2>2. text' \in FileType /\ key' \in FileType
    BY <1>0, <2>1, LineType
  <2>3. stage' = "enc_serve" => Agreed(text, key)'
    BY <2>1 DEF Agreed
  <2> QED
    BY <2>1, <2>2, <2>3 DEF TypeOK, Stages, LaterInv
<1>3. CASE OtpEncD
  <2>1. result' \in Seq(Chars)
    BY <1>0, <1>3, AcceptedType, OtpRoundTrip DEF OtpEncD, Agreed
  <2>2. Agreed(text, key)'
    BY <1>3 DEF OtpEncD, Agreed
  <2> QED
    BY <1>3, <2>1, <2>2 DEF OtpEncD, TypeOK, Stages, LaterInv
<1>4. CASE OtpEncPrint
  <2>1. /\ stage = "enc_print" /\ stage' = "dec_read"
        /\ cipherfile' = Printed(EncryptOtp(text, key))
        /\ Agreed(text, key)
        /\ UNCHANGED <<textfile, keyfile, text, key, result, outfile>>
    BY <1>4 DEF OtpEncPrint
  <2>2. cipherfile' \in FileType
    BY <1>0, <2>1, AcceptedType, OtpRoundTrip, LineType, PrintedIsRead
    DEF Agreed
  <2>3. LaterInv'
    BY <1>0, <2>1 DEF LaterInv, Agreed
  <2> QED
    BY <2>1, <2>2, <2>3 DEF TypeOK, Stages
<1>5. CASE OtpDec
  <2>1. /\ IsLine(cipherfile, text') /\ IsLine(keyfile, key')
        /\ stage' = IF Accepted(text', key') THEN "dec_serve" ELSE "exit1"
        /\ UNCHANGED <<textfile, keyfile, result, cipherfile, outfile>>
        /\ stage = "dec_read"
    BY <1>5 DEF OtpDec, Client
  <2>2. PICK t, k \in FileType :
          Agreed(t, k) /\ cipherfile = Printed(EncryptOtp(t, k))
    BY <2>1 DEF LaterInv
  <2>3. /\ t \in Seq(Chars) /\ k \in Seq(Chars) /\ Len(k) >= Len(t)
        /\ Len(t) =< MAX_BUFFER_SIZE - 2
    BY <1>0, <2>2, AcceptedType, LineType DEF Agreed
  <2>4. /\ EncryptOtp(t, k) \in Seq(Chars)
        /\ Len(EncryptOtp(t, k)) = Len(t)
    BY <2>3, OtpRoundTrip
  <2>5. IsLine(cipherfile, EncryptOtp(t, k))
    BY <2>2, <2>3, <2>4, PrintedIsRead
  <2>6. text' = EncryptOtp(t, k) /\ key' = k
    BY <1>0, <2>1, <2>2, <2>5, LineUnique DEF Agreed
  <2>7. Accepted(text', key')
    <3>1. IsValid(EncryptOtp(t, k))
      BY <2>2, <2>3, <2>4, ElementOfSeq DEF Agreed, Accepted, IsValid
    <3> QED
      BY <2>2, <2>3, <2>4, <2>6, <3>1 DEF Agreed, Accepted
  <2>8. text' \in FileType /\ key' \in FileType
    BY <1>0, <2>1, LineType
  <2>9. LaterInv'
    BY <2>1, <2>2, <2>6, <2>7 DEF LaterInv, Agreed
  <2> QED
    BY <2>1, <2>7, <2>8, <2>9 DEF TypeOK, Stages
<1>6. CASE OtpDecD
  <2>1. /\ stage = "dec_serve" /\ stage' = "dec_print"
        /\ result' = DecryptOtp(text, key)
        /\ UNCHANGED <<textfile, keyfile, text, key, cipherfile, outfile>>
    BY <1>6 DEF OtpDecD
  <2>2. PICK t, k \in FileType :
          /\ Agreed(t, k) /\ cipherfile = Printed(EncryptOtp(t, k))
          /\ text = EncryptOtp(t, k) /\ key = k
    BY <2>1 DEF LaterInv
  <2>3. result' = t /\ t \in Seq(Chars)
    BY <2>1, <2>2, AcceptedType, OtpRoundTrip DEF Agreed
  <2>4. LaterInv'
    BY <2>1, <2>2, <2>3 DEF LaterInv, Agreed
  <2> QED
    BY <2>1, <2>3, <2>4 DEF TypeOK, Stages
<1>7. CASE OtpDecPrint
  <2>1. /\ stage = "dec_print" /\ stage' = "exit0"
        /\ outfile' = Printed(result)
        /\ UNCHANGED <<textfile, keyfile, text, key, result, cipherfile>>
    BY <1>7 DEF OtpDecPrint
  <2>2. outfile' \in FileType
    BY <1>0, <2>1 DEF Printed, FileType, Chars, Newline, CHAR_RANGE
  <2>3. LaterInv'
    BY <2>1 DEF LaterInv, Agreed
  <2> QED
    BY <2>1, <2>2, <2>3 DEF TypeOK, Stages
<1>8. CASE Done \/ UNCHANGED vars
  BY <1>8 DEF Done, vars, TypeOK, Stages, LaterInv, Agreed
<1> QED
  BY <1>1, <1>2, <1>3, <1>4, <1>5, <1>6, <1>7, <1>8 DEF Next

\* The invariant holds in every reachable state.
THEOREM Invariance == Spec => []IInv
BY InitInv, StepInv, PTL DEF Spec

\* Every variable has its type: no daemon ever computes an index outside
\* CHAR_POOL.
THEOREM TypeCorrect == Spec => []TypeOK
<1>1. IInv => TypeOK
  BY DEF IInv
<1> QED
  BY <1>1, Invariance, PTL

\* Whatever otp_enc printed, otp_dec accepts with the same key.
THEOREM DecryptionAccepted == Spec => []DecryptionNeverRefused
<1>1. IInv => DecryptionNeverRefused
  BY DEF IInv, DecryptionNeverRefused
<1> QED
  BY <1>1, Invariance, PTL

\* A text of one line that fits the buffers survives both daemons.
THEOREM RoundTrip == Spec => []SameAsOriginal
<1>1. IInv => SameAsOriginal
  <2> SUFFICES ASSUME IInv, stage = "exit0", NEW line,
                      textfile = Printed(line), IsLine(textfile, line)
               PROVE  outfile = textfile
    BY DEF SameAsOriginal
  <2>1. PICK t, k \in FileType : Agreed(t, k) /\ outfile = Printed(t)
    BY DEF IInv, LaterInv
  <2>2. t = line
    BY <2>1, FilesAssumption, LineUnique DEF Agreed, IInv, TypeOK
  <2> QED
    BY <2>1, <2>2
<1> QED
  BY <1>1, Invariance, PTL
=============================================================================
