-------------------------- MODULE OtpStreamsProofs --------------------------
(***************************************************************************)
(* What is proved about the otp programs that read their sockets with bare *)
(* recv() calls, for all files, all sizes of the buffer and all ways to    *)
(* cut the streams.  The argument is one of conservation: what a side has  *)
(* received and what is under way make up what the other has sent.         *)
(***************************************************************************)
EXTENDS MCOtpStreams, SequenceTheorems, WellFoundedInduction, TLAPS

Bytes == Seq(Int)

\* The fields of the two processes.
RecordsOK ==
    /\ {"at", "answer", "buffer", "size", "count"} \subseteq DOMAIN c
    /\ {"at", "message", "pad", "buffer", "size", "count", "taken"} \subseteq DOMAIN d

InputInv ==
    /\ kind \in {"enc", "dec"} /\ daemon \in {"enc", "dec"}
    /\ text \in Texts /\ key \in Keys

\* The client may still print something.
Live == c.at \in {"start", "auth", "files", "length", "type", "handshake", "text",
                  "key", "answer"}

StreamsOK == up \in Bytes /\ down \in Bytes /\ c.size \in Int /\ d.size \in Int

WireInv == RecordsOK /\ InputInv /\ (Live => StreamsOK)

-----------------------------------------------------------------------------
(* Rico's programs. *)

\* What the client sends as one string.
TheString == text \o <<Star>> \o key \o <<Nl>>

\* strtok_r() finds the text and the key in it.
Tokens == text # <<>> /\ key[1] # Star

\* What may be printed.
RightFor(answer) == Tokens => LettersRight(answer)

\* Where the client and the child can be while the client lives, and what is
\* under way then.
RicoAtAuth ==
    \/ d.at \in {"accept", "auth"} /\ up = <<Token(kind)>> /\ down = <<>>
    \/ /\ d.at = "length" /\ up = <<>> /\ Len(down) = 1
       /\ down = <<Token(kind)>> => kind = daemon

RicoAtLength ==
    \/ d.at = "length" /\ up = <<Length(Len(TheString))>> \o TheString /\ down = <<>>
    \/ /\ d.at = "text" /\ d.buffer \in Bytes /\ d.buffer \o up = TheString
       /\ d.size = Len(TheString) /\ d.count = Len(d.buffer) /\ down = <<>>
    \/ d.at = "crashed" /\ down = <<>> /\ ~Tokens
    \/ /\ d.at = "exited" /\ down # <<>>
       /\ RightFor(Tail(down)) /\ down[1] = Length(Len(Tail(down)))

RicoInv ==
    /\ c.at = "start"  => d.at = "accept" /\ up = <<>> /\ down = <<>>
    /\ c.at = "auth"   => RicoAtAuth
    /\ c.at = "files"  => d.at = "length" /\ up = <<>> /\ down = <<>> /\ kind = daemon
    /\ c.at = "length" => RicoAtLength /\ kind = daemon /\ ~Rico!FilesRefused
    /\ c.at = "answer" =>
          /\ d.at \in {"exited", "crashed"} /\ c.answer \in Bytes
          /\ RightFor(c.answer \o down) /\ c.size = Len(c.answer \o down)
    /\ c.at = "done" => RightFor(c.answer)
    /\ c.at \notin {"type", "handshake", "text", "key"}
    /\ c.at \in {"start", "auth", "files", "length"} => c.answer = <<>>
    /\ d.at \in {"accept", "auth", "length"} => d.buffer = <<>> /\ d.count = 0

-----------------------------------------------------------------------------
(* Program 4, as long as no recv() has returned less than it asked for. *)

Prog4Live ==
    text # <<>> /\ Len(text) =< Len(key) /\ ~HasBad(text) /\ ~HasBad(key)

TheKey == <<Length(Len(key))>> \o key

Prog4AtAnswer ==
    \/ d.at = "length" /\ up = <<Length(Len(text))>> \o (text \o TheKey) /\ down = <<>>
    \/ /\ d.at = "text" /\ d.size = Len(text) /\ down = <<>>
       /\ \/ d.count = 0 /\ d.message = <<>> /\ up = text \o TheKey
          \/ d.count = Len(text) /\ d.message = text /\ up = TheKey
    \/ /\ d.at = "key" /\ d.size = Len(key) /\ d.message = text /\ down = <<>>
       /\ \/ d.count = 0 /\ d.pad = Zeros(Len(key)) /\ up = key
          \/ d.count = Len(key) /\ d.pad = key
    \/ d.at = "exited" /\ IsAnswer(down)

Prog4AtType ==
    \/ d.at = "accept" /\ down = <<>>
    \/ d.at = "length" /\ down = <<Token(daemon)>>

Prog4Inv ==
    /\ c.at = "start"  => d.at = "accept" /\ up = <<>> /\ down = <<>>
    /\ c.at = "type"   => Prog4Live /\ up = <<>> /\ Prog4AtType
    /\ c.at = "answer" => Prog4Live /\ kind = daemon /\ Prog4AtAnswer
    /\ c.at = "done"   => IsAnswer(c.answer)
    /\ c.at \notin {"auth", "files", "length", "handshake", "text", "key"}
    /\ d.at \in {"accept", "length"} => d.message = <<>> /\ d.count = 0

-----------------------------------------------------------------------------
(* Dougherty's and Suh's programs: how many bytes are where. *)

SentText == Len(Dougherty!SendFile(Append(text, Nl), Len(text)))
SentKey  == Len(Dougherty!SendFile(Append(key, Nl), Len(text)))

\* What the client has sent after the handshake.
SentSoFar == CASE c.at = "text"   -> 2
               [] c.at = "key"    -> 2 + SentText
               [] c.at = "answer" -> 2 + SentText + SentKey

DoughertyAtHandshake ==
    \/ d.at \in {"accept", "auth"} /\ up = <<Token(kind)>> /\ down = <<>>
    \/ d.at = "length" /\ up = <<>> /\ down = <<Yes>>
    \/ d.at = "exited" /\ down = <<No>>

DoughertyAtSend ==
    \/ d.at = "length" /\ up # <<>> /\ up[1] = Length(Len(text)) /\ Len(up) = SentSoFar
    \/ d.at = "text" /\ d.size = Len(text) /\ 1 + d.count + Len(up) = SentSoFar
    \/ /\ d.at = "key" /\ d.size = Len(text) /\ d.taken \in Int
       /\ 1 + d.taken + d.count + Len(up) = SentSoFar
    \/ d.at \in {"exited", "crashed"}

DoughertyInv ==
    /\ Live => up \in Bytes /\ c.size \in Int /\ d.size \in Int
    /\ c.at \notin {"auth", "files", "length", "type"}
    /\ c.at = "start" => d.at = "accept" /\ up = <<>> /\ down = <<>>
    /\ c.at = "handshake" => DoughertyAtHandshake
    /\ c.at \in {"text", "key", "answer"} => DoughertyAtSend
    /\ c.at \in {"handshake", "text", "key", "answer"} =>
          c.size = Len(text) /\ Len(text) =< Len(key)
    /\ Live => d.count \in Int /\ (d.at \in {"accept", "auth", "length"} => d.count = 0)

-----------------------------------------------------------------------------
ProgramInv == program \in {"rico", "prog4", "dougherty", "suh"}

IInv ==
    /\ RecordsOK /\ InputInv /\ ProgramInv
    /\ program = "rico" => WireInv /\ RicoInv
    /\ program = "prog4" /\ ~split => WireInv /\ Prog4Inv
    /\ program \in {"dougherty", "suh"} => DoughertyInv

-----------------------------------------------------------------------------
(***************************************************************************)
(* The streams.                                                            *)
(***************************************************************************)

\* The smaller of two numbers.
LEMMA MinOfTwo ==
    ASSUME NEW a \in Int, NEW b \in Int
    PROVE  Min({a, b}) = IF a =< b THEN a ELSE b
BY DEF Min

\* What recv() returns and what it leaves make up what was under way.
LEMMA Received ==
    ASSUME NEW stream \in Bytes, NEW max \in Int, NEW closed,
           NEW bytes \in Arrived(stream, max, closed)
    PROVE  /\ bytes \in Bytes /\ Rest(stream, bytes) \in Bytes
           /\ stream = bytes \o Rest(stream, bytes)
           /\ bytes = <<>> => stream = <<>> /\ closed
           /\ bytes # <<>> => Len(bytes) >= 1 /\ Len(bytes) =< max
           /\ Len(stream) = Len(bytes) + Len(Rest(stream, bytes))
<1> USE DEF Bytes
<1>1. CASE bytes = <<>> /\ stream = <<>> /\ closed
  BY <1>1 DEF Rest
<1>2. CASE \E n \in 1 .. Min({max, Len(stream)}) : bytes = SubSeq(stream, 1, n)
  <2>1. PICK n \in 1 .. Min({max, Len(stream)}) : bytes = SubSeq(stream, 1, n)
    BY <1>2
  <2>2. n \in 1 .. Len(stream) /\ n =< max
    BY <2>1, MinOfTwo
  <2>3. bytes \in Bytes /\ Len(bytes) = n
    BY <2>1, <2>2
  <2>4. Rest(stream, bytes) = SubSeq(stream, n + 1, Len(stream))
    BY <2>3 DEF Rest
  <2>5. Rest(stream, bytes) \in Bytes /\ Len(Rest(stream, bytes)) = Len(stream) - n
    BY <2>2, <2>4
  <2>6. stream = bytes \o Rest(stream, bytes)
    <3>1. /\ 1 \in 1 .. Len(stream) + 1 /\ n \in 1 - 1 .. Len(stream)
          /\ Len(stream) \in n .. Len(stream)
      BY <2>2
    <3>2. SubSeq(stream, 1, n) \o SubSeq(stream, n + 1, Len(stream))
            = SubSeq(stream, 1, Len(stream))
      BY <3>1, ConcatAdjacentSubSeq DEF Bytes
    <3>3. SubSeq(stream, 1, Len(stream)) = stream
      BY SubSeqFull
    <3> QED
      BY <2>1, <2>4, <3>2, <3>3
  <2>7. bytes # <<>> /\ Len(bytes) >= 1 /\ Len(bytes) =< max
    BY <2>2, <2>3
  <2>8. Len(stream) = Len(bytes) + Len(Rest(stream, bytes))
    BY <2>2, <2>3, <2>5
  <2> QED
    BY <2>3, <2>5, <2>6, <2>7, <2>8, Zenon
<1> QED
  BY <1>1, <1>2 DEF Arrived

\* The child's recv().
LEMMA ChildGetsOf ==
    ASSUME up \in Bytes, NEW bytes, NEW max \in Int, ChildReceives(bytes, max)
    PROVE  /\ bytes \in Bytes /\ up' \in Bytes /\ up = bytes \o up'
           /\ Len(up) = Len(bytes) + Len(up')
           /\ bytes = <<>> => up = <<>> /\ ClientGone
           /\ bytes # <<>> => Len(bytes) >= 1 /\ Len(bytes) =< max
           /\ split' = (split \/ Len(bytes) < max)
<1>1. bytes \in Arrived(up, max, ClientGone) /\ up' = Rest(up, bytes)
  BY DEF ChildReceives
<1>2. split' = (split \/ Len(bytes) < max)
  BY DEF ChildReceives
<1>3. /\ bytes \in Bytes /\ Rest(up, bytes) \in Bytes
      /\ up = bytes \o Rest(up, bytes)
      /\ bytes = <<>> => up = <<>> /\ ClientGone
      /\ bytes # <<>> => Len(bytes) >= 1 /\ Len(bytes) =< max
      /\ Len(up) = Len(bytes) + Len(Rest(up, bytes))
  BY <1>1, Received, Zenon
<1> QED
  BY <1>1, <1>2, <1>3

\* What recv() returns is what was at the head of the stream.
LEMMA ChildGets ==
    ASSUME StreamsOK, NEW bytes, NEW max \in Int, ChildReceives(bytes, max)
    PROVE  /\ bytes \in Bytes /\ up' \in Bytes /\ up = bytes \o up'
           /\ Len(up) = Len(bytes) + Len(up')
           /\ bytes = <<>> => up = <<>> /\ ClientGone
           /\ bytes # <<>> => Len(bytes) >= 1 /\ Len(bytes) =< max
           /\ split' = (split \/ Len(bytes) < max)
<1>1. up \in Bytes
  BY DEF StreamsOK
<1> QED
  BY <1>1, ChildGetsOf, Zenon

\* The client's recv().
LEMMA ClientGets ==
    ASSUME StreamsOK, NEW bytes, NEW max \in Int, NEW closed,
           ClientReceives(bytes, max, closed)
    PROVE  /\ bytes \in Bytes /\ down' \in Bytes /\ down = bytes \o down'
           /\ Len(down) = Len(bytes) + Len(down')
           /\ bytes = <<>> => down = <<>> /\ closed
           /\ bytes # <<>> => Len(bytes) >= 1 /\ Len(bytes) =< max
           /\ split' = (split \/ Len(bytes) < max)
<1>1. bytes \in Arrived(down, max, closed) /\ down' = Rest(down, bytes) /\ down \in Bytes
  BY DEF ClientReceives, StreamsOK
<1>2. split' = (split \/ Len(bytes) < max)
  BY DEF ClientReceives
<1>3. /\ bytes \in Bytes /\ Rest(down, bytes) \in Bytes
      /\ down = bytes \o Rest(down, bytes)
      /\ bytes = <<>> => down = <<>> /\ closed
      /\ bytes # <<>> => Len(bytes) >= 1 /\ Len(bytes) =< max
      /\ Len(down) = Len(bytes) + Len(Rest(down, bytes))
  BY <1>1, Received, Zenon
<1> QED
  BY <1>1, <1>2, <1>3

\* A stream of at most one byte that is not empty.
LEMMA OneByte ==
    ASSUME NEW bytes \in Bytes, bytes # <<>>, Len(bytes) =< 1
    PROVE  Len(bytes) = 1 /\ bytes[1] \in Int
<1>1. Len(bytes) \in Nat /\ Len(bytes) # 0
  BY EmptySeq DEF Bytes
<1>2. Len(bytes) = 1
  BY <1>1
<1> QED
  BY <1>2, ElementOfSeq DEF Bytes

\* A recv() that asks for one byte gets the first one.
LEMMA FirstByte ==
    ASSUME NEW stream \in Bytes, NEW bytes \in Bytes, NEW rest \in Bytes,
           stream = bytes \o rest, bytes # <<>>, Len(bytes) =< 1
    PROVE  /\ stream # <<>> /\ bytes = <<stream[1]>> /\ rest = Tail(stream)
           /\ stream[1] \in Int
<1> USE DEF Bytes
<1>1. Len(bytes) = 1 /\ bytes[1] \in Int
  BY OneByte DEF Bytes
<1>2. stream # <<>> /\ stream[1] = bytes[1]
  BY <1>1
<1>3. bytes = <<stream[1]>>
  BY <1>1, <1>2
<1>4. rest = Tail(stream)
  <2>1. /\ Tail(stream) \in Seq(Int) /\ Len(Tail(stream)) = Len(stream) - 1
        /\ \A i \in 1 .. Len(Tail(stream)) : Tail(stream)[i] = stream[i + 1]
    BY <1>2, HeadTailProperties
  <2>2. Len(rest) = Len(stream) - 1 /\ \A i \in 1 .. Len(rest) : rest[i] = stream[i + 1]
    <3>1. /\ Len(bytes \o rest) = Len(bytes) + Len(rest)
          /\ \A i \in 1 .. Len(bytes) + Len(rest) : (bytes \o rest)[i] =
                IF i <= Len(bytes) THEN bytes[i] ELSE rest[i - Len(bytes)]
      BY ConcatProperties
    <3>2. Len(rest) \in Nat
      BY LenProperties
    <3> QED
      BY <1>1, <3>1, <3>2
  <2> QED
    BY <2>1, <2>2, SeqEqual
<1> QED
  BY <1>1, <1>2, <1>3, <1>4

\* A byte in front of a stream.
LEMMA Behind ==
    ASSUME NEW b \in Int, NEW stream \in Bytes
    PROVE  LET all == <<b>> \o stream
           IN  /\ all \in Bytes /\ all # <<>> /\ Len(all) = 1 + Len(stream)
               /\ all[1] = b /\ Tail(all) = stream
BY DEF Bytes

\* The characters of a file are none of the codes.
LEMMA FileBytes ==
    /\ Letters \subseteq Characters /\ Letters \subseteq Int /\ Characters \subseteq Int
    /\ \A x \in Characters : x \in Int /\ x # Nul /\ ~IsLength(x)
    /\ \A x \in Letters : x # Star /\ x # Nul /\ ~IsLength(x)
    /\ Nl # Star
    /\ \A t \in Letters, k \in Characters : (t + k) % 27 \in Int
BY DEF Characters, Letters, Bad, Lower, Star, Nul, Nl, IsLength

\* A file is a sequence of letters, and of characters that are none.
LEMMA FilesAre ==
    ASSUME InputInv
    PROVE  /\ text \in Bytes /\ key \in Bytes
           /\ \A i \in 1 .. Len(text) : text[i] \in Characters
           /\ \A i \in 1 .. Len(key) : key[i] \in Characters
<1>1. text \in Seq(Characters) /\ key \in Seq(Characters)
  BY FilesAssumption DEF InputInv
<1>2. Characters \subseteq Int
  BY FileBytes
<1>3. text \in Bytes /\ key \in Bytes
  BY <1>1, <1>2, SeqMonotonic DEF Bytes
<1> QED
  BY <1>1, <1>3

-----------------------------------------------------------------------------
(***************************************************************************)
(* Rico's programs.                                                        *)
(***************************************************************************)

\* The words of the instance are those of OtpWire.
LEMMA RicoIs ==
    /\ \A b, m : Rico!ChildReceives(b, m) <=> ChildReceives(b, m)
    /\ \A b, m, f : Rico!ClientReceives(b, m, f) <=> ClientReceives(b, m, f)
    /\ \A k : Rico!Token(k) = Token(k) /\ Rico!Other(k) = Other(k)
    /\ \A n : Rico!Length(n) = Length(n)
    /\ Rico!Star = Star /\ Rico!Nl = Nl /\ Rico!Plus = Plus /\ Rico!Question = Question
    /\ Rico!Nul = Nul /\ Rico!Junk = Junk /\ Rico!Bad = Bad /\ Rico!Letters = Letters
    /\ \A S : Rico!Min(S) = Min(S)
    /\ \A b : Rico!CString(b) = CString(b)
    /\ Rico!ClientGone <=> ClientGone
    /\ Rico!ChildGone <=> ChildGone
    /\ Rico!NeverConnected <=> NeverConnected
BY DEF Rico!ChildReceives, ChildReceives, Rico!ClientReceives, ClientReceives,
       Rico!Arrived, Arrived, Rico!Rest, Rest, Rico!Min, Min, Rico!Token, Token,
       Rico!Other, Other, Rico!Length, Length, Rico!Star, Star, Rico!Nl, Nl, Rico!Plus,
       Plus, Rico!Question, Question, Rico!Nul, Nul, Rico!Junk, Junk, Rico!Bad, Bad,
       Rico!Letters, Letters, Rico!CString, CString, Rico!IsLength, IsLength,
       Rico!ClientGone, ClientGone, Rico!ChildGone, ChildGone,
       Rico!NeverConnected, NeverConnected

\* Small facts about codes and streams.
LEMMA Codes ==
    /\ \A k, l \in {"enc", "dec"} :
          Token(k) \in Int /\ (Token(k) = Token(l) <=> k = l) /\ Token(k) \notin {Plus, Question}
    /\ \A k, l \in {"enc", "dec"} : Token(k) = Token(Other(l)) <=> k # l
    /\ {Plus, Question, Star, Nl, Yes, No} \subseteq Int
    /\ \A n \in Int : Length(n) \in Int /\ Length(n) - Length(0) = n
BY DEF Token, Other, Plus, Question, Star, Nl, Yes, No, Length

\* Streams of no byte and of one.
LEMMA OneByteStreams ==
    /\ <<>> \in Bytes /\ Len(<<>>) = 0
    /\ \A b \in Int : /\ <<b>> \in Bytes /\ Append(<<>>, b) = <<b>> /\ Len(<<b>>) = 1
                      /\ <<b>> # <<>> /\ <<b>>[1] = b /\ Tail(<<b>>) = <<>>
    /\ \A b, e : <<b>> = <<e>> <=> b = e
BY DEF Bytes

\* Streams put one after the other.
LEMMA Joined ==
    /\ \A s, t \in Bytes : s \o t \in Bytes /\ Len(s \o t) = Len(s) + Len(t)
    /\ \A s, t, u \in Bytes : (s \o t) \o u = s \o (t \o u)
    /\ \A s \in Bytes : Len(s) \in Nat /\ <<>> \o s = s /\ s \o <<>> = s
    /\ \A s \in Bytes : Len(s) = 0 => s = <<>>
<1>1. \A s, t, u \in Bytes : (s \o t) \o u = s \o (t \o u)
  BY ConcatAssociative DEF Bytes
<1>2. \A s \in Bytes : Len(s) = 0 => s = <<>>
  BY EmptySeq DEF Bytes
<1> QED
  BY <1>1, <1>2 DEF Bytes

\* The bytes of two streams that are joined.
LEMMA BytesOf ==
    ASSUME NEW s \in Bytes, NEW t \in Bytes
    PROVE  /\ s \o t \in Bytes /\ Len(s \o t) = Len(s) + Len(t)
           /\ Len(s) \in Nat /\ Len(t) \in Nat
           /\ \A i \in 1 .. Len(s) : (s \o t)[i] = s[i]
           /\ \A i \in 1 .. Len(t) : (s \o t)[Len(s) + i] = t[i]
BY ConcatProperties DEF Bytes

\* The string that Rico's client sends has its first star behind the text.
LEMMA StringIs ==
    ASSUME InputInv
    PROVE  /\ TheString \in Bytes /\ Len(TheString) = Len(text) + Len(key) + 2
           /\ \A i \in 1 .. Len(text) : TheString[i] = text[i]
           /\ TheString[Len(text) + 1] = Star
           /\ \A i \in 1 .. Len(key) : TheString[Len(text) + 1 + i] = key[i]
           /\ TheString[Len(text) + Len(key) + 2] = Nl
<1>1. text \in Bytes /\ key \in Bytes /\ <<Star>> \in Bytes /\ <<Nl>> \in Bytes
  BY FilesAre, Codes, OneByteStreams
<1>2. Len(<<Star>>) = 1 /\ Len(<<Nl>>) = 1 /\ <<Star>>[1] = Star /\ <<Nl>>[1] = Nl
  OBVIOUS
<1> DEFINE A == text \o <<Star>>
           B == A \o key
<1>3. /\ A \in Bytes /\ Len(A) = Len(text) + 1 /\ Len(text) \in Nat
      /\ \A i \in 1 .. Len(text) : A[i] = text[i]
      /\ A[Len(text) + 1] = Star
  BY <1>1, <1>2, BytesOf
<1> HIDE DEF A
<1>4. /\ B \in Bytes /\ Len(B) = Len(A) + Len(key) /\ Len(key) \in Nat
      /\ \A i \in 1 .. Len(A) : B[i] = A[i]
      /\ \A i \in 1 .. Len(key) : B[Len(A) + i] = key[i]
  BY <1>1, <1>3, BytesOf, Zenon
<1>5. TheString = B \o <<Nl>>
  BY DEF TheString, A
<1> HIDE DEF B
<1>6. /\ TheString \in Bytes /\ Len(TheString) = Len(B) + 1
      /\ \A i \in 1 .. Len(B) : TheString[i] = B[i]
      /\ TheString[Len(B) + 1] = Nl
  <2>1. /\ TheString \in Bytes /\ Len(TheString) = Len(B) + Len(<<Nl>>)
        /\ \A i \in 1 .. Len(B) : TheString[i] = B[i]
        /\ \A i \in 1 .. Len(<<Nl>>) : TheString[Len(B) + i] = <<Nl>>[i]
    BY <1>1, <1>4, <1>5, BytesOf, Zenon
  <2> QED
    BY <1>2, <2>1
<1>7. \A i \in 1 .. Len(text) : TheString[i] = text[i]
  BY <1>3, <1>4, <1>6
<1>8. TheString[Len(text) + 1] = Star
  BY <1>3, <1>4, <1>6
<1>9. \A i \in 1 .. Len(key) : TheString[Len(text) + 1 + i] = key[i]
  BY <1>3, <1>4, <1>6
<1> QED
  BY <1>3, <1>4, <1>6, <1>7, <1>8, <1>9

\* The least of a set of positions.
LEMMA Least ==
    ASSUME NEW S, S \subseteq Nat, S # {}
    PROVE  Min(S) \in S /\ \A j \in S : Min(S) =< j
<1>1. PICK x \in S : \A y \in S : ~(<<y, x>> \in OpToRel(<, Nat))
  BY NatLessThanWellFounded, WFMin, Zenon
<1>2. ASSUME NEW y \in S, y < x PROVE FALSE
  <2>1. x \in Nat /\ y \in Nat
    OBVIOUS
  <2>2. <<y, x>> \in OpToRel(<, Nat)
    BY <1>2, <2>1 DEF OpToRel
  <2> QED
    BY <1>1, <2>2
<1>3. \A y \in S : x =< y
  BY <1>2
<1> QED
  BY <1>3 DEF Min

\* A part of a stream.
LEMMA PartOf ==
    ASSUME NEW s \in Bytes, NEW m \in 1 .. Len(s) + 1, NEW n \in m - 1 .. Len(s)
    PROVE  /\ SubSeq(s, m, n) \in Bytes /\ Len(SubSeq(s, m, n)) = n - m + 1
           /\ \A i \in 1 .. n - m + 1 : SubSeq(s, m, n)[i] = s[m + i - 1]
<1>1. Len(s) \in Nat /\ \A i \in m .. n : s[i] \in Int
  BY DEF Bytes
<1>2. /\ SubSeq(s, m, n) \in Seq(Int)
      /\ Len(SubSeq(s, m, n)) = IF m <= n THEN n - m + 1 ELSE 0
      /\ \A i \in 1 .. n - m + 1 : SubSeq(s, m, n)[i] = s[m + i - 1]
  BY <1>1, SubSeqProperties
<1> QED
  BY <1>1, <1>2 DEF Bytes

\* What strlen() sees is the beginning of an array, or all of it.
LEMMA CStringIs ==
    ASSUME NEW s \in Bytes
    PROVE  /\ CString(s) \in Bytes /\ Len(CString(s)) =< Len(s)
           /\ \A i \in 1 .. Len(CString(s)) : CString(s)[i] = s[i]
           /\ (\A i \in 1 .. Len(s) : s[i] \in Letters) => CString(s) = s
<1> DEFINE ends == {i \in DOMAIN s : s[i] = Nul \/ IsLength(s[i])}
<1>1. DOMAIN s = 1 .. Len(s) /\ Len(s) \in Nat
  BY DEF Bytes
<1>2. CString(s) = IF ends = {} THEN s ELSE SubSeq(s, 1, Min(ends) - 1)
  BY DEF CString
<1>3. (\A i \in 1 .. Len(s) : s[i] \in Letters) => ends = {}
  BY <1>1, FileBytes
<1>4. CASE ends = {}
  BY <1>1, <1>2, <1>4
<1>5. CASE ends # {}
  <2>1. ends \subseteq Nat
    BY <1>1
  <2>2. Min(ends) \in 1 .. Len(s)
    <3> HIDE DEF ends
    <3>1. Min(ends) \in ends
      BY <1>5, <2>1, Least
    <3> QED
      BY <1>1, <3>1 DEF ends
  <2> HIDE DEF ends
  <2>3. 1 \in 1 .. Len(s) + 1 /\ Min(ends) - 1 \in 1 - 1 .. Len(s)
    BY <1>1, <2>2
  <2>4. /\ CString(s) \in Bytes /\ Len(CString(s)) = (Min(ends) - 1) - 1 + 1
        /\ \A i \in 1 .. (Min(ends) - 1) - 1 + 1 : CString(s)[i] = s[1 + i - 1]
    BY <1>2, <1>5, <2>3, PartOf, Zenon
  <2> QED
    BY <1>1, <1>3, <1>5, <2>2, <2>4
<1> QED
  BY <1>4, <1>5

\* A string without the stars it begins with.
LEMMA SkippedIs ==
    ASSUME NEW s \in Bytes
    PROVE  /\ Rico!Skipped(s) \in Bytes
           /\ s # <<>> /\ s[1] # Star => Rico!Skipped(s) = s
<1> DEFINE others == {i \in DOMAIN s : s[i] # Star}
<1>1. DOMAIN s = 1 .. Len(s) /\ Len(s) \in Nat
  BY DEF Bytes
<1>2. Rico!Skipped(s) = IF others = {} THEN <<>> ELSE SubSeq(s, Min(others), Len(s))
  BY RicoIs DEF Rico!Skipped
<1>3. others = {} => Rico!Skipped(s) \in Bytes
  BY <1>2, OneByteStreams
<1>4. ASSUME others # {} PROVE Min(others) \in others /\ \A j \in others : Min(others) =< j
  <2>1. others \subseteq Nat
    BY <1>1
  <2> HIDE DEF others
  <2> QED
    BY <1>4, <2>1, Least
<1>5. ASSUME others # {} PROVE Rico!Skipped(s) \in Bytes
  <2>1. Min(others) \in 1 .. Len(s)
    BY <1>1, <1>4, <1>5
  <2> HIDE DEF others
  <2>2. Min(others) \in 1 .. Len(s) + 1 /\ Len(s) \in Min(others) - 1 .. Len(s)
    BY <1>1, <2>1
  <2> QED
    BY <1>2, <1>5, <2>2, PartOf, Zenon
<1>6. ASSUME s # <<>>, s[1] # Star PROVE Rico!Skipped(s) = s
  <2>1. Len(s) # 0
    BY <1>6, Joined
  <2>2. 1 \in others
    BY <1>1, <1>6, <2>1
  <2>3. Min(others) = 1
    <3>1. Min(others) \in 1 .. Len(s) /\ Min(others) =< 1
      BY <1>1, <1>4, <2>2
    <3> HIDE DEF others
    <3> QED
      BY <1>1, <3>1
  <2>4. Rico!Skipped(s) = SubSeq(s, 1, Len(s))
    BY <1>2, <2>2, <2>3
  <2> QED
    BY <2>4, SubSeqFull DEF Bytes
<1> QED
  BY <1>3, <1>5, <1>6

\* The two tokens of a string.
LEMMA TokensAre ==
    ASSUME NEW s \in Bytes
    PROVE  /\ Rico!MessageOf(s) \in Bytes /\ Rico!KeyOf(s) \in Bytes
           /\ Rico!Stars(s) # {} =>
                 /\ Min(Rico!Stars(s)) \in 1 .. Len(s)
                 /\ Rico!MessageOf(s) = SubSeq(s, 1, Min(Rico!Stars(s)) - 1)
                 /\ Rico!KeyOf(s) = Rico!Skipped(SubSeq(s, Min(Rico!Stars(s)) + 1, Len(s)))
                 /\ SubSeq(s, Min(Rico!Stars(s)) + 1, Len(s)) \in Bytes
<1>1. DOMAIN s = 1 .. Len(s) /\ Len(s) \in Nat
  BY DEF Bytes
<1>2. Rico!Stars(s) \subseteq 1 .. Len(s)
  BY <1>1 DEF Rico!Stars
<1>3. CASE Rico!Stars(s) = {}
  <2>1. Rico!MessageOf(s) = s /\ Rico!KeyOf(s) = <<>>
    BY <1>3 DEF Rico!MessageOf, Rico!KeyOf
  <2> QED
    BY <1>3, <2>1, OneByteStreams
<1>4. CASE Rico!Stars(s) # {}
  <2> DEFINE n == Min(Rico!Stars(s))
  <2>1. Rico!Stars(s) \subseteq Nat
    BY <1>1, <1>2
  <2>2. n \in 1 .. Len(s)
    BY <1>2, <1>4, <2>1, Least
  <2>3. /\ Rico!MessageOf(s) = SubSeq(s, 1, n - 1)
        /\ Rico!KeyOf(s) = Rico!Skipped(SubSeq(s, n + 1, Len(s)))
    BY <1>4, RicoIs DEF Rico!MessageOf, Rico!KeyOf
  <2> HIDE DEF n
  <2>4. /\ 1 \in 1 .. Len(s) + 1 /\ n - 1 \in 1 - 1 .. Len(s)
        /\ n + 1 \in 1 .. Len(s) + 1 /\ Len(s) \in (n + 1) - 1 .. Len(s)
    BY <1>1, <2>2
  <2>5. SubSeq(s, 1, n - 1) \in Bytes /\ SubSeq(s, n + 1, Len(s)) \in Bytes
    BY <2>4, PartOf, Zenon
  <2>6. Rico!KeyOf(s) \in Bytes
    BY <2>3, <2>5, SkippedIs
  <2> QED
    BY <1>4, <2>2, <2>3, <2>5, <2>6 DEF n
<1> QED
  BY <1>3, <1>4

\* Text and key come out of the string as they went in.
LEMMA TokensOfTheString ==
    ASSUME InputInv, ~Rico!FilesRefused, Tokens
    PROVE  LET string == Rico!Skipped(TheString)
           IN  /\ Rico!MessageOf(string) = text
               /\ Rico!KeyOf(string) \in Bytes /\ Len(Rico!KeyOf(string)) = Len(key) + 1
               /\ \A i \in 1 .. Len(key) : Rico!KeyOf(string)[i] = key[i]
<1>1. /\ text \in Bytes /\ key \in Bytes /\ Len(text) \in Nat /\ Len(key) \in Nat
      /\ DOMAIN text = 1 .. Len(text) /\ text # <<>> /\ key[1] # Star
  BY FilesAre DEF Bytes, Tokens
<1>2. /\ Len(text) # 0 /\ Len(text) =< Len(key)
      /\ \A i \in 1 .. Len(text) : text[i] # Star
  <2>1. ~(Len(text) > Len(key)) /\ \A i \in DOMAIN text : text[i] # Star
    BY RicoIs DEF Rico!FilesRefused
  <2>2. Len(text) # 0
    BY <1>1, Joined
  <2> QED
    BY <1>1, <2>1, <2>2
<1>3. /\ TheString \in Bytes /\ Len(TheString) = Len(text) + Len(key) + 2
      /\ DOMAIN TheString = 1 .. Len(text) + Len(key) + 2
      /\ \A i \in 1 .. Len(text) : TheString[i] = text[i]
      /\ TheString[Len(text) + 1] = Star
      /\ \A i \in 1 .. Len(key) : TheString[Len(text) + 1 + i] = key[i]
      /\ TheString[Len(text) + Len(key) + 2] = Nl
  BY StringIs DEF Bytes
<1>4. Rico!Skipped(TheString) = TheString
  <2>1. 1 \in 1 .. Len(text)
    BY <1>1, <1>2
  <2>2. TheString[1] # Star
    BY <1>2, <1>3, <2>1
  <2>3. TheString # <<>>
    BY <1>1, <1>3
  <2> QED
    BY <1>3, <2>2, <2>3, SkippedIs
<1>5. Min(Rico!Stars(TheString)) = Len(text) + 1 /\ Rico!Stars(TheString) # {}
  <2> DEFINE stars == Rico!Stars(TheString)
  <2>1. stars = {i \in 1 .. Len(text) + Len(key) + 2 : TheString[i] = Star}
    BY <1>3, RicoIs DEF Rico!Stars
  <2>2. Len(text) + 1 \in stars
    BY <1>1, <1>3, <2>1
  <2>3. \A i \in stars : Len(text) + 1 =< i /\ i \in Nat
    <3> SUFFICES ASSUME NEW i \in stars, i \in 1 .. Len(text) PROVE FALSE
      BY <1>1, <2>1
    <3>1. TheString[i] = text[i] /\ TheString[i] = Star
      BY <1>3, <2>1
    <3> QED
      BY <1>2, <3>1
  <2> HIDE DEF stars
  <2>4. Min(stars) \in stars /\ Min(stars) =< Len(text) + 1
    BY <2>2, <2>3, Least
  <2>5. Min(stars) = Len(text) + 1
    BY <1>1, <2>3, <2>4
  <2> QED
    BY <2>2, <2>5 DEF stars
<1> DEFINE q == SubSeq(TheString, Len(text) + 2, Len(text) + Len(key) + 2)
<1>6. /\ Rico!MessageOf(TheString) = SubSeq(TheString, 1, Len(text))
      /\ Rico!KeyOf(TheString) = Rico!Skipped(q)
  <2>1. (Len(text) + 1) - 1 = Len(text) /\ (Len(text) + 1) + 1 = Len(text) + 2
    BY <1>1
  <2>2. /\ Rico!MessageOf(TheString) = SubSeq(TheString, 1, (Len(text) + 1) - 1)
        /\ Rico!KeyOf(TheString)
             = Rico!Skipped(SubSeq(TheString, (Len(text) + 1) + 1, Len(TheString)))
    BY <1>3, <1>5, TokensAre
  <2> QED
    BY <1>3, <2>1, <2>2
<1>7. SubSeq(TheString, 1, Len(text)) = text
  <2>1. 1 \in 1 .. Len(TheString) + 1 /\ Len(text) \in 1 - 1 .. Len(TheString)
    BY <1>1, <1>3
  <2>2. /\ SubSeq(TheString, 1, Len(text)) \in Bytes
        /\ Len(SubSeq(TheString, 1, Len(text))) = Len(text) - 1 + 1
        /\ \A i \in 1 .. Len(text) - 1 + 1 :
              SubSeq(TheString, 1, Len(text))[i] = TheString[1 + i - 1]
    BY <1>3, <2>1, PartOf, Zenon
  <2> DEFINE m == SubSeq(TheString, 1, Len(text))
  <2> HIDE DEF m
  <2>3. m \in Bytes /\ Len(m) = Len(text) /\ \A i \in 1 .. Len(text) : m[i] = text[i]
    <3>1. Len(text) - 1 + 1 = Len(text) /\ \A i \in 1 .. Len(text) : 1 + i - 1 = i
      BY <1>1
    <3> QED
      BY <1>3, <2>2, <3>1 DEF m
  <2>4. m = text
    BY <1>1, <2>3, SeqEqual DEF Bytes
  <2> QED
    BY <2>4 DEF m
<1>8. /\ q \in Bytes /\ Len(q) = Len(key) + 1
      /\ \A i \in 1 .. Len(key) : q[i] = key[i]
  <2>1. /\ Len(text) + 2 \in 1 .. Len(TheString) + 1
        /\ Len(text) + Len(key) + 2 \in (Len(text) + 2) - 1 .. Len(TheString)
    BY <1>1, <1>3
  <2>2. /\ q \in Bytes /\ Len(q) = (Len(text) + Len(key) + 2) - (Len(text) + 2) + 1
        /\ \A i \in 1 .. (Len(text) + Len(key) + 2) - (Len(text) + 2) + 1 :
              q[i] = TheString[(Len(text) + 2) + i - 1]
    BY <1>3, <2>1, PartOf, Zenon
  <2> HIDE DEF q
  <2>3. Len(q) = Len(key) + 1
    BY <1>1, <2>2
  <2>4. ASSUME NEW i \in 1 .. Len(key) PROVE q[i] = key[i]
    <3>1. i \in 1 .. (Len(text) + Len(key) + 2) - (Len(text) + 2) + 1
          /\ (Len(text) + 2) + i - 1 = Len(text) + 1 + i
      BY <1>1
    <3> QED
      BY <1>3, <2>2, <3>1
  <2> QED
    BY <2>2, <2>3, <2>4
<1> HIDE DEF q
<1>9. Rico!Skipped(q) = q
  <2>1. 1 \in 1 .. Len(key)
    BY <1>1, <1>2
  <2>2. q[1] # Star
    BY <1>1, <1>8, <2>1
  <2>3. q # <<>>
    BY <1>1, <1>8, OneByteStreams
  <2> QED
    BY <1>8, <2>2, <2>3, SkippedIs
<1> QED
  BY <1>4, <1>6, <1>7, <1>8, <1>9

\* The numbers of a string are those of its letters.
LEMMA Numbers ==
    ASSUME NEW s \in Bytes, NEW t \in Rico!cToI(s)
    PROVE  \A i \in 1 .. Len(s) : t[i] \in Int /\ (s[i] \in Letters => t[i] = s[i])
<1>1. DOMAIN s = 1 .. Len(s)
  BY DEF Bytes
<1>2. PICK left \in [{i \in DOMAIN s : s[i] \notin Letters} -> Unreturned] :
         t = [i \in DOMAIN s |-> IF s[i] \in Letters THEN s[i] ELSE left[i]]
  BY RicoIs DEF Rico!cToI
<1> QED
  BY <1>1, <1>2, UnreturnedAssumption, FileBytes

\* The bytes of a key at some places.
LEMMA KeyBytesAre ==
    ASSUME NEW pad \in Bytes, NEW n \in Nat
    PROVE  /\ Rico!KeyBytes(pad, n) \in Bytes /\ Len(Rico!KeyBytes(pad, n)) = n
           /\ \A i \in 1 .. n : i =< Len(pad) => Rico!KeyBytes(pad, n)[i] = pad[i]
<1>1. DOMAIN pad = 1 .. Len(pad) /\ Len(pad) \in Nat /\ \A i \in 1 .. Len(pad) : pad[i] \in Int
  BY DEF Bytes
<1>2. Rico!KeyBytes(pad, n) = [i \in 1 .. n |-> IF i \in 1 .. Len(pad) THEN pad[i] ELSE Nul]
  BY <1>1, RicoIs DEF Rico!KeyBytes
<1>3. Nul \in Int
  BY DEF Nul
<1> QED
  BY <1>1, <1>2, <1>3 DEF Bytes

\* The remainder of C, and what decryptText() makes of it.
LEMMA Remainders ==
    /\ \A n \in Int : /\ Rico!Remainder(n, 27) \in -26 .. 26
                      /\ Rico!Wrapped(Rico!Remainder(n, 27)) \in Letters
    /\ \A t, k \in Letters :
          /\ Rico!Remainder(t + k, 27) = (t + k) % 27 /\ (t + k) % 27 \in Letters
          /\ (Rico!Wrapped(Rico!Remainder(t - k, 27)) + k) % 27 = t
BY DEF Rico!Remainder, Rico!Wrapped, Letters

\* What encryptText() may leave: a letter is right wherever it has two letters.
LEMMA Encrypted ==
    ASSUME NEW m \in Bytes, NEW pad \in Bytes, NEW answer \in Rico!encryptText(m, pad)
    PROVE  /\ answer \in Bytes /\ Len(answer) = Len(m)
           /\ \A i \in 1 .. Len(m) :
                 m[i] \in Letters /\ i =< Len(pad) /\ pad[i] \in Letters
                   => answer[i] = (m[i] + pad[i]) % 27 /\ answer[i] \in Letters
<1>1. DOMAIN m = 1 .. Len(m) /\ Len(m) \in Nat
  BY DEF Bytes
<1>2. PICK t \in Rico!cToI(m), k \in Rico!cToI(Rico!KeyBytes(pad, Len(m))),
           before \in [1 .. Len(m) -> {Junk, Nul}] :
         answer = [i \in 1 .. Len(m) |-> Rico!iToC(Rico!Remainder(t[i] + k[i], 27), before[i])]
  BY <1>1, RicoIs DEF Rico!encryptText
<1>3. \A i \in 1 .. Len(m) : t[i] \in Int /\ (m[i] \in Letters => t[i] = m[i])
  BY Numbers
<1>4. \A i \in 1 .. Len(m) :
         k[i] \in Int /\ (i =< Len(pad) /\ pad[i] \in Letters => k[i] = pad[i])
  <2>1. /\ Rico!KeyBytes(pad, Len(m)) \in Bytes /\ Len(Rico!KeyBytes(pad, Len(m))) = Len(m)
        /\ \A i \in 1 .. Len(m) : i =< Len(pad) => Rico!KeyBytes(pad, Len(m))[i] = pad[i]
    BY <1>1, KeyBytesAre
  <2>2. \A i \in 1 .. Len(m) : /\ k[i] \in Int
                               /\ Rico!KeyBytes(pad, Len(m))[i] \in Letters
                                    => k[i] = Rico!KeyBytes(pad, Len(m))[i]
    BY <2>1, Numbers
  <2> QED
    BY <2>1, <2>2
<1>5. \A i \in 1 .. Len(m) : answer[i] \in Int
  <2> SUFFICES ASSUME NEW i \in 1 .. Len(m) PROVE answer[i] \in Int
    OBVIOUS
  <2>1. t[i] + k[i] \in Int
    BY <1>3, <1>4
  <2>2. Rico!Remainder(t[i] + k[i], 27) \in Int
    BY <2>1, Remainders
  <2>3. before[i] \in Int
    BY DEF Junk, Nul
  <2> QED
    BY <1>2, <2>2, <2>3 DEF Rico!iToC
<1>6. answer \in Bytes /\ Len(answer) = Len(m)
  BY <1>1, <1>2, <1>5 DEF Bytes
<1>7. ASSUME NEW i \in 1 .. Len(m), m[i] \in Letters, i =< Len(pad), pad[i] \in Letters
      PROVE  answer[i] = (m[i] + pad[i]) % 27 /\ answer[i] \in Letters
  <2>1. t[i] = m[i] /\ k[i] = pad[i]
    BY <1>3, <1>4, <1>7
  <2>2. /\ Rico!Remainder(m[i] + pad[i], 27) = (m[i] + pad[i]) % 27
        /\ (m[i] + pad[i]) % 27 \in Letters
    BY <1>7, Remainders
  <2>3. (m[i] + pad[i]) % 27 >= 0
    BY <2>2 DEF Letters
  <2>4. answer[i] = Rico!iToC((m[i] + pad[i]) % 27, before[i])
    BY <1>2, <2>1, <2>2
  <2> QED
    BY <2>2, <2>3, <2>4 DEF Rico!iToC
<1> QED
  BY <1>6, <1>7

\* What decryptText() may leave: letters, and the right ones.
LEMMA Decrypted ==
    ASSUME NEW m \in Bytes, NEW pad \in Bytes, NEW answer \in Rico!decryptText(m, pad)
    PROVE  /\ answer \in Bytes /\ Len(answer) = Len(m)
           /\ \A i \in 1 .. Len(m) : answer[i] \in Letters
           /\ \A i \in 1 .. Len(m) :
                 m[i] \in Letters /\ i =< Len(pad) /\ pad[i] \in Letters
                   => (answer[i] + pad[i]) % 27 = m[i]
<1>1. DOMAIN m = 1 .. Len(m) /\ Len(m) \in Nat
  BY DEF Bytes
<1>2. PICK t \in Rico!cToI(m), k \in Rico!cToI(Rico!KeyBytes(pad, Len(m))) :
         answer = [i \in 1 .. Len(m) |-> Rico!Wrapped(Rico!Remainder(t[i] - k[i], 27))]
  BY <1>1 DEF Rico!decryptText
<1>3. \A i \in 1 .. Len(m) : t[i] \in Int /\ (m[i] \in Letters => t[i] = m[i])
  BY Numbers
<1>4. \A i \in 1 .. Len(m) :
         k[i] \in Int /\ (i =< Len(pad) /\ pad[i] \in Letters => k[i] = pad[i])
  <2>1. /\ Rico!KeyBytes(pad, Len(m)) \in Bytes /\ Len(Rico!KeyBytes(pad, Len(m))) = Len(m)
        /\ \A i \in 1 .. Len(m) : i =< Len(pad) => Rico!KeyBytes(pad, Len(m))[i] = pad[i]
    BY <1>1, KeyBytesAre
  <2>2. \A i \in 1 .. Len(m) : /\ k[i] \in Int
                               /\ Rico!KeyBytes(pad, Len(m))[i] \in Letters
                                    => k[i] = Rico!KeyBytes(pad, Len(m))[i]
    BY <2>1, Numbers
  <2> QED
    BY <2>1, <2>2
<1>5. \A i \in 1 .. Len(m) : answer[i] \in Letters
  <2> SUFFICES ASSUME NEW i \in 1 .. Len(m) PROVE answer[i] \in Letters
    OBVIOUS
  <2>1. t[i] - k[i] \in Int
    BY <1>3, <1>4
  <2> QED
    BY <1>2, <2>1, Remainders
<1>6. answer \in Bytes /\ Len(answer) = Len(m)
  <2>1. \A i \in 1 .. Len(m) : answer[i] \in Int
    BY <1>5, FileBytes
  <2> QED
    BY <1>1, <1>2, <2>1 DEF Bytes
<1>7. ASSUME NEW i \in 1 .. Len(m), m[i] \in Letters, i =< Len(pad), pad[i] \in Letters
      PROVE  (answer[i] + pad[i]) % 27 = m[i]
  <2>1. t[i] = m[i] /\ k[i] = pad[i]
    BY <1>3, <1>4, <1>7
  <2>2. (Rico!Wrapped(Rico!Remainder(m[i] - pad[i], 27)) + pad[i]) % 27 = m[i]
    BY <1>7, Remainders
  <2> QED
    BY <1>2, <2>1, <2>2
<1> QED
  BY <1>5, <1>6, <1>7

\* What the child answers to the whole string is right, and it has a key.
LEMMA RicoServes ==
    ASSUME InputInv, ~Rico!FilesRefused, kind = daemon,
           NEW m, m = Rico!MessageOf(Rico!Skipped(TheString)),
           NEW pad, pad = Rico!KeyOf(Rico!Skipped(TheString)),
           NEW answer \in IF daemon = "enc" THEN Rico!encryptText(m, pad)
                                            ELSE Rico!decryptText(m, pad)
    PROVE  CString(answer) \in Bytes /\ RightFor(CString(answer))
<1>1. m \in Bytes /\ pad \in Bytes
  BY StringIs, SkippedIs, TokensAre
<1>2. answer \in Bytes /\ Len(answer) = Len(m)
  BY <1>1, Encrypted, Decrypted
<1>3. /\ CString(answer) \in Bytes /\ Len(CString(answer)) =< Len(answer)
      /\ \A i \in 1 .. Len(CString(answer)) : CString(answer)[i] = answer[i]
      /\ (\A i \in 1 .. Len(answer) : answer[i] \in Letters) => CString(answer) = answer
  BY <1>2, CStringIs
<1>4. ASSUME Tokens PROVE LettersRight(CString(answer))
  <2>1. m = text /\ Len(pad) = Len(key) + 1 /\ \A i \in 1 .. Len(key) : pad[i] = key[i]
    BY <1>4, TokensOfTheString
  <2>2. /\ Len(text) \in Nat /\ Len(key) \in Nat /\ Len(text) =< Len(key)
        /\ DOMAIN text = 1 .. Len(text)
    <3>1. text \in Bytes /\ key \in Bytes
      BY FilesAre
    <3> QED
      BY <3>1 DEF Bytes, Rico!FilesRefused
  <2>3. ASSUME NEW i \in 1 .. Len(text), Enciphers(i)
        PROVE  /\ IF kind = "enc" THEN answer[i] = (text[i] + key[i]) % 27
                                  ELSE answer[i] \in Letters /\ (answer[i] + key[i]) % 27 = text[i]
               /\ answer[i] \in Letters
    <3>1. /\ m[i] = text[i] /\ pad[i] = key[i] /\ i =< Len(pad)
          /\ text[i] \in Letters /\ key[i] \in Letters
      BY <2>1, <2>2, <2>3 DEF Enciphers
    <3>2. CASE kind = "enc"
      BY <1>1, <2>1, <3>1, <3>2, Encrypted
    <3>3. CASE kind # "enc"
      BY <1>1, <2>1, <3>1, <3>3, Decrypted
    <3> QED
      BY <3>2, <3>3
  <2>4. DOMAIN CString(answer) = 1 .. Len(CString(answer))
        /\ Len(CString(answer)) =< Len(text) /\ Len(CString(answer)) \in Nat
    BY <1>2, <1>3, <2>1 DEF Bytes
  <2>5. \A i \in DOMAIN CString(answer) : Enciphers(i) => RightAt(CString(answer), i)
    BY <1>3, <2>2, <2>3, <2>4 DEF RightAt
  <2>6. kind = "dec" \/ (\A i \in DOMAIN text : Enciphers(i))
          => Len(CString(answer)) = Len(text)
    <3>1. ASSUME kind = "dec" PROVE \A i \in 1 .. Len(answer) : answer[i] \in Letters
      BY <1>1, <1>2, <3>1, Decrypted
    <3>2. ASSUME \A i \in DOMAIN text : Enciphers(i)
          PROVE  \A i \in 1 .. Len(answer) : answer[i] \in Letters
      BY <1>2, <2>1, <2>2, <2>3, <3>2
    <3> QED
      BY <1>2, <1>3, <2>1, <3>1, <3>2
  <2> QED
    BY <2>4, <2>5, <2>6 DEF LettersRight
<1> QED
  BY <1>3, <1>4 DEF RightFor

-----------------------------------------------------------------------------
\* The input stays what it is.
LEMMA InputKept ==
    ASSUME UNCHANGED input, InputInv
    PROVE  /\ InputInv' /\ TheString' = TheString
           /\ (Rico!FilesRefused)' <=> Rico!FilesRefused
           /\ kind' = kind /\ daemon' = daemon /\ text' = text /\ key' = key
           /\ Tokens' <=> Tokens
           /\ \A a : IsAnswer(a)' <=> IsAnswer(a)
           /\ \A a : RightFor(a)' <=> RightFor(a)
BY DEF input, InputInv, TheString, Rico!FilesRefused, Rico!Bad, Rico!Star, IsAnswer,
       RightAt, Letters, Tokens, Star, RightFor, LettersRight, Enciphers

\* Two streams that are joined, in front of a third.
LEMMA Regroup ==
    ASSUME NEW s \in Bytes, NEW t \in Bytes, NEW u \in Bytes
    PROVE  /\ s \o t \in Bytes /\ Len(s \o t) = Len(s) + Len(t)
           /\ (s \o t) \o u = s \o (t \o u)
BY Joined, Zenon

\* A client that waits for a side that lives gets something.
LEMMA ClientGetsSome ==
    ASSUME StreamsOK, NEW bytes, NEW max \in Int, NEW closed, ~closed,
           ClientReceives(bytes, max, closed)
    PROVE  bytes # <<>>
<1>1. ClientReceives(bytes, max, FALSE)
  BY DEF ClientReceives, Arrived
<1> QED
  BY <1>1, ClientGets, Zenon

\* The instance's recv() is OtpWire's.
LEMMA RicoReceives ==
    /\ \A b, m : Rico!ClientReceives(b, m, Rico!ChildGone) => ClientReceives(b, m, ChildGone)
    /\ \A b, m : Rico!ChildReceives(b, m) => ChildReceives(b, m)
BY DEF Rico!ChildReceives, ChildReceives, Rico!ClientReceives, ClientReceives,
       Rico!Arrived, Arrived, Rico!Rest, Rest, Rico!Min, Min,
       Rico!ClientGone, ClientGone, Rico!ChildGone, ChildGone

\* A client that is through stays so, and does not look at the streams.
LEMMA RicoQuiet ==
    ASSUME WireInv, RicoInv, Rico!RicoNext, ~Live
    PROVE  WireInv' /\ RicoInv'
<1> DEFINE Quiet ==
      /\ UNCHANGED input
      /\ UNCHANGED c \/ c' = [c EXCEPT !.at = "killed"]
      /\ \/ UNCHANGED d
         \/ d.at = "accept" /\ d' = [d EXCEPT !.at = "auth"]
         \/ d.at = "auth" /\ d' = [d EXCEPT !.at = "length"]
         \/ \E p \in {"spins", "crashed", "exited"} : d' = [d EXCEPT !.at = p]
         \/ \E n : d' = [d EXCEPT !.at = "text", !.size = n]
         \/ d.at = "text" /\ \E b, n : d' = [d EXCEPT !.buffer = b, !.count = n]
<1>1. Quiet
  <2> USE DEF Rico!input, input
  <2>1. CASE Rico!RicoClientNext
    BY <2>1 DEF Rico!RicoClientNext, Live, Rico!RicoConnect, Rico!RicoAuthorised,
       Rico!sendToServer, Rico!RicoAnswerLength, Rico!RicoAnswer, Rico!RicoPrint
  <2>2. CASE Rico!Kill
    BY <2>2 DEF Rico!Kill
  <2>3. CASE Rico!RicoAccept
    BY <2>3 DEF Rico!RicoAccept
  <2>4. CASE Rico!RicoAuthorise
    BY <2>4 DEF Rico!RicoAuthorise
  <2>5. CASE Rico!RicoLength
    BY <2>5 DEF Rico!RicoLength
  <2>6. CASE Rico!RicoText
    BY <2>6 DEF Rico!RicoText
  <2>7. CASE Rico!RicoServe
    BY <2>7 DEF Rico!RicoServe
  <2> QED
    BY <2>1, <2>2, <2>3, <2>4, <2>5, <2>6, <2>7 DEF Rico!RicoNext, Rico!RicoChildNext
<1>2. {"at", "answer", "buffer", "size", "count"} \subseteq DOMAIN c
      /\ {"at", "message", "pad", "buffer", "size", "count", "taken"} \subseteq DOMAIN d
  BY DEF WireInv, RecordsOK
<1>3. /\ RecordsOK'
      /\ d'.at \in {"accept", "auth", "length"} => d'.buffer = <<>> /\ d'.count = 0
  BY <1>1, <1>2 DEF RecordsOK, RicoInv
<1>4. c' = c \/ c' = [c EXCEPT !.at = "killed"]
  BY <1>1 DEF Live
<1>5. (c'.at = c.at /\ c' = c) \/ c'.at = "killed"
  BY <1>2, <1>4
<1>6. ~Live' /\ InputInv'
  BY <1>1, <1>5, InputKept DEF Live, WireInv
<1>7. c'.at = "done" => RightFor(c.answer)' 
  BY <1>1, <1>5, InputKept DEF WireInv, RicoInv
<1> QED
  BY <1>3, <1>5, <1>6, <1>7 DEF WireInv, RicoInv, Live

\* The client connects and shows its token.
LEMMA RicoConnectKeeps ==
    ASSUME WireInv, RicoInv, Rico!RicoConnect
    PROVE  WireInv' /\ RicoInv'
<1>1. /\ c.at = "start" /\ c' = [c EXCEPT !.at = "auth"]
      /\ up' = Append(up, Token(kind))
      /\ UNCHANGED <<input, d, down>>
  BY RicoIs DEF Rico!RicoConnect, Rico!input, input
<1>2. /\ InputInv /\ RecordsOK /\ StreamsOK /\ d.at = "accept" /\ up = <<>> /\ down = <<>>
      /\ c.answer = <<>> /\ d.buffer = <<>> /\ d.count = 0
  BY <1>1 DEF WireInv, Live, RicoInv
<1>3. /\ c'.at = "auth" /\ c'.answer = <<>> /\ c'.size = c.size
      /\ up' = <<Token(kind)>> /\ up' \in Bytes
  BY <1>1, <1>2, Codes, OneByteStreams DEF RecordsOK, InputInv
<1>4. RecordsOK'
  BY <1>1, <1>2 DEF RecordsOK
<1>5. WireInv'
  BY <1>1, <1>2, <1>3, <1>4, InputKept DEF WireInv, StreamsOK
<1>6. RicoAtAuth'
  BY <1>1, <1>2, <1>3, InputKept DEF RicoAtAuth
<1> QED
  BY <1>1, <1>2, <1>3, <1>5, <1>6 DEF RicoInv

\* It has its answer to the token.
LEMMA RicoAuthorisedKeeps ==
    ASSUME WireInv, RicoInv, Rico!RicoAuthorised
    PROVE  WireInv' /\ RicoInv'
<1>1. PICK bytes :
         /\ c.at = "auth" /\ ClientReceives(bytes, 1, ChildGone)
         /\ c' = [c EXCEPT !.at = IF bytes = <<Token(kind)>> THEN "files" ELSE "refused"]
         /\ UNCHANGED <<input, d, up>>
  <2>1. PICK bytes :
           /\ c.at = "auth" /\ Rico!ClientReceives(bytes, 1, Rico!ChildGone)
           /\ c' = [c EXCEPT !.at = IF bytes = <<Rico!Token(kind)>> THEN "files" ELSE "refused"]
           /\ UNCHANGED <<input, d, up>>
    BY DEF Rico!RicoAuthorised, Rico!input, input
  <2>2. ClientReceives(bytes, 1, ChildGone)
    BY <2>1, RicoReceives, Zenon
  <2> QED
    BY <2>1, <2>2, RicoIs
<1>2. /\ InputInv /\ RecordsOK /\ StreamsOK /\ RicoAtAuth /\ c.answer = <<>>
      /\ d.at \in {"accept", "auth", "length"} => d.buffer = <<>> /\ d.count = 0
  BY <1>1 DEF WireInv, Live, RicoInv
<1>3. /\ bytes \in Bytes /\ down' \in Bytes /\ down = bytes \o down'
      /\ Len(down) = Len(bytes) + Len(down')
      /\ bytes # <<>> => Len(bytes) >= 1 /\ Len(bytes) =< 1
  <2>1. 1 \in Int
    OBVIOUS
  <2> QED
    BY <1>1, <1>2, <2>1, ClientGets, Zenon
<1>4. ~ChildGone
  BY <1>2 DEF RicoAtAuth, ChildGone
<1>5. bytes # <<>> /\ Len(down) >= 1 /\ Len(down') \in Nat /\ Len(bytes) = 1
  <2>1. 1 \in Int
    OBVIOUS
  <2>2. bytes # <<>>
    BY <1>1, <1>2, <1>4, <2>1, ClientGetsSome
  <2>3. Len(bytes) \in Nat /\ Len(down') \in Nat
    BY <1>3, Joined, Zenon
  <2>4. Len(bytes) = 1
    BY <1>3, <2>2, <2>3
  <2> QED
    BY <1>3, <2>2, <2>3, <2>4
<1>6. d.at = "length" /\ up = <<>> /\ Len(down) = 1
      /\ (down = <<Token(kind)>> => kind = daemon)
  <2>1. down # <<>>
    BY <1>5, OneByteStreams
  <2> QED
    BY <1>2, <2>1 DEF RicoAtAuth
<1>7. down' = <<>> /\ bytes = down
  <2>1. Len(down') = 0
    BY <1>3, <1>5, <1>6
  <2> QED
    BY <1>3, <2>1, Joined
<1>8. /\ c'.at \in {"files", "refused"} /\ c'.answer = <<>> /\ c'.size = c.size /\ RecordsOK'
      /\ c'.at = "files" => bytes = <<Token(kind)>>
  BY <1>1, <1>2 DEF RecordsOK
<1>9. WireInv'
  BY <1>1, <1>2, <1>3, <1>8, InputKept DEF WireInv, StreamsOK
<1> QED
  BY <1>1, <1>2, <1>6, <1>7, <1>8, <1>9, InputKept DEF RicoInv

\* It sends its files.
LEMMA SendToServerKeeps ==
    ASSUME WireInv, RicoInv, Rico!sendToServer
    PROVE  WireInv' /\ RicoInv'
<1>1. /\ c.at = "files" /\ UNCHANGED <<input, d, down>>
      /\ \/ c' = [c EXCEPT !.at = "failed"] /\ UNCHANGED up
         \/ /\ ~Rico!FilesRefused /\ c' = [c EXCEPT !.at = "length"]
            /\ up' = (up \o <<Length(Len(TheString))>>) \o TheString
  BY RicoIs DEF Rico!sendToServer, Rico!input, input, TheString
<1>2. /\ InputInv /\ RecordsOK /\ StreamsOK /\ d.at = "length" /\ up = <<>> /\ down = <<>>
      /\ c.answer = <<>> /\ d.buffer = <<>> /\ d.count = 0 /\ kind = daemon
  BY <1>1 DEF WireInv, Live, RicoInv
<1>3. c'.at \in {"failed", "length"} /\ c'.answer = <<>> /\ c'.size = c.size /\ RecordsOK'
  BY <1>1, <1>2 DEF RecordsOK
<1>4. CASE c'.at = "failed"
  BY <1>1, <1>2, <1>3, <1>4, InputKept DEF WireInv, Live, RicoInv
<1>5. CASE c'.at = "length"
  <2>1. ~Rico!FilesRefused /\ up' = (up \o <<Length(Len(TheString))>>) \o TheString
    BY <1>1, <1>2, <1>5 DEF RecordsOK
  <2>2. up' = <<Length(Len(TheString))>> \o TheString /\ up' \in Bytes
    <3>1. TheString \in Bytes /\ Length(Len(TheString)) \in Int
      BY <1>2, StringIs, Codes, Joined
    <3>2. <<Length(Len(TheString))>> \in Bytes
      BY <3>1, OneByteStreams
    <3> QED
      BY <1>2, <2>1, <3>1, <3>2, Joined, Zenon
  <2>3. WireInv'
    BY <1>1, <1>2, <1>3, <2>2, InputKept DEF WireInv, StreamsOK
  <2>4. RicoAtLength'
    BY <1>1, <1>2, <2>2, InputKept DEF RicoAtLength
  <2> QED
    BY <1>1, <1>2, <1>3, <1>5, <2>1, <2>3, <2>4, InputKept DEF RicoInv
<1> QED
  BY <1>3, <1>4, <1>5

\* It has the length of its answer.
LEMMA RicoAnswerLengthKeeps ==
    ASSUME WireInv, RicoInv, Rico!RicoAnswerLength
    PROVE  WireInv' /\ RicoInv'
<1>1. PICK bytes :
         /\ c.at = "length" /\ ClientReceives(bytes, 1, ChildGone)
         /\ IF bytes # <<>> THEN c' = [c EXCEPT !.at = "answer", !.size = bytes[1] - Length(0)]
            ELSE \/ c' = [c EXCEPT !.at = "spins"]
                 \/ c' = [c EXCEPT !.at = "answer", !.size = 0]
         /\ UNCHANGED <<input, d, up>>
  <2>1. PICK bytes :
           /\ c.at = "length" /\ Rico!ClientReceives(bytes, 1, Rico!ChildGone)
           /\ IF bytes # <<>>
              THEN c' = [c EXCEPT !.at = "answer", !.size = bytes[1] - Rico!Length(0)]
              ELSE \/ c' = [c EXCEPT !.at = "spins"]
                   \/ c' = [c EXCEPT !.at = "answer", !.size = 0]
           /\ UNCHANGED <<input, d, up>>
    BY DEF Rico!RicoAnswerLength, Rico!input, input
  <2>2. ClientReceives(bytes, 1, ChildGone)
    BY <2>1, RicoReceives, Zenon
  <2> QED
    BY <2>1, <2>2, RicoIs
<1>2. /\ InputInv /\ RecordsOK /\ StreamsOK /\ RicoAtLength /\ c.answer = <<>>
      /\ d.at \in {"accept", "auth", "length"} => d.buffer = <<>> /\ d.count = 0
  BY <1>1 DEF WireInv, Live, RicoInv
<1>3. /\ bytes \in Bytes /\ down' \in Bytes /\ down = bytes \o down'
      /\ Len(down) = Len(bytes) + Len(down')
      /\ bytes = <<>> => down = <<>>
      /\ bytes # <<>> => Len(bytes) >= 1 /\ Len(bytes) =< 1
      /\ bytes = <<>> => ChildGone
  <2>1. 1 \in Int
    OBVIOUS
  <2>2. ASSUME ~ChildGone PROVE bytes # <<>>
    <3>1. bytes \in Arrived(down, 1, ChildGone) /\ down \in Bytes
      BY <1>1, <1>2 DEF ClientReceives, StreamsOK
    <3>2. bytes \in {SubSeq(down, 1, n) : n \in 1 .. Min({1, Len(down)})}
      BY <2>2, <3>1 DEF Arrived
    <3>3. bytes \in Arrived(down, 1, FALSE)
      BY <3>2 DEF Arrived
    <3> QED
      BY <2>1, <3>1, <3>3, Received, Zenon
  <2>3. /\ bytes \in Bytes /\ down' \in Bytes /\ down = bytes \o down'
        /\ Len(down) = Len(bytes) + Len(down')
        /\ bytes = <<>> => down = <<>>
        /\ bytes # <<>> => Len(bytes) >= 1 /\ Len(bytes) =< 1
    BY <1>1, <1>2, <2>1, ClientGets, Zenon
  <2> QED
    BY <2>2, <2>3
<1>4. CASE c'.at = "spins"
  <2>1. RecordsOK'
    BY <1>1, <1>2 DEF RecordsOK
  <2> QED
    BY <1>1, <1>2, <1>4, <2>1, InputKept DEF WireInv, Live, RicoInv
<1>5. CASE bytes # <<>>
  <2>1. /\ down # <<>> /\ bytes = <<down[1]>> /\ down' = Tail(down) /\ down[1] \in Int
    BY <1>2, <1>3, <1>5, FirstByte, Zenon DEF StreamsOK
  <2>2. d.at = "exited" /\ RightFor(Tail(down)) /\ down[1] = Length(Len(Tail(down)))
    BY <1>2, <2>1 DEF RicoAtLength
  <2>3. bytes[1] = Length(Len(down')) /\ Len(down') \in Int
    <3>1. bytes[1] = down[1]
      BY <2>1, OneByteStreams
    <3>2. Len(down') \in Nat
      BY <1>3, Joined, Zenon
    <3> QED
      BY <2>1, <2>2, <3>1, <3>2
  <2>4. c'.at = "answer" /\ c'.size = Len(down') /\ c'.answer = <<>> /\ RecordsOK'
    <3>1. c'.at = "answer" /\ c'.size = bytes[1] - Length(0) /\ c'.answer = <<>> /\ RecordsOK'
      BY <1>1, <1>2, <1>5 DEF RecordsOK
    <3> QED
      BY <2>3, <3>1, Codes
  <2>5. c'.answer \o down' = down' /\ c'.answer \in Bytes
    BY <1>3, <2>4, Joined, OneByteStreams
  <2>6. RightFor(c'.answer \o down') /\ c'.size = Len(c'.answer \o down')
    BY <2>1, <2>2, <2>4, <2>5
  <2>7. WireInv'
    BY <1>1, <1>2, <1>3, <2>3, <2>4, InputKept DEF WireInv, StreamsOK
  <2> QED
    BY <1>1, <1>2, <2>2, <2>4, <2>5, <2>6, <2>7, InputKept DEF RicoInv
<1>6. CASE bytes = <<>> /\ c'.at # "spins"
  <2>1. d.at = "crashed" /\ down = <<>> /\ ~Tokens
    BY <1>2, <1>3, <1>6 DEF RicoAtLength, ChildGone
  <2>2. c'.at = "answer" /\ c'.size = 0 /\ c'.answer = <<>> /\ RecordsOK'
    BY <1>1, <1>2, <1>6 DEF RecordsOK
  <2>3. down' = <<>>
    <3>1. Len(down') = 0
      BY <1>3, <1>6, <2>1, Joined, OneByteStreams
    <3> QED
      BY <1>3, <3>1, Joined
  <2>4. /\ c'.answer \in Bytes /\ c'.answer \o down' = <<>>
        /\ RightFor(c'.answer \o down') /\ c'.size = Len(c'.answer \o down')
    BY <2>1, <2>2, <2>3, Joined, OneByteStreams DEF RightFor
  <2>5. WireInv'
    BY <1>1, <1>2, <1>3, <2>2, InputKept DEF WireInv, StreamsOK
  <2> QED
    BY <1>1, <1>2, <2>1, <2>2, <2>4, <2>5, InputKept DEF RicoInv
<1> QED
  BY <1>4, <1>5, <1>6

\* It receives some of its answer.
LEMMA RicoAnswerKeeps ==
    ASSUME WireInv, RicoInv, Rico!RicoAnswer
    PROVE  WireInv' /\ RicoInv'
<1>1. PICK bytes :
         /\ c.at = "answer" /\ ClientReceives(bytes, c.size, ChildGone)
         /\ c' = [c EXCEPT !.answer = @ \o bytes]
         /\ UNCHANGED <<input, d, up>>
  <2>1. PICK bytes :
           /\ c.at = "answer" /\ Rico!ClientReceives(bytes, c.size, Rico!ChildGone)
           /\ c' = [c EXCEPT !.answer = @ \o bytes]
           /\ UNCHANGED <<input, d, up>>
    BY DEF Rico!RicoAnswer, Rico!input, input
  <2>2. ClientReceives(bytes, c.size, ChildGone)
    BY <2>1, RicoReceives, Zenon
  <2> QED
    BY <2>1, <2>2, RicoIs
<1>2. /\ InputInv /\ RecordsOK /\ StreamsOK
      /\ d.at \in {"exited", "crashed"} /\ c.answer \in Bytes
      /\ RightFor(c.answer \o down) /\ c.size = Len(c.answer \o down)
  BY <1>1 DEF WireInv, Live, RicoInv
<1>3. bytes \in Bytes /\ down' \in Bytes /\ down = bytes \o down'
  <2>1. c.size \in Int
    BY <1>2 DEF StreamsOK
  <2> QED
    BY <1>1, <1>2, <2>1, ClientGets, Zenon
<1>4. c'.at = "answer" /\ c'.size = c.size /\ c'.answer = c.answer \o bytes /\ RecordsOK'
  BY <1>1, <1>2 DEF RecordsOK
<1>5. c'.answer \in Bytes /\ c'.answer \o down' = c.answer \o down
  <2>1. /\ c.answer \o bytes \in Bytes
        /\ (c.answer \o bytes) \o down' = c.answer \o (bytes \o down')
    BY <1>2, <1>3, Regroup
  <2> QED
    BY <1>3, <1>4, <2>1
<1>6. WireInv'
  BY <1>1, <1>2, <1>3, <1>4, InputKept DEF WireInv, StreamsOK
<1> QED
  BY <1>1, <1>2, <1>4, <1>5, <1>6, InputKept DEF RicoInv

\* It prints what it has received.
LEMMA RicoPrintKeeps ==
    ASSUME WireInv, RicoInv, Rico!RicoPrint
    PROVE  WireInv' /\ RicoInv'
<1>1. /\ c.at = "answer" /\ Len(c.answer) = c.size /\ c' = [c EXCEPT !.at = "done"]
      /\ UNCHANGED <<input, d, up, down>>
  BY DEF Rico!RicoPrint, Rico!input, input
<1>2. /\ InputInv /\ RecordsOK /\ StreamsOK
      /\ d.at \in {"exited", "crashed"} /\ c.answer \in Bytes
      /\ RightFor(c.answer \o down) /\ c.size = Len(c.answer \o down)
  BY <1>1 DEF WireInv, Live, RicoInv
<1>3. c.answer \o down = c.answer
  <2>1. down \in Bytes
    BY <1>2 DEF StreamsOK
  <2>2. Len(c.answer \o down) = Len(c.answer) + Len(down)
        /\ Len(c.answer) \in Nat /\ Len(down) \in Nat
    BY <1>2, <2>1, Joined, Zenon
  <2>3. Len(down) = 0
    BY <1>1, <1>2, <2>2
  <2> QED
    BY <1>2, <2>1, <2>3, Joined
<1>4. c'.at = "done" /\ c'.answer = c.answer /\ RecordsOK'
  BY <1>1, <1>2 DEF RecordsOK
<1> QED
  BY <1>1, <1>2, <1>3, <1>4, InputKept DEF WireInv, Live, RicoInv

\* The daemon accepts.
LEMMA RicoAcceptKeeps ==
    ASSUME WireInv, RicoInv, Rico!RicoAccept, Live
    PROVE  WireInv' /\ RicoInv'
<1>1. /\ d.at = "accept" /\ c.at # "start" /\ d' = [d EXCEPT !.at = "auth"]
      /\ UNCHANGED <<input, c, up, down>>
  BY RicoIs DEF Rico!RicoAccept, Rico!input, input, NeverConnected
<1>2. /\ InputInv /\ RecordsOK /\ StreamsOK /\ c.at = "auth" /\ RicoAtAuth
      /\ c.answer = <<>> /\ d.buffer = <<>> /\ d.count = 0
  BY <1>1 DEF WireInv, Live, RicoInv, RicoAtLength
<1>3. d'.at = "auth" /\ d'.size = d.size /\ d'.buffer = <<>> /\ d'.count = 0 /\ RecordsOK'
  BY <1>1, <1>2 DEF RecordsOK
<1>4. WireInv'
  BY <1>1, <1>2, <1>3, InputKept DEF WireInv, StreamsOK
<1>5. RicoAtAuth'
  BY <1>1, <1>2, <1>3, InputKept DEF RicoAtAuth
<1> QED
  BY <1>1, <1>2, <1>3, <1>4, <1>5 DEF RicoInv

\* The child looks at the token and answers.
LEMMA RicoAuthoriseKeeps ==
    ASSUME WireInv, RicoInv, Rico!RicoAuthorise, Live
    PROVE  WireInv' /\ RicoInv'
<1>1. PICK bytes :
         /\ d.at = "auth" /\ ChildReceives(bytes, 1)
         /\ down' = Append(down, IF bytes = <<Token(daemon)>> THEN Token(daemon) ELSE
                                 IF bytes = <<Token(Other(daemon))>> THEN Plus ELSE Question)
         /\ d' = [d EXCEPT !.at = "length"]
         /\ UNCHANGED <<input, c>>
  BY RicoIs DEF Rico!RicoAuthorise, Rico!input, input
<1>2. /\ InputInv /\ RecordsOK /\ StreamsOK /\ c.at = "auth"
      /\ up = <<Token(kind)>> /\ down = <<>> /\ c.answer = <<>> /\ d.buffer = <<>> /\ d.count = 0
  BY <1>1 DEF WireInv, Live, RicoInv, RicoAtLength, RicoAtAuth
<1>3. /\ bytes \in Bytes /\ up' \in Bytes /\ up = bytes \o up'
      /\ Len(up) = Len(bytes) + Len(up')
      /\ bytes = <<>> => up = <<>> /\ ClientGone
      /\ bytes # <<>> => Len(bytes) >= 1 /\ Len(bytes) =< 1
  <2>1. 1 \in Int
    OBVIOUS
  <2> QED
    BY <1>1, <1>2, <2>1, ChildGets, Zenon
<1>4. kind \in {"enc", "dec"} /\ daemon \in {"enc", "dec"} /\ Token(kind) \in Int
  BY <1>2, Codes DEF InputInv
<1>5. up # <<>> /\ up[1] = Token(kind) /\ Tail(up) = <<>>
  BY <1>2, <1>4, OneByteStreams
<1>6. bytes = <<Token(kind)>> /\ up' = <<>>
  <2>1. bytes # <<>>
    BY <1>3, <1>5
  <2>2. bytes = <<up[1]>> /\ up' = Tail(up)
    BY <1>2, <1>3, <2>1, FirstByte, Zenon DEF StreamsOK
  <2> QED
    BY <1>5, <2>2
<1>7. /\ down' \in Bytes /\ Len(down') = 1
      /\ down' = <<Token(kind)>> => kind = daemon
  <2>1. PICK b \in Int : down' = Append(<<>>, b) /\ (b = Token(kind) => kind = daemon)
    <3>1. CASE kind = daemon
      BY <1>1, <1>2, <1>4, <1>6, <3>1
    <3>2. CASE kind # daemon
      <4>1. down' = Append(<<>>, Plus)
        BY <1>1, <1>2, <1>4, <1>6, <3>2, Codes, OneByteStreams
      <4> QED
        BY <1>4, <4>1, Codes
    <3> QED
      BY <3>1, <3>2
  <2> QED
    BY <2>1, OneByteStreams
<1>8. d'.at = "length" /\ d'.size = d.size /\ d'.buffer = <<>> /\ d'.count = 0 /\ RecordsOK'
  BY <1>1, <1>2 DEF RecordsOK
<1>9. WireInv'
  BY <1>1, <1>2, <1>3, <1>7, <1>8, InputKept DEF WireInv, StreamsOK
<1>10. RicoAtAuth'
  BY <1>1, <1>2, <1>6, <1>7, <1>8, InputKept DEF RicoAtAuth
<1> QED
  BY <1>1, <1>2, <1>8, <1>9, <1>10 DEF RicoInv

\* The child has the length of the string.
LEMMA RicoLengthKeeps ==
    ASSUME WireInv, RicoInv, Rico!RicoLength, Live
    PROVE  WireInv' /\ RicoInv'
<1>1. PICK bytes :
         /\ d.at = "length" /\ ChildReceives(bytes, 1)
         /\ bytes # <<>> => d' = [d EXCEPT !.at = "text", !.size = bytes[1] - Length(0)]
         /\ UNCHANGED <<input, c, down>>
  BY RicoIs DEF Rico!RicoLength, Rico!input, input
<1>2. /\ InputInv /\ RecordsOK /\ StreamsOK /\ d.buffer = <<>> /\ d.count = 0
      /\ c.at \in {"auth", "files"} => up = <<>>
      /\ c.at \in {"auth", "files", "length"} /\ c.answer = <<>>
      /\ ~ClientGone
  BY <1>1 DEF WireInv, Live, RicoInv, RicoAtAuth, ClientGone
<1>3. /\ bytes \in Bytes /\ up' \in Bytes /\ up = bytes \o up'
      /\ bytes = <<>> => up = <<>> /\ ClientGone
      /\ bytes # <<>> => Len(bytes) >= 1 /\ Len(bytes) =< 1
  <2>1. 1 \in Int
    OBVIOUS
  <2> QED
    BY <1>1, <1>2, <2>1, ChildGets, Zenon
<1>4. bytes # <<>>
  BY <1>2, <1>3
<1>5. up # <<>> /\ bytes = <<up[1]>> /\ up' = Tail(up)
  BY <1>2, <1>3, <1>4, FirstByte, Zenon DEF StreamsOK
<1>6. /\ c.at = "length" /\ up = <<Length(Len(TheString))>> \o TheString /\ down = <<>>
      /\ kind = daemon /\ ~Rico!FilesRefused
  BY <1>1, <1>2, <1>5 DEF RicoInv, RicoAtLength
<1>7. TheString \in Bytes /\ Len(TheString) \in Int /\ Length(Len(TheString)) \in Int
  BY <1>2, StringIs, Codes, Joined
<1>8. bytes[1] = Length(Len(TheString)) /\ up' = TheString
  BY <1>5, <1>6, <1>7, Behind, OneByteStreams
<1>9. /\ d'.at = "text" /\ d'.size = Len(TheString) /\ d'.buffer = <<>> /\ d'.count = 0
      /\ RecordsOK'
  <2>1. /\ d'.at = "text" /\ d'.size = bytes[1] - Length(0) /\ d'.buffer = <<>>
        /\ d'.count = 0 /\ RecordsOK'
    BY <1>1, <1>2, <1>4 DEF RecordsOK
  <2> QED
    BY <1>7, <1>8, <2>1, Codes
<1>10. WireInv'
  BY <1>1, <1>2, <1>3, <1>7, <1>9, InputKept DEF WireInv, StreamsOK
<1>11. RicoAtLength'
  <2>1. d'.buffer \o up' = TheString /\ d'.buffer \in Bytes /\ d'.count = Len(d'.buffer)
    BY <1>7, <1>8, <1>9, Joined, OneByteStreams
  <2> QED
    BY <1>1, <1>2, <1>6, <1>9, <2>1, InputKept DEF RicoAtLength
<1> QED
  BY <1>1, <1>2, <1>6, <1>9, <1>10, <1>11, InputKept DEF RicoInv

\* The child receives some of the string.
LEMMA RicoTextKeeps ==
    ASSUME WireInv, RicoInv, Rico!RicoText, Live
    PROVE  WireInv' /\ RicoInv'
<1>1. PICK bytes :
         /\ d.at = "text" /\ ChildReceives(bytes, d.size)
         /\ d' = [d EXCEPT !.buffer = @ \o bytes, !.count = @ + Len(bytes)]
         /\ UNCHANGED <<input, c, down>>
  BY RicoIs DEF Rico!RicoText, Rico!input, input
<1>2. /\ InputInv /\ RecordsOK /\ StreamsOK
      /\ c.at = "length" /\ c.answer = <<>> /\ kind = daemon /\ ~Rico!FilesRefused
      /\ d.buffer \in Bytes /\ d.buffer \o up = TheString
      /\ d.size = Len(TheString) /\ d.count = Len(d.buffer) /\ down = <<>>
  BY <1>1 DEF WireInv, Live, RicoInv, RicoAtAuth, RicoAtLength
<1>3. bytes \in Bytes /\ up' \in Bytes /\ up = bytes \o up'
  <2>1. d.size \in Int
    BY <1>2 DEF StreamsOK
  <2> QED
    BY <1>1, <1>2, <2>1, ChildGets, Zenon
<1>4. /\ d'.at = "text" /\ d'.size = d.size /\ d'.buffer = d.buffer \o bytes
      /\ d'.count = d.count + Len(bytes) /\ RecordsOK'
  BY <1>1, <1>2 DEF RecordsOK
<1>5. d'.buffer \in Bytes /\ d'.buffer \o up' = TheString /\ d'.count = Len(d'.buffer)
  <2>1. /\ d.buffer \o bytes \in Bytes
        /\ (d.buffer \o bytes) \o up' = d.buffer \o (bytes \o up')
        /\ Len(d.buffer \o bytes) = Len(d.buffer) + Len(bytes)
    BY <1>2, <1>3, Regroup
  <2> QED
    BY <1>2, <1>3, <1>4, <2>1
<1>6. WireInv'
  BY <1>1, <1>2, <1>3, <1>4, InputKept DEF WireInv, StreamsOK
<1>7. RicoAtLength'
  BY <1>1, <1>2, <1>4, <1>5, InputKept DEF RicoAtLength
<1> QED
  BY <1>1, <1>2, <1>4, <1>6, <1>7, InputKept DEF RicoInv

\* The child answers with the text, enciphered or deciphered.
LEMMA RicoServeKeeps ==
    ASSUME WireInv, RicoInv, Rico!RicoServe, Live
    PROVE  WireInv' /\ RicoInv'
<1> DEFINE m   == Rico!MessageOf(Rico!Skipped(TheString))
           pad == Rico!KeyOf(Rico!Skipped(TheString))
<1>1. d.at = "text" /\ d.count = d.size /\ UNCHANGED <<input, c, up>>
  BY DEF Rico!RicoServe, Rico!input, input
<1>2. /\ InputInv /\ RecordsOK /\ StreamsOK
      /\ c.at = "length" /\ c.answer = <<>> /\ kind = daemon /\ ~Rico!FilesRefused
      /\ d.buffer \in Bytes /\ d.buffer \o up = TheString
      /\ d.size = Len(TheString) /\ d.count = Len(d.buffer) /\ down = <<>>
  BY <1>1 DEF WireInv, Live, RicoInv, RicoAtAuth, RicoAtLength
<1>3. d.buffer = TheString
  <2>1. up \in Bytes
    BY <1>2 DEF StreamsOK
  <2>2. /\ Len(d.buffer \o up) = Len(d.buffer) + Len(up)
        /\ Len(d.buffer) \in Nat /\ Len(up) \in Nat
    BY <1>2, <2>1, Joined, Zenon
  <2>3. Len(up) = 0
    BY <1>1, <1>2, <2>2
  <2>4. up = <<>>
    BY <2>1, <2>3, Joined, Zenon
  <2>5. d.buffer \o <<>> = d.buffer
    BY <1>2, Joined, Zenon
  <2> QED
    BY <1>2, <2>4, <2>5
<1>4. \/ pad = <<>> /\ d' = [d EXCEPT !.at = "crashed"] /\ UNCHANGED down
      \/ /\ d' = [d EXCEPT !.at = "exited"]
         /\ \E answer \in IF daemon = "enc" THEN Rico!encryptText(m, pad)
                                            ELSE Rico!decryptText(m, pad) :
               down' = down \o (<<Length(Len(CString(answer)))>> \o CString(answer))
  BY <1>3, RicoIs DEF Rico!RicoServe, Rico!Sent
<1>5. /\ d'.at \in {"crashed", "exited"} /\ d'.size = d.size /\ RecordsOK'
      /\ d'.at = "crashed" => pad = <<>> /\ UNCHANGED down
      /\ d'.at = "exited" =>
            \E answer \in IF daemon = "enc" THEN Rico!encryptText(m, pad)
                                            ELSE Rico!decryptText(m, pad) :
               down' = down \o (<<Length(Len(CString(answer)))>> \o CString(answer))
  <2> HIDE DEF m, pad
  <2>1. /\ \A p : [d EXCEPT !.at = p].at = p /\ [d EXCEPT !.at = p].size = d.size
        /\ \A p : DOMAIN [d EXCEPT !.at = p] = DOMAIN d
    BY <1>2 DEF RecordsOK
  <2>2. DOMAIN d' = DOMAIN d /\ c' = c
    BY <1>1, <1>4, <2>1
  <2>3. RecordsOK'
    BY <1>2, <2>2 DEF RecordsOK
  <2>4. "crashed" # "exited"
    OBVIOUS
  <2> QED
    BY <1>4, <2>1, <2>3, <2>4, Zenon
<1>6. CASE d'.at = "crashed"
  <2>1. WireInv'
    BY <1>1, <1>2, <1>5, <1>6, InputKept DEF WireInv, StreamsOK
  <2>2. ~Tokens
    <3>1. ASSUME Tokens PROVE FALSE
      <4>1. Len(pad) = Len(key) + 1 /\ Len(key) \in Nat
        BY <1>2, <3>1, TokensOfTheString, FilesAre, Joined
      <4>2. pad = <<>>
        BY <1>5, <1>6
      <4> HIDE DEF pad
      <4>3. Len(pad) = 0
        BY <4>2, OneByteStreams
      <4> QED
        BY <4>1, <4>3
    <3> QED
      BY <3>1
  <2>3. RicoAtLength'
    BY <1>1, <1>2, <1>5, <1>6, <2>2, InputKept DEF RicoAtLength
  <2> QED
    BY <1>1, <1>2, <1>6, <2>1, <2>3, InputKept DEF RicoInv
<1>7. CASE d'.at = "exited"
  <2>1. PICK answer \in IF daemon = "enc" THEN Rico!encryptText(m, pad)
                                          ELSE Rico!decryptText(m, pad) :
           down' = down \o (<<Length(Len(CString(answer)))>> \o CString(answer))
    BY <1>5, <1>7
  <2>2. CString(answer) \in Bytes /\ RightFor(CString(answer))
    BY <1>2, RicoServes
  <2>3. Length(Len(CString(answer))) \in Int
    BY <2>2, Joined, Codes
  <2>4. /\ <<Length(Len(CString(answer)))>> \o CString(answer) \in Bytes
        /\ <<Length(Len(CString(answer)))>> \o CString(answer) # <<>>
        /\ (<<Length(Len(CString(answer)))>> \o CString(answer))[1] = Length(Len(CString(answer)))
        /\ Tail(<<Length(Len(CString(answer)))>> \o CString(answer)) = CString(answer)
    BY <2>2, <2>3, Behind
  <2>5. down' = <<Length(Len(CString(answer)))>> \o CString(answer)
    BY <1>2, <2>1, <2>4, Joined
  <2>6. /\ down' \in Bytes /\ down' # <<>> /\ Tail(down') = CString(answer)
        /\ down'[1] = Length(Len(Tail(down')))
    BY <2>4, <2>5
  <2>7. WireInv'
    BY <1>1, <1>2, <1>5, <2>6, InputKept DEF WireInv, StreamsOK
  <2>8. RicoAtLength'
    BY <1>1, <1>2, <1>7, <2>2, <2>6, InputKept DEF RicoAtLength
  <2> QED
    BY <1>1, <1>2, <1>7, <2>7, <2>8, InputKept DEF RicoInv
<1> QED
  BY <1>5, <1>6, <1>7

\* The client is killed.
LEMMA RicoKillKeeps ==
    ASSUME WireInv, RicoInv, Rico!Kill
    PROVE  WireInv' /\ RicoInv'
<1>1. c' = [c EXCEPT !.at = "killed"] /\ UNCHANGED <<input, d, up, down>>
  BY DEF Rico!Kill, Rico!input, input
<1>2. InputInv /\ RecordsOK
  BY DEF WireInv
<1>3. c'.at = "killed" /\ RecordsOK'
  BY <1>1, <1>2 DEF RecordsOK
<1> QED
  BY <1>1, <1>2, <1>3, InputKept DEF WireInv, Live, RicoInv

\* Every step of Rico's otp keeps what is known of it.
LEMMA RicoKeeps ==
    ASSUME WireInv, RicoInv, Rico!RicoNext
    PROVE  WireInv' /\ RicoInv'
<1>1. CASE ~Live
  BY <1>1, RicoQuiet
<1>2. CASE Live /\ Rico!RicoClientNext
  BY <1>2, RicoConnectKeeps, RicoAuthorisedKeeps, SendToServerKeeps,
     RicoAnswerLengthKeeps, RicoAnswerKeeps, RicoPrintKeeps DEF Rico!RicoClientNext
<1>3. CASE Live /\ Rico!RicoChildNext
  BY <1>3, RicoAcceptKeeps, RicoAuthoriseKeeps, RicoLengthKeeps, RicoTextKeeps,
     RicoServeKeeps DEF Rico!RicoChildNext
<1> QED
  BY <1>1, <1>2, <1>3, RicoKillKeeps DEF Rico!RicoNext

-----------------------------------------------------------------------------
(***************************************************************************)
(* Program 4.                                                              *)
(***************************************************************************)

\* The words of the instance are those of OtpWire.
LEMMA Prog4Is ==
    /\ \A b, m : Prog4!ChildReceives(b, m) => ChildReceives(b, m)
    /\ \A b, m, f : Prog4!ClientReceives(b, m, f) => ClientReceives(b, m, f)
    /\ \A k : Prog4!Token(k) = Token(k) /\ Prog4!Other(k) = Other(k)
    /\ \A n : Prog4!Length(n) = Length(n) /\ Prog4!Zeros(n) = Zeros(n)
    /\ \A b : Prog4!IsLength(b) <=> IsLength(b)
    /\ \A b, a : Prog4!Over(b, a) = Over(b, a)
    /\ \A b : Prog4!CString(b) = CString(b)
    /\ \A f : Prog4!HasBad(f) <=> HasBad(f)
    /\ Prog4!NeverConnected <=> NeverConnected
BY DEF Prog4!ChildReceives, ChildReceives, Prog4!ClientReceives, ClientReceives,
       Prog4!Arrived, Arrived, Prog4!Rest, Rest, Prog4!Min, Min, Prog4!Token, Token,
       Prog4!Other, Other, Prog4!Length, Length, Prog4!Zeros, Zeros, Prog4!Nul, Nul,
       Prog4!IsLength, IsLength, Prog4!Over, Over, Prog4!CString, CString,
       Prog4!HasBad, HasBad, Prog4!Letters, Letters,
       Prog4!ClientGone, ClientGone, Prog4!NeverConnected, NeverConnected

\* Two ways to cut a stream at the same place.
LEMMA SameCut ==
    ASSUME NEW s \in Bytes, NEW t \in Bytes, NEW u \in Bytes, NEW v \in Bytes,
           s \o t = u \o v, Len(s) = Len(u)
    PROVE  s = u /\ t = v
<1>1. /\ Len(s) \in Nat /\ Len(t) \in Nat /\ Len(v) \in Nat
      /\ Len(s \o t) = Len(s) + Len(t) /\ Len(u \o v) = Len(u) + Len(v)
      /\ \A i \in 1 .. Len(s) : (s \o t)[i] = s[i]
      /\ \A i \in 1 .. Len(t) : (s \o t)[Len(s) + i] = t[i]
      /\ \A i \in 1 .. Len(u) : (u \o v)[i] = u[i]
      /\ \A i \in 1 .. Len(v) : (u \o v)[Len(u) + i] = v[i]
  BY BytesOf, Zenon
<1>2. Len(t) = Len(v)
  BY <1>1
<1>3. \A i \in 1 .. Len(s) : s[i] = u[i]
  BY <1>1
<1>4. \A i \in 1 .. Len(t) : t[i] = v[i]
  BY <1>1, <1>2
<1> QED
  BY <1>2, <1>3, <1>4, SeqEqual DEF Bytes

\* Four streams, joined from the left or from the right.
LEMMA FourParts ==
    ASSUME NEW s \in Bytes, NEW t \in Bytes, NEW u \in Bytes, NEW v \in Bytes
    PROVE  /\ ((s \o t) \o u) \o v = s \o (t \o (u \o v))
           /\ s \o (t \o (u \o v)) \in Bytes
<1>1. s \o t \in Bytes /\ u \o v \in Bytes
  BY Joined, Zenon
<1>2. t \o (u \o v) \in Bytes
  BY <1>1, Joined, Zenon
<1>3. s \o (t \o (u \o v)) \in Bytes
  BY <1>2, Joined, Zenon
<1>4. ((s \o t) \o u) \o v = (s \o t) \o (u \o v)
  BY <1>1, Joined, Zenon
<1>5. (s \o t) \o (u \o v) = s \o (t \o (u \o v))
  BY <1>1, Joined, Zenon
<1> QED
  BY <1>3, <1>4, <1>5

\* A recv() that got all it asked for got the first part of the stream.
LEMMA Whole ==
    ASSUME NEW part \in Bytes, NEW rest \in Bytes, up = part \o rest, part # <<>>,
           NEW bytes, ChildReceives(bytes, Len(part)), ~split'
    PROVE  bytes = part /\ up' = rest
<1>1. up \in Bytes /\ Len(part) \in Int /\ Len(part) \in Nat
  BY Joined
<1>2. /\ bytes \in Bytes /\ up' \in Bytes /\ up = bytes \o up'
      /\ bytes # <<>> => Len(bytes) =< Len(part)
      /\ split' = (split \/ Len(bytes) < Len(part))
  BY <1>1, ChildGetsOf, Zenon
<1>3. Len(bytes) \in Nat /\ ~(Len(bytes) < Len(part))
  BY <1>2, Joined
<1>4. Len(part) # 0
  BY Joined
<1>5. bytes # <<>>
  <2>1. Len(bytes) # 0
    BY <1>1, <1>3, <1>4
  <2> QED
    BY <2>1, OneByteStreams
<1>6. Len(bytes) = Len(part)
  BY <1>1, <1>2, <1>3, <1>5
<1> QED
  BY <1>2, <1>6, SameCut

\* A file of letters is what strlen() makes of it.
LEMMA FileIsCString ==
    ASSUME NEW file \in Bytes, \A i \in 1 .. Len(file) : file[i] \in Characters
    PROVE  CString(file) = file
<1>1. DOMAIN file = 1 .. Len(file)
  BY DEF Bytes
<1>2. \A i \in DOMAIN file : ~(file[i] = Nul \/ IsLength(file[i]))
  BY <1>1, FileBytes
<1> QED
  BY <1>2 DEF CString

\* The key is written over an array of its length.
LEMMA OverZeros ==
    ASSUME NEW file \in Bytes
    PROVE  Over(file, Zeros(Len(file))) = file
<1>1. Len(file) \in Nat
  BY Joined
<1>2. Len(Zeros(Len(file))) = Len(file) /\ Zeros(Len(file)) \in Seq(Int)
  BY <1>1 DEF Zeros, Nul
<1>3. SubSeq(Zeros(Len(file)), Len(file) + 1, Len(file)) = <<>>
  BY <1>1, <1>2
<1> QED
  BY <1>2, <1>3, Joined, Zenon DEF Over

\* The key behind its length.
LEMMA KeyIs ==
    ASSUME InputInv
    PROVE  TheKey \in Bytes
<1>1. key \in Bytes
  BY FilesAre
<1>2. Length(Len(key)) \in Int
  BY <1>1, Joined, Codes
<1> QED
  BY <1>1, <1>2, Behind DEF TheKey

\* What the daemon answers to a text and a key that it has whole.
LEMMA Prog4Serves ==
    ASSUME InputInv, Prog4Live, kind = daemon
    PROVE  LET answer == IF daemon = "enc" THEN Prog4!encrypt(text, key)
                                           ELSE Prog4!decrypt(text, key)
           IN  answer \in Bytes /\ IsAnswer(answer)
<1>1. /\ text \in Bytes /\ key \in Bytes /\ Len(text) \in Nat /\ Len(key) \in Nat
      /\ DOMAIN text = 1 .. Len(text) /\ DOMAIN key = 1 .. Len(key)
      /\ Len(text) =< Len(key)
  <2>1. text \in Bytes /\ key \in Bytes
    BY FilesAre
  <2> QED
    BY <2>1 DEF Bytes, Prog4Live
<1>2. /\ \A i \in 1 .. Len(text) : text[i] \in Letters
      /\ \A i \in 1 .. Len(key) : key[i] \in Letters
  BY <1>1, FilesAre DEF Prog4Live, HasBad
<1>3. \A i \in 1 .. Len(text) : Prog4!Repeated(key, i) = key[i] /\ key[i] \in Letters
  <2> SUFFICES ASSUME NEW i \in 1 .. Len(text)
               PROVE  Prog4!Repeated(key, i) = key[i] /\ key[i] \in Letters
    OBVIOUS
  <2>1. i \in 1 .. Len(key) /\ i - 1 \in 0 .. Len(key) - 1
    BY <1>1
  <2>2. ((i - 1) % Len(key)) + 1 = i
    BY <1>1, <2>1
  <2> QED
    BY <1>2, <2>1, <2>2 DEF Prog4!Repeated
<1>4. \A t, k \in Letters :
         LET a == IF t - k < 0 THEN 27 + (t - k) ELSE t - k
         IN  a \in Letters /\ (a + k) % 27 = t /\ (t + k) % 27 \in Int
  BY DEF Letters
<1>5. CASE kind = "enc"
  <2> DEFINE answer == Prog4!encrypt(text, key)
  <2>1. answer = [i \in 1 .. Len(text) |-> (text[i] + key[i]) % 27]
    BY <1>1, <1>3 DEF Prog4!encrypt
  <2>2. \A i \in 1 .. Len(text) : (text[i] + key[i]) % 27 \in Int
    BY <1>2, <1>3, <1>4
  <2> HIDE DEF answer
  <2>3. /\ answer \in Bytes /\ Len(answer) = Len(text)
        /\ \A i \in DOMAIN answer : answer[i] = (text[i] + key[i]) % 27
    BY <1>1, <2>1, <2>2 DEF Bytes
  <2>4. IsAnswer(answer)
    BY <1>5, <2>3 DEF IsAnswer, RightAt
  <2> QED
    BY <1>5, <2>3, <2>4 DEF answer
<1>6. CASE kind # "enc"
  <2> DEFINE answer == Prog4!decrypt(text, key)
             a(i) == IF text[i] - key[i] < 0 THEN 27 + (text[i] - key[i]) ELSE text[i] - key[i]
  <2>1. answer = [i \in 1 .. Len(text) |-> a(i)]
    BY <1>1, <1>3 DEF Prog4!decrypt
  <2>2. \A i \in 1 .. Len(text) : a(i) \in Letters /\ (a(i) + key[i]) % 27 = text[i]
    BY <1>2, <1>3, <1>4
  <2>3. \A i \in 1 .. Len(text) : a(i) \in Int
    BY <2>2, FileBytes, Zenon
  <2> HIDE DEF answer, a
  <2>4. /\ answer \in Bytes /\ Len(answer) = Len(text)
        /\ \A i \in DOMAIN answer : answer[i] \in Letters /\ (answer[i] + key[i]) % 27 = text[i]
    BY <1>1, <2>1, <2>2, <2>3 DEF Bytes
  <2>5. IsAnswer(answer)
    BY <1>6, <2>4 DEF IsAnswer, RightAt
  <2> QED
    BY <1>6, <2>4, <2>5 DEF answer
<1> QED
  BY <1>5, <1>6

\* Each step keeps the fields and the input.
LEMMA Prog4Records ==
    ASSUME RecordsOK, InputInv, Prog4!Prog4Next
    PROVE  RecordsOK' /\ InputInv' /\ UNCHANGED input /\ (split => split')
<1>1. \A n : {"at", "answer", "buffer", "size", "count"} \subseteq DOMAIN [c EXCEPT !.at = n]
  BY DEF RecordsOK
<1> DEFINE Step ==
      /\ UNCHANGED input
      /\ split => split'
      /\ \/ UNCHANGED c
         \/ \E n : c' = [c EXCEPT !.at = n]
         \/ \E n, a : c' = [c EXCEPT !.at = n, !.answer = a]
      /\ \/ UNCHANGED d
         \/ \E n : d' = [d EXCEPT !.at = n]
         \/ \E n, z : d' = [d EXCEPT !.at = n, !.size = z, !.count = 0]
         \/ \E n, z, q : d' = [d EXCEPT !.at = n, !.size = z, !.count = 0, !.pad = q]
         \/ \E m, n : d' = [d EXCEPT !.message = m, !.count = n]
         \/ \E m, n : d' = [d EXCEPT !.pad = m, !.count = n]
<1>2. Step
  <2> USE DEF Prog4!input, input
  <2>1. CASE Prog4!Prog4Connect
    BY <2>1 DEF Prog4!Prog4Connect
  <2>2. CASE Prog4!Prog4Send
    BY <2>2 DEF Prog4!Prog4Send, Prog4!ClientReceives
  <2>3. CASE Prog4!Prog4Answer
    BY <2>3 DEF Prog4!Prog4Answer, Prog4!ClientReceives
  <2>4. CASE Prog4!Kill
    BY <2>4 DEF Prog4!Kill
  <2>5. CASE Prog4!Prog4Accept
    BY <2>5 DEF Prog4!Prog4Accept
  <2>6. CASE Prog4!Prog4Length
    BY <2>6 DEF Prog4!Prog4Length, Prog4!NoLength, Prog4!ChildReceives
  <2>7. CASE Prog4!Prog4Text
    BY <2>7 DEF Prog4!Prog4Text, Prog4!ChildReceives
  <2>8. CASE Prog4!Prog4KeyLength
    BY <2>8 DEF Prog4!Prog4KeyLength, Prog4!NoLength, Prog4!ChildReceives
  <2>9. CASE Prog4!Prog4Key
    BY <2>9 DEF Prog4!Prog4Key, Prog4!ChildReceives
  <2>10. CASE Prog4!Prog4Serve
    BY <2>10 DEF Prog4!Prog4Serve
  <2> QED
    BY <2>1, <2>2, <2>3, <2>4, <2>5, <2>6, <2>7, <2>8, <2>9, <2>10 DEF Prog4!Prog4Next
<1>3. DOMAIN c' = DOMAIN c /\ DOMAIN d' = DOMAIN d
  BY <1>2
<1> QED
  BY <1>2, <1>3, InputKept DEF RecordsOK

\* A client that is through stays so, and does not look at the streams.
LEMMA Prog4Quiet ==
    ASSUME WireInv, Prog4Inv, Prog4!Prog4Next, ~Live
    PROVE  WireInv' /\ Prog4Inv'
<1>1. RecordsOK /\ InputInv
  BY DEF WireInv
<1>2. RecordsOK' /\ InputInv' /\ UNCHANGED input
  BY <1>1, Prog4Records
<1> DEFINE Quiet ==
      /\ UNCHANGED c \/ c' = [c EXCEPT !.at = "killed"]
      /\ \/ UNCHANGED d
         \/ d.at = "accept" /\ d' = [d EXCEPT !.at = "length"]
         \/ d'.at \notin {"accept", "length"}
<1>3. Quiet
  <2> USE <1>1 DEF Prog4!input, input, RecordsOK
  <2>1. CASE Prog4!Prog4Connect \/ Prog4!Prog4Send \/ Prog4!Prog4Answer
    BY <2>1 DEF Live, Prog4!Prog4Connect, Prog4!Prog4Send, Prog4!Prog4Answer
  <2>2. CASE Prog4!Kill
    BY <2>2 DEF Prog4!Kill
  <2>3. CASE Prog4!Prog4Accept
    BY <2>3 DEF Prog4!Prog4Accept
  <2>4. CASE Prog4!Prog4Length
    BY <2>4 DEF Prog4!Prog4Length, Prog4!NoLength
  <2>5. CASE Prog4!Prog4Text
    BY <2>5 DEF Prog4!Prog4Text
  <2>6. CASE Prog4!Prog4KeyLength
    BY <2>6 DEF Prog4!Prog4KeyLength, Prog4!NoLength
  <2>7. CASE Prog4!Prog4Key
    BY <2>7 DEF Prog4!Prog4Key
  <2>8. CASE Prog4!Prog4Serve
    BY <2>8 DEF Prog4!Prog4Serve
  <2> QED
    BY <2>1, <2>2, <2>3, <2>4, <2>5, <2>6, <2>7, <2>8 DEF Prog4!Prog4Next
<1>4. d'.at \in {"accept", "length"} => d'.message = <<>> /\ d'.count = 0
  BY <1>1, <1>3 DEF RecordsOK, Prog4Inv
<1>5. c' = c \/ c'.at = "killed"
  BY <1>1, <1>3 DEF RecordsOK
<1>6. ~Live'
  BY <1>5 DEF Live
<1>7. c'.at = "done" => IsAnswer(c.answer)'
  BY <1>1, <1>2, <1>5, InputKept DEF Prog4Inv
<1> QED
  BY <1>2, <1>4, <1>5, <1>6, <1>7 DEF WireInv, Prog4Inv, Live

\* The client connects, or finds that its files cannot be served.
LEMMA Prog4ConnectKeeps ==
    ASSUME WireInv, Prog4Inv, Prog4!Prog4Connect
    PROVE  WireInv' /\ Prog4Inv'
<1>1. /\ c.at = "start" /\ UNCHANGED <<input, d, up, down>>
      /\ \/ c' = [c EXCEPT !.at = "unconnected"]
         \/ Prog4Live /\ c' = [c EXCEPT !.at = "type"]
  <2>1. /\ c.at = "start" /\ UNCHANGED <<input, d, up, down>>
        /\ c' = [c EXCEPT !.at =
                   IF Len(key) < Len(text) \/ text = <<>> \/ HasBad(text) \/ HasBad(key)
                   THEN "unconnected" ELSE "type"]
    BY Prog4Is DEF Prog4!Prog4Connect, Prog4!input, input
  <2>2. text \in Bytes /\ key \in Bytes
    BY FilesAre DEF WireInv
  <2>3. Len(text) \in Nat /\ Len(key) \in Nat
    BY <2>2, Joined
  <2>4. Prog4Live <=>
          ~(Len(key) < Len(text) \/ text = <<>> \/ HasBad(text) \/ HasBad(key))
    BY <2>3 DEF Prog4Live
  <2> DEFINE refused == Len(key) < Len(text) \/ text = <<>> \/ HasBad(text) \/ HasBad(key)
  <2>5. c' = [c EXCEPT !.at = IF refused THEN "unconnected" ELSE "type"]
    BY <2>1
  <2>6. Prog4Live <=> ~refused
    BY <2>4
  <2> HIDE DEF refused
  <2>7. \/ c' = [c EXCEPT !.at = "unconnected"]
        \/ Prog4Live /\ c' = [c EXCEPT !.at = "type"]
    BY <2>5, <2>6
  <2> QED
    BY <2>1, <2>7
<1>2. /\ InputInv /\ RecordsOK /\ StreamsOK /\ d.at = "accept" /\ up = <<>> /\ down = <<>>
      /\ d.message = <<>> /\ d.count = 0
  BY <1>1 DEF WireInv, Live, Prog4Inv
<1>3. /\ c'.at \in {"unconnected", "type"} /\ c'.size = c.size /\ RecordsOK'
      /\ c'.at = "type" => Prog4Live
  BY <1>1, <1>2 DEF RecordsOK
<1>4. WireInv'
  BY <1>1, <1>2, <1>3, InputKept DEF WireInv, StreamsOK
<1>5. c'.at = "type" => (Prog4Live /\ Prog4AtType)'
  BY <1>1, <1>2, <1>3, InputKept DEF Prog4Live, Prog4AtType, HasBad, Letters
<1> QED
  BY <1>1, <1>2, <1>3, <1>4, <1>5 DEF Prog4Inv

\* The client learns whose the daemon is, and sends its files.
LEMMA Prog4SendKeeps ==
    ASSUME WireInv, Prog4Inv, Prog4!Prog4Send
    PROVE  WireInv' /\ Prog4Inv'
<1>1. PICK bytes :
         /\ c.at = "type" /\ ClientReceives(bytes, 1, FALSE)
         /\ \/ c' = [c EXCEPT !.at = "refused"]
            \/ /\ bytes # <<Token(Other(kind))>>
               /\ c' = [c EXCEPT !.at = "answer"]
               /\ up' = (((up \o <<Length(Len(text))>>) \o text) \o <<Length(Len(key))>>) \o key
         /\ UNCHANGED <<input, d>>
  BY Prog4Is DEF Prog4!Prog4Send, Prog4!input, input
<1>2. /\ InputInv /\ RecordsOK /\ StreamsOK /\ Prog4Live /\ up = <<>> /\ Prog4AtType
      /\ d.at \in {"accept", "length"} => d.message = <<>> /\ d.count = 0
  BY <1>1 DEF WireInv, Live, Prog4Inv
<1>3. /\ bytes \in Bytes /\ down' \in Bytes /\ down = bytes \o down'
      /\ bytes # <<>> /\ Len(bytes) =< 1
  <2>1. 1 \in Int
    OBVIOUS
  <2>2. bytes # <<>>
    BY <1>1, <1>2, <2>1, ClientGets, Zenon
  <2> QED
    BY <1>1, <1>2, <2>1, <2>2, ClientGets, Zenon
<1>4. down # <<>> /\ bytes = <<down[1]>> /\ down' = Tail(down)
  BY <1>2, <1>3, FirstByte, Zenon DEF StreamsOK
<1>5. d.at = "length" /\ down = <<Token(daemon)>>
  BY <1>2, <1>4 DEF Prog4AtType
<1>6. kind \in {"enc", "dec"} /\ daemon \in {"enc", "dec"} /\ Token(daemon) \in Int
  BY <1>2, Codes DEF InputInv
<1>7. bytes = <<Token(daemon)>> /\ down' = <<>>
  BY <1>4, <1>5, <1>6, OneByteStreams
<1>8. /\ c'.at \in {"refused", "answer"} /\ c'.size = c.size /\ RecordsOK'
      /\ c'.at = "answer" =>
           /\ bytes # <<Token(Other(kind))>>
           /\ up' = (((up \o <<Length(Len(text))>>) \o text) \o <<Length(Len(key))>>) \o key
  BY <1>1, <1>2 DEF RecordsOK
<1>9. CASE c'.at = "refused"
  BY <1>1, <1>2, <1>5, <1>8, <1>9, InputKept DEF WireInv, Live, Prog4Inv
<1>10. CASE c'.at = "answer"
  <2>1. kind = daemon
    <3>1. Token(daemon) # Token(Other(kind))
      BY <1>7, <1>8, <1>10
    <3> QED
      BY <1>6, <3>1, Codes
  <2>2. up' = <<Length(Len(text))>> \o (text \o TheKey) /\ up' \in Bytes
    <3> DEFINE lt == <<Length(Len(text))>>
               lk == <<Length(Len(key))>>
    <3>1. text \in Bytes /\ key \in Bytes
      BY <1>2, FilesAre
    <3>2. Length(Len(text)) \in Int /\ Length(Len(key)) \in Int
      BY <3>1, Codes, Joined
    <3>3. lt \in Bytes /\ lk \in Bytes
      BY <3>2, OneByteStreams
    <3>4. up' = (((up \o lt) \o text) \o lk) \o key
      BY <1>8, <1>10
    <3>5. TheKey = lk \o key
      BY DEF TheKey
    <3> HIDE DEF lt, lk
    <3>6. <<>> \o lt = lt
      BY <3>3, Joined, Zenon
    <3>7. /\ ((lt \o text) \o lk) \o key = lt \o (text \o (lk \o key))
          /\ lt \o (text \o (lk \o key)) \in Bytes
      BY <3>1, <3>3, FourParts
    <3>8. up' = lt \o (text \o TheKey) /\ up' \in Bytes
      BY <1>2, <3>4, <3>5, <3>6, <3>7
    <3> QED
      BY <3>8 DEF lt
  <2>3. WireInv'
    BY <1>1, <1>2, <1>3, <1>8, <2>2, InputKept DEF WireInv, StreamsOK
  <2>4. Prog4Live' /\ Prog4AtAnswer'
    BY <1>1, <1>2, <1>5, <1>7, <2>2, InputKept DEF Prog4Live, Prog4AtAnswer, HasBad, Letters, TheKey
  <2> QED
    BY <1>1, <1>2, <1>5, <1>8, <1>10, <2>1, <2>3, <2>4, InputKept DEF Prog4Inv
<1> QED
  BY <1>8, <1>9, <1>10

\* The client prints what its only recv() returns.
LEMMA Prog4AnswerKeeps ==
    ASSUME WireInv, Prog4Inv, Prog4!Prog4Answer, ~split'
    PROVE  WireInv' /\ Prog4Inv'
<1>1. PICK bytes :
         /\ c.at = "answer" /\ ClientReceives(bytes, Len(text), FALSE)
         /\ c' = [c EXCEPT !.at = "done", !.answer = bytes]
         /\ UNCHANGED <<input, d, up>>
  BY Prog4Is DEF Prog4!Prog4Answer, Prog4!input, input
<1>2. /\ InputInv /\ RecordsOK /\ StreamsOK /\ Prog4Live /\ Prog4AtAnswer
      /\ d.at \in {"accept", "length"} => d.message = <<>> /\ d.count = 0
  BY <1>1 DEF WireInv, Live, Prog4Inv
<1>3. text \in Bytes /\ Len(text) \in Nat /\ Len(text) \in Int
  BY <1>2, FilesAre, Joined
<1>4. /\ bytes \in Bytes /\ down' \in Bytes /\ down = bytes \o down'
      /\ Len(down) = Len(bytes) + Len(down') /\ bytes # <<>>
      /\ split' = (split \/ Len(bytes) < Len(text))
  <2>1. bytes # <<>>
    BY <1>1, <1>2, <1>3, ClientGets, Zenon
  <2> QED
    BY <1>1, <1>2, <1>3, <2>1, ClientGets, Zenon
<1>5. Len(bytes) \in Nat /\ Len(down') \in Nat /\ Len(bytes) # 0 /\ Len(bytes) >= Len(text)
  <2>1. Len(bytes) \in Nat /\ Len(down') \in Nat /\ Len(bytes) # 0
    BY <1>4, Joined, Zenon
  <2>2. ~(Len(bytes) < Len(text))
    BY <1>4
  <2> QED
    BY <1>3, <2>1, <2>2
<1>6. IsAnswer(down)
  <2>1. down # <<>>
    <3>1. Len(down) # 0
      BY <1>4, <1>5
    <3> QED
      BY <3>1, OneByteStreams
  <2> QED
    BY <1>2, <2>1 DEF Prog4AtAnswer
<1>7. bytes = down
  <2>1. Len(down) = Len(text)
    BY <1>6 DEF IsAnswer
  <2>2. Len(down') = 0
    BY <1>3, <1>4, <1>5, <2>1
  <2>3. down' = <<>>
    BY <1>4, <2>2, Joined, Zenon
  <2>4. bytes \o <<>> = bytes
    BY <1>4, Joined, Zenon
  <2> QED
    BY <1>4, <2>3, <2>4
<1>8. c'.at = "done" /\ c'.answer = bytes /\ RecordsOK'
  BY <1>1, <1>2 DEF RecordsOK
<1> QED
  BY <1>1, <1>2, <1>6, <1>7, <1>8, InputKept DEF WireInv, Live, Prog4Inv

\* The daemon accepts, and tells what it is.
LEMMA Prog4AcceptKeeps ==
    ASSUME WireInv, Prog4Inv, Prog4!Prog4Accept, Live
    PROVE  WireInv' /\ Prog4Inv'
<1>1. /\ d.at = "accept" /\ c.at # "start" /\ d' = [d EXCEPT !.at = "length"]
      /\ down' = Append(down, Token(daemon)) /\ UNCHANGED <<input, c, up>>
  BY Prog4Is DEF Prog4!Prog4Accept, Prog4!input, input, NeverConnected
<1>2. /\ InputInv /\ RecordsOK /\ StreamsOK /\ c.at = "type" /\ Prog4Live
      /\ up = <<>> /\ down = <<>> /\ d.message = <<>> /\ d.count = 0
  BY <1>1 DEF WireInv, Live, Prog4Inv, Prog4AtType, Prog4AtAnswer
<1>3. Token(daemon) \in Int
  BY <1>2, Codes DEF InputInv
<1>4. down' = <<Token(daemon)>> /\ down' \in Bytes
  BY <1>1, <1>2, <1>3, OneByteStreams
<1>5. d'.at = "length" /\ d'.size = d.size /\ d'.message = <<>> /\ d'.count = 0 /\ RecordsOK'
  BY <1>1, <1>2 DEF RecordsOK
<1>6. WireInv'
  BY <1>1, <1>2, <1>4, <1>5, InputKept DEF WireInv, StreamsOK
<1>7. Prog4Live' /\ Prog4AtType'
  BY <1>1, <1>2, <1>4, <1>5, InputKept DEF Prog4Live, Prog4AtType, HasBad, Letters
<1> QED
  BY <1>1, <1>2, <1>5, <1>6, <1>7 DEF Prog4Inv

\* The child has the length of the text.
LEMMA Prog4LengthKeeps ==
    ASSUME WireInv, Prog4Inv, Prog4!Prog4Length, Live
    PROVE  WireInv' /\ Prog4Inv'
<1>1. PICK bytes :
         /\ d.at = "length" /\ ChildReceives(bytes, 1)
         /\ bytes # <<>> =>
               d' = [d EXCEPT !.at = "text", !.size = bytes[1] - Length(0), !.count = 0]
         /\ UNCHANGED <<input, c, down>>
  BY Prog4Is DEF Prog4!Prog4Length, Prog4!input, input
<1>2. /\ InputInv /\ RecordsOK /\ StreamsOK /\ ~ClientGone /\ c.at # "start"
      /\ d.message = <<>> /\ d.count = 0
      /\ c.at = "type" => up = <<>>
      /\ c.at = "answer" => Prog4Live /\ kind = daemon /\ Prog4AtAnswer
      /\ c.at \in {"type", "answer"}
  BY <1>1 DEF WireInv, Live, Prog4Inv, ClientGone
<1>3. /\ bytes \in Bytes /\ up' \in Bytes /\ up = bytes \o up' /\ bytes # <<>>
      /\ Len(bytes) =< 1
  <2>1. 1 \in Int
    OBVIOUS
  <2>2. bytes # <<>>
    BY <1>1, <1>2, <2>1, ChildGets, Zenon
  <2> QED
    BY <1>1, <1>2, <2>1, <2>2, ChildGets, Zenon
<1>4. up # <<>> /\ bytes = <<up[1]>> /\ up' = Tail(up)
  BY <1>2, <1>3, FirstByte, Zenon DEF StreamsOK
<1>5. /\ c.at = "answer" /\ Prog4Live /\ kind = daemon
      /\ up = <<Length(Len(text))>> \o (text \o TheKey) /\ down = <<>>
  BY <1>1, <1>2, <1>4 DEF Prog4AtAnswer
<1>6. /\ text \o TheKey \in Bytes /\ Len(text) \in Int /\ Length(Len(text)) \in Int
  BY <1>2, KeyIs, FilesAre, Joined, Codes
<1>7. bytes[1] = Length(Len(text)) /\ up' = text \o TheKey
  BY <1>4, <1>5, <1>6, Behind, OneByteStreams
<1>8. /\ d'.at = "text" /\ d'.size = Len(text) /\ d'.message = <<>> /\ d'.count = 0
      /\ RecordsOK'
  <2>1. /\ d'.at = "text" /\ d'.size = bytes[1] - Length(0) /\ d'.message = <<>>
        /\ d'.count = 0 /\ RecordsOK'
    BY <1>1, <1>2, <1>3 DEF RecordsOK
  <2> QED
    BY <1>6, <1>7, <2>1, Codes
<1>9. WireInv'
  BY <1>1, <1>2, <1>3, <1>6, <1>8, InputKept DEF WireInv, StreamsOK
<1>10. Prog4Live' /\ Prog4AtAnswer'
  BY <1>1, <1>2, <1>5, <1>7, <1>8, InputKept DEF Prog4Live, Prog4AtAnswer, HasBad, Letters, TheKey
<1> QED
  BY <1>1, <1>2, <1>5, <1>8, <1>9, <1>10, InputKept DEF Prog4Inv

\* The child receives the text.
LEMMA Prog4TextKeeps ==
    ASSUME WireInv, Prog4Inv, Prog4!Prog4Text, Live, ~split'
    PROVE  WireInv' /\ Prog4Inv'
<1>1. PICK bytes :
         /\ d.at = "text" /\ d.count < d.size /\ ChildReceives(bytes, d.size)
         /\ d' = [d EXCEPT !.message = @ \o bytes, !.count = @ + Len(bytes)]
         /\ UNCHANGED <<input, c, down>>
  BY Prog4Is DEF Prog4!Prog4Text, Prog4!input, input
<1>2. /\ InputInv /\ RecordsOK /\ StreamsOK /\ c.at = "answer"
      /\ Prog4Live /\ kind = daemon /\ Prog4AtAnswer
  BY <1>1 DEF WireInv, Live, Prog4Inv, Prog4AtType
<1>3. text \in Bytes /\ TheKey \in Bytes /\ Len(text) \in Nat /\ text # <<>>
  BY <1>2, FilesAre, KeyIs, Joined DEF Prog4Live
<1>4. d.size = Len(text) /\ down = <<>> /\ d.count = 0 /\ d.message = <<>> /\ up = text \o TheKey
  <2>1. ~(Len(text) < Len(text))
    BY <1>3
  <2> QED
    BY <1>1, <1>2, <2>1 DEF Prog4AtAnswer
<1>5. bytes = text /\ up' = TheKey
  BY <1>1, <1>3, <1>4, Whole
<1>6. /\ d'.at = "text" /\ d'.size = Len(text) /\ d'.message = <<>> \o text
      /\ d'.count = 0 + Len(text) /\ RecordsOK'
  BY <1>1, <1>2, <1>4, <1>5 DEF RecordsOK
<1>7. d'.message = text /\ d'.count = Len(text)
  BY <1>3, <1>6, Joined
<1>8. WireInv'
  BY <1>1, <1>2, <1>3, <1>5, <1>6, InputKept DEF WireInv, StreamsOK
<1>9. Prog4Live' /\ Prog4AtAnswer'
  BY <1>1, <1>2, <1>4, <1>5, <1>6, <1>7, InputKept
  DEF Prog4Live, Prog4AtAnswer, HasBad, Letters, TheKey
<1> QED
  BY <1>1, <1>2, <1>6, <1>8, <1>9, InputKept DEF Prog4Inv

\* The child has the length of the key.
LEMMA Prog4KeyLengthKeeps ==
    ASSUME WireInv, Prog4Inv, Prog4!Prog4KeyLength, Live
    PROVE  WireInv' /\ Prog4Inv'
<1>1. PICK bytes :
         /\ d.at = "text" /\ d.count >= d.size /\ ChildReceives(bytes, 1)
         /\ bytes # <<>> /\ IsLength(bytes[1]) =>
               LET n == bytes[1] - Length(0)
               IN d' = [d EXCEPT !.at = "key", !.size = n, !.count = 0, !.pad = Zeros(n)]
         /\ UNCHANGED <<input, c, down>>
  BY Prog4Is DEF Prog4!Prog4KeyLength, Prog4!input, input
<1>2. /\ InputInv /\ RecordsOK /\ StreamsOK /\ c.at = "answer" /\ ~ClientGone
      /\ Prog4Live /\ kind = daemon /\ Prog4AtAnswer
  BY <1>1 DEF WireInv, Live, Prog4Inv, Prog4AtType, ClientGone
<1>3. /\ text \in Bytes /\ Len(text) \in Nat /\ Len(text) # 0
      /\ key \in Bytes /\ Len(key) \in Nat
  BY <1>2, FilesAre, Joined DEF Prog4Live
<1>4. d.size = Len(text) /\ down = <<>> /\ d.message = text /\ up = <<Length(Len(key))>> \o key
  <2>1. ~(0 >= Len(text))
    BY <1>3
  <2> QED
    BY <1>1, <1>2, <2>1 DEF Prog4AtAnswer, TheKey
<1>5. Length(Len(key)) \in Int /\ Len(key) \in Int
  BY <1>3, Codes
<1>6. up # <<>> /\ up[1] = Length(Len(key)) /\ Tail(up) = key
  BY <1>3, <1>4, <1>5, Behind
<1>7. /\ bytes \in Bytes /\ up' \in Bytes /\ up = bytes \o up' /\ bytes # <<>>
      /\ Len(bytes) =< 1
  <2>1. 1 \in Int
    OBVIOUS
  <2>2. bytes # <<>>
    BY <1>1, <1>2, <2>1, ChildGets, Zenon
  <2> QED
    BY <1>1, <1>2, <2>1, <2>2, ChildGets, Zenon
<1>8. bytes = <<up[1]>> /\ up' = Tail(up)
  BY <1>2, <1>7, FirstByte, Zenon DEF StreamsOK
<1>9. bytes[1] = Length(Len(key)) /\ up' = key
  BY <1>6, <1>8, OneByteStreams
<1>10. IsLength(bytes[1]) /\ bytes[1] - Length(0) = Len(key)
  <2>1. IsLength(Length(Len(key)))
    BY <1>3 DEF IsLength, Length
  <2> QED
    BY <1>5, <1>9, <2>1, Codes
<1>11. d' = [d EXCEPT !.at = "key", !.size = Len(key), !.count = 0, !.pad = Zeros(Len(key))]
  BY <1>1, <1>7, <1>10
<1>12. /\ d'.at = "key" /\ d'.size = Len(key) /\ d'.message = text /\ d'.count = 0
       /\ d'.pad = Zeros(Len(key)) /\ RecordsOK'
  <2>1. \A n, q : LET e == [d EXCEPT !.at = "key", !.size = n, !.count = 0, !.pad = q]
                 IN  /\ e.at = "key" /\ e.size = n /\ e.message = d.message
                     /\ e.count = 0 /\ e.pad = q /\ DOMAIN e = DOMAIN d
    BY <1>2 DEF RecordsOK
  <2>2. /\ d'.at = "key" /\ d'.size = Len(key) /\ d'.message = d.message
        /\ d'.count = 0 /\ d'.pad = Zeros(Len(key)) /\ DOMAIN d' = DOMAIN d
    BY <1>11, <2>1
  <2>3. RecordsOK'
    BY <1>1, <1>2, <2>2 DEF RecordsOK
  <2> QED
    BY <1>4, <2>2, <2>3
<1>13. WireInv'
  BY <1>1, <1>2, <1>5, <1>7, <1>12, InputKept DEF WireInv, StreamsOK
<1>14. Prog4Live' /\ Prog4AtAnswer'
  <2>1. Zeros(Len(key))' = Zeros(Len(key))
    BY <1>1, <1>2, InputKept DEF Zeros, Nul
  <2> QED
    BY <1>1, <1>2, <1>4, <1>9, <1>12, <2>1, InputKept
    DEF Prog4Live, Prog4AtAnswer, HasBad, Letters, TheKey
<1> QED
  BY <1>1, <1>2, <1>12, <1>13, <1>14, InputKept DEF Prog4Inv

\* The child receives the key.
LEMMA Prog4KeyKeeps ==
    ASSUME WireInv, Prog4Inv, Prog4!Prog4Key, Live, ~split'
    PROVE  WireInv' /\ Prog4Inv'
<1>1. PICK bytes :
         /\ d.at = "key" /\ d.count < d.size /\ ChildReceives(bytes, d.size)
         /\ d' = [d EXCEPT !.pad = Over(bytes, @), !.count = @ + Len(bytes)]
         /\ UNCHANGED <<input, c, down>>
  BY Prog4Is DEF Prog4!Prog4Key, Prog4!input, input
<1>2. /\ InputInv /\ RecordsOK /\ StreamsOK /\ c.at = "answer"
      /\ Prog4Live /\ kind = daemon /\ Prog4AtAnswer
  BY <1>1 DEF WireInv, Live, Prog4Inv, Prog4AtType
<1>3. /\ key \in Bytes /\ Len(key) \in Nat /\ text \in Bytes /\ Len(text) \in Nat
      /\ Len(text) # 0
  BY <1>2, FilesAre, Joined DEF Prog4Live
<1>4. key # <<>> /\ <<>> \in Bytes /\ key \o <<>> = key
  <2>1. Len(key) # 0
    BY <1>2, <1>3 DEF Prog4Live
  <2> QED
    BY <1>3, <2>1, Joined, OneByteStreams
<1>5. /\ d.size = Len(key) /\ down = <<>> /\ d.count = 0 /\ d.message = text
      /\ d.pad = Zeros(Len(key)) /\ up = key
  <2>1. ~(Len(key) < Len(key))
    BY <1>3
  <2> QED
    BY <1>1, <1>2, <2>1 DEF Prog4AtAnswer
<1>6. bytes = key /\ up' = <<>>
  <2>1. up = key \o <<>> /\ ChildReceives(bytes, Len(key))
    BY <1>1, <1>4, <1>5
  <2> QED
    BY <1>3, <1>4, <2>1, Whole
<1>7. Over(key, Zeros(Len(key))) = key
  BY <1>3, OverZeros
<1>8. /\ d'.at = "key" /\ d'.size = Len(key) /\ d'.message = text /\ d'.pad = key
      /\ d'.count = 0 + Len(key) /\ RecordsOK'
  BY <1>1, <1>2, <1>5, <1>6, <1>7 DEF RecordsOK
<1>9. d'.count = Len(key)
  BY <1>3, <1>8
<1>10. WireInv'
  BY <1>1, <1>2, <1>3, <1>4, <1>6, <1>8, InputKept DEF WireInv, StreamsOK
<1>11. Prog4Live' /\ Prog4AtAnswer'
  BY <1>1, <1>2, <1>5, <1>8, <1>9, InputKept DEF Prog4Live, Prog4AtAnswer, HasBad, Letters
<1> QED
  BY <1>1, <1>2, <1>8, <1>10, <1>11, InputKept DEF Prog4Inv

\* The child answers.
LEMMA Prog4ServeKeeps ==
    ASSUME WireInv, Prog4Inv, Prog4!Prog4Serve, Live
    PROVE  WireInv' /\ Prog4Inv'
<1> DEFINE answer == IF daemon = "enc" THEN Prog4!encrypt(text, key)
                                       ELSE Prog4!decrypt(text, key)
<1>1. /\ d.at = "key" /\ d.count >= d.size /\ d' = [d EXCEPT !.at = "exited"]
      /\ down' = down \o IF daemon = "enc"
                         THEN Prog4!encrypt(CString(d.message), CString(d.pad))
                         ELSE Prog4!decrypt(CString(d.message), CString(d.pad))
      /\ UNCHANGED <<input, c, up>>
  BY Prog4Is DEF Prog4!Prog4Serve, Prog4!input, input
<1>2. /\ InputInv /\ RecordsOK /\ StreamsOK /\ c.at = "answer"
      /\ Prog4Live /\ kind = daemon /\ Prog4AtAnswer
  BY <1>1 DEF WireInv, Live, Prog4Inv, Prog4AtType
<1>3. /\ text \in Bytes /\ Len(text) \in Nat /\ Len(text) # 0
      /\ key \in Bytes /\ Len(key) \in Nat /\ Len(text) =< Len(key)
  BY <1>2, FilesAre, Joined DEF Prog4Live
<1>4. d.message = text /\ d.pad = key /\ down = <<>>
  <2>1. ~(0 >= Len(key))
    BY <1>3
  <2> QED
    BY <1>1, <1>2, <2>1 DEF Prog4AtAnswer
<1>5. CString(text) = text /\ CString(key) = key
  BY <1>2, FilesAre, FileIsCString
<1>6. answer \in Bytes /\ IsAnswer(answer)
  BY <1>2, Prog4Serves, Zenon
<1>7. down' = <<>> \o answer
  BY <1>1, <1>4, <1>5
<1> HIDE DEF answer
<1>8. down' = answer
  BY <1>6, <1>7, Joined
<1>9. d'.at = "exited" /\ d'.size = d.size /\ RecordsOK'
  BY <1>1, <1>2 DEF RecordsOK
<1>10. WireInv'
  BY <1>1, <1>2, <1>6, <1>8, <1>9, InputKept DEF WireInv, StreamsOK
<1>11. Prog4Live' /\ Prog4AtAnswer'
  BY <1>1, <1>2, <1>6, <1>8, <1>9, InputKept DEF Prog4Live, Prog4AtAnswer, HasBad, Letters
<1> QED
  BY <1>1, <1>2, <1>9, <1>10, <1>11, InputKept DEF Prog4Inv

\* The client is killed.
LEMMA Prog4KillKeeps ==
    ASSUME WireInv, Prog4Inv, Prog4!Kill
    PROVE  WireInv' /\ Prog4Inv'
<1>1. c' = [c EXCEPT !.at = "killed"] /\ UNCHANGED <<input, d, up, down>>
  BY DEF Prog4!Kill, Prog4!input, input
<1>2. InputInv /\ RecordsOK
  BY DEF WireInv
<1>3. c'.at = "killed" /\ RecordsOK'
  BY <1>1, <1>2 DEF RecordsOK
<1> QED
  BY <1>1, <1>2, <1>3, InputKept DEF WireInv, Live, Prog4Inv

\* Every step of OSU-CS344_Prog4 keeps it, as long as no message is split.
LEMMA Prog4Keeps ==
    ASSUME WireInv, Prog4Inv, Prog4!Prog4Next, ~split'
    PROVE  WireInv' /\ Prog4Inv'
<1>1. CASE ~Live
  BY <1>1, Prog4Quiet
<1>2. CASE Live
  BY <1>2, Prog4ConnectKeeps, Prog4SendKeeps, Prog4AnswerKeeps, Prog4KillKeeps,
     Prog4AcceptKeeps, Prog4LengthKeeps, Prog4TextKeeps, Prog4KeyLengthKeeps,
     Prog4KeyKeeps, Prog4ServeKeeps DEF Prog4!Prog4Next
<1> QED
  BY <1>1, <1>2

-----------------------------------------------------------------------------
(***************************************************************************)
(* Dougherty's and Suh's programs.                                         *)
(***************************************************************************)

\* The words of the instance are those of OtpWire.
LEMMA DoughertyIs ==
    /\ \A b, m : Dougherty!ChildReceives(b, m) => ChildReceives(b, m)
    /\ \A b, m : Dougherty!ClientReceives(b, m, Dougherty!ChildGone)
                  => ClientReceives(b, m, ChildGone)
    /\ \A k : Dougherty!Token(k) = Token(k)
    /\ \A n : Dougherty!Length(n) = Length(n) /\ Dougherty!Zeros(n) = Zeros(n)
    /\ \A f : Dougherty!HasBad(f) <=> HasBad(f)
    /\ Dougherty!Nl = Nl /\ Dougherty!Nul = Nul /\ Dougherty!Yes = Yes /\ Dougherty!No = No
    /\ Dougherty!NeverConnected <=> NeverConnected
BY DEF Dougherty!ChildReceives, ChildReceives, Dougherty!ClientReceives, ClientReceives,
       Dougherty!Arrived, Arrived, Dougherty!Rest, Rest, Dougherty!Min, Min,
       Dougherty!Token, Token, Dougherty!Length, Length, Dougherty!Zeros, Zeros,
       Dougherty!HasBad, HasBad, Dougherty!Letters, Letters, Dougherty!Nl, Nl, Dougherty!Nul, Nul,
       Dougherty!Yes, Yes, Dougherty!No, No, Dougherty!ClientGone, ClientGone,
       Dougherty!ChildGone, ChildGone, Dougherty!NeverConnected, NeverConnected

\* As many parts of Chunk bytes as the client sends hold more than length bytes,
\* and at most Chunk more.
LEMMA Parts ==
    ASSUME NEW length \in Nat
    PROVE  LET parts == length \div Chunk + 1
           IN  /\ parts \in Nat /\ parts >= 1 /\ parts * Chunk \in Nat
               /\ parts * Chunk > length /\ parts * Chunk =< length + Chunk
               /\ parts # 1 => length >= Chunk
               /\ parts = 1 => length < Chunk
<1> DEFINE q == length \div Chunk
<1>1. Chunk \in Nat /\ Chunk >= 1
  BY ChunkAssumption
<1>2. q \in Nat /\ Chunk * q =< length /\ length < Chunk * (q + 1)
  BY <1>1
<1>3. q # 0 => length >= Chunk
  BY <1>1
<1> HIDE DEF q
<1>4. /\ q + 1 \in Nat /\ q + 1 >= 1 /\ (q + 1) * Chunk = Chunk * (q + 1)
      /\ Chunk * (q + 1) = Chunk * q + Chunk /\ (q + 1 = 1 <=> q = 0)
      /\ Chunk * q \in Nat
  BY <1>1, <1>2
<1>5. q = 0 => Chunk * (q + 1) = Chunk
  BY <1>1, <1>4
<1>6. /\ (q + 1) * Chunk \in Nat /\ (q + 1) * Chunk > length
      /\ (q + 1) * Chunk =< length + Chunk
  BY <1>1, <1>2, <1>4
<1>7. q + 1 # 1 => length >= Chunk
  BY <1>3, <1>4
<1>8. q + 1 = 1 => length < Chunk
  BY <1>1, <1>2, <1>4, <1>5
<1> QED
  BY <1>4, <1>6, <1>7, <1>8 DEF q

\* What the client sends of a file that has at least length bytes before the
\* newline is more than length bytes.
LEMMA SentOf ==
    ASSUME NEW file \in Bytes, NEW length \in Nat, length =< Len(file)
    PROVE  LET sent == Dougherty!SendFile(Append(file, Nl), length)
           IN  sent \in Bytes /\ Len(sent) \in Nat /\ Len(sent) > length
<1> DEFINE parts == length \div Chunk + 1
           all   == Append(file, Nl)
           total == IF parts = 1 THEN Min({Chunk, Len(all)}) ELSE parts * Chunk
           sent  == Dougherty!SendFile(all, length)
<1>1. DOMAIN all = 1 .. Len(file) + 1 /\ Len(all) = Len(file) + 1
      /\ Len(file) \in Nat /\ \A i \in DOMAIN all : all[i] \in Int
  BY DEF Bytes, Nl
<1>2. /\ parts \in Nat /\ parts >= 1 /\ parts * Chunk \in Nat
      /\ parts * Chunk > length /\ parts * Chunk =< length + Chunk
      /\ parts # 1 => length >= Chunk
      /\ parts = 1 => length < Chunk
  BY Parts
<1>3. sent = [j \in 1 .. total |-> IF j \in DOMAIN all THEN all[j] ELSE all[j - Chunk]]
  BY DEF Dougherty!SendFile, Dougherty!Min, Min
<1>4. Min({Chunk, Len(all)}) = IF Chunk =< Len(all) THEN Chunk ELSE Len(all)
  BY <1>1, ChunkAssumption, MinOfTwo
<1> HIDE DEF parts, all
<1>5. /\ total \in Nat /\ total > length
      /\ total =< Len(all) \/ (total =< length + Chunk /\ length >= Chunk)
  <2>1. CASE parts = 1
    <3>1. total = IF Chunk =< Len(all) THEN Chunk ELSE Len(all)
      BY <1>4, <2>1
    <3>2. parts * Chunk = Chunk
      BY <2>1, ChunkAssumption
    <3> HIDE DEF total
    <3> QED
      BY <1>1, <1>2, <2>1, <3>1, <3>2, ChunkAssumption
  <2>2. CASE parts # 1
    <3>1. total = parts * Chunk
      BY <2>2
    <3> QED
      BY <1>2, <2>2, <3>1
  <2> QED
    BY <2>1, <2>2
<1> HIDE DEF total, sent
<1>6. \A j \in 1 .. total : j \in DOMAIN all \/ j - Chunk \in DOMAIN all
  BY <1>1, <1>5, ChunkAssumption
<1>7. sent \in Bytes /\ Len(sent) = total
  BY <1>1, <1>3, <1>5, <1>6 DEF Bytes
<1> QED
  BY <1>5, <1>7 DEF sent, all

\* What is sent goes behind what is under way.
LEMMA MoreSent ==
    ASSUME NEW stream \in Bytes, NEW more \in Bytes
    PROVE  /\ stream \o more \in Bytes
           /\ Len(stream \o more) = Len(stream) + Len(more)
           /\ stream # <<>> => stream \o more # <<>> /\ (stream \o more)[1] = stream[1]
BY DEF Bytes

\* The file a client sends does not change.
LEMMA SentKept ==
    ASSUME UNCHANGED input, InputInv
    PROVE  SentText' = SentText /\ SentKey' = SentKey
BY InputKept DEF SentText, SentKey, Dougherty!SendFile, Nl

\* The size of what Dougherty's client sends.
LEMMA Sent ==
    ASSUME InputInv, Len(text) =< Len(key)
    PROVE  /\ SentText \in Nat /\ SentText > Len(text) /\ SentKey \in Nat
           /\ SentKey > Len(text) /\ Len(text) \in Nat
           /\ Dougherty!SendFile(Append(text, Nl), Len(text)) \in Bytes
           /\ Dougherty!SendFile(Append(key, Nl), Len(text)) \in Bytes
<1>1. text \in Bytes /\ key \in Bytes /\ Len(text) \in Nat
  BY FilesAre, Joined
<1>2. Len(text) =< Len(text)
  BY <1>1
<1>3. /\ SentText \in Nat /\ SentText > Len(text)
      /\ Dougherty!SendFile(Append(text, Nl), Len(text)) \in Bytes
  BY <1>1, <1>2, SentOf DEF SentText
<1>4. /\ SentKey \in Nat /\ SentKey > Len(text)
      /\ Dougherty!SendFile(Append(key, Nl), Len(text)) \in Bytes
  BY <1>1, SentOf DEF SentKey
<1> QED
  BY <1>1, <1>3, <1>4

DoughertyAnyNext == Dougherty!DoughertyNext \/ Dougherty!SuhNext

\* Each step keeps the fields and the input, and no client comes back.
LEMMA DoughertyRecords ==
    ASSUME RecordsOK, InputInv, DoughertyAnyNext
    PROVE  /\ RecordsOK' /\ InputInv' /\ UNCHANGED input
           /\ ~Live => (~Live' /\ (UNCHANGED c \/ c'.at = "killed"))
<1> DEFINE Step ==
      /\ UNCHANGED input
      /\ \/ UNCHANGED c
         \/ Live /\ \E n : c' = [c EXCEPT !.at = n]
         \/ c' = [c EXCEPT !.at = "killed"]
         \/ Live /\ \E n, z, b : c' = [c EXCEPT !.at = n, !.size = z, !.buffer = b]
         \/ Live /\ \E b, n, a : c' = [c EXCEPT !.buffer = b, !.count = n, !.answer = a]
      /\ \/ UNCHANGED d
         \/ \E n : d' = [d EXCEPT !.at = n]
         \/ \E n, m, q : d' = [d EXCEPT !.at = n, !.message = m, !.pad = q]
         \/ \E n, z, b : d' = [d EXCEPT !.at = n, !.size = z, !.buffer = b]
         \/ \E n, t, k, b : d' = [d EXCEPT !.at = n, !.taken = t, !.count = k, !.buffer = b]
         \/ \E b, n, m : d' = [d EXCEPT !.buffer = b, !.count = n, !.message = m]
         \/ \E b, n, m : d' = [d EXCEPT !.buffer = b, !.count = n, !.pad = m]
<1>1. Step
  <2> USE DEF Dougherty!input, input
  <2>1. CASE Dougherty!DoughertyConnect
    BY <2>1 DEF Dougherty!DoughertyConnect, Live
  <2>2. CASE Dougherty!DoughertySendLength
    BY <2>2 DEF Dougherty!DoughertySendLength, Live
  <2>3. CASE Dougherty!DoughertySendText \/ Dougherty!DoughertySendKey
    BY <2>3 DEF Dougherty!DoughertySendText, Dougherty!DoughertySendKey, Live
  <2>4. CASE Dougherty!DoughertyAnswer
    BY <2>4 DEF Dougherty!DoughertyAnswer, Live
  <2>5. CASE Dougherty!DoughertyPrint \/ Dougherty!Kill
    BY <2>5 DEF Dougherty!DoughertyPrint, Dougherty!Kill, Live
  <2>6. CASE Dougherty!DoughertyAccept
    BY <2>6 DEF Dougherty!DoughertyAccept
  <2>7. CASE Dougherty!DoughertyHandshake
    BY <2>7 DEF Dougherty!DoughertyHandshake
  <2>8. CASE Dougherty!DoughertyLength
    <3>1. PICK bytes, b : d' = IF bytes = <<>> THEN [d EXCEPT !.at = "spins"]
                               ELSE [d EXCEPT !.at = "text",
                                              !.size = bytes[1] - Dougherty!Length(0),
                                              !.buffer = b]
      BY <2>8 DEF Dougherty!DoughertyLength
    <3>2. \/ \E n : d' = [d EXCEPT !.at = n]
          \/ \E n, z, b1 : d' = [d EXCEPT !.at = n, !.size = z, !.buffer = b1]
      BY <3>1
    <3> QED
      BY <2>8, <3>2 DEF Dougherty!DoughertyLength
  <2>9. CASE Dougherty!DoughertyText
    BY <2>9 DEF Dougherty!DoughertyText
  <2>10. CASE Dougherty!DoughertyTextEnds
    BY <2>10 DEF Dougherty!DoughertyTextEnds
  <2>11. CASE Dougherty!DoughertyKey
    BY <2>11 DEF Dougherty!DoughertyKey
  <2>12. CASE Dougherty!DoughertyServe
    BY <2>12 DEF Dougherty!DoughertyServe, Dougherty!Exits
  <2>13. CASE Dougherty!SuhServe
    BY <2>13 DEF Dougherty!SuhServe, Dougherty!Exits
  <2> QED
    BY <2>1, <2>2, <2>3, <2>4, <2>5, <2>6, <2>7, <2>8, <2>9, <2>10, <2>11, <2>12, <2>13
    DEF DoughertyAnyNext, Dougherty!DoughertyNext, Dougherty!SuhNext,
        Dougherty!ClientNext, Dougherty!ReceiveNext
<1>2. DOMAIN c' = DOMAIN c /\ DOMAIN d' = DOMAIN d
  BY <1>1
<1>3. ~Live => UNCHANGED c \/ c'.at = "killed"
  BY <1>1 DEF RecordsOK
<1>4. ~Live => ~Live'
  BY <1>3 DEF Live
<1> QED
  BY <1>1, <1>2, <1>3, <1>4, InputKept DEF RecordsOK

\* The client connects and shows its word.
LEMMA DoughertyConnectKeeps ==
    ASSUME RecordsOK, InputInv, DoughertyInv, Dougherty!DoughertyConnect
    PROVE  DoughertyInv'
<1>1. /\ c.at = "start" /\ UNCHANGED <<input, d, down>>
      /\ \/ c' = [c EXCEPT !.at = "failed"]
         \/ /\ ~(Len(text) > Len(key)) /\ up' = Append(up, Token(kind))
            /\ c' = [c EXCEPT !.at = "handshake", !.size = Len(text), !.buffer = Zeros(Chunk)]
  BY DoughertyIs DEF Dougherty!DoughertyConnect, Dougherty!input, input
<1>2. /\ d.at = "accept" /\ up = <<>> /\ down = <<>> /\ d.count = 0 /\ d.size \in Int
  BY <1>1 DEF DoughertyInv, Live
<1>3. /\ c'.at \in {"failed", "handshake"}
      /\ c'.at = "handshake" =>
            /\ c'.size = Len(text) /\ ~(Len(text) > Len(key))
            /\ up' = Append(up, Token(kind))
  BY <1>1 DEF RecordsOK
<1>4. Len(text) \in Nat /\ Len(key) \in Nat /\ Token(kind) \in Int
  BY FilesAre, Joined, Codes DEF InputInv
<1>5. CASE c'.at = "failed"
  BY <1>5 DEF DoughertyInv, Live
<1>6. CASE c'.at = "handshake"
  <2>1. up' = <<Token(kind)>> /\ up' \in Bytes
    BY <1>2, <1>3, <1>4, <1>6, OneByteStreams
  <2>2. DoughertyAtHandshake'
    BY <1>1, <1>2, <2>1, InputKept DEF DoughertyAtHandshake
  <2>3. c'.size = Len(text) /\ c'.size \in Int /\ Len(text) =< Len(key)
    BY <1>3, <1>4, <1>6
  <2> QED
    BY <1>1, <1>2, <1>6, <2>1, <2>2, <2>3, InputKept DEF DoughertyInv
<1> QED
  BY <1>3, <1>5, <1>6

\* The client has its answer and sends the length.
LEMMA DoughertySendLengthKeeps ==
    ASSUME RecordsOK, InputInv, DoughertyInv, Dougherty!DoughertySendLength
    PROVE  DoughertyInv'
<1>1. PICK bytes :
         /\ c.at = "handshake" /\ ClientReceives(bytes, Chunk, ChildGone)
         /\ \/ c' = [c EXCEPT !.at = "refused"]
            \/ c' = [c EXCEPT !.at = "text"] /\ up' = up \o <<Length(c.size), Nul>>
         /\ UNCHANGED <<input, d>>
  <2>1. PICK bytes :
           /\ c.at = "handshake"
           /\ Dougherty!ClientReceives(bytes, Chunk, Dougherty!ChildGone)
           /\ \/ c' = [c EXCEPT !.at = "refused"]
              \/ /\ c' = [c EXCEPT !.at = "text"]
                 /\ up' = up \o <<Dougherty!Length(c.size), Dougherty!Nul>>
           /\ UNCHANGED <<input, d>>
    BY DEF Dougherty!DoughertySendLength, Dougherty!input, input
  <2>2. ClientReceives(bytes, Chunk, ChildGone)
    BY <2>1, DoughertyIs, Zenon
  <2> QED
    BY <2>1, <2>2, DoughertyIs
<1>2. /\ up \in Bytes /\ c.size \in Int /\ d.size \in Int /\ DoughertyAtHandshake
      /\ c.size = Len(text) /\ Len(text) =< Len(key) /\ d.count \in Int
      /\ d.at \in {"accept", "auth", "length"} => d.count = 0
  BY <1>1 DEF DoughertyInv, Live
<1>3. /\ c'.at \in {"refused", "text"} /\ c'.size = c.size
      /\ c'.at = "text" => up' = up \o <<Length(c.size), Nul>>
  BY <1>1 DEF RecordsOK
<1>4. CASE c'.at = "refused"
  BY <1>4 DEF DoughertyInv, Live
<1>5. CASE c'.at = "text"
  <2>1. d.at \notin {"accept", "auth"}
    <3>1. SUFFICES ASSUME d.at \in {"accept", "auth"} PROVE FALSE
      OBVIOUS
    <3>2. down = <<>> /\ ~ChildGone
      BY <1>2, <3>1 DEF DoughertyAtHandshake, ChildGone
    <3>3. StreamsOK /\ Chunk \in Int
      BY <1>2, <3>2, ChunkAssumption, OneByteStreams DEF StreamsOK
    <3>4. bytes # <<>>
      BY <1>1, <3>2, <3>3, ClientGetsSome
    <3>5. /\ bytes \in Bytes /\ down' \in Bytes /\ Len(down) = Len(bytes) + Len(down')
          /\ Len(bytes) >= 1
      BY <1>1, <3>3, <3>4, ClientGets, Zenon
    <3>6. Len(bytes) \in Nat /\ Len(down') \in Nat /\ Len(down) = 0
      BY <3>2, <3>5, Joined, OneByteStreams
    <3> QED
      BY <3>5, <3>6
  <2>2. Length(c.size) \in Int /\ Nul \in Int
    BY <1>2, Codes DEF Nul
  <2>3. up' \in Bytes
    <3>1. <<Length(c.size), Nul>> \in Bytes
      BY <2>2 DEF Bytes
    <3> QED
      BY <1>2, <1>3, <1>5, <3>1, MoreSent
  <2>4. d.at = "length" => up' # <<>> /\ up'[1] = Length(Len(text)) /\ Len(up') = 2
    <3> SUFFICES ASSUME d.at = "length"
                 PROVE  up' # <<>> /\ up'[1] = Length(Len(text)) /\ Len(up') = 2
      OBVIOUS
    <3>1. up' = <<>> \o <<Length(c.size), Nul>>
      BY <1>2, <1>3, <1>5 DEF DoughertyAtHandshake
    <3> QED
      BY <1>2, <2>2, <3>1
  <2>5. DoughertyAtSend'
    BY <1>1, <1>2, <1>5, <2>1, <2>4, InputKept
    DEF DoughertyAtSend, SentSoFar, DoughertyAtHandshake
  <2> QED
    BY <1>1, <1>2, <1>3, <1>5, <2>3, <2>5, InputKept DEF DoughertyInv
<1> QED
  BY <1>3, <1>4, <1>5

\* The client sends a file.
LEMMA DoughertySendsKeeps ==
    ASSUME RecordsOK, InputInv, DoughertyInv,
           Dougherty!DoughertySendText \/ Dougherty!DoughertySendKey
    PROVE  DoughertyInv'
<1> DEFINE sent == IF c.at = "text" THEN Dougherty!SendFile(Append(text, Nl), Len(text))
                                    ELSE Dougherty!SendFile(Append(key, Nl), Len(text))
<1>1. /\ c.at \in {"text", "key"}
      /\ c' = [c EXCEPT !.at = IF c.at = "text" THEN "key" ELSE "answer"]
      /\ up' = up \o IF c.at = "text" THEN Dougherty!SendFile(Append(text, Nl), c.size)
                                      ELSE Dougherty!SendFile(Append(key, Nl), c.size)
      /\ UNCHANGED <<input, d, down>>
  BY DoughertyIs
  DEF Dougherty!DoughertySendText, Dougherty!DoughertySendKey, Dougherty!input, input
<1>2. /\ up \in Bytes /\ c.size \in Int /\ d.size \in Int /\ DoughertyAtSend
      /\ c.size = Len(text) /\ Len(text) =< Len(key) /\ d.count \in Int
      /\ d.at \in {"accept", "auth", "length"} => d.count = 0
  BY <1>1 DEF DoughertyInv, Live
<1>3. sent \in Bytes /\ SentText \in Nat /\ SentKey \in Nat /\ Len(text) \in Nat
  BY <1>2, Sent
<1>4. up' = up \o sent /\ Len(sent) = IF c.at = "text" THEN SentText ELSE SentKey
  BY <1>1, <1>2 DEF SentText, SentKey
<1> HIDE DEF sent
<1>5. /\ up' \in Bytes /\ Len(up') = Len(up) + Len(sent)
      /\ up # <<>> => up' # <<>> /\ up'[1] = up[1]
      /\ Len(up) \in Nat
  BY <1>2, <1>3, <1>4, MoreSent, Joined
<1>6. /\ c'.at = (IF c.at = "text" THEN "key" ELSE "answer") /\ c'.size = c.size
  BY <1>1 DEF RecordsOK
<1>7. SentSoFar' = SentSoFar + Len(sent) /\ SentSoFar \in Int
  <2>1. SentText' = SentText /\ SentKey' = SentKey
    BY <1>1, SentKept
  <2> QED
    BY <1>1, <1>3, <1>4, <1>6, <2>1 DEF SentSoFar
<1>8. /\ Len(up') = Len(up) + Len(sent) /\ Len(up) \in Nat /\ Len(sent) \in Nat
      /\ d.count \in Int
  BY <1>2, <1>3, <1>4, <1>5
<1>9. DoughertyAtSend'
  <2>1. CASE d.at = "length"
    <3>1. up # <<>> /\ up[1] = Length(Len(text)) /\ Len(up) = SentSoFar
      BY <1>2, <2>1 DEF DoughertyAtSend
    <3> QED
      BY <1>1, <1>5, <1>7, <2>1, <3>1, InputKept DEF DoughertyAtSend
  <2>2. CASE d.at = "text"
    <3>1. d.size = Len(text) /\ 1 + d.count + Len(up) = SentSoFar
      BY <1>2, <2>2 DEF DoughertyAtSend
    <3>2. 1 + d.count + Len(up') = SentSoFar'
      BY <1>7, <1>8, <3>1
    <3> QED
      BY <1>1, <2>2, <3>1, <3>2, InputKept DEF DoughertyAtSend
  <2>3. CASE d.at = "key"
    <3>1. d.size = Len(text) /\ d.taken \in Int /\ 1 + d.taken + d.count + Len(up) = SentSoFar
      BY <1>2, <2>3 DEF DoughertyAtSend
    <3>2. 1 + d.taken + d.count + Len(up') = SentSoFar'
      BY <1>7, <1>8, <3>1
    <3> QED
      BY <1>1, <2>3, <3>1, <3>2, InputKept DEF DoughertyAtSend
  <2> QED
    BY <1>1, <1>2, <2>1, <2>2, <2>3 DEF DoughertyAtSend
<1> QED
  BY <1>1, <1>2, <1>5, <1>6, <1>9, InputKept DEF DoughertyInv

\* The client receives, and prints.
LEMMA DoughertyAnswerKeeps ==
    ASSUME RecordsOK, InputInv, DoughertyInv,
           Dougherty!DoughertyAnswer \/ Dougherty!DoughertyPrint \/ Dougherty!Kill
    PROVE  DoughertyInv'
<1>1. /\ UNCHANGED <<input, d, up>>
      /\ \/ c' = [c EXCEPT !.at = "spins"] \/ c' = [c EXCEPT !.at = "done"]
         \/ c' = [c EXCEPT !.at = "killed"]
         \/ c.at = "answer" /\ \E b, n, a : c' = [c EXCEPT !.buffer = b, !.count = n, !.answer = a]
  <2> USE DEF Dougherty!input, input
  <2>1. CASE Dougherty!DoughertyAnswer
    <3>1. PICK bytes :
             /\ c.at = "answer" /\ UNCHANGED <<input, d, up>>
             /\ c' = IF bytes = <<>> THEN [c EXCEPT !.at = "spins"]
                     ELSE [c EXCEPT !.buffer = Dougherty!Over(bytes, @),
                                    !.count = @ + Len(bytes),
                                    !.answer = @ \o Dougherty!CString(Dougherty!Over(bytes, c.buffer))]
      BY <2>1 DEF Dougherty!DoughertyAnswer
    <3> QED
      BY <3>1
  <2>2. CASE Dougherty!DoughertyPrint
    BY <2>2 DEF Dougherty!DoughertyPrint
  <2>3. CASE Dougherty!Kill
    BY <2>3 DEF Dougherty!Kill
  <2> QED
    BY <2>1, <2>2, <2>3
<1>2. c'.at \in {"spins", "done", "killed"} \/ (c.at = "answer" /\ c'.at = c.at /\ c'.size = c.size)
  BY <1>1 DEF RecordsOK
<1>3. CASE c'.at \in {"spins", "done", "killed"}
  BY <1>3 DEF DoughertyInv, Live
<1>4. CASE c.at = "answer" /\ c'.at = c.at /\ c'.size = c.size
  <2>1. /\ up \in Bytes /\ c.size \in Int /\ d.size \in Int /\ DoughertyAtSend
        /\ c.size = Len(text) /\ Len(text) =< Len(key) /\ d.count \in Int
        /\ d.at \in {"accept", "auth", "length"} => d.count = 0
    BY <1>4 DEF DoughertyInv, Live
  <2>2. SentSoFar' = SentSoFar
    BY <1>1, <1>4, SentKept DEF SentSoFar
  <2>3. DoughertyAtSend'
    BY <1>1, <2>1, <2>2, InputKept DEF DoughertyAtSend
  <2> QED
    BY <1>1, <1>4, <2>1, <2>3, InputKept DEF DoughertyInv
<1> QED
  BY <1>2, <1>3, <1>4

\* The daemon accepts.
LEMMA DoughertyAcceptKeeps ==
    ASSUME RecordsOK, InputInv, DoughertyInv, Dougherty!DoughertyAccept, Live
    PROVE  DoughertyInv'
<1>1. PICK memory :
         /\ d.at = "accept" /\ c.at # "start"
         /\ d' = [d EXCEPT !.at = "auth", !.message = memory, !.pad = memory]
         /\ UNCHANGED <<input, c, up, down>>
  BY DoughertyIs DEF Dougherty!DoughertyAccept, Dougherty!input, input, NeverConnected
<1>2. /\ up \in Bytes /\ c.size \in Int /\ d.size \in Int /\ d.count = 0
      /\ c.at = "handshake" /\ DoughertyAtHandshake /\ up = <<Token(kind)>> /\ down = <<>>
      /\ c.size = Len(text) /\ Len(text) =< Len(key)
  BY <1>1 DEF DoughertyInv, Live, DoughertyAtSend, DoughertyAtHandshake
<1>3. d'.at = "auth" /\ d'.size = d.size /\ d'.count = 0
  BY <1>1, <1>2 DEF RecordsOK
<1>4. DoughertyAtHandshake'
  BY <1>1, <1>2, <1>3, InputKept DEF DoughertyAtHandshake
<1> QED
  BY <1>1, <1>2, <1>3, <1>4, InputKept DEF DoughertyInv

\* The child looks at the word and answers.
LEMMA DoughertyHandshakeKeeps ==
    ASSUME RecordsOK, InputInv, DoughertyInv, Dougherty!DoughertyHandshake, Live
    PROVE  DoughertyInv'
<1>1. PICK bytes :
         /\ d.at = "auth" /\ ChildReceives(bytes, Chunk) /\ UNCHANGED <<input, c>>
         /\ bytes # <<>> =>
               \/ d' = [d EXCEPT !.at = "length"] /\ down' = Append(down, Yes)
               \/ d' = [d EXCEPT !.at = "exited"] /\ down' = Append(down, No)
  <2>1. PICK bytes :
           /\ d.at = "auth" /\ Dougherty!ChildReceives(bytes, Chunk) /\ UNCHANGED <<input, c>>
           /\ CASE bytes = <<>> -> d' = [d EXCEPT !.at = "spins"] /\ UNCHANGED down
                [] bytes = <<Dougherty!Token(daemon)>> ->
                      d' = [d EXCEPT !.at = "length"] /\ down' = Append(down, Dougherty!Yes)
                [] OTHER -> d' = [d EXCEPT !.at = "exited"] /\ down' = Append(down, Dougherty!No)
    BY DEF Dougherty!DoughertyHandshake, Dougherty!input, input
  <2>2. ChildReceives(bytes, Chunk)
    BY <2>1, DoughertyIs, Zenon
  <2>3. bytes # <<>> =>
           \/ d' = [d EXCEPT !.at = "length"] /\ down' = Append(down, Dougherty!Yes)
           \/ d' = [d EXCEPT !.at = "exited"] /\ down' = Append(down, Dougherty!No)
    BY <2>1
  <2> QED
    BY <2>1, <2>2, <2>3, DoughertyIs
<1>2. /\ up \in Bytes /\ c.size \in Int /\ d.size \in Int /\ d.count = 0 /\ ~ClientGone
      /\ c.at = "handshake" /\ up = <<Token(kind)>> /\ down = <<>>
      /\ c.size = Len(text) /\ Len(text) =< Len(key)
  BY <1>1 DEF DoughertyInv, Live, DoughertyAtSend, DoughertyAtHandshake, ClientGone
<1>3. Chunk \in Int /\ Token(kind) \in Int /\ Len(up) = 1
  <2>1. Chunk \in Int
    BY ChunkAssumption
  <2>2. Token(kind) \in Int
    BY Codes DEF InputInv
  <2> QED
    BY <1>2, <2>1, <2>2, OneByteStreams
<1>4. /\ bytes \in Bytes /\ up' \in Bytes /\ Len(up) = Len(bytes) + Len(up')
      /\ bytes # <<>> /\ Len(bytes) >= 1
  <2>1. bytes # <<>>
    BY <1>1, <1>2, <1>3, ChildGetsOf, Zenon
  <2> QED
    BY <1>1, <1>2, <1>3, <2>1, ChildGetsOf, Zenon
<1>5. up' = <<>>
  <2>1. Len(bytes) \in Nat /\ Len(up') \in Nat
    BY <1>4, Joined, Zenon
  <2>2. Len(up') = 0
    BY <1>3, <1>4, <2>1
  <2> QED
    BY <1>4, <2>2, Joined, Zenon
<1>6. \/ d'.at = "length" /\ down' = <<Yes>>
      \/ d'.at = "exited" /\ down' = <<No>>
  <2>1. Append(down, Yes) = <<Yes>> /\ Append(down, No) = <<No>>
    BY <1>2, Codes, OneByteStreams
  <2> QED
    BY <1>1, <1>4, <2>1 DEF RecordsOK
<1>7. d'.size = d.size /\ d'.count = d.count
  BY <1>1, <1>4 DEF RecordsOK
<1>8. DoughertyAtHandshake'
  BY <1>5, <1>6 DEF DoughertyAtHandshake
<1> QED
  BY <1>1, <1>2, <1>4, <1>7, <1>8, InputKept DEF DoughertyInv

\* The child has the length, and leaves a byte behind.
LEMMA DoughertyLengthKeeps ==
    ASSUME RecordsOK, InputInv, DoughertyInv, Dougherty!DoughertyLength, Live
    PROVE  DoughertyInv'
<1>1. PICK bytes, b :
         /\ d.at = "length" /\ ChildReceives(bytes, 1) /\ UNCHANGED <<input, c, down>>
         /\ bytes # <<>> => d' = [d EXCEPT !.at = "text", !.size = bytes[1] - Length(0),
                                           !.buffer = b]
  BY DoughertyIs DEF Dougherty!DoughertyLength, Dougherty!input, input
<1>2. /\ up \in Bytes /\ c.size \in Int /\ d.size \in Int /\ d.count = 0 /\ ~ClientGone
      /\ c.at \in {"handshake", "text", "key", "answer"}
      /\ c.at = "handshake" => up = <<>>
      /\ c.at \in {"text", "key", "answer"} => DoughertyAtSend
      /\ c.size = Len(text) /\ Len(text) =< Len(key)
  BY <1>1 DEF DoughertyInv, Live, DoughertyAtHandshake, ClientGone
<1>3. /\ bytes \in Bytes /\ up' \in Bytes /\ up = bytes \o up'
      /\ bytes # <<>> /\ Len(bytes) =< 1
  <2>1. 1 \in Int
    OBVIOUS
  <2>2. bytes # <<>>
    BY <1>1, <1>2, <2>1, ChildGetsOf, Zenon
  <2> QED
    BY <1>1, <1>2, <2>1, <2>2, ChildGetsOf, Zenon
<1>4. up # <<>> /\ bytes = <<up[1]>> /\ up' = Tail(up) /\ up[1] \in Int
  BY <1>2, <1>3, FirstByte, Zenon
<1>5. /\ c.at \in {"text", "key", "answer"} /\ up[1] = Length(Len(text)) /\ Len(up) = SentSoFar
  BY <1>1, <1>2, <1>4 DEF DoughertyAtSend
<1>6. Len(text) \in Int /\ bytes[1] - Length(0) = Len(text)
  <2>1. Len(text) \in Int
    BY FilesAre, Joined
  <2>2. bytes[1] = Length(Len(text))
    BY <1>4, <1>5, OneByteStreams
  <2> QED
    BY <2>1, <2>2, Codes
<1>7. 1 + 0 + Len(up') = SentSoFar
  <2>1. Len(up) = 1 + Len(up') /\ Len(up') \in Nat
    BY <1>2, <1>4 DEF Bytes
  <2> QED
    BY <1>5, <2>1
<1>8. d'.at = "text" /\ d'.size = Len(text) /\ d'.count = 0
  BY <1>1, <1>2, <1>3, <1>6 DEF RecordsOK
<1>9. SentSoFar' = SentSoFar
  BY <1>1, SentKept DEF SentSoFar
<1>10. DoughertyAtSend'
  BY <1>1, <1>7, <1>8, <1>9, InputKept DEF DoughertyAtSend
<1> QED
  BY <1>1, <1>2, <1>3, <1>5, <1>6, <1>8, <1>10, InputKept DEF DoughertyInv

\* The child receives some of the text, or of the key.
LEMMA DoughertyTextKeeps ==
    ASSUME RecordsOK, InputInv, DoughertyInv, Live,
           Dougherty!DoughertyText \/ Dougherty!DoughertyKey
    PROVE  DoughertyInv'
<1>1. PICK bytes :
         /\ d.at \in {"text", "key"} /\ ChildReceives(bytes, Chunk)
         /\ UNCHANGED <<input, c, down>>
         /\ bytes # <<>> => \/ \E b, m : d' = [d EXCEPT !.buffer = b, !.count = @ + Len(bytes),
                                                       !.message = m]
                            \/ \E b, m : d' = [d EXCEPT !.buffer = b, !.count = @ + Len(bytes),
                                                       !.pad = m]
  <2>1. CASE Dougherty!DoughertyText
    BY <2>1, DoughertyIs DEF Dougherty!DoughertyText, Dougherty!input, input
  <2>2. CASE Dougherty!DoughertyKey
    BY <2>2, DoughertyIs DEF Dougherty!DoughertyKey, Dougherty!input, input
  <2> QED
    BY <2>1, <2>2
<1>2. /\ up \in Bytes /\ c.size \in Int /\ d.size \in Int /\ d.count \in Int /\ ~ClientGone
      /\ c.at \in {"text", "key", "answer"} /\ DoughertyAtSend
      /\ c.size = Len(text) /\ Len(text) =< Len(key)
  BY <1>1 DEF DoughertyInv, Live, DoughertyAtHandshake, ClientGone
<1>3. /\ bytes \in Bytes /\ up' \in Bytes /\ Len(up) = Len(bytes) + Len(up') /\ bytes # <<>>
  <2>1. Chunk \in Int
    BY ChunkAssumption
  <2>2. bytes # <<>>
    BY <1>1, <1>2, <2>1, ChildGetsOf, Zenon
  <2> QED
    BY <1>1, <1>2, <2>1, <2>2, ChildGetsOf, Zenon
<1>4. Len(bytes) \in Nat /\ Len(up') \in Nat
  BY <1>3, Joined, Zenon
<1>5. /\ d'.at = d.at /\ d'.size = d.size /\ d'.taken = d.taken
      /\ d'.count = d.count + Len(bytes)
  BY <1>1, <1>3 DEF RecordsOK
<1>6. SentSoFar' = SentSoFar
  BY <1>1, SentKept DEF SentSoFar
<1>7. /\ d'.count + Len(up') = d.count + Len(up) /\ d'.count \in Int
      /\ d.count \in Int /\ Len(up) \in Nat /\ Len(up') \in Nat
  BY <1>2, <1>3, <1>4, <1>5
<1>8. DoughertyAtSend'
  <2>1. CASE d.at = "text"
    <3>1. d.size = Len(text) /\ 1 + d.count + Len(up) = SentSoFar
      BY <1>2, <2>1 DEF DoughertyAtSend
    <3>2. 1 + d'.count + Len(up') = SentSoFar
      BY <1>7, <3>1
    <3> QED
      BY <1>1, <1>5, <1>6, <2>1, <3>1, <3>2, InputKept DEF DoughertyAtSend
  <2>2. CASE d.at = "key"
    <3>1. d.size = Len(text) /\ d.taken \in Int /\ 1 + d.taken + d.count + Len(up) = SentSoFar
      BY <1>2, <2>2 DEF DoughertyAtSend
    <3>2. 1 + d.taken + d'.count + Len(up') = SentSoFar
      <4>1. Len(up) \in Int /\ Len(up') \in Int
        BY <1>7
      <4>2. d.taken \in Int /\ d.count \in Int /\ d'.count \in Int
        BY <1>7, <3>1
      <4>3. d'.count + Len(up') = d.count + Len(up)
        BY <1>7
      <4>4. 1 + d.taken + d'.count + Len(up') = 1 + d.taken + d.count + Len(up)
        <5>1. PICK t \in Int, m \in Int, n \in Int, k \in Int, l \in Int :
                 t = d.taken /\ m = d'.count /\ n = Len(up') /\ k = d.count /\ l = Len(up)
          BY <4>1, <4>2
        <5>2. m + n = k + l
          BY <4>3, <5>1
        <5>3. 1 + t + m + n = 1 + t + k + l
          BY <5>2
        <5> QED
          BY <5>1, <5>3
      <4>5. 1 + d.taken + d.count + Len(up) = SentSoFar
        BY <3>1
      <4> QED
        BY <4>4, <4>5, Zenon
    <3> QED
      BY <1>1, <1>5, <1>6, <2>2, <3>1, <3>2, InputKept DEF DoughertyAtSend
  <2> QED
    BY <1>1, <2>1, <2>2
<1> QED
  BY <1>1, <1>2, <1>3, <1>5, <1>7, <1>8, InputKept DEF DoughertyInv

\* The child goes on to the key.
LEMMA DoughertyTextEndsKeeps ==
    ASSUME RecordsOK, InputInv, DoughertyInv, Live, Dougherty!DoughertyTextEnds
    PROVE  DoughertyInv'
<1>1. /\ d.at = "text" /\ UNCHANGED <<input, c, up, down>>
      /\ d' = [d EXCEPT !.at = "key", !.taken = d.count, !.count = 0, !.buffer = Zeros(Chunk)]
  BY DoughertyIs DEF Dougherty!DoughertyTextEnds, Dougherty!input, input
<1>2. /\ up \in Bytes /\ c.size \in Int /\ d.size \in Int /\ d.count \in Int
      /\ c.at \in {"text", "key", "answer"} /\ DoughertyAtSend
      /\ c.size = Len(text) /\ Len(text) =< Len(key)
  BY <1>1 DEF DoughertyInv, Live, DoughertyAtHandshake
<1>3. /\ d'.at = "key" /\ d'.size = d.size /\ d'.taken = d.count /\ d'.count = 0
  BY <1>1 DEF RecordsOK
<1>4. SentSoFar' = SentSoFar
  BY <1>1, SentKept DEF SentSoFar
<1>5. d.size = Len(text) /\ 1 + d.count + Len(up) = SentSoFar
  BY <1>1, <1>2 DEF DoughertyAtSend
<1>6. 1 + d'.taken + d'.count + Len(up) = SentSoFar
  <2>1. Len(up) \in Nat
    BY <1>2, Joined
  <2> QED
    BY <1>2, <1>3, <1>5, <2>1
<1>7. DoughertyAtSend'
  BY <1>1, <1>2, <1>3, <1>4, <1>5, <1>6, InputKept DEF DoughertyAtSend
<1> QED
  BY <1>1, <1>2, <1>3, <1>7, InputKept DEF DoughertyInv

\* The child answers, or crashes.
LEMMA DoughertyServeKeeps ==
    ASSUME RecordsOK, InputInv, DoughertyInv, Live,
           Dougherty!DoughertyServe \/ Dougherty!SuhServe
    PROVE  DoughertyInv'
<1>1. /\ d.at = "key" /\ UNCHANGED <<input, c, up>>
      /\ d' = [d EXCEPT !.at = "exited"] \/ d' = [d EXCEPT !.at = "crashed"]
  BY DEF Dougherty!DoughertyServe, Dougherty!SuhServe, Dougherty!Exits,
         Dougherty!input, input
<1>2. /\ up \in Bytes /\ c.size \in Int /\ d.size \in Int /\ d.count \in Int
      /\ c.at \in {"text", "key", "answer"}
      /\ c.size = Len(text) /\ Len(text) =< Len(key)
  BY <1>1 DEF DoughertyInv, Live, DoughertyAtHandshake
<1>3. d'.at \in {"exited", "crashed"} /\ d'.size = d.size /\ d'.count = d.count
  BY <1>1 DEF RecordsOK
<1>4. DoughertyAtSend'
  BY <1>3 DEF DoughertyAtSend
<1> QED
  BY <1>1, <1>2, <1>3, <1>4, InputKept DEF DoughertyInv

\* Every step of Dougherty's otp keeps what is known of it.
LEMMA DoughertyKeeps ==
    ASSUME RecordsOK, InputInv, DoughertyInv, DoughertyAnyNext
    PROVE  DoughertyInv'
<1>1. CASE ~Live
  <2>1. ~Live' /\ (c' = c \/ c'.at = "killed")
    BY <1>1, DoughertyRecords
  <2>2. c'.at \notin {"auth", "files", "length", "type"}
    BY <2>1 DEF DoughertyInv
  <2> QED
    BY <2>1, <2>2 DEF DoughertyInv, Live
<1>2. CASE Live
  <2>1. CASE Dougherty!ClientNext
    BY <2>1, DoughertyConnectKeeps, DoughertySendLengthKeeps, DoughertySendsKeeps,
       DoughertyAnswerKeeps DEF Dougherty!ClientNext
  <2>2. CASE Dougherty!ReceiveNext
    BY <1>2, <2>2, DoughertyAcceptKeeps, DoughertyHandshakeKeeps, DoughertyLengthKeeps,
       DoughertyTextKeeps, DoughertyTextEndsKeeps DEF Dougherty!ReceiveNext
  <2> QED
    BY <1>2, <2>1, <2>2, DoughertyServeKeeps
    DEF DoughertyAnyNext, Dougherty!DoughertyNext, Dougherty!SuhNext
<1> QED
  BY <1>1, <1>2

-----------------------------------------------------------------------------
(***************************************************************************)
(* The programs together.                                                  *)
(***************************************************************************)

\* The invariant holds at first.
LEMMA InitIInv == MCInit => IInv
<1> SUFFICES ASSUME MCInit PROVE IInv
  OBVIOUS
<1>1. RecordsOK /\ InputInv /\ ProgramInv
  BY DEF MCInit, WireInit, RecordsOK, InputInv, ProgramInv
<1>2. /\ c.at = "start" /\ c.answer = <<>> /\ c.size = 0
      /\ d.at = "accept" /\ d.buffer = <<>> /\ d.message = <<>> /\ d.size = 0 /\ d.count = 0
      /\ up = <<>> /\ down = <<>>
  BY DEF MCInit, WireInit
<1>3. StreamsOK
  BY <1>2, OneByteStreams DEF StreamsOK
<1>4. RicoInv
  BY <1>2 DEF RicoInv
<1>5. Prog4Inv
  BY <1>2 DEF Prog4Inv
<1>6. DoughertyInv
  BY <1>2, <1>3 DEF DoughertyInv, StreamsOK
<1> QED
  BY <1>1, <1>3, <1>4, <1>5, <1>6 DEF IInv, WireInv

\* Every step keeps it.
LEMMA KeepsIInv == IInv /\ [MCNext]_<<vars, program>> => IInv'
<1> SUFFICES ASSUME IInv, [MCNext]_<<vars, program>> PROVE IInv'
  OBVIOUS
<1>0. RecordsOK /\ InputInv /\ ProgramInv
  BY DEF IInv
<1>1. CASE MCNext /\ program = "rico"
  <2>1. Rico!RicoNext /\ program' = program /\ WireInv /\ RicoInv
    BY <1>1 DEF MCNext, IInv
  <2>2. WireInv' /\ RicoInv'
    BY <2>1, RicoKeeps
  <2> QED
    BY <1>0, <1>1, <2>1, <2>2 DEF IInv, WireInv, ProgramInv
<1>2. CASE MCNext /\ program = "prog4"
  <2>1. Prog4!Prog4Next /\ program' = program
    BY <1>2 DEF MCNext
  <2>2. RecordsOK' /\ InputInv' /\ (split => split')
    BY <1>0, <2>1, Prog4Records
  <2>3. ~split' => WireInv' /\ Prog4Inv'
    BY <1>2, <2>1, <2>2, Prog4Keeps DEF IInv
  <2> QED
    BY <1>0, <1>2, <2>1, <2>2, <2>3 DEF IInv, ProgramInv
<1>3. CASE MCNext /\ program \in {"dougherty", "suh"}
  <2>1. DoughertyAnyNext /\ program' = program /\ DoughertyInv
    BY <1>3 DEF MCNext, IInv, DoughertyAnyNext
  <2>2. RecordsOK' /\ InputInv'
    BY <1>0, <2>1, DoughertyRecords
  <2>3. DoughertyInv'
    BY <1>0, <2>1, DoughertyKeeps
  <2> QED
    BY <1>0, <1>3, <2>1, <2>2, <2>3 DEF IInv, ProgramInv
<1>4. CASE UNCHANGED <<vars, program>>
  <2>1. UNCHANGED <<input, c, d, up, down, split, program>>
    BY <1>4 DEF vars
  <2>2. RecordsOK' /\ InputInv' /\ ProgramInv'
    BY <1>0, <2>1, InputKept DEF RecordsOK, ProgramInv
  <2>3. WireInv => WireInv'
    BY <2>1, <2>2 DEF WireInv, Live, StreamsOK
  <2>4. WireInv /\ RicoInv => RicoInv'
    BY <1>0, <2>1, InputKept DEF RicoInv, RicoAtAuth, RicoAtLength
  <2>5. Prog4Inv => Prog4Inv'
    <3>1. Zeros(Len(key))' = Zeros(Len(key)) /\ HasBad(text)' = HasBad(text)
          /\ HasBad(key)' = HasBad(key) /\ TheKey' = TheKey
      BY <1>0, <2>1, InputKept DEF Zeros, Nul, HasBad, Letters, TheKey
    <3> QED
      BY <1>0, <2>1, <3>1, InputKept DEF Prog4Inv, Prog4AtType, Prog4AtAnswer, Prog4Live
  <2>6. DoughertyInv => DoughertyInv'
    BY <1>0, <2>1, InputKept, SentKept
    DEF DoughertyInv, Live, DoughertyAtHandshake, DoughertyAtSend, SentSoFar
  <2> QED
    BY <2>1, <2>2, <2>3, <2>4, <2>5, <2>6 DEF IInv
<1> QED
  BY <1>0, <1>1, <1>2, <1>3, <1>4 DEF ProgramInv, MCNext

\* IInv holds in every state of the programs.
THEOREM Invariance == MCSpec => []IInv
<1>1. MCInit => IInv
  BY InitIInv
<1>2. IInv /\ [MCNext]_<<vars, program>> => IInv'
  BY KeepsIInv
<1> QED
  BY <1>1, <1>2, PTL DEF MCSpec

\* Whatever Rico's client prints has every letter right at which both files have
\* letters, for all files, all values that cToI() may leave and all ways to cut
\* the two strings on their way, as long as there is a text and the key does not
\* begin with a star: a character that is accepted and has no number costs its
\* own place or ends the answer (otp_enc_d.c:156-177, 258-325, otp_enc.c:73-109).
THEOREM RicoPrintsTheAnswer == MCSpec => []RicoAnswerRight
<1>1. IInv => RicoAnswerRight
  BY DEF IInv, RicoInv, RicoAnswerRight, RightFor, Tokens
<1> QED
  BY <1>1, Invariance, PTL

\* What program 4 prints is right for all files as long as each recv() returns
\* all it asked for (otp_enc_d.c:111-134, otp_enc.c:168).
THEOREM Prog4PrintsTheAnswer == MCSpec => []Prog4WrongOnlyIfSplit
<1>1. IInv => Prog4WrongOnlyIfSplit
  BY DEF IInv, Prog4Inv, Prog4WrongOnlyIfSplit
<1> QED
  BY <1>1, Invariance, PTL

\* Dougherty's and Suh's client and child never wait for each other unless the
\* loop that receives the text has taken bytes of the key: all bytes that the
\* client sends are somewhere, and each file is sent as more bytes than are
\* counted (otp_enc_d.c:104-124).
THEOREM NoWaitWithoutOverread == MCSpec => []WaitOnlyAfterOverread
<1>1. IInv => WaitOnlyAfterOverread
  <2> SUFFICES ASSUME IInv, program \in {"dougherty", "suh"}, c.at = "answer",
                      down = <<>>, d.at \in {"text", "key"}, d.count < d.size, up = <<>>
               PROVE  d.taken > 1 + SentText
    BY DEF WaitOnlyAfterOverread, SentText
  <2>1. DoughertyAtSend /\ Len(text) =< Len(key) /\ InputInv /\ d.count \in Int
    BY DEF IInv, DoughertyInv, Live
  <2>2. /\ SentText \in Nat /\ SentText > Len(text) /\ SentKey \in Nat
        /\ SentKey > Len(text) /\ Len(text) \in Nat
    BY <2>1, Sent
  <2>3. SentSoFar = 2 + SentText + SentKey /\ Len(up) = 0
    BY OneByteStreams DEF SentSoFar
  <2>4. CASE d.at = "text"
    <3>1. d.size = Len(text) /\ 1 + d.count + 0 = 2 + SentText + SentKey
      BY <2>1, <2>3, <2>4 DEF DoughertyAtSend
    <3> QED
      BY <2>1, <2>2, <3>1
  <2>5. CASE d.at = "key"
    <3>1. d.size = Len(text) /\ d.taken \in Int
          /\ 1 + d.taken + d.count + 0 = 2 + SentText + SentKey
      BY <2>1, <2>3, <2>5 DEF DoughertyAtSend
    <3> QED
      BY <2>1, <2>2, <3>1
  <2> QED
    BY <2>4, <2>5
<1> QED
  BY <1>1, Invariance, PTL
=============================================================================
