-------------------------- MODULE OtpDaemonProofs --------------------------
(***************************************************************************)
(* The safety of the two daemons and their clients, for any number of      *)
(* processes, clients and killed clients.  Of the processes that hold a    *)
(* connection one reads from it, so that what this one has read and what   *)
(* the client has sent tell what is under way between them.                *)
(***************************************************************************)
EXTENDS OtpDaemon, FiniteSetTheorems, SequenceTheorems, TLAPS

Readers == {"type", "fork", "text", "key", "reply"}
Crashed == {"fin", "rst"}

\* Which processes have a connection, and how much of a request.
DaemonInv ==
    \A d \in Procs :
        /\ conn[d] = None <=> pc[d] \in {"none", "accept", "dead"}
        /\ pc[d] \notin {"key", "reply", "spin", "dead"} => got[d] = <<>>

TypeInv == TypeOK /\ DaemonInv

\* A connection waits in the accept queue, once, or is held by processes of
\* which all but one are about to close it.
HolderInv ==
    \A d, e \in Procs :
        conn[d] = conn[e] /\ conn[d] # None /\ pc[d] # "close" /\ pc[e] # "close"
          => d = e

QueueInv ==
    /\ \A i, j \in DOMAIN backlog : backlog[i] = backlog[j] => i = j
    /\ \A i \in DOMAIN backlog : \A d \in Procs : conn[d] # backlog[i]

NewInv ==
    \A c \in Clients : client[c] = "new" =>
        /\ \A d \in Procs : conn[d] # c
        /\ \A i \in DOMAIN backlog : backlog[i] # c

ReaderInv == HolderInv /\ QueueInv /\ NewInv

Message(c, data) == [data |-> data, of |-> c]
Permission(c)    == [can_connect |-> program[c] = Partner]
Answer(c)        == [answer_to |-> <<Message(c, "text"), Message(c, "key")>>]

\* What a client has been sent and not yet read.
AnsweredOK(c) ==
    /\ client[c] \in {"new", "type"} => down[c] = <<>>
    /\ client[c] = "permission" => down[c] \in {<<>>, <<Permission(c)>>}
    /\ client[c] \in {"text", "key"} => program[c] = Partner /\ down[c] = <<>>
    /\ client[c] = "reply" =>
          program[c] = Partner /\ down[c] \in {<<>>, <<Answer(c)>>}
    /\ client[c] = "done" => program[c] = Partner /\ down[c] = <<Answer(c)>>

\* Nothing has been read of what c sends.
Unserved(c) ==
    /\ client[c] \in {"type", "permission"} \cup Crashed
    /\ client[c] = "type" => up[c] = <<>> /\ down[c] = <<>>
    /\ client[c] = "permission" =>
          up[c] = <<Message(c, program[c])>> /\ down[c] = <<>>

\* Its type has been read, and its permission written.
Permitted(c) ==
    /\ client[c] \in {"permission", "text", "key", "reply"} \cup Crashed
    /\ client[c] = "permission" =>
          up[c] = <<>> /\ program[c] = Partner /\ down[c] = <<Permission(c)>>
    /\ client[c] = "text" => up[c] = <<>> /\ down[c] = <<>>
    /\ client[c] = "key" => up[c] = <<Message(c, "text")>> /\ down[c] = <<>>
    /\ client[c] = "reply" =>
          up[c] = <<Message(c, "text"), Message(c, "key")>> /\ down[c] = <<>>

\* Its text has been read, by d.
HalfRead(d, c) ==
    /\ client[c] \in {"key", "reply"} \cup Crashed
    /\ client[c] = "key" =>
          up[c] = <<>> /\ got[d] = <<Message(c, "text")>> /\ down[c] = <<>>
    /\ client[c] = "reply" =>
          up[c] = <<Message(c, "key")>> /\ got[d] = <<Message(c, "text")>>
            /\ down[c] = <<>>

\* All of its request has been read, by d.
AllRead(d, c) ==
    /\ client[c] \in {"reply"} \cup Crashed
    /\ client[c] = "reply" =>
          /\ up[c] = <<>> /\ down[c] = <<>>
          /\ got[d] = <<Message(c, "text"), Message(c, "key")>>

ServedOK(d, c) ==
    conn[d] = c =>
        /\ pc[d] = "type" => Unserved(c)
        /\ pc[d] \in {"fork", "text"} => Permitted(c)
        /\ pc[d] = "key" => HalfRead(d, c)
        /\ pc[d] = "reply" => AllRead(d, c)

Stream(c) ==
    /\ AnsweredOK(c)
    /\ client[c] = "new" => up[c] = <<>>
    /\ \A i \in DOMAIN backlog : backlog[i] = c => Unserved(c)
    /\ \A d \in Procs : ServedOK(d, c)

StreamInv == \A c \in Clients : Stream(c)

IInv == TypeInv /\ ReaderInv /\ StreamInv

\* The processes lost, and the killed clients that may yet cost one.
Lost    == {d \in Procs : pc[d] \in {"spin", "dead"}}
Harmful == {c \in Clients :
              /\ client[c] \in Crashed
              /\ \/ \E i \in DOMAIN backlog : backlog[i] = c
                 \/ \E d \in Procs : conn[d] = c /\ pc[d] \in Readers}

LossInv ==
    /\ IsFiniteSet(Lost) /\ IsFiniteSet(Harmful)
    /\ Cardinality(Lost) + Cardinality(Harmful) =< crashes

-----------------------------------------------------------------------------
(* Types. *)

\* What may be done to a request, or to an answer, keeps it one.
LEMMA RequestStays ==
    /\ <<>> \in Requests
    /\ \A s \in Requests, m \in Messages : Append(s, m) \in Requests
    /\ \A s \in Requests : s # <<>> => Head(s) \in Messages /\ Tail(s) \in Requests
BY DEF Requests

\* Taking from a queue of answers and adding to it leaves one.
LEMMA AnswerStays ==
    /\ <<>> \in Answers
    /\ \A s \in Answers : s # <<>> => Tail(s) \in Answers
    /\ \A s \in Answers, b \in BOOLEAN : Append(s, [can_connect |-> b]) \in Answers
    /\ \A s \in Answers, r \in Requests : Append(s, [answer_to |-> r]) \in Answers
<1> DEFINE A == [can_connect : BOOLEAN] \cup [answer_to : Requests]
<1>1. /\ \A b \in BOOLEAN : [can_connect |-> b] \in A
      /\ \A r \in Requests : [answer_to |-> r] \in A
  OBVIOUS
<1>2. Answers = Seq(A)
  BY DEF Answers
<1> HIDE DEF A
<1> QED
  BY <1>1, <1>2

\* The daemon starts alone.
LEMMA InitTypes == Init => TypeInv
<1>1. Init => <<>> \in Seq(Clients)
  OBVIOUS
<1> QED
  BY <1>1, RootAssumption, NoneAssumption, LimitsAssumption, RequestStays, AnswerStays
  DEF Init, TypeInv, TypeOK, ProcsOK, ClientsOK, DataOK, DaemonInv

\* A process between accept() and close() has a client.
LEMMA Connected ==
    ASSUME TypeInv, NEW d \in Procs, pc[d] \notin {"none", "accept", "dead"}
    PROVE  /\ conn[d] \in Clients
           /\ up[conn[d]] \in Requests /\ down[conn[d]] \in Answers
<1>1. conn[d] # None /\ conn[d] \in Clients \cup {None}
  BY DEF TypeInv, TypeOK, ProcsOK, DaemonInv
<1> QED
  BY <1>1 DEF TypeInv, TypeOK, DataOK

\* No step of a process, of a client or of the user breaks a type.
LEMMA StepTypes == TypeInv /\ [Next]_vars => TypeInv'
<1> SUFFICES ASSUME TypeInv, [Next]_vars PROVE TypeInv'
  OBVIOUS
<1> USE NoneAssumption, LimitsAssumption, RequestStays, AnswerStays
    DEF TypeInv, TypeOK, ProcsOK, ClientsOK, DataOK, DaemonInv, procVars, world
<1>1. ASSUME NEW d \in Procs, Accept(d) PROVE TypeInv'
  <2>1. Head(backlog) \in Clients /\ Tail(backlog) \in Seq(Clients)
    BY <1>1 DEF Accept
  <2> QED
    BY <1>1, <2>1 DEF Accept
<1>2. ASSUME NEW d \in Procs, Permit(d) PROVE TypeInv'
  <2>1. conn[d] \in Clients
    BY <1>2, Connected DEF Permit
  <2> DEFINE a == MayConnect(Head(up[conn[d]]).data)
  <2>2. a \in BOOLEAN
    BY DEF MayConnect
  <2>3. /\ up' = [up EXCEPT ![conn[d]] = Tail(up[conn[d]])] /\ up[conn[d]] # <<>>
        /\ down' = [down EXCEPT ![conn[d]] = Append(down[conn[d]], [can_connect |-> a])]
        /\ UNCHANGED <<got, num_children, parent, sigchld, backlog, client, world>>
    BY <1>2 DEF Permit
  <2>4. \/ pc' = [pc EXCEPT ![d] = "fork"] /\ conn' = conn
        \/ pc' = [pc EXCEPT ![d] = "accept"] /\ conn' = [conn EXCEPT ![d] = None]
    BY <1>2 DEF Permit, CloseAndAccept
  <2>5. pc[d] = "type"
    BY <1>2 DEF Permit
  <2> HIDE DEF a
  <2>6. DataOK'
    BY <2>1, <2>2, <2>3
  <2>7. ProcsOK' /\ ClientsOK'
    <3>1. ClientsOK' /\ num_children' = num_children /\ parent' = parent /\ sigchld' = sigchld
      BY <2>3
    <3> QED
      BY <3>1, <2>4
  <2>8. DaemonInv'
    BY <2>3, <2>4, <2>5, <2>1
  <2> QED
    BY <2>6, <2>7, <2>8
<1>3. ASSUME NEW d \in Procs, Refuse(d) PROVE TypeInv'
  BY <1>3 DEF Refuse, CloseAndAccept
<1>4. ASSUME NEW d \in Procs, Fork(d) PROVE TypeInv'
  <2>1. PICK e \in NextFree :
           /\ pc' = [pc EXCEPT ![d] = "close", ![e] = "text"]
           /\ conn' = [conn EXCEPT ![e] = conn[d]]
           /\ num_children' = [num_children EXCEPT ![e] = num_children[d] + 1]
           /\ parent' = [parent EXCEPT ![e] = d]
    BY <1>4 DEF Fork
  <2>2. e \in Procs /\ pc[e] = "none"
    BY <2>1 DEF NextFree, Free
  <2>3. /\ pc[d] = "fork" /\ num_children[d] # MAX_CHILDREN
        /\ UNCHANGED <<got, sigchld, backlog, client, up, down, world>>
    BY <1>4 DEF Fork
  <2>4. conn[d] \in Clients
    BY <2>3, Connected
  <2>5. num_children[d] + 1 \in Int /\ num_children[d] + 1 =< MAX_CHILDREN
    BY <2>3
  <2>6. ProcsOK'
    BY <2>1, <2>2, <2>3, <2>4, <2>5
  <2>7. DaemonInv'
    BY <2>1, <2>2, <2>3, <2>4
  <2> QED
    BY <2>3, <2>6, <2>7
<1>5. ASSUME NEW d \in Procs, ParentClose(d) PROVE TypeInv'
  BY <1>5 DEF ParentClose, CloseAndAccept
<1>6. ASSUME NEW d \in Procs, ReadText(d) PROVE TypeInv'
  <2>1. conn[d] \in Clients
    BY <1>6, Connected DEF ReadText
  <2> QED
    BY <1>6, <2>1 DEF ReadText
<1>7. ASSUME NEW d \in Procs, Reply(d) PROVE TypeInv'
  <2>1. conn[d] \in Clients
    BY <1>7, Connected DEF Reply
  <2> QED
    BY <1>7, <2>1 DEF Reply, CloseAndAccept
<1>8. ASSUME NEW d \in Procs, ReplyToNobody(d) PROVE TypeInv'
  <2>1. /\ got' = [got EXCEPT ![d] = <<>>] /\ conn' = [conn EXCEPT ![d] = None]
        /\ UNCHANGED <<num_children, parent, backlog, client, up, down, world>>
        /\ \E where \in {"accept", "dead"} : pc' = [pc EXCEPT ![d] = where]
        /\ sigchld' \in SUBSET Procs
    BY <1>8 DEF ReplyToNobody, CloseAndAccept, Dies
  <2>2. ProcsOK' /\ ClientsOK' /\ DataOK'
    BY <2>1
  <2>3. DaemonInv'
    BY <2>1
  <2> QED
    BY <2>2, <2>3
<1>9. ASSUME NEW d \in Procs, ReadFromNobody(d) PROVE TypeInv'
  <2>1. /\ pc[d] \in {"type", "text", "key"}
        /\ UNCHANGED <<got, num_children, parent, backlog, client, up, down, world>>
    BY <1>9 DEF ReadFromNobody
  <2>2. \/ /\ pc' = [pc EXCEPT ![d] = "dead"] /\ conn' = [conn EXCEPT ![d] = None]
           /\ sigchld' \in SUBSET Procs
        \/ pc' = [pc EXCEPT ![d] = "spin"] /\ UNCHANGED <<conn, sigchld>>
    BY <1>9 DEF ReadFromNobody, Dies
  <2>3. ProcsOK' /\ ClientsOK' /\ DataOK'
    BY <2>1, <2>2
  <2>4. DaemonInv'
    BY <2>1, <2>2
  <2> QED
    BY <2>3, <2>4
<1>10. ASSUME NEW d \in Procs, CatchSIGCHLD(d) PROVE TypeInv'
  BY <1>10 DEF CatchSIGCHLD
<1>11. ASSUME NEW c \in Clients, Connect(c) PROVE TypeInv'
  <2>1. Append(backlog, c) \in Seq(Clients)
    OBVIOUS
  <2> QED
    BY <1>11, <2>1 DEF Connect
<1>12. ASSUME NEW c \in Clients, SendType(c) \/ SendText(c) \/ SendKey(c) PROVE TypeInv'
  <2>1. ASSUME NEW from, NEW to \in {"permission", "key", "reply"},
               NEW data \in {"otp_enc", "otp_dec", "text", "key"},
               Sends(c, from, data, to)
        PROVE  TypeInv'
    <3>1. [data |-> data, of |-> c] \in Messages
      BY DEF Messages
    <3> QED
      BY <2>1, <3>1 DEF Sends
  <2>2. program[c] \in {"otp_enc", "otp_dec", "text", "key"}
    OBVIOUS
  <2> QED
    BY <1>12, <2>1, <2>2 DEF SendType, SendText, SendKey
<1>13. ASSUME NEW c \in Clients, ReadPermission(c) PROVE TypeInv'
  BY <1>13 DEF ReadPermission
<1>14. ASSUME NEW c \in Clients, ReadReply(c) PROVE TypeInv'
  BY <1>14 DEF ReadReply
<1>15. ASSUME NEW c \in Clients, Dropped(c) PROVE TypeInv'
  BY <1>15 DEF Dropped
<1>16. ASSUME NEW c \in Clients, Crash(c) PROVE TypeInv'
  BY <1>16 DEF Crash
<1>17. ASSUME UNCHANGED vars PROVE TypeInv'
  BY <1>17 DEF vars
<1> QED
  BY <1>1, <1>2, <1>3, <1>4, <1>5, <1>6, <1>7, <1>8, <1>9, <1>10, <1>11, <1>12,
     <1>13, <1>14, <1>15, <1>16, <1>17
  DEF Next, ProcStep, ClientStep, Idle, Starved

\* Every variable has its type, and no copy of num_children exceeds
\* MAX_CHILDREN (otp_enc_d.c:150), in every run of any size.
THEOREM TypeCorrect == Spec => []TypeOK
<1>1. TypeInv => TypeOK
  BY DEF TypeInv
<1> QED
  BY InitTypes, StepTypes, <1>1, PTL DEF Spec
-----------------------------------------------------------------------------
(* One reader. *)

\* The queue without its head, and with one more at its end.
LEMMA TailOfQueue ==
    ASSUME NEW S, NEW q \in Seq(S), q # <<>>
    PROVE  /\ 1 \in DOMAIN q /\ Head(q) = q[1]
           /\ \A i \in DOMAIN Tail(q) :
                  i + 1 \in DOMAIN q /\ i + 1 # 1 /\ Tail(q)[i] = q[i + 1]
           /\ \A i, j \in DOMAIN Tail(q) : i + 1 = j + 1 => i = j
OBVIOUS

\* What is in a queue after x has been added.
LEMMA AppendToQueue ==
    ASSUME NEW S, NEW q \in Seq(S), NEW x
    PROVE  \A i \in DOMAIN Append(q, x) :
              \/ i \in DOMAIN q /\ Append(q, x)[i] = q[i]
              \/ i = Len(q) + 1 /\ Append(q, x)[i] = x
OBVIOUS

\* Nobody reads from a connection at first.
LEMMA InitReaders == Init => ReaderInv
<1>1. Init => DOMAIN backlog = {} /\ \A d \in Procs : conn[d] = None
  BY DEF Init
<1> QED
  BY <1>1, NoneAssumption DEF ReaderInv, HolderInv, QueueInv, NewInv

\* accept() takes a connection that nobody holds, fork() leaves it to the child,
\* and close() gives it up.
LEMMA StepReaders == TypeInv /\ ReaderInv /\ [Next]_vars => ReaderInv'
<1> SUFFICES ASSUME TypeInv, ReaderInv, [Next]_vars PROVE ReaderInv'
  OBVIOUS
<1> USE NoneAssumption DEF ReaderInv, HolderInv, QueueInv, NewInv
<1>t. /\ DOMAIN pc = Procs /\ conn \in [Procs -> Clients \cup {None}]
      /\ DOMAIN client = Clients /\ backlog \in Seq(Clients)
      /\ \A d \in Procs : conn[d] = None <=> pc[d] \in {"none", "accept", "dead"}
  <2>1. DOMAIN pc = Procs /\ DOMAIN client = Clients
    BY DEF TypeInv, TypeOK, ProcsOK, ClientsOK
  <2>2. conn \in [Procs -> Clients \cup {None}] /\ backlog \in Seq(Clients)
    BY DEF TypeInv, TypeOK, ProcsOK, DataOK
  <2>3. \A d \in Procs : conn[d] = None <=> pc[d] \in {"none", "accept", "dead"}
    BY DEF TypeInv, DaemonInv
  <2> QED
    BY <2>1, <2>2, <2>3
\* A process goes on with its connection, if it was not about to close it.
<1>g. ASSUME NEW d \in Procs, NEW where, pc[d] # "close",
             pc' = [pc EXCEPT ![d] = where], UNCHANGED <<conn, backlog, client>>
      PROVE  ReaderInv'
  BY <1>g, <1>t
\* A process gives up its connection.
<1>c. ASSUME NEW d \in Procs, NEW where,
             pc' = [pc EXCEPT ![d] = where], conn' = [conn EXCEPT ![d] = None],
             UNCHANGED <<backlog, client>>
      PROVE  ReaderInv'
  BY <1>c, <1>t
\* A client goes on with its connection.
<1>k. ASSUME NEW c \in Clients, NEW where, where # "new",
             client' = [client EXCEPT ![c] = where], UNCHANGED <<pc, conn, backlog>>
      PROVE  ReaderInv'
  BY <1>k, <1>t
<1>1. ASSUME NEW d \in Procs, Accept(d) PROVE ReaderInv'
  <2>1. /\ pc[d] = "accept" /\ backlog # <<>> /\ client' = client
        /\ pc' = [pc EXCEPT ![d] = "type"]
        /\ conn' = [conn EXCEPT ![d] = Head(backlog)]
        /\ backlog' = Tail(backlog)
    BY <1>1 DEF Accept
  <2>2. /\ 1 \in DOMAIN backlog /\ Head(backlog) = backlog[1]
        /\ \A i \in DOMAIN backlog' :
               i + 1 \in DOMAIN backlog /\ i + 1 # 1 /\ backlog'[i] = backlog[i + 1]
        /\ \A i, j \in DOMAIN backlog' : i + 1 = j + 1 => i = j
    BY <1>t, <2>1, TailOfQueue
  <2>3. HolderInv'
    BY <1>t, <2>1, <2>2
  <2>4. QueueInv'
    BY <1>t, <2>1, <2>2
  <2>5. NewInv'
    BY <1>t, <2>1, <2>2
  <2> QED
    BY <2>3, <2>4, <2>5
<1>2. ASSUME NEW d \in Procs, Permit(d) PROVE ReaderInv'
  BY <1>2, <1>g, <1>c DEF Permit, CloseAndAccept
<1>3. ASSUME NEW d \in Procs, Refuse(d) \/ ParentClose(d) \/ Reply(d) PROVE ReaderInv'
  BY <1>3, <1>c DEF Refuse, ParentClose, Reply, CloseAndAccept
<1>4. ASSUME NEW d \in Procs, Fork(d) PROVE ReaderInv'
  <2>1. PICK e \in NextFree :
           /\ pc' = [pc EXCEPT ![d] = "close", ![e] = "text"]
           /\ conn' = [conn EXCEPT ![e] = conn[d]]
    BY <1>4 DEF Fork
  <2>2. e \in Procs /\ pc[e] = "none"
    BY <2>1 DEF NextFree, Free
  <2>3. pc[d] = "fork" /\ UNCHANGED <<backlog, client>>
    BY <1>4 DEF Fork
  <2>4. HolderInv'
    BY <1>t, <2>1, <2>2, <2>3
  <2>5. QueueInv' /\ NewInv'
    BY <1>t, <2>1, <2>2, <2>3
  <2> QED
    BY <2>4, <2>5
<1>6. ASSUME NEW d \in Procs, ReadText(d) PROVE ReaderInv'
  BY <1>6, <1>g DEF ReadText
<1>8. ASSUME NEW d \in Procs, ReplyToNobody(d) PROVE ReaderInv'
  BY <1>8, <1>c DEF ReplyToNobody, CloseAndAccept, Dies
<1>9. ASSUME NEW d \in Procs, ReadFromNobody(d) PROVE ReaderInv'
  BY <1>9, <1>g, <1>c DEF ReadFromNobody, Dies
<1>10. ASSUME NEW d \in Procs, CatchSIGCHLD(d) PROVE ReaderInv'
  BY <1>10 DEF CatchSIGCHLD
<1>11. ASSUME NEW c \in Clients, Connect(c) PROVE ReaderInv'
  <2>1. /\ client[c] = "new" /\ client' = [client EXCEPT ![c] = "type"]
        /\ backlog' = Append(backlog, c) /\ UNCHANGED <<pc, conn>>
    BY <1>11 DEF Connect, procVars
  <2>2. \A i \in DOMAIN backlog' :
           \/ i \in DOMAIN backlog /\ backlog'[i] = backlog[i]
           \/ i = Len(backlog) + 1 /\ backlog'[i] = c
    BY <1>t, <2>1, AppendToQueue
  <2>3. HolderInv'
    BY <2>1
  <2>4. QueueInv'
    BY <1>t, <2>1, <2>2
  <2>5. NewInv'
    BY <1>t, <2>1, <2>2
  <2> QED
    BY <2>3, <2>4, <2>5
<1>12. ASSUME NEW c \in Clients, SendType(c) \/ SendText(c) \/ SendKey(c) PROVE ReaderInv'
  BY <1>12, <1>k DEF SendType, SendText, SendKey, Sends, procVars
<1>13. ASSUME NEW c \in Clients, ReadPermission(c) PROVE ReaderInv'
  BY <1>13, <1>k DEF ReadPermission, procVars
<1>14. ASSUME NEW c \in Clients, ReadReply(c) PROVE ReaderInv'
  BY <1>14, <1>k DEF ReadReply, procVars
<1>15. ASSUME NEW c \in Clients, Dropped(c) PROVE ReaderInv'
  BY <1>15, <1>k DEF Dropped, procVars
<1>16. ASSUME NEW c \in Clients, Crash(c) PROVE ReaderInv'
  BY <1>16, <1>k DEF Crash, procVars
<1>17. ASSUME UNCHANGED vars PROVE ReaderInv'
  BY <1>17 DEF vars, procVars
<1> QED
  BY <1>1, <1>2, <1>3, <1>4, <1>6, <1>8, <1>9, <1>10, <1>11, <1>12,
     <1>13, <1>14, <1>15, <1>16, <1>17
  DEF Next, ProcStep, ClientStep, Idle, Starved

\* A set whose members are all equal has one member at most.
LEMMA AtMostOne ==
    ASSUME NEW S, \A x, y \in S : x = y
    PROVE  Cardinality(S) =< 1
<1>1. CASE S = {}
  BY <1>1, FS_EmptySet
<1>2. CASE S # {}
  <2>1. PICK x : x \in S
    BY <1>2
  <2>2. S = {x}
    BY <2>1
  <2> QED
    BY <2>2, FS_Singleton
<1> QED
  BY <1>1, <1>2

\* Of the processes that hold a connection open (otp_enc_d.c:126, :157), never
\* two read from it.
THEOREM OneReaderOnly == Spec => []OneReader
<1>1. TypeInv /\ ReaderInv => OneReader
  <2> SUFFICES ASSUME TypeInv, ReaderInv, NEW c \in Clients
               PROVE  Cardinality({d \in Holders(c) : pc[d] # "close"}) =< 1
    BY DEF OneReader
  <2> DEFINE H == {d \in Holders(c) : pc[d] # "close"}
  <2>1. \A d, e \in H : d = e
    BY NoneAssumption DEF Holders, ReaderInv, HolderInv
  <2> HIDE DEF H
  <2>2. Cardinality(H) =< 1
    BY <2>1, AtMostOne
  <2> QED
    BY <2>2 DEF H
<1> QED
  BY InitTypes, StepTypes, InitReaders, StepReaders, <1>1, PTL DEF Spec
-----------------------------------------------------------------------------
(* What is under way. *)

\* No request and no answer is longer than two messages.
LEMMA ShortQueues ==
    /\ \A a : <<a>> # <<>> /\ Head(<<a>>) = a /\ Tail(<<a>>) = <<>>
    /\ \A a, b : <<a, b>> # <<>> /\ Head(<<a, b>>) = a /\ Tail(<<a, b>>) = <<b>>
    /\ \A a : Append(<<>>, a) = <<a>>
    /\ \A a, b : Append(<<a>>, b) = <<a, b>>
<1>1. \A a : <<a>> # <<>> /\ Head(<<a>>) = a /\ Tail(<<a>>) = <<>>
  OBVIOUS
<1>2. \A a, b : <<a, b>> # <<>> /\ Head(<<a, b>>) = a /\ Tail(<<a, b>>) = <<b>>
  OBVIOUS
<1>3. \A a : Append(<<>>, a) = <<a>>
  OBVIOUS
<1>4. ASSUME NEW a, NEW b PROVE Append(<<a>>, b) = <<a, b>>
  <2>0. PICK S : a \in S /\ b \in S
    <3>1. a \in {a, b} /\ b \in {a, b}
      OBVIOUS
    <3> QED
      BY <3>1
  <2>1. PICK q \in Seq(S) : q = <<a>>
    <3>1. <<a>> \in Seq(S)
      BY <2>0
    <3> QED
      BY <3>1
  <2>2. PICK r \in Seq(S) : r = <<a, b>>
    <3>1. <<a, b>> \in Seq(S)
      BY <2>0
    <3> QED
      BY <3>1
  <2>3. Len(q) = 1 /\ q[1] = a /\ Len(r) = 2 /\ r[1] = a /\ r[2] = b /\ b \in S
    BY <2>0, <2>1, <2>2
  <2>4. /\ Append(q, b) \in Seq(S) /\ Len(Append(q, b)) = 2
        /\ Append(q, b)[1] = a /\ Append(q, b)[2] = b
    <3>1. /\ Append(q, b) \in Seq(S) /\ Len(Append(q, b)) = Len(q) + 1
          /\ \A i \in 1 .. Len(q) : Append(q, b)[i] = q[i]
          /\ Append(q, b)[Len(q) + 1] = b
      BY <2>0, AppendProperties
    <3> QED
      BY <3>1, <2>3
  <2>5. \A i \in 1 .. Len(r) : Append(q, b)[i] = r[i]
    BY <2>3, <2>4
  <2>6. Append(q, b) = r
    BY <2>3, <2>4, <2>5, SeqEqual
  <2> QED
    BY <2>1, <2>2, <2>6
<1> QED
  BY <1>1, <1>2, <1>3, <1>4

\* Nothing has been sent at first.
LEMMA InitStreams == Init => StreamInv
<1> SUFFICES ASSUME Init, NEW c \in Clients PROVE Stream(c)
  BY DEF StreamInv
<1>1. /\ client[c] = "new" /\ up[c] = <<>> /\ down[c] = <<>>
      /\ DOMAIN backlog = {} /\ \A d \in Procs : conn[d] # c
  BY NoneAssumption DEF Init
<1> QED
  BY <1>1 DEF Stream, AnsweredOK, ServedOK

\* A step leaves alone what is under way between the daemon and a client whose
\* connection it does not use.
LEMMA OtherStream ==
    ASSUME NEW c \in Clients, Stream(c),
           client'[c] = client[c], up'[c] = up[c], down'[c] = down[c],
           program' = program, Partner' = Partner,
           \A i \in DOMAIN backlog' :
              backlog'[i] = c => \E j \in DOMAIN backlog : backlog[j] = c,
           \A d \in Procs : conn'[d] = c =>
              /\ conn[d] = c /\ got'[d] = got[d]
              /\ pc'[d] \in {pc[d], "close", "spin"}
    PROVE  Stream(c)'
<1>1. AnsweredOK(c)' /\ (client[c] = "new" => up[c] = <<>>)'
  BY DEF Stream, AnsweredOK, Permission, Answer, Message
<1>2. (\A i \in DOMAIN backlog : backlog[i] = c => Unserved(c))'
  BY DEF Stream, Unserved, Message
<1>3. ASSUME NEW d \in Procs PROVE ServedOK(d, c)'
  BY <1>3 DEF Stream, ServedOK, Unserved, Permitted, HalfRead, AllRead,
              Message, Permission
<1> QED
  BY <1>1, <1>2, <1>3 DEF Stream

\* A process that uses a connection is alone with its client.
LEMMA Alone ==
    ASSUME TypeInv, ReaderInv, NEW d \in Procs,
           pc[d] \notin {"none", "accept", "dead", "close"}
    PROVE  /\ conn[d] \in Clients /\ client[conn[d]] # "new"
           /\ \A i \in DOMAIN backlog : backlog[i] # conn[d]
           /\ \A e \in Procs : e # d /\ conn[e] = conn[d] => pc[e] = "close"
<1>1. conn[d] \in Clients /\ conn[d] # None
  BY Connected, NoneAssumption
<1> QED
  BY <1>1 DEF ReaderInv, HolderInv, QueueInv, NewInv

\* The processes move a request and its answer on as the protocol has it.
LEMMA ProcStreams ==
    ASSUME TypeInv, ReaderInv, StreamInv,
           NEW d \in Procs, ProcStep(d) \/ CatchSIGCHLD(d)
    PROVE  StreamInv'
<1>t. /\ DOMAIN pc = Procs /\ DOMAIN conn = Procs /\ DOMAIN got = Procs
      /\ DOMAIN up = Clients /\ DOMAIN down = Clients /\ None \notin Clients
  BY NoneAssumption DEF TypeInv, TypeOK, ProcsOK, DataOK
<1>s. \A c \in Clients : Stream(c)
  BY DEF StreamInv
<1>q. backlog \in Seq(Clients)
  BY DEF TypeInv, TypeOK, DataOK
\* A step that touches no queue, and gives up a connection or keeps it.
<1>c. ASSUME UNCHANGED <<backlog, client, up, down, world>>,
             \A e \in Procs \ {d} :
                pc'[e] = pc[e] /\ conn'[e] = conn[e] /\ got'[e] = got[e],
             \/ conn'[d] = None
             \/ conn'[d] = conn[d] /\ got'[d] = got[d] /\ pc'[d] \in {pc[d], "spin"}
      PROVE  StreamInv'
  <2>1. ASSUME NEW c \in Clients PROVE Stream(c)'
    <3>1. \A e \in Procs : conn'[e] = c =>
             conn[e] = c /\ got'[e] = got[e] /\ pc'[e] \in {pc[e], "close", "spin"}
      BY <1>c, <1>t
    <3> QED
      BY <3>1, <1>s, <1>c, OtherStream DEF world, Partner
  <2> QED
    BY <2>1 DEF StreamInv
<1>1. ASSUME Accept(d) PROVE StreamInv'
  <2>1. /\ pc[d] = "accept" /\ backlog # <<>>
        /\ UNCHANGED <<got, client, up, down, world>>
        /\ pc' = [pc EXCEPT ![d] = "type"]
        /\ conn' = [conn EXCEPT ![d] = Head(backlog)]
        /\ backlog' = Tail(backlog)
    BY <1>1 DEF Accept
  <2>2. /\ 1 \in DOMAIN backlog /\ Head(backlog) = backlog[1]
        /\ \A i \in DOMAIN backlog' :
               i + 1 \in DOMAIN backlog /\ i + 1 # 1 /\ backlog'[i] = backlog[i + 1]
    BY <1>q, <2>1, TailOfQueue
  <2>3. /\ \A i \in DOMAIN backlog' : backlog'[i] # backlog[1]
        /\ \A e \in Procs : conn[e] # backlog[1]
    BY <2>2 DEF ReaderInv, QueueInv
  <2>4. ASSUME NEW c \in Clients, c # backlog[1] PROVE Stream(c)'
    <3>1. \A e \in Procs : conn'[e] = c =>
             conn[e] = c /\ got'[e] = got[e] /\ pc'[e] \in {pc[e], "close", "spin"}
      BY <2>1, <2>2, <2>4, <1>t
    <3>2. \A i \in DOMAIN backlog' :
              backlog'[i] = c => \E j \in DOMAIN backlog : backlog[j] = c
      BY <2>2
    <3> QED
      BY <3>1, <3>2, <1>s, <2>1, OtherStream DEF world, Partner
  <2>5. ASSUME NEW c \in Clients, c = backlog[1] PROVE Stream(c)'
    <3>1. Stream(c) /\ Unserved(c)
      BY <1>s, <2>2, <2>5 DEF Stream
    <3>2. /\ program' = program /\ Partner' = Partner
          /\ client' = client /\ up' = up /\ down' = down
          /\ AnsweredOK(c) /\ (client[c] = "new" => up[c] = <<>>)
      BY <2>1, <3>1 DEF world, Partner, Stream
    <3>3. Unserved(c)' /\ AnsweredOK(c)' /\ (client[c] = "new" => up[c] = <<>>)'
      BY <3>1, <3>2 DEF Unserved, AnsweredOK, Message, Permission, Answer
    <3>4. \A e \in Procs : conn'[e] = c => pc'[e] = "type"
      BY <2>1, <2>3, <2>5, <1>t
    <3> QED
      BY <3>3, <3>4 DEF Stream, ServedOK
  <2> QED
    BY <2>4, <2>5 DEF StreamInv
<1>2. ASSUME Refuse(d) \/ ParentClose(d) PROVE StreamInv'
  BY <1>2, <1>c, <1>t DEF Refuse, ParentClose, CloseAndAccept
<1>3. ASSUME ReplyToNobody(d) PROVE StreamInv'
  BY <1>3, <1>c, <1>t DEF ReplyToNobody, CloseAndAccept, Dies
<1>4. ASSUME ReadFromNobody(d) PROVE StreamInv'
  BY <1>4, <1>c, <1>t DEF ReadFromNobody, Dies
<1>5. ASSUME CatchSIGCHLD(d) PROVE StreamInv'
  BY <1>5, <1>c, <1>t DEF CatchSIGCHLD
\* A step that uses the connection of d concerns no other client.
<1>o. ASSUME NEW c0 \in Clients, UNCHANGED <<backlog, client, world>>,
             \A c \in Clients \ {c0} :
                /\ up'[c] = up[c] /\ down'[c] = down[c]
                /\ \A e \in Procs : conn'[e] = c =>
                      conn[e] = c /\ pc'[e] = pc[e] /\ got'[e] = got[e],
             Stream(c0)'
      PROVE  StreamInv'
  <2>1. ASSUME NEW c \in Clients, c # c0 PROVE Stream(c)'
    BY <2>1, <1>o, <1>s, OtherStream DEF world, Partner
  <2> QED
    BY <2>1, <1>o DEF StreamInv
<1>6. ASSUME Permit(d) PROVE StreamInv'
  <2>0. PICK c0 \in Clients : c0 = conn[d]
    BY <1>6, Connected DEF Permit
  <2>a. PICK a \in BOOLEAN : a = (Head(up[c0]).data = Partner)
    OBVIOUS
  <2>1. /\ pc[d] = "type" /\ up[c0] # <<>>
        /\ up' = [up EXCEPT ![c0] = Tail(up[c0])]
        /\ down' = [down EXCEPT ![c0] = Append(down[c0], [can_connect |-> a])]
        /\ UNCHANGED <<got, backlog, client, world>>
    BY <1>6, <2>0, <2>a DEF Permit, MayConnect
  <2>2. \/ a /\ pc' = [pc EXCEPT ![d] = "fork"] /\ conn' = conn
        \/ ~a /\ pc' = [pc EXCEPT ![d] = "accept"] /\ conn' = [conn EXCEPT ![d] = None]
    BY <1>6, <2>0, <2>a DEF Permit, CloseAndAccept, MayConnect
  <2>3. /\ c0 \in Clients /\ client[c0] # "new"
        /\ \A i \in DOMAIN backlog : backlog[i] # c0
        /\ \A e \in Procs : e # d /\ conn[e] = c0 => pc[e] = "close"
    BY <2>0, <2>1, Alone
  <2>4. Unserved(c0) /\ AnsweredOK(c0)
    BY <2>0, <2>1, <2>3, <1>s DEF Stream, ServedOK
  <2>6. CASE client[c0] = "permission"
    <3>1. up[c0] = <<Message(c0, program[c0])>> /\ down[c0] = <<>>
      BY <2>4, <2>6 DEF Unserved
    <3>2. a <=> program[c0] = Partner
      <4>1. Head(up[c0]) = Message(c0, program[c0])
        BY <3>1, ShortQueues
      <4>2. Message(c0, program[c0]).data = program[c0]
        BY DEF Message
      <4> QED
        BY <4>1, <4>2, <2>a
    <3>3. [can_connect |-> a] = Permission(c0)
      BY <3>2 DEF Permission
    <3>4. up'[c0] = <<>> /\ down'[c0] = <<Permission(c0)>>
      BY <3>1, <3>3, <2>1, <2>3, <1>t, ShortQueues
    <3>5. Permission(c0)' = Permission(c0) /\ client'[c0] = "permission"
          /\ program' = program /\ Partner' = Partner
      BY <2>1, <2>6 DEF Permission, world, Partner
    <3>6. AnsweredOK(c0)'
      BY <3>4, <3>5 DEF AnsweredOK
    <3>7. a => Permitted(c0)'
      BY <3>2, <3>4, <3>5 DEF Permitted
    <3>8. \A e \in Procs : conn'[e] = c0 => \/ pc'[e] = "close"
                                            \/ a /\ pc'[e] = "fork"
      BY <2>0, <2>2, <2>3, <1>t
    <3>9. Stream(c0)'
      BY <3>5, <3>6, <3>7, <3>8, <2>1, <2>3 DEF Stream, ServedOK
    <3> QED
      BY <2>0, <3>9, <1>o, <2>1, <2>2, <2>3, <1>t
  <2>7. CASE client[c0] # "permission"
    <3>1. client'[c0] \in Crashed
      BY <2>1, <2>3, <2>4, <2>7 DEF Unserved
    <3>2. AnsweredOK(c0)' /\ Permitted(c0)'
      BY <3>1 DEF AnsweredOK, Permitted, Crashed
    <3>3. \A e \in Procs : conn'[e] = c0 => pc'[e] \in {"close", "fork"}
      BY <2>0, <2>2, <2>3, <1>t
    <3>4. Stream(c0)'
      BY <3>1, <3>2, <3>3, <2>1, <2>3 DEF Stream, ServedOK, Crashed
    <3> QED
      BY <2>0, <3>4, <1>o, <2>1, <2>2, <2>3, <1>t
  <2> QED
    BY <2>6, <2>7
<1>7. ASSUME Fork(d) PROVE StreamInv'
  <2>1. PICK e \in NextFree :
           /\ pc' = [pc EXCEPT ![d] = "close", ![e] = "text"]
           /\ conn' = [conn EXCEPT ![e] = conn[d]]
    BY <1>7 DEF Fork
  <2>2. e \in Procs /\ pc[e] = "none"
    BY <2>1 DEF NextFree, Free
  <2>3. pc[d] = "fork" /\ UNCHANGED <<got, backlog, client, up, down, world>>
    BY <1>7 DEF Fork
  <2>0. PICK c0 \in Clients : c0 = conn[d]
    BY <2>3, Connected
  <2>4. /\ c0 \in Clients /\ client[c0] # "new"
        /\ \A i \in DOMAIN backlog : backlog[i] # c0
        /\ \A x \in Procs : x # d /\ conn[x] = c0 => pc[x] = "close"
    BY <2>0, <2>3, Alone
  <2>5. Permitted(c0) /\ AnsweredOK(c0)
    BY <2>0, <2>3, <2>4, <1>s DEF Stream, ServedOK
  <2>6. Permitted(c0)' /\ AnsweredOK(c0)'
    BY <2>3, <2>5 DEF Permitted, AnsweredOK, Message, Permission, Answer, world, Partner
  <2>7. \A x \in Procs : conn'[x] = c0 => pc'[x] \in {"close", "text"}
    BY <2>0, <2>1, <2>2, <2>4, <1>t
  <2>8. Stream(c0)'
    BY <2>3, <2>4, <2>6, <2>7 DEF Stream, ServedOK
  <2>9. \A c \in Clients \ {c0} : \A x \in Procs : conn'[x] = c =>
           conn[x] = c /\ pc'[x] = pc[x] /\ got'[x] = got[x]
    BY <2>0, <2>1, <2>2, <2>3, <1>t
  <2> QED
    BY <1>o, <2>3, <2>4, <2>8, <2>9
<1>8. ASSUME ReadText(d) PROVE StreamInv'
  <2>0. PICK c0 \in Clients : c0 = conn[d]
    BY <1>8, Connected DEF ReadText
  <2>1. /\ pc[d] \in {"text", "key"} /\ up[c0] # <<>>
        /\ got' = [got EXCEPT ![d] = Append(got[d], Head(up[c0]))]
        /\ up' = [up EXCEPT ![c0] = Tail(up[c0])]
        /\ pc' = [pc EXCEPT ![d] = IF pc[d] = "text" THEN "key" ELSE "reply"]
        /\ UNCHANGED <<conn, backlog, client, down, world>>
    BY <1>8, <2>0 DEF ReadText
  <2>2. /\ c0 \in Clients /\ client[c0] # "new"
        /\ \A i \in DOMAIN backlog : backlog[i] # c0
        /\ \A e \in Procs : e # d /\ conn[e] = c0 => pc[e] = "close"
    BY <2>0, <2>1, Alone
  <2>3. /\ pc[d] = "text" => Permitted(c0) /\ got[d] = <<>>
        /\ pc[d] = "key" => HalfRead(d, c0)
        /\ AnsweredOK(c0) /\ conn'[d] = c0
    BY <2>0, <2>1, <2>2, <1>s DEF Stream, ServedOK, TypeInv, DaemonInv
  <2>4. up'[c0] = Tail(up[c0]) /\ got'[d] = Append(got[d], Head(up[c0]))
        /\ client'[c0] = client[c0] /\ down'[c0] = down[c0]
        /\ program' = program /\ Partner' = Partner
    BY <2>1, <2>2, <1>t DEF world, Partner
  <2>5. AnsweredOK(c0)'
    BY <2>3, <2>4 DEF AnsweredOK, Permission, Answer, Message
  <2>6. ASSUME pc[d] = "text" PROVE HalfRead(d, c0)'
    <3>1. client[c0] \in {"key", "reply"} \cup Crashed
      BY <2>6, <2>1, <2>3 DEF Permitted
    <3>2. client[c0] = "key" => up'[c0] = <<>> /\ got'[d] = <<Message(c0, "text")>>
                                  /\ down[c0] = <<>>
      BY <2>6, <2>3, <2>4, ShortQueues DEF Permitted
    <3>3. client[c0] = "reply" => /\ up'[c0] = <<Message(c0, "key")>>
                                  /\ got'[d] = <<Message(c0, "text")>> /\ down[c0] = <<>>
      <4>1. ASSUME client[c0] = "reply"
            PROVE  /\ up[c0] = <<Message(c0, "text"), Message(c0, "key")>>
                   /\ down[c0] = <<>> /\ got[d] = <<>>
        BY <4>1, <2>6, <2>3 DEF Permitted
      <4>2. /\ Head(<<Message(c0, "text"), Message(c0, "key")>>) = Message(c0, "text")
            /\ Tail(<<Message(c0, "text"), Message(c0, "key")>>) = <<Message(c0, "key")>>
            /\ Append(<<>>, Message(c0, "text")) = <<Message(c0, "text")>>
        BY ShortQueues
      <4> QED
        BY <4>1, <4>2, <2>4
    <3> QED
      BY <3>1, <3>2, <3>3, <2>4 DEF HalfRead, Message, Crashed
  <2>7. ASSUME pc[d] = "key" PROVE AllRead(d, c0)'
    <3>1. client[c0] \in {"reply"} \cup Crashed
      BY <2>7, <2>1, <2>3 DEF HalfRead
    <3>2. client[c0] = "reply" =>
             /\ up'[c0] = <<>> /\ down[c0] = <<>>
             /\ got'[d] = <<Message(c0, "text"), Message(c0, "key")>>
      <4>1. ASSUME client[c0] = "reply"
            PROVE  /\ up[c0] = <<Message(c0, "key")>> /\ down[c0] = <<>>
                   /\ got[d] = <<Message(c0, "text")>>
        BY <4>1, <2>7, <2>3 DEF HalfRead
      <4>2. /\ Head(<<Message(c0, "key")>>) = Message(c0, "key")
            /\ Tail(<<Message(c0, "key")>>) = <<>>
            /\ Append(<<Message(c0, "text")>>, Message(c0, "key"))
                  = <<Message(c0, "text"), Message(c0, "key")>>
        BY ShortQueues
      <4> QED
        BY <4>1, <4>2, <2>4
    <3> QED
      BY <3>1, <3>2, <2>4 DEF AllRead, Message, Crashed
  <2>8. ServedOK(d, c0)'
    BY <2>1, <2>6, <2>7, <1>t DEF ServedOK
  <2>9. ASSUME NEW e \in Procs, e # d PROVE ServedOK(e, c0)'
    BY <2>9, <2>1, <2>2, <1>t DEF ServedOK
  <2>10. Stream(c0)'
    BY <2>1, <2>2, <2>5, <2>8, <2>9 DEF Stream
  <2>11. \A c \in Clients \ {c0} : up'[c] = up[c] /\ down'[c] = down[c]
            /\ \A e \in Procs : conn'[e] = c =>
                  conn[e] = c /\ pc'[e] = pc[e] /\ got'[e] = got[e]
    BY <2>0, <2>1, <2>2, <1>t
  <2> QED
    BY <1>o, <2>1, <2>2, <2>10, <2>11
<1>9. ASSUME Reply(d) PROVE StreamInv'
  <2>0. PICK c0 \in Clients : c0 = conn[d]
    BY <1>9, Connected DEF Reply
  <2>1. /\ pc[d] = "reply" /\ ~Gone(c0)
        /\ down' = [down EXCEPT ![c0] = Append(down[c0], [answer_to |-> got[d]])]
        /\ got' = [got EXCEPT ![d] = <<>>]
        /\ pc' = [pc EXCEPT ![d] = "accept"] /\ conn' = [conn EXCEPT ![d] = None]
        /\ UNCHANGED <<backlog, client, up, world>>
    BY <1>9, <2>0 DEF Reply, CloseAndAccept
  <2>2. /\ c0 \in Clients /\ client[c0] # "new"
        /\ \A i \in DOMAIN backlog : backlog[i] # c0
        /\ \A e \in Procs : e # d /\ conn[e] = c0 => pc[e] = "close"
    BY <2>0, <2>1, Alone
  <2>3. AllRead(d, c0) /\ AnsweredOK(c0)
    BY <2>0, <2>1, <2>2, <1>s DEF Stream, ServedOK
  <2>4. client[c0] = "reply" /\ down[c0] = <<>>
        /\ got[d] = <<Message(c0, "text"), Message(c0, "key")>>
    BY <2>1, <2>3 DEF AllRead, Gone, Crashed
  <2>5. down'[c0] = <<Answer(c0)>> /\ client'[c0] = "reply"
        /\ program' = program /\ Partner' = Partner
    BY <2>1, <2>2, <2>4, <1>t, ShortQueues DEF Answer, world, Partner
  <2>6. AnsweredOK(c0)'
    BY <2>3, <2>4, <2>5 DEF AnsweredOK, Answer, Message
  <2>7. \A e \in Procs : conn'[e] = c0 => pc'[e] = "close"
    BY <2>0, <2>1, <2>2, <1>t
  <2>8. Stream(c0)'
    BY <2>1, <2>2, <2>5, <2>6, <2>7 DEF Stream, ServedOK
  <2>9. \A c \in Clients \ {c0} : up'[c] = up[c] /\ down'[c] = down[c]
            /\ \A e \in Procs : conn'[e] = c =>
                  conn[e] = c /\ pc'[e] = pc[e] /\ got'[e] = got[e]
    BY <2>0, <2>1, <2>2, <1>t
  <2> QED
    BY <1>o, <2>1, <2>2, <2>8, <2>9
<1> QED
  BY <1>1, <1>2, <1>3, <1>4, <1>5, <1>6, <1>7, <1>8, <1>9 DEF ProcStep
\* So do the clients, killed or not.
LEMMA ClientStreams ==
    ASSUME TypeInv, ReaderInv, StreamInv,
           NEW c \in Clients, ClientStep(c) \/ Crash(c)
    PROVE  StreamInv'
<1>t. /\ DOMAIN client = Clients /\ DOMAIN up = Clients /\ DOMAIN down = Clients
      /\ backlog \in Seq(Clients)
  <2>1. DOMAIN client = Clients
    BY DEF TypeInv, TypeOK, ClientsOK
  <2> QED
    BY <2>1 DEF TypeInv, TypeOK, DataOK
<1>s. \A k \in Clients : Stream(k)
  BY DEF StreamInv
<1>a. /\ AnsweredOK(c) /\ (client[c] = "new" => up[c] = <<>>)
      /\ \A i \in DOMAIN backlog : backlog[i] = c => Unserved(c)
      /\ \A d \in Procs : ServedOK(d, c)
  BY <1>s DEF Stream
\* It is enough to look at its own stream.
<1>o. ASSUME UNCHANGED <<procVars, daemon, program>>,
             \A i \in DOMAIN backlog' : backlog'[i] # c =>
                \E j \in DOMAIN backlog : backlog[j] = backlog'[i],
             \A k \in Clients \ {c} :
                client'[k] = client[k] /\ up'[k] = up[k] /\ down'[k] = down[k],
             AnsweredOK(c)', client'[c] # "new",
             \A i \in DOMAIN backlog' : backlog'[i] = c => Unserved(c)',
             \A d \in Procs : conn[d] = c =>
                /\ pc[d] = "type" => Unserved(c)'
                /\ pc[d] \in {"fork", "text"} => Permitted(c)'
                /\ pc[d] = "key" => HalfRead(d, c)'
                /\ pc[d] = "reply" => AllRead(d, c)'
      PROVE  StreamInv'
  <2>1. /\ pc' = pc /\ conn' = conn /\ got' = got
        /\ program' = program /\ Partner' = Partner
    BY <1>o DEF procVars, Partner
  <2>2. ASSUME NEW k \in Clients, k # c PROVE Stream(k)'
    BY <1>o, <1>s, <2>1, <2>2, OtherStream
  <2>3. Stream(c)'
    BY <1>o, <2>1 DEF Stream, ServedOK
  <2> QED
    BY <2>2, <2>3 DEF StreamInv
<1>1. ASSUME Connect(c) PROVE StreamInv'
  <2>1. /\ client[c] = "new" /\ client' = [client EXCEPT ![c] = "type"]
        /\ backlog' = Append(backlog, c)
        /\ UNCHANGED <<procVars, up, down, world>>
    BY <1>1 DEF Connect
  <2>2. \A i \in DOMAIN backlog' :
           \/ i \in DOMAIN backlog /\ backlog'[i] = backlog[i]
           \/ i = Len(backlog) + 1 /\ backlog'[i] = c
    BY <1>t, <2>1, AppendToQueue
  <2>3. \A d \in Procs : conn[d] # c
    BY <2>1 DEF ReaderInv, NewInv
  <2>4. /\ client'[c] = "type" /\ up'[c] = <<>> /\ down'[c] = <<>>
        /\ program' = program /\ Partner' = Partner
    BY <1>a, <1>t, <2>1 DEF AnsweredOK, world, Partner
  <2>5. Unserved(c)' /\ AnsweredOK(c)'
    BY <2>4 DEF Unserved, AnsweredOK, Crashed
  <2> QED
    BY <1>o, <1>t, <2>1, <2>2, <2>3, <2>4, <2>5 DEF world
<1>2. ASSUME SendType(c) PROVE StreamInv'
  <2>1. /\ client[c] = "type" /\ client' = [client EXCEPT ![c] = "permission"]
        /\ up' = [up EXCEPT ![c] = Append(up[c], Message(c, program[c]))]
        /\ UNCHANGED <<procVars, backlog, down, world>>
    BY <1>2 DEF SendType, Sends, Message
  <2>2. client'[c] = "permission" /\ down'[c] = <<>> /\ down[c] = <<>>
        /\ program' = program /\ Partner' = Partner
    BY <1>a, <1>t, <2>1 DEF AnsweredOK, world, Partner
  <2>3. AnsweredOK(c)'
    BY <2>2 DEF AnsweredOK
  <2>4. ASSUME Unserved(c) PROVE Unserved(c)'
    <3>1. up'[c] = <<Message(c, program[c])>>
      BY <2>1, <2>4, <1>t, ShortQueues DEF Unserved
    <3> QED
      BY <3>1, <2>2 DEF Unserved, Message
  <2>5. \A d \in Procs : conn[d] = c /\ pc[d] \in Readers =>
           pc[d] = "type" /\ Unserved(c)
    BY <1>a, <2>1 DEF ServedOK, Permitted, HalfRead, AllRead, Crashed, Readers
  <2> QED
    BY <1>o, <1>a, <1>t, <2>1, <2>2, <2>3, <2>4, <2>5 DEF world, Partner, Readers
<1>3. ASSUME SendText(c) PROVE StreamInv'
  <2>1. /\ client[c] = "text" /\ client' = [client EXCEPT ![c] = "key"]
        /\ up' = [up EXCEPT ![c] = Append(up[c], Message(c, "text"))]
        /\ UNCHANGED <<procVars, backlog, down, world>>
    BY <1>3 DEF SendText, Sends, Message
  <2>2. /\ client'[c] = "key" /\ program[c] = Partner /\ program' = program /\ Partner' = Partner
        /\ down'[c] = <<>> /\ down[c] = <<>>
    BY <1>a, <1>t, <2>1 DEF AnsweredOK, world, Partner
  <2>3. AnsweredOK(c)'
    BY <2>2 DEF AnsweredOK
  <2>4. ASSUME Permitted(c) PROVE Permitted(c)'
    <3>1. up'[c] = <<Message(c, "text")>>
      BY <2>1, <2>4, <1>t, ShortQueues DEF Permitted
    <3> QED
      BY <3>1, <2>2 DEF Permitted, Message
  <2>5. \A d \in Procs : conn[d] = c /\ pc[d] \in Readers =>
           pc[d] \in {"fork", "text"} /\ Permitted(c)
    BY <1>a, <2>1 DEF ServedOK, Unserved, HalfRead, AllRead, Crashed, Readers
  <2>6. \A i \in DOMAIN backlog : backlog[i] # c
    BY <1>a, <2>1 DEF Unserved, Crashed
  <2> QED
    BY <1>o, <1>t, <2>1, <2>2, <2>3, <2>4, <2>5, <2>6 DEF world, Partner, Readers
<1>4. ASSUME SendKey(c) PROVE StreamInv'
  <2>1. /\ client[c] = "key" /\ client' = [client EXCEPT ![c] = "reply"]
        /\ up' = [up EXCEPT ![c] = Append(up[c], Message(c, "key"))]
        /\ UNCHANGED <<procVars, backlog, down, world>>
    BY <1>4 DEF SendKey, Sends, Message
  <2>2. /\ client'[c] = "reply" /\ program[c] = Partner /\ program' = program /\ Partner' = Partner
        /\ down'[c] = <<>> /\ down[c] = <<>>
    BY <1>a, <1>t, <2>1 DEF AnsweredOK, world, Partner
  <2>3. AnsweredOK(c)'
    BY <2>2 DEF AnsweredOK
  <2>4. ASSUME Permitted(c) PROVE Permitted(c)'
    <3>1. up'[c] = <<Message(c, "text"), Message(c, "key")>>
      BY <2>1, <2>4, <1>t, ShortQueues DEF Permitted
    <3> QED
      BY <3>1, <2>2 DEF Permitted, Message
  <2>5. ASSUME NEW d \in Procs, HalfRead(d, c) PROVE HalfRead(d, c)'
    <3>1. up'[c] = <<Message(c, "key")>> /\ got'[d] = <<Message(c, "text")>>
      BY <2>1, <2>5, <1>t, ShortQueues DEF HalfRead, procVars
    <3> QED
      BY <3>1, <2>2 DEF HalfRead, Message
  <2>6. \A d \in Procs : conn[d] = c =>
           /\ pc[d] \notin {"type", "reply"}
           /\ pc[d] \in {"fork", "text"} => Permitted(c)
           /\ pc[d] = "key" => HalfRead(d, c)
    BY <1>a, <2>1 DEF ServedOK, Unserved, AllRead, Crashed
  <2>7. \A i \in DOMAIN backlog : backlog[i] # c
    BY <1>a, <2>1 DEF Unserved, Crashed
  <2> QED
    BY <1>o, <1>t, <2>1, <2>2, <2>3, <2>4, <2>5, <2>6, <2>7 DEF world, Partner
<1>5. ASSUME ReadPermission(c) PROVE StreamInv'
  <2>1. /\ client[c] = "permission" /\ down[c] # <<>>
        /\ client' = [client EXCEPT ![c] =
                          IF Head(down[c]).can_connect THEN "text" ELSE "rejected"]
        /\ down' = [down EXCEPT ![c] = Tail(down[c])]
        /\ UNCHANGED <<procVars, backlog, up, world>>
    BY <1>5 DEF ReadPermission
  <2>2. down[c] = <<Permission(c)>>
    BY <1>a, <2>1 DEF AnsweredOK
  <2>3. /\ down'[c] = <<>> /\ program' = program /\ Partner' = Partner /\ up' = up
        /\ client'[c] = IF program[c] = Partner THEN "text" ELSE "rejected"
    <3>1. Head(down[c]) = Permission(c) /\ Tail(down[c]) = <<>>
      BY <2>2, ShortQueues
    <3>2. Permission(c).can_connect <=> program[c] = Partner
      BY DEF Permission
    <3>3. down'[c] = <<>> /\ program' = program /\ Partner' = Partner /\ up' = up
      BY <1>t, <2>1, <3>1 DEF world, Partner
    <3>4. client'[c] = IF Permission(c).can_connect THEN "text" ELSE "rejected"
      BY <1>t, <2>1, <3>1
    <3> QED
      BY <3>2, <3>3, <3>4
  <2>4. AnsweredOK(c)'
    BY <2>3 DEF AnsweredOK
  <2>5. \A d \in Procs : conn[d] = c /\ pc[d] \in Readers =>
           pc[d] \in {"fork", "text"} /\ Permitted(c)
    BY <1>a, <2>1 DEF ServedOK, Unserved, HalfRead, AllRead, Crashed, Readers
  <2>6. Permitted(c) => Permitted(c)'
    BY <2>1, <2>3 DEF Permitted
  <2>7. \A i \in DOMAIN backlog : backlog[i] # c
    BY <1>a, <2>1 DEF Unserved
  <2> QED
    BY <1>o, <1>t, <2>1, <2>3, <2>4, <2>5, <2>6, <2>7 DEF world, Partner, Readers
<1>6. ASSUME ReadReply(c) PROVE StreamInv'
  <2>1. /\ client[c] = "reply" /\ down[c] # <<>>
        /\ client' = [client EXCEPT ![c] = "done"]
        /\ UNCHANGED <<procVars, backlog, up, down, world>>
    BY <1>6 DEF ReadReply
  <2>2. /\ program[c] = Partner /\ down[c] = <<Answer(c)>>
        /\ client'[c] = "done" /\ program' = program /\ Partner' = Partner /\ down' = down
    BY <1>a, <1>t, <2>1 DEF AnsweredOK, world, Partner
  <2>3. AnsweredOK(c)'
    BY <2>2 DEF AnsweredOK, Answer, Message
  <2>4. \A d \in Procs : conn[d] = c => pc[d] \notin Readers
    BY <1>a, <2>1 DEF ServedOK, Unserved, Permitted, HalfRead, AllRead, Crashed, Readers
  <2>5. \A i \in DOMAIN backlog : backlog[i] # c
    BY <1>a, <2>1 DEF Unserved, Crashed
  <2> QED
    BY <1>o, <1>t, <2>1, <2>2, <2>3, <2>4, <2>5 DEF world, Partner, Readers
<1>7. ASSUME Dropped(c) PROVE StreamInv'
  <2>1. PICK end \in {"killed", "spin"} : client' = [client EXCEPT ![c] = end]
    BY <1>7 DEF Dropped
  <2>2. /\ client[c] \in {"text", "key", "reply"} /\ \A d \in Procs : conn[d] # c
        /\ UNCHANGED <<procVars, backlog, up, down, world>>
    BY <1>7 DEF Dropped, Holders
  <2>3. client'[c] \in {"killed", "spin"} /\ AnsweredOK(c)'
    BY <1>t, <2>1 DEF AnsweredOK
  <2>4. \A i \in DOMAIN backlog : backlog[i] # c
    BY <1>a, <2>2 DEF Unserved, Crashed
  <2> QED
    BY <1>o, <1>t, <2>1, <2>2, <2>3, <2>4 DEF world, Partner
<1>8. ASSUME Crash(c) PROVE StreamInv'
  <2>1. PICK end \in Crashed : client' = [client EXCEPT ![c] = end]
    BY <1>8 DEF Crash, Crashed
  <2>2. /\ client[c] \in {"type", "permission", "text", "key", "reply"}
        /\ UNCHANGED <<procVars, backlog, up, down, daemon, program>>
    BY <1>8 DEF Crash
  <2>3. client'[c] \in Crashed
    BY <1>t, <2>1
  <2>4. /\ AnsweredOK(c)' /\ Unserved(c)' /\ Permitted(c)'
        /\ \A d \in Procs : HalfRead(d, c)' /\ AllRead(d, c)'
    BY <2>3 DEF AnsweredOK, Unserved, Permitted, HalfRead, AllRead, Crashed
  <2> QED
    BY <1>o, <1>t, <2>1, <2>2, <2>3, <2>4 DEF Crashed
<1> QED
  BY <1>1, <1>2, <1>3, <1>4, <1>5, <1>6, <1>7, <1>8 DEF ClientStep

\* The invariant holds at first.
LEMMA InitInv == Init => IInv
BY InitTypes, InitReaders, InitStreams DEF IInv

\* Every step keeps it.
LEMMA StepInv == IInv /\ [Next]_vars => IInv'
<1> SUFFICES ASSUME IInv, [Next]_vars PROVE IInv'
  OBVIOUS
<1>1. TypeInv' /\ ReaderInv'
  BY StepTypes, StepReaders DEF IInv
<1>2. ASSUME UNCHANGED vars PROVE StreamInv'
  <2>1. \A c \in Clients : Stream(c)
    BY DEF IInv, StreamInv
  <2>2. ASSUME NEW c \in Clients PROVE Stream(c)'
    BY <1>2, <2>1, OtherStream DEF vars, procVars, world, Partner
  <2> QED
    BY <2>2 DEF StreamInv
<1>3. StreamInv'
  BY <1>2, ProcStreams, ClientStreams DEF IInv, Next, Idle, Starved
<1> QED
  BY <1>1, <1>3 DEF IInv

\* A client that prints something has the port of its daemon, and prints what
\* becomes of its own text under its own key (otp_enc_d.c:168-192,
\* otp_enc.c:133-153, and the same in the other two), however many processes
\* accept, fork and serve, and however many clients are killed.
THEOREM AnswersAreOwn == Spec => []OwnAnswer
<1>1. IInv => OwnAnswer
  BY DEF IInv, StreamInv, Stream, AnsweredOK, Answer, Message, OwnAnswer
<1> QED
  BY InitInv, StepInv, <1>1, PTL DEF Spec
-----------------------------------------------------------------------------
(* What a killed client costs. *)

\* Nothing is lost, and no more clients may cost something.
LEMMA NoLoss ==
    ASSUME LossInv, crashes \in Nat, crashes' \in Nat, crashes =< crashes',
           Lost' \subseteq Lost, Harmful' \subseteq Harmful
    PROVE  LossInv'
<1>1. /\ IsFiniteSet(Lost') /\ Cardinality(Lost') =< Cardinality(Lost)
      /\ IsFiniteSet(Harmful') /\ Cardinality(Harmful') =< Cardinality(Harmful)
  BY FS_Subset DEF LossInv
<1>2. /\ Cardinality(Lost) \in Nat /\ Cardinality(Harmful) \in Nat
      /\ Cardinality(Lost') \in Nat /\ Cardinality(Harmful') \in Nat
  BY <1>1, FS_CardinalityType DEF LossInv
<1>3. Cardinality(Lost) + Cardinality(Harmful) =< crashes
  BY DEF LossInv
<1>4. Cardinality(Lost') + Cardinality(Harmful') =< crashes'
  BY <1>1, <1>2, <1>3
<1> QED
  BY <1>1, <1>4 DEF LossInv

\* A process is lost, and the client that cost it cannot cost another one.
LEMMA OneLoss ==
    ASSUME LossInv, crashes \in Nat, crashes' = crashes,
           NEW d, Lost' \subseteq Lost \cup {d},
           NEW c \in Harmful, Harmful' \subseteq Harmful \ {c}
    PROVE  LossInv'
<1>1. /\ IsFiniteSet(Lost) /\ IsFiniteSet(Harmful)
      /\ Cardinality(Lost) + Cardinality(Harmful) =< crashes
  BY DEF LossInv
<1>2. /\ IsFiniteSet(Lost \cup {d}) /\ Cardinality(Lost \cup {d}) =< Cardinality(Lost) + 1
      /\ IsFiniteSet(Harmful \ {c}) /\ Cardinality(Harmful \ {c}) = Cardinality(Harmful) - 1
      /\ Cardinality(Lost) \in Nat /\ Cardinality(Harmful) \in Nat
  <2>1. Cardinality(Lost) \in Nat /\ Cardinality(Harmful) \in Nat
    BY <1>1, FS_CardinalityType
  <2>2. /\ IsFiniteSet(Lost \cup {d})
        /\ Cardinality(Lost \cup {d}) = IF d \in Lost THEN Cardinality(Lost)
                                                      ELSE Cardinality(Lost) + 1
    BY <1>1, FS_AddElement
  <2>3. IsFiniteSet(Harmful \ {c}) /\ Cardinality(Harmful \ {c}) = Cardinality(Harmful) - 1
    BY <1>1, FS_RemoveElement
  <2> QED
    BY <2>1, <2>2, <2>3
<1>3. /\ IsFiniteSet(Lost') /\ Cardinality(Lost') =< Cardinality(Lost \cup {d})
      /\ IsFiniteSet(Harmful') /\ Cardinality(Harmful') =< Cardinality(Harmful \ {c})
  BY <1>2, FS_Subset
<1>4. Cardinality(Lost') \in Nat /\ Cardinality(Harmful') \in Nat
      /\ Cardinality(Lost \cup {d}) \in Nat
  BY <1>2, <1>3, FS_CardinalityType
<1>5. Cardinality(Lost') + Cardinality(Harmful') =< crashes'
  BY <1>1, <1>2, <1>3, <1>4
<1> QED
  BY <1>3, <1>5 DEF LossInv

\* One more client is killed.
LEMMA OneCrash ==
    ASSUME LossInv, crashes \in Nat, crashes' = crashes + 1,
           Lost' \subseteq Lost, NEW c, Harmful' \subseteq Harmful \cup {c}
    PROVE  LossInv'
<1>1. /\ IsFiniteSet(Lost) /\ IsFiniteSet(Harmful)
      /\ Cardinality(Lost) + Cardinality(Harmful) =< crashes
  BY DEF LossInv
<1>2. /\ Cardinality(Lost) \in Nat /\ Cardinality(Harmful) \in Nat
      /\ IsFiniteSet(Harmful \cup {c})
      /\ Cardinality(Harmful \cup {c}) =< Cardinality(Harmful) + 1
  <2>1. Cardinality(Lost) \in Nat /\ Cardinality(Harmful) \in Nat
    BY <1>1, FS_CardinalityType
  <2>2. /\ IsFiniteSet(Harmful \cup {c})
        /\ Cardinality(Harmful \cup {c}) = IF c \in Harmful THEN Cardinality(Harmful)
                                                      ELSE Cardinality(Harmful) + 1
    BY <1>1, FS_AddElement
  <2> QED
    BY <2>1, <2>2
<1>3. /\ IsFiniteSet(Lost') /\ Cardinality(Lost') =< Cardinality(Lost)
      /\ IsFiniteSet(Harmful') /\ Cardinality(Harmful') =< Cardinality(Harmful \cup {c})
  BY <1>1, <1>2, FS_Subset
<1>4. Cardinality(Lost') \in Nat /\ Cardinality(Harmful') \in Nat
      /\ Cardinality(Harmful \cup {c}) \in Nat
  BY <1>2, <1>3, FS_CardinalityType
<1>5. Cardinality(Lost') + Cardinality(Harmful') =< crashes'
  BY <1>1, <1>2, <1>3, <1>4
<1> QED
  BY <1>3, <1>5 DEF LossInv

\* No connection has been lost at first.
LEMMA InitLoss == Init => LossInv
<1> SUFFICES ASSUME Init PROVE LossInv
  OBVIOUS
<1>1. Lost = {} /\ Harmful = {} /\ crashes = 0
  BY DEF Init, Lost, Harmful, Crashed
<1>2. IsFiniteSet({}) /\ Cardinality({}) = 0
  BY FS_EmptySet
<1> QED
  BY <1>1, <1>2 DEF LossInv

\* A process is lost to the client it serves, if that was killed.
LEMMA StepLoss == IInv /\ LossInv /\ [Next]_vars => LossInv'
<1> SUFFICES ASSUME IInv, LossInv, [Next]_vars PROVE LossInv'
  OBVIOUS
<1>t. /\ DOMAIN pc = Procs /\ DOMAIN conn = Procs /\ DOMAIN client = Clients
      /\ backlog \in Seq(Clients) /\ crashes \in Nat /\ None \notin Clients
  <2>1. DOMAIN pc = Procs /\ DOMAIN conn = Procs
    BY DEF IInv, TypeInv, TypeOK, ProcsOK
  <2>2. DOMAIN client = Clients /\ crashes \in Nat
    BY LimitsAssumption DEF IInv, TypeInv, TypeOK, ClientsOK
  <2>3. backlog \in Seq(Clients)
    BY DEF IInv, TypeInv, TypeOK, DataOK
  <2> QED
    BY <2>1, <2>2, <2>3, NoneAssumption
\* A process goes on, with its connection or without, and is not lost.
<1>g. ASSUME NEW d \in Procs, NEW where, where \notin {"spin", "dead"},
             pc' = [pc EXCEPT ![d] = where],
             \/ conn' = conn /\ pc[d] \in Readers
             \/ conn' = [conn EXCEPT ![d] = None],
             UNCHANGED <<backlog, client, crashes>>
      PROVE  LossInv'
  <2>1. Lost' \subseteq Lost
    BY <1>g, <1>t DEF Lost
  <2>2. Harmful' \subseteq Harmful
    BY <1>g, <1>t DEF Harmful
  <2> QED
    BY <2>1, <2>2, <1>g, <1>t, NoLoss
\* A process is lost.
<1>l. ASSUME NEW d \in Procs, NEW where,
             pc' = [pc EXCEPT ![d] = where], where \notin Readers,
             pc[d] \in {"type", "text", "key", "reply"}, Gone(conn[d]),
             conn' = conn \/ conn' = [conn EXCEPT ![d] = None],
             UNCHANGED <<backlog, client, crashes>>
      PROVE  LossInv'
  <2>1. PICK c \in Clients : c = conn[d]
    BY <1>l, Connected DEF IInv
  <2>2. /\ \A i \in DOMAIN backlog : backlog[i] # c
        /\ \A e \in Procs : e # d /\ conn[e] = c => pc[e] = "close"
    BY <2>1, <1>l, Alone DEF IInv
  <2>3. ServedOK(d, c)
    BY DEF IInv, StreamInv, Stream
  <2>4. client[c] \in Crashed
    BY <2>1, <2>3, <1>l
    DEF ServedOK, Unserved, Permitted, HalfRead, AllRead, Gone, Crashed
  <2>5. c \in Harmful
    BY <2>1, <2>4, <1>l DEF Harmful, Readers
  <2>6. Harmful' \subseteq Harmful \ {c}
    BY <2>1, <2>2, <1>l, <1>t DEF Harmful, Readers
  <2>7. Lost' \subseteq Lost \cup {d}
    BY <1>l, <1>t DEF Lost
  <2> QED
    BY <2>5, <2>6, <2>7, <1>l, <1>t, OneLoss
\* A client goes on.
<1>k. ASSUME NEW c \in Clients, NEW where, where \notin Crashed,
             client' = [client EXCEPT ![c] = where],
             UNCHANGED <<pc, conn, backlog, crashes>>
      PROVE  LossInv'
  <2>1. Lost' \subseteq Lost /\ Harmful' \subseteq Harmful
    BY <1>k, <1>t DEF Lost, Harmful
  <2> QED
    BY <2>1, <1>k, <1>t, NoLoss
<1>1. ASSUME NEW d \in Procs, Accept(d) PROVE LossInv'
  <2>1. /\ pc[d] = "accept" /\ backlog # <<>> /\ client' = client /\ crashes' = crashes
        /\ pc' = [pc EXCEPT ![d] = "type"]
        /\ conn' = [conn EXCEPT ![d] = Head(backlog)]
        /\ backlog' = Tail(backlog)
    BY <1>1 DEF Accept, world
  <2>2. /\ 1 \in DOMAIN backlog /\ Head(backlog) = backlog[1]
        /\ \A i \in DOMAIN backlog' :
               i + 1 \in DOMAIN backlog /\ backlog'[i] = backlog[i + 1]
    BY <1>t, <2>1, TailOfQueue
  <2>3. Lost' \subseteq Lost
    BY <2>1, <1>t DEF Lost
  <2>4. ASSUME NEW c \in Harmful' PROVE c \in Harmful
    <3>1. c \in Clients /\ client[c] \in Crashed
      BY <2>1, <2>4 DEF Harmful
    <3>2. \/ \E i \in DOMAIN backlog' : backlog'[i] = c
          \/ \E e \in Procs : conn'[e] = c /\ pc'[e] \in Readers
      BY <2>4 DEF Harmful
    <3>3. \/ \E i \in DOMAIN backlog : backlog[i] = c
          \/ \E e \in Procs : conn[e] = c /\ pc[e] \in Readers
      BY <3>2, <2>1, <2>2, <1>t
    <3> QED
      BY <3>1, <3>3 DEF Harmful
  <2> QED
    BY <2>1, <2>3, <2>4, <1>t, NoLoss
<1>2. ASSUME NEW d \in Procs, Permit(d) PROVE LossInv'
  BY <1>2, <1>g DEF Permit, CloseAndAccept, Readers, world
<1>3. ASSUME NEW d \in Procs, Refuse(d) \/ ParentClose(d) \/ Reply(d) PROVE LossInv'
  BY <1>3, <1>g DEF Refuse, ParentClose, Reply, CloseAndAccept, world
<1>4. ASSUME NEW d \in Procs, Fork(d) PROVE LossInv'
  <2>1. PICK e \in NextFree :
           /\ pc' = [pc EXCEPT ![d] = "close", ![e] = "text"]
           /\ conn' = [conn EXCEPT ![e] = conn[d]]
    BY <1>4 DEF Fork
  <2>2. e \in Procs /\ pc[e] = "none"
    BY <2>1 DEF NextFree, Free
  <2>3. pc[d] = "fork" /\ UNCHANGED <<backlog, client, crashes>>
    BY <1>4 DEF Fork, world
  <2>4. Lost' \subseteq Lost
    BY <2>1, <2>2, <1>t DEF Lost
  <2>5. Harmful' \subseteq Harmful
    BY <2>1, <2>2, <2>3, <1>t DEF Harmful, Readers
  <2> QED
    BY <2>3, <2>4, <2>5, <1>t, NoLoss
<1>6. ASSUME NEW d \in Procs, ReadText(d) PROVE LossInv'
  BY <1>6, <1>g DEF ReadText, Readers, world
<1>8. ASSUME NEW d \in Procs, ReplyToNobody(d) PROVE LossInv'
  <2>1. /\ pc[d] = "reply" /\ Gone(conn[d]) /\ UNCHANGED <<backlog, client, crashes>>
        /\ conn' = [conn EXCEPT ![d] = None]
        /\ \/ pc' = [pc EXCEPT ![d] = "accept"]
           \/ pc' = [pc EXCEPT ![d] = "dead"]
    BY <1>8 DEF ReplyToNobody, CloseAndAccept, Dies, world
  <2> QED
    BY <2>1, <1>g, <1>l DEF Readers
<1>9. ASSUME NEW d \in Procs, ReadFromNobody(d) PROVE LossInv'
  <2>1. /\ pc[d] \in {"type", "text", "key"} /\ Gone(conn[d])
        /\ UNCHANGED <<backlog, client, crashes>>
        /\ \/ pc' = [pc EXCEPT ![d] = "dead"] /\ conn' = [conn EXCEPT ![d] = None]
           \/ pc' = [pc EXCEPT ![d] = "spin"] /\ conn' = conn
    BY <1>9 DEF ReadFromNobody, Dies, world
  <2> QED
    BY <2>1, <1>l DEF Readers
<1>10. ASSUME UNCHANGED <<pc, conn, backlog, client, crashes>> PROVE LossInv'
  BY <1>10, <1>t, NoLoss DEF Lost, Harmful
<1>11. ASSUME NEW c \in Clients, Connect(c) PROVE LossInv'
  <2>1. /\ client[c] = "new" /\ client' = [client EXCEPT ![c] = "type"]
        /\ backlog' = Append(backlog, c) /\ UNCHANGED <<pc, conn, crashes>>
    BY <1>11 DEF Connect, procVars, world
  <2>2. \A i \in DOMAIN backlog' :
           \/ i \in DOMAIN backlog /\ backlog'[i] = backlog[i]
           \/ i = Len(backlog) + 1 /\ backlog'[i] = c
    BY <1>t, <2>1, AppendToQueue
  <2>3. Lost' \subseteq Lost
    BY <2>1 DEF Lost
  <2>4. Harmful' \subseteq Harmful
    BY <2>1, <2>2, <1>t DEF Harmful, Crashed
  <2> QED
    BY <2>1, <2>3, <2>4, <1>t, NoLoss
<1>12. ASSUME NEW c \in Clients, SendType(c) \/ SendText(c) \/ SendKey(c) PROVE LossInv'
  BY <1>12, <1>k DEF SendType, SendText, SendKey, Sends, procVars, world, Crashed
<1>13. ASSUME NEW c \in Clients, ReadPermission(c) \/ ReadReply(c) PROVE LossInv'
  BY <1>13, <1>k DEF ReadPermission, ReadReply, procVars, world, Crashed
<1>15. ASSUME NEW c \in Clients, Dropped(c) PROVE LossInv'
  BY <1>15, <1>k DEF Dropped, procVars, world, Crashed
<1>16. ASSUME NEW c \in Clients, Crash(c) PROVE LossInv'
  <2>1. PICK end \in Crashed : client' = [client EXCEPT ![c] = end]
    BY <1>16 DEF Crash, Crashed
  <2>2. crashes' = crashes + 1 /\ UNCHANGED <<pc, conn, backlog>>
    BY <1>16 DEF Crash, procVars
  <2>3. Lost' \subseteq Lost /\ Harmful' \subseteq Harmful \cup {c}
    BY <2>1, <2>2, <1>t DEF Lost, Harmful
  <2> QED
    BY <2>2, <2>3, <1>t, OneCrash
<1>17. ASSUME NEW d \in Procs, CatchSIGCHLD(d) PROVE LossInv'
  BY <1>17, <1>10 DEF CatchSIGCHLD, world
<1>18. ASSUME UNCHANGED vars PROVE LossInv'
  BY <1>18, <1>10 DEF vars, procVars, world
<1> QED
  BY <1>1, <1>2, <1>3, <1>4, <1>6, <1>8, <1>9, <1>11, <1>12, <1>13, <1>15, <1>16,
     <1>17, <1>18
  DEF Next, ProcStep, ClientStep, Idle, Starved

\* The daemon loses no process to a client that lives, and one at most to each
\* that was killed (otp_enc_d.c:136, :168, :172, :177 and :181, where it reads
\* without end or fails an assert, and :190, where it may meet SIGPIPE).
THEOREM LossesCounted == Spec => []LossesNeedCrashes
<1>1. IInv /\ LossInv => LossesNeedCrashes
  <2> SUFFICES ASSUME IInv, LossInv PROVE Cardinality(Lost) =< crashes
    BY DEF LossesNeedCrashes, Lost
  <2>1. crashes \in Nat
    BY LimitsAssumption DEF IInv, TypeInv, TypeOK, ClientsOK
  <2>2. Cardinality(Lost) \in Nat /\ Cardinality(Harmful) \in Nat
    BY FS_CardinalityType DEF LossInv
  <2> QED
    BY <2>1, <2>2 DEF LossInv
<1> QED
  BY InitInv, StepInv, InitLoss, StepLoss, <1>1, PTL DEF Spec
=============================================================================
