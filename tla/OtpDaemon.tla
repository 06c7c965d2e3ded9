----------------------------- MODULE OtpDaemon -----------------------------
(***************************************************************************)
(* otp_enc_d.c and otp_dec_d.c of program4_otp with their clients          *)
(* otp_enc.c and otp_dec.c, at the port of either.  A daemon process       *)
(* accepts a connection, answers whether the client may connect, and forks *)
(* a child to serve it; child and parent both go back to accept().  Any    *)
(* client may be killed.                                                   *)
(*                                                                         *)
(* The kernel is external: the accept queue, the two directions of each    *)
(* connection (a client has one, so the client names it), who holds it     *)
(* open, and SIGCHLD.  ReadFromClient() and WriteToClient() loop until     *)
(* everything is through, so a message with its length is one step.        *)
(***************************************************************************)
EXTENDS Integers, Sequences, FiniteSets

CONSTANTS Procs,          \* process ids for the daemon and its descendants
          Root,           \* the daemon as it was started
          Clients,
          Strangers,      \* those of them that may have the wrong port
          MAX_CHILDREN,
          MaxCrashes,     \* bound: how many clients are killed
          None

ASSUME RootAssumption    == Root \in Procs
ASSUME ClientsAssumption == Strangers \subseteq Clients
ASSUME NoneAssumption    == None \notin Procs \cup Clients
ASSUME LimitsAssumption  == MAX_CHILDREN \in Nat /\ MaxCrashes \in Nat

VARIABLES
    pc,             \* where each daemon process is
    conn,           \* its connection_fd: the client at the other end
    got,            \* what its ReadFromClient() calls have returned
    num_children,   \* its copy of the counter
    parent,
    sigchld,        \* the processes with a SIGCHLD pending
    backlog,        \* the accept queue of the one listening socket
    client,         \* where each client is
    up, down,       \* the bytes under way from and to each client
    daemon,         \* what Root runs, otp_enc_d or otp_dec_d
    program,        \* what each client runs, otp_enc or otp_dec
    crashes

procVars == <<pc, conn, got, num_children, parent, sigchld>>
world == <<daemon, program, crashes>>
vars == <<procVars, backlog, client, up, down, world>>

\* The program whose clients the daemon serves.
Partner    == IF daemon = "otp_enc_d" THEN "otp_enc" ELSE "otp_dec"
Free(d)    == pc[d] = "none"
\* The process that fork() makes, if there is one left: they differ in nothing
\* but their names, so it does not matter which.
NextFree   == LET free == {d \in Procs : Free(d)}
              IN  IF free = {} THEN {} ELSE {CHOOSE d \in free : TRUE}
Holders(c) == {d \in Procs : conn[d] = c}
\* The socket of c is closed: c ended by itself or was killed.
Gone(c)    == client[c] \in {"done", "rejected", "killed", "fin", "rst"}

Init ==
    /\ pc = [d \in Procs |-> IF d = Root THEN "accept" ELSE "none"]
    /\ conn = [d \in Procs |-> None]
    /\ got = [d \in Procs |-> <<>>]
    /\ num_children = [d \in Procs |-> 0]
    /\ parent = [d \in Procs |-> None]
    /\ sigchld = {}
    /\ backlog = <<>>
    /\ client = [c \in Clients |-> "new"]
    /\ up = [c \in Clients |-> <<>>] /\ down = [c \in Clients |-> <<>>]
    /\ daemon \in {"otp_enc_d", "otp_dec_d"}
    /\ program \in [Clients -> {"otp_enc", "otp_dec"}]
    /\ \A c \in Clients \ Strangers : program[c] = Partner
    /\ crashes = 0

-----------------------------------------------------------------------------
(* The daemon. *)

Accept(d) ==
    /\ pc[d] = "accept" /\ backlog # <<>>
    /\ pc' = [pc EXCEPT ![d] = "type"]
    /\ conn' = [conn EXCEPT ![d] = Head(backlog)]
    /\ backlog' = Tail(backlog)
    /\ UNCHANGED <<got, num_children, parent, sigchld, client, up, down, world>>

\* What d does next, after closing connection_fd.
CloseAndAccept(d) ==
    /\ pc' = [pc EXCEPT ![d] = "accept"]
    /\ conn' = [conn EXCEPT ![d] = None]

MayConnect(type) == type = Partner

\* The client's type is read and the permission written.
Permit(d) ==
    LET c == conn[d]
        allowed == MayConnect(Head(up[c]).data)
    IN
    /\ pc[d] = "type" /\ up[c] # <<>>
    /\ up' = [up EXCEPT ![c] = Tail(@)]
    /\ down' = [down EXCEPT ![c] = Append(@, [can_connect |-> allowed])]
    /\ IF allowed
       THEN pc' = [pc EXCEPT ![d] = "fork"] /\ UNCHANGED conn
       ELSE CloseAndAccept(d)
    /\ UNCHANGED <<got, num_children, parent, sigchld, backlog, client, world>>

\* Too many connections, or fork() fails, as it may at any time: the client is
\* dropped.
Refuse(d) ==
    /\ pc[d] = "fork"
    /\ CloseAndAccept(d)
    /\ UNCHANGED <<got, num_children, parent, sigchld, backlog, client, up,
                   down, world>>

\* Mutant: the limit is not looked at.
ForkUnlimited(d) ==
    /\ pc[d] = "fork"
    /\ \E e \in NextFree :
          /\ pc' = [pc EXCEPT ![d] = "close", ![e] = "text"]
          /\ conn' = [conn EXCEPT ![e] = conn[d]]
          /\ num_children' = [num_children EXCEPT ![e] = num_children[d] + 1]
          /\ parent' = [parent EXCEPT ![e] = d]
    /\ UNCHANGED <<got, sigchld, backlog, client, up, down, world>>

\* Mutant: the parent serves the client, too.
ForkServesTwice(d) ==
    /\ pc[d] = "fork" /\ num_children[d] # MAX_CHILDREN
    /\ \E e \in NextFree :
          /\ pc' = [pc EXCEPT ![d] = "text", ![e] = "text"]
          /\ conn' = [conn EXCEPT ![e] = conn[d]]
          /\ num_children' = [num_children EXCEPT ![e] = num_children[d] + 1]
          /\ parent' = [parent EXCEPT ![e] = d]
    /\ UNCHANGED <<got, sigchld, backlog, client, up, down, world>>

\* The child inherits the connection and counts itself in its own copy.
Fork(d) ==
    /\ pc[d] = "fork" /\ num_children[d] # MAX_CHILDREN
    /\ \E e \in NextFree :
          /\ pc' = [pc EXCEPT ![d] = "close", ![e] = "text"]
          /\ conn' = [conn EXCEPT ![e] = conn[d]]
          /\ num_children' = [num_children EXCEPT ![e] = num_children[d] + 1]
          /\ parent' = [parent EXCEPT ![e] = d]
    /\ UNCHANGED <<got, sigchld, backlog, client, up, down, world>>

ParentClose(d) ==
    /\ pc[d] = "close"
    /\ CloseAndAccept(d)
    /\ UNCHANGED <<got, num_children, parent, sigchld, backlog, client, up,
                   down, world>>

\* Mutant: plaintext and key are mixed up.
ReadTextSwapped(d) ==
    LET c == conn[d] IN
    /\ pc[d] \in {"text", "key"} /\ up[c] # <<>>
    /\ got' = [got EXCEPT ![d] = <<Head(up[c])>> \o @]
    /\ up' = [up EXCEPT ![c] = Tail(@)]
    /\ pc' = [pc EXCEPT ![d] = IF @ = "text" THEN "key" ELSE "reply"]
    /\ UNCHANGED <<conn, num_children, parent, sigchld, backlog, client, down,
                   world>>

\* Plaintext and key, in this order.
ReadText(d) ==
    LET c == conn[d] IN
    /\ pc[d] \in {"text", "key"} /\ up[c] # <<>>
    /\ got' = [got EXCEPT ![d] = Append(@, Head(up[c]))]
    /\ up' = [up EXCEPT ![c] = Tail(@)]
    /\ pc' = [pc EXCEPT ![d] = IF @ = "text" THEN "key" ELSE "reply"]
    /\ UNCHANGED <<conn, num_children, parent, sigchld, backlog, client, down,
                   world>>

\* d ends by SIGPIPE or abort(); its parent, if alive, gets SIGCHLD, which only
\* otp_enc_d has a handler for.
Dies(d) ==
    /\ pc' = [pc EXCEPT ![d] = "dead"]
    /\ conn' = [conn EXCEPT ![d] = None]
    /\ sigchld' = IF parent[d] # None /\ pc[parent[d]] # "dead"
                       /\ daemon = "otp_enc_d"
                  THEN sigchld \cup {parent[d]} ELSE sigchld

\* The cipher of text and key is written and the connection closed.
Reply(d) ==
    LET c == conn[d] IN
    /\ pc[d] = "reply" /\ ~Gone(c)
    /\ down' = [down EXCEPT ![c] = Append(@, [answer_to |-> got[d]])]
    /\ got' = [got EXCEPT ![d] = <<>>]
    /\ CloseAndAccept(d)
    /\ UNCHANGED <<num_children, parent, sigchld, backlog, client, up, world>>

\* To a client that was killed: the second send() may meet the reset that
\* answers the first one, and SIGPIPE.
ReplyToNobody(d) ==
    /\ pc[d] = "reply" /\ Gone(conn[d])
    /\ \/ CloseAndAccept(d) /\ UNCHANGED sigchld
       \/ Dies(d)
    /\ got' = [got EXCEPT ![d] = <<>>]
    /\ UNCHANGED <<num_children, parent, backlog, client, up, down, world>>

\* The client was killed and everything it sent is read.  After the end of
\* the stream recv() returns 0, even if a reset follows, and ReadFromClient()
\* never ends; after a reset alone it returns -1, the length read stays 0 and
\* the next ReadFromClient() fails its assert.
ReadFromNobody(d) ==
    /\ pc[d] \in {"type", "text", "key"}
    /\ Gone(conn[d]) /\ up[conn[d]] = <<>>
    /\ IF client[conn[d]] = "rst"
       THEN Dies(d)
       ELSE pc' = [pc EXCEPT ![d] = "spin"] /\ UNCHANGED <<conn, sigchld>>
    /\ UNCHANGED <<got, num_children, parent, backlog, client, up, down, world>>

CatchSIGCHLD(d) ==
    /\ d \in sigchld /\ pc[d] # "dead"
    /\ num_children' = [num_children EXCEPT ![d] = @ - 1]
    /\ sigchld' = sigchld \ {d}
    /\ UNCHANGED <<pc, conn, got, parent, backlog, client, up, down, world>>

-----------------------------------------------------------------------------
(* The clients. *)

Connect(c) ==
    /\ client[c] = "new"
    /\ client' = [client EXCEPT ![c] = "type"]
    /\ backlog' = Append(backlog, c)
    /\ UNCHANGED <<procVars, up, down, world>>

\* One WriteToServer() and the next thing to do.
Sends(c, from, message, to) ==
    /\ client[c] = from
    /\ client' = [client EXCEPT ![c] = to]
    /\ up' = [up EXCEPT ![c] = Append(@, [data |-> message, of |-> c])]
    /\ UNCHANGED <<procVars, backlog, down, world>>

SendType(c) == Sends(c, "type", program[c], "permission")

\* Mutant: the key is not sent.
SendTextOnly(c) == Sends(c, "text", "text", "reply")

SendText(c) == Sends(c, "text", "text", "key")
SendKey(c)  == Sends(c, "key", "key", "reply")

\* Mutant: the test of the permission is the wrong way round.
ReadPermissionInverted(c) ==
    /\ client[c] = "permission" /\ down[c] # <<>>
    /\ client' = [client EXCEPT ![c] =
                    IF Head(down[c]).can_connect THEN "rejected" ELSE "text"]
    /\ down' = [down EXCEPT ![c] = Tail(@)]
    /\ UNCHANGED <<procVars, backlog, up, world>>

ReadPermission(c) ==
    /\ client[c] = "permission" /\ down[c] # <<>>
    /\ client' = [client EXCEPT ![c] =
                    IF Head(down[c]).can_connect THEN "text" ELSE "rejected"]
    /\ down' = [down EXCEPT ![c] = Tail(@)]
    /\ UNCHANGED <<procVars, backlog, up, world>>

\* down keeps the reply, as the text that the client prints.
ReadReply(c) ==
    /\ client[c] = "reply" /\ down[c] # <<>>
    /\ client' = [client EXCEPT ![c] = "done"]
    /\ UNCHANGED <<procVars, backlog, up, down, world>>

\* The daemon has closed the connection without a reply: a send() ends in
\* SIGPIPE, a recv() in the assert of the next ReadFromServer(), or it
\* returns 0 for ever.
Dropped(c) ==
    /\ client[c] \in {"text", "key", "reply"}
    /\ down[c] = <<>> /\ Holders(c) = {}
    /\ \E end \in {"killed", "spin"} :
          /\ end = "spin" => client[c] = "reply"
          /\ client' = [client EXCEPT ![c] = end]
    /\ UNCHANGED <<procVars, backlog, up, down, world>>

\* The user kills a client.  The kernel closes its socket, with a reset if
\* something was left unread.
Crash(c) ==
    /\ crashes < MaxCrashes
    /\ client[c] \in {"type", "permission", "text", "key", "reply"}
    /\ client' = [client EXCEPT ![c] = IF down[c] = <<>> THEN "fin" ELSE "rst"]
    /\ crashes' = crashes + 1
    /\ UNCHANGED <<procVars, backlog, up, down, daemon, program>>

-----------------------------------------------------------------------------
ProcStep(d) ==
    \/ Accept(d) \/ Permit(d) \/ Refuse(d) \/ Fork(d) \/ ParentClose(d)
    \/ ReadText(d) \/ Reply(d) \/ ReplyToNobody(d) \/ ReadFromNobody(d)

ClientStep(c) ==
    \/ Connect(c) \/ SendType(c) \/ ReadPermission(c) \/ SendText(c)
    \/ SendKey(c) \/ ReadReply(c) \/ Dropped(c)

\* Every client has ended, and what is left of the daemon waits.
Idle ==
    /\ \A c \in Clients : client[c] \in {"done", "rejected", "killed", "spin",
                                         "fin", "rst"}
    /\ UNCHANGED vars

\* A client that no process will ever answer any more waits for ever.
Starved ==
    /\ \A d \in Procs : pc[d] \in {"none", "spin", "dead"}
    /\ UNCHANGED vars

Next ==
    \/ \E d \in Procs : ProcStep(d) \/ CatchSIGCHLD(d)
    \/ \E c \in Clients : ClientStep(c) \/ Crash(c)
    \/ Idle \/ Starved

Spec == Init /\ [][Next]_vars

\* The scheduler runs every process and every client.  Which of several
\* processes waiting in accept() gets a connection is left open.
FairSpec ==
    /\ Spec
    /\ \A d \in Procs : WF_vars(ProcStep(d))
    /\ \A c \in Clients : WF_vars(ClientStep(c))

-----------------------------------------------------------------------------
Messages == [data : {"otp_enc", "otp_dec", "text", "key"}, of : Clients]
Requests == Seq(Messages)
Answers  == Seq([can_connect : BOOLEAN] \cup [answer_to : Requests])

ProcsOK ==
    /\ pc \in [Procs -> {"none", "accept", "type", "fork", "close", "text",
                         "key", "reply", "spin", "dead"}]
    /\ conn \in [Procs -> Clients \cup {None}]
    /\ num_children \in [Procs -> Int]
    /\ \A d \in Procs : num_children[d] =< MAX_CHILDREN
    /\ parent \in [Procs -> Procs \cup {None}]
    /\ sigchld \subseteq Procs

ClientsOK ==
    /\ client \in [Clients -> {"new", "type", "permission", "text", "key",
                               "reply", "done", "rejected", "killed", "spin",
                               "fin", "rst"}]
    /\ daemon \in {"otp_enc_d", "otp_dec_d"}
    /\ program \in [Clients -> {"otp_enc", "otp_dec"}]
    /\ crashes \in 0 .. MaxCrashes

DataOK ==
    /\ got \in [Procs -> Requests] /\ up \in [Clients -> Requests]
    /\ down \in [Clients -> Answers]
    /\ backlog \in Seq(Clients)

\* Every variable has its type.  The test num_children == MAX_CHILDREN is
\* enough: no copy of the counter ever jumps over the limit.
TypeOK == ProcsOK /\ ClientsOK /\ DataOK

\* A client that prints something has the port of its daemon, and what it prints
\* is its own text under its own key, however many descendants of the daemon
\* accept and serve at the same time.
OwnAnswer ==
    \A c \in Clients : client[c] = "done" =>
        program[c] = Partner /\
        down[c] = << [answer_to |-> << [data |-> "text", of |-> c],
                                       [data |-> "key", of |-> c] >>] >>

\* Of the processes that hold a connection open, one at most reads from it.
OneReader ==
    \A c \in Clients :
        Cardinality({d \in Holders(c) : pc[d] # "close"}) =< 1

\* Daemon processes hang or die only because a client was killed, one for
\* each of them at most.
LossesNeedCrashes ==
    Cardinality({d \in Procs : pc[d] \in {"spin", "dead"}}) =< crashes

\* As long as no client is killed, a client whose connection is not closed on
\* it ends with an answer, whatever becomes of the others.
EveryClientAnswered ==
    \A c \in Clients :
        [](crashes = 0 /\ client[c] \notin {"killed", "spin"})
          => <>(client[c] \in {"done", "rejected"})

=============================================================================
