# Verification of the CS344 programs

This directory holds TLA+ models of the C programs of this repository (the
assignments of an operating-systems course: a small shell, a one-time-pad
service over sockets, and an adventure game with threads), the TLC
configurations that model-check them, and proofs that TLAPS checks.

Every definition that models code is listed in `PROJECT.json` under `map` with
the lines it stands for.  Names follow the source (`bg_children`,
`CatchSIGCHLD`, `num_children`, `set_mutex`, ...).

To check a run: `tlc -workers 2 -config MCSmallsh.cfg MCSmallsh`.
To check the proofs: `tlapm SmallshProofs.tla`.

## 1. Inventory

Paths are relative to `src/`; `osu/` stands for `osu-cs344-w2019-master/`.  The
repository holds several students' solutions of the same three assignments, and
drafts and backups of some: Luu's (`program2_adventure`, `program3_smallsh`,
`program4_otp`), Suh's, Dougherty's (`CS344 -ref`), Rico's (`CS344- ans1`) and a
further one-time-pad service (`OSU-CS344_Prog4-master`).  They promise the same
and are built differently, so most models come in families: one module for the
world that the programs run in, one per program, and one TLC instance in which
any of them runs.

### 1.1 The shells

| program | state | operations |
|---|---|---|
| Luu, `osu/program3_smallsh` (`main.c`, `utility.c`, `builtins.c`) | `bg_children` (block, size, capacity), `spawnpid`, `is_bg`, `fg_childpid`, `fg_exit_status`, `is_fg_only_mode` | prompt, fork, wait or push, `Exit`; `CatchSIGINT`, `CatchSIGTSTP`, `CatchSIGCHLD`; the array's push, pop, search |
| Suh, `smallsh.final.c`; drafts | `pidarray[]`, `numpids`, `ignore_signal`, `exit_status` | `Command_Handler`, `Kill_Process`, handlers of SIGCHLD and SIGTSTP |
| Dougherty, `osu/CS344 -ref/Assignment_3` | `backPids[]`, `numPids`, a mode | poll after every line, `killBackground`, handler of SIGTSTP |
| Rico, `osu/CS344- ans1/pg3` | `ignoreBg`, words of the last line | poll after every command, handlers of SIGINT and SIGTSTP |

Main loop and handlers share the globals and the job table; kernel and terminal
interact with all of them: SIGCHLD when a child ends, SIGINT and SIGTSTP for the
whole process group.  *Hard*: a handler runs between any two machine
instructions; two places wait for the same child; signals merge; a key is pressed
before the child has set its own dispositions; process numbers are used again; a
handler ends a system call, or does not; a child that cannot exec goes on as a
shell.  *Correct means*: the job array is never written outside its block; the
jobs in it are those that live; the prompt comes back, and only after the
foreground child is gone; `exit` leaves no job behind; background jobs survive
Ctrl-C; the status is that of the latest foreground child; one shell reads the
terminal.

### 1.2 The one-time pads

| program | state | operations |
|---|---|---|
| `osu/program4_otp`: `keygen` | -- | print n random characters and a newline |
| `otp_enc`, `otp_dec` | text and key read from files | read, cut, validate, connect, handshake, send, receive, print |
| `otp_enc_d`, `otp_dec_d` | `connection_fd`, `num_children`, a copy in each process | accept, permission handshake, fork, serve; SIGCHLD handler, which `otp_dec_d` defines and never installs |
| Rico's, Dougherty's, Suh's (`osu/assignment4`) and the third one's programs | buffers and counters of what was received | send and receive over a stream without message boundaries, by bare `recv()` calls |

The programs hand each other files; clients and daemons talk over TCP.  *Hard*:
parent and child both hold a connection and both go back to `accept()` on one
socket; the counter of children lives in copies; the limit is tested after the
client was told it may connect; a client dies between two messages; a stream is
cut anywhere; text and key follow each other without a pause; the cipher wraps
around 27 characters; lines are cut at the buffer's size.  *Correct means*:
decryption undoes encryption; every client gets the answer to its own request; no
process is lost without a cause; a client that is not dropped is answered.

### 1.3 The adventures

| program | state | operations |
|---|---|---|
| room builders (Suh, Luu, Dougherty, Rico): graph | arrays of connections with counters | fullness test, two rejection loops of random draws, connect in both directions |
| room builders: files | names drawn without repetition | make the directory, write a file per room |
| games (Suh, Luu, Dougherty) | rooms read, position, path | find the newest room directory, read the files in the order they are listed, move, count |
| games: time | a mutex, `currentTime.txt` | the `time` command of the main thread; a thread that lives as long as the game (Suh) or one per command (Luu, Dougherty) |

A builder hands files to a game.  *Hard*: loops that draw until a draw fits; a
connection made in two halves; a builder that is killed, or still writing, when a
game looks for the newest directory; files that a game leaves behind and the next
one lists; rooms that are named before their file is read; arrays that must
grow; a mutex lent for the length of a sleep; a game killed while the file is
open.  *Correct means*: the graph is symmetric, has no loops and enough
connections, and the builder ends; the game reads what the builder made up and
reports the way that was walked; a time command prints a whole and current time,
and ends.

### 1.4 Other programs

The command-line parser of `program3_smallsh`, Rico's adventure, `matrix` (bash
arithmetic), lecture examples, random-word scripts, grading scripts and test
data; see section 7.

The hazards of all of these, each at its line, are in `PROJECT.json` under
`hazards`, with the properties that cover them.

## 2. Plan

The most concurrent program first, then the families around it.

1. *done* `DynPidArr`, `Smallsh`, `SmallshProofs`
2. *done* `RoomGraph` (abstract), `BuildRooms` (implements it), `BuildRoomsProofs`
3. *done* `OtpPipeline` (data), `OtpPipelineProofs`
4. *done* `OtpDaemon` (processes and sockets, of both daemons), `OtpDaemonProofs`
5. *done* `AdventureClock`, `AdventureClockProofs`; `JoinedClock` for the others
6. *done* `LuuBuildRooms`, `DoughertyBuildRooms`, `RicoBuildRooms`: three more
   implementations of `RoomGraph`
7. *done* `RoomWorld` with `LuuRooms`, `SuhRooms`, `DoughertyRooms`: the writer of
   each builder composed with the reader of its game
8. *done* `ShellWorld` with `SuhShell`, `SuhDraftShell`, `DoughertyShell`,
   `RicoShell`
9. *done* `OtpWire` with `RicoOtp`, `Prog4Otp`, `DoughertyOtp`
10. *done* `ShellsProofs`, `OtpStreamsProofs`, `RoomsProofs`, and the proofs of 2
    and 5 for the whole families
11. open: the parser (word splitting and `$$` expansion as functions against a
    reference definition); Rico's room files and game

Which module uses which: `Smallsh` EXTENDS `DynPidArr`; every builder EXTENDS
`RoomBuilder`, which instantiates `RoomGraph` under a refinement mapping; the
three `...Rooms` modules EXTEND `RoomWorld`, the shells `ShellWorld`, the otp
programs `OtpWire`; `JoinedClock` EXTENDS `AdventureClock`, whose state it shares.
`MCBuildRooms`, `MCRooms`, `MCShells`, `MCOtpStreams` and `MCAdventureClock`
instantiate the programs of a family over common variables, with a variable
`program` that says which of them runs; every property is stated once for the
family, with the programs that do not keep it named in it.  `OtpPipeline` and
`OtpDaemon` are two views of the same programs, one of the data and one of the
processes; they meet in one assumption, that a request reaches the process that
serves it as it was sent, which `OwnAnswer` checks and `AnswersAreOwn` proves.
Every `...Proofs` module EXTENDS the module it is about, or the instance of the
family it is about.

## 3. The modules

### 3.1 DynPidArr and Smallsh

`DynPidArr` has the record `[pids, size, capacity]` and the functions that a
handler runs in one go (search, pop at an index).  `SlotAt` also says what is
read just outside the block.

`Smallsh` has one action per step of `main()`:
`RunCommand`, `ExitCommand` (prompt and parse), `Fork`, `Decide`,
`SetForeground`, `Sleep`/`Waited` (the `waitpid()`), `ResetForeground`.
`PushBackDynPidArr` and `PopBackDynPidArr` (inside `Exit()`) are split into the
loads and stores of unoptimised code, as the Makefile builds it, because that
is where the handlers cut in: `PushCheckFull`, `PushRealloc` (in place or
moved), `PushSwap`, `PushLoadSize`, `PushStoreSize`, `PushStorePid`;
`ExitCheckEmpty`, `ExitLoadSize`, `ExitStoreSize`, `ExitLoadAddress`,
`ExitKill`.  `Deliver` starts a handler between any two of these;
each handler is one action since nothing interrupts it (a blocking `waitpid()`
in it is a guard).  The kernel's process table `procs`, merged `pending` signals
and the terminal (`CtrlC`, `CtrlZ`) are external.  A child is `ChildExec`, with
its copies of the mode and of `is_bg`, and `ChildEnds`.

Left out: which words a command has (only whether it ends in `&`), `cd`,
`status` and blank lines (they change no modelled state), what stdin and stdout
become, printing, stops by SIGTSTP (the children ignore it), and failures of
`malloc()`.  History variables: `child_end`, `raced`, and the field `role`.

### 3.2 The other shells: ShellWorld and four programs

`ShellWorld` is the process table of a shell with all it forks (one process
group), SIGCHLD, the keys, and the user who types `MaxLines` lines: `Forks`,
`Execs`, `End`, `Reaps`, `CtrlC`, `CtrlZ`.  Process numbers are used again, and a
process that is waited for leaves its number in the shell's array.  A program
says what its lines do and what its handlers and children do:

* `SuhShell` (`smallsh.final.c`, and `smallsh_hong0.c`, which differs in `exit`
  only): `Exit` is `Kill_Process()` with its assignment in the place of a
  comparison, so that any process may be hit; `CatchSignal` is the SIGCHLD handler,
  which may wait for the foreground child first (`NoSuchChild` is what the shell's own
  `waitpid()` then returns); `ChildBecomesShell` is a child whose `execvp()` failed.
* `SuhDraftShell` (`CS344 project 3/smallsh.c`): what the draft does otherwise.
* `DoughertyShell`: `killBackground`, `CheckCompleted` (the poll after every line).
* `RicoShell`: `Interrupted` is where a handler without SA_RESTART leaves a system
  call; `argument` is what Rico's pointers to the words of a line point to
  once the line is gone.

### 3.3 RoomGraph and the four builders

`RoomGraph` adds two-way connections one at a time while some room lacks some.
`RoomBuilder` has the arrays of connections and the properties; `BuildRooms`
(Suh), `LuuBuildRooms`, `DoughertyBuildRooms` and `RicoBuildRooms` fill them.  An
action per draw, per direction of a connection (Luu's `ConnectRooms()` enters
both in one call) and for the test of fullness.  The programs differ in how
they find a free slot, how they tell a room from another one and when they
count.  In the refinement mapping a connection exists once both directions are
in the arrays.

### 3.4 RoomWorld and three pairs of builder and game

`RoomWorld` is the file system: room directories with modification times in seconds,
files that are empty between `fopen()` and `fclose()`, `readdir()` that returns what
was there at `opendir()` in any order, builders and games that are killed, further
games.  `LuuRooms`, `SuhRooms` and `DoughertyRooms` have the drawing of names and
types, `MakeDir`, `OpenFile`, the search for the newest directory
(`GetNewestRoomDir`, `OpenDirectory`, `getRecentDir`), the reading of the files
(`ReadRoomFromFile`, `ReadFile`, `getRoomNames` with `formRooms`) and the moves.
The graph is any of the constant `Graphs`; that it is a good one is section 3.3.
The time command only makes `currentTime.txt`, in the directory where the program
makes it.  Where a file that is no room file is read, the game is at `"undefined"`
and is not followed further.  Dougherty's `getRoomNames` first stores every name
that is listed: beside the files of all rooms that of `currentTime.txt` is an
eighth, behind the array.

### 3.5 AdventureClock and JoinedClock

`AdventureClock` is Suh's game: the main thread (`CreateThread`, `TypeName`,
`TypeTime`, `Relock`, `ReadTime`, `FindEndRoom`), the second thread (`ClockLock`,
`ClockTime`, `ClockOpen`, `ClockClose`, `ClockUnlock`), and the world: `Tick` (wall
clock), `Kill` (Ctrl-C), `PlayAgain`.  The file is absent, emptied, or holds a time.
`JoinedClock` is Luu's and Dougherty's: every time command creates a thread, joins
it and reads the file.  History variables are `asked`, `turn`, `torn`.

### 3.6 OtpPipeline

One action per program that runs: `Keygen`, `OtpEnc`, `OtpEncD`, `OtpEncPrint`,
`OtpDec`, `OtpDecD`, `OtpDecPrint`.  A character is its index in `CHAR_POOL`;
newline and any other byte have numbers of their own.  `IsLine` is what
`fgets()` and `strcspn()` leave of a file, `Accepted` what the client demands of
text and key, `EncryptChar` and `DecryptChar` compute the index with C's
remainder.

### 3.7 OtpDaemon

`daemon` says whether `otp_enc_d` or `otp_dec_d` runs; they differ in the client they
permit (`Partner`), in the cipher, and in SIGCHLD, which the second one ignores.
`Procs` are the daemon and its descendants.  Each runs `Accept`, `Permit`, then
`Refuse` or `Fork`; the child `ReadText` (twice) and `Reply`, the parent
`ParentClose`; all go back to `Accept`.  `CatchSIGCHLD` lowers the process's own
`num_children`.  A client runs `Connect`, `SendType`, `ReadPermission`,
`SendText`, `SendKey`, `ReadReply`; the `Strangers` among them may have been given
the port of the wrong daemon and are turned away.  `Crash` kills a client;
`ReplyToNobody`, `ReadFromNobody` and `Dropped` are what the other side does once a
connection is gone, with both outcomes wherever it depends on whether a reset has
arrived.  `up` and `down` are the bytes under way in each direction; a message and
its length are one step because both sides loop until everything is through.
`NextFree` gives `fork()` one free process: they differ in their names only.
`Idle` and `Starved` say where the system may rest: all clients have ended, or no
process is left to accept.

### 3.8 OtpWire and the programs with bare recv()

`OtpWire` is one client, the child that serves it, and a byte stream in each
direction, of which `recv()` takes any prefix up to the size it asks for.
`RicoOtp` sends text and key as one counted message with a star in between, which
`strtok_r()` cuts again (`Skipped`, `MessageOf`, `KeyOf`); its client takes texts
with lower case letters and white space (`Lower`) and any key.  For such a byte
`cToI()` ends without a return, and the number is any of the constant `Unreturned`;
what lies in memory before the array of `iToC()` is a choice, too, so that
`encryptText` and `decryptText` are the sets of the answers the build can give.
`Prog4Otp` each behind its length, received in loops that go wrong in two places;
`DoughertyOtp` (and Suh's `assignment4`, the same protocol with another cipher) in
parts of `Chunk` bytes without a pause, told apart by counting.  Clients of either
kind meet daemons of either kind, empty texts, and texts with a character that all
of them (`Bad`) or all but Rico's refuse.
`split` remembers that some `recv()` returned less than it asked for.

## 4. What TLC checks

| run | instance | shows |
|---|---|---|
| `smallsh_safety` | 3 PIDs, capacity 1 growing to 2, one key press | bounds of the array, the prompt only after the foreground child is reaped, live jobs listed, `Exit()` kills them all, the mode toggles after the child; the listing and the killing as long as no handler pops inside an update |
| `smallsh_fair` | 2 PIDs, one key press | the shell always comes back to its prompt or ends |
| `shells` | 3 processes, arrays of 2, 3 lines, 2 keys | of each of the four programs, which of these it keeps: prompt after the foreground child, jobs spared by Ctrl-C, ended by `exit`, one reader of the terminal, an end of the wait |
| `rooms` | 4 rooms with 2 to 3 connections | arrays, counters and symmetry; rejection loops always have a way out; every builder implements `RoomGraph` and ends |
| `room_files` | 2 directories, 3 of 4 names, the graph 1-2-3, clock up to 3, 2 games, walks up to 4 rooms | names differ, arrays hold but for Dougherty's eighth name, the game reads what was made up, its path is the walk (for Luu and Dougherty in unfinished directories too), the newest directory is chosen, finished directories are playable |
| `adventure_clock` | 2 games, clock up to 4, three programs | file never read half written but after a kill, nor before the thread has closed it; answers fresh; time commands end |
| `otp_pipeline` | buffer 5, all files of up to 4 of 4 characters, keys of 1 to 4 of 3 characters | the round trip, and that decryption refuses nothing that encryption wrote |
| `otp_daemon` | either daemon, 4 processes, 3 clients of which 1 may have the wrong port, limit 2, one killed client | nobody gets another's answer, one reader per connection, the counter stays within the limit, processes are lost only to killed clients, one each; while nobody is killed, a client that is not dropped is answered |
| `otp_streams` | parts of 5 bytes, texts of 0 to 5 letters and two with a byte that is none, keys of 1, 3 and 5, two with a star, four programs, every cut | Rico's answers come, and each letter that was made of two letters is right; the third program's are wrong only after a cut; Dougherty's and Suh's processes wait for each other only if the text has taken bytes of the key |
| `smallsh_status`, `smallsh_exit_code`, `otp_streams_key` | the instances above | a comment of the source that the code does not keep (section 6) |

### Bounds, and why they are enough

* `Pids`, `InitCap`, `MaxCap` (Smallsh).  Three children at once are one being
  pushed, one being popped by the handler and one more that is swapped into the
  hole; capacity 1 that may double once exercises both forms of `realloc()`.
  `RoomToGrow` keeps the user from starting a background job that would need a
  larger block.  PIDs are reused as soon as they are reaped, so that stale
  entries meet new processes.
* `MaxKeys` (Smallsh).  One key press at any moment, in front of every step of
  every command; `smallsh_safety` does not need two because a second Ctrl-Z only
  toggles back.
* `Procs`, `MaxJobs`, `MaxLines`, `MaxKeys` (ShellWorld).  A shell with one
  foreground and one background child, or two background children; three lines are
  enough to start both and to exit, two keys to enter and leave the mode, or to
  end the foreground child in the other mode.
* `Rooms`, `MinOutbound`, `MaxOutbound` (the builders).  Four rooms with at least
  2 and at most 3 connections keep the relation `MaxOutbound = |Rooms| - 1` that
  the loops rely on, and reach a full room next to rooms that lack connections.
  The theorems cover the 7, 3 and 6 of the code.
* `Dirs`, `MaxTime`, `MaxGames` (RoomWorld).  An old directory that may have been
  played in, and one whose builder runs, ends, or is killed before, while and after
  the game looks for it; two games are what one leaves for the next.
* `NUM_ROOMS`, `ROOM_NAMES`, `Graphs`, `MaxSteps`.  Three rooms have one of each type;
  one name is left over; in the graph 1-2-3 a room is named by two others, before
  and after its own file is read, in every order of the files; walks of four
  rooms go back and make Luu's array grow.  The theorems cover the 7 and 10 of the
  code, and any of its graphs.
* `MaxTime`, `MaxSessions` (AdventureClock).  Two games are what a file needs to
  be left by one and found by the other; four ticks put one between any two of
  the steps that matter.  The theorems hold for any number of both.
* `MAX_BUFFER_SIZE`, `TextFiles`, `KeyLengths`, `Pool` (OtpPipeline).  With 5 a
  line of 4 is cut, and one of 3 just fits, as for 100000.  Pool and text have
  characters whose sums wrap and sums that do not.
* `Procs`, `Clients`, `MAX_CHILDREN`, `MaxCrashes` (OtpDaemon).  With the root
  and three descendants `fork()` also finds none left; a limit of 2 is reached by a
  grandchild; one killed client shows everything that a lost peer causes.  There
  are never more clients than places in the accept queue, so the queue has no
  limit.  The theorems hold for any number of all four.
* `Texts`, `Keys`, `Chunk` (OtpWire).  A text and its newline that fit into one part,
  that fill it, and that need a second one; keys shorter than the text; texts with a
  byte that all programs refuse or that Rico's accepts, at the end; keys with a star
  inside and at the start.
* `Unreturned` (OtpWire).  A number above the letters' and a negative one: the sum
  wraps or not, and the remainder of C is negative or not.  The theorem is about any
  set of integers.

The PIDs of `smallsh_safety` are a symmetry set: only invariants and an action
property are checked there.  No run with a liveness property uses symmetry.

`CHECK_DEADLOCK` stays on where the programs go on for ever or there is an explicit
stuttering action (`Terminated`, `Done`, `Idle`, `Starved`, `NoMoreGames`) whose
guard says when they may rest.  In `room_files`, `shells`, `otp_streams` and
`otp_streams_key` all processes end, or the bounds of the user are used up, and
deadlock is not checked.

### Fairness, and what justifies it

* Smallsh: weak fairness of the main loop, of a running handler, of the delivery
  of pending signals, and of each child's `execvp()` and end.  The first three
  are the scheduler and the kernel.  That commands end is an assumption about
  the user's commands: without it a shell waits for ever, and rightly.  Nothing is
  asked of the user.
* The other shells: weak fairness of the final shell's steps, of its children's
  `execvp()`, and of the end of a command, as above.
* The builders: strong fairness of each draw.  A sequence of `rand() % 7` that
  never yields some number has probability 0.
* The clocks: weak fairness of all threads, and in Suh's game strong fairness of
  `Relock`: the mutex is free for 300 microseconds in every round of
  `get_time()`, and a thread that waits for it is woken in one of them.
* OtpDaemon: weak fairness of each process and each client.  Which of several
  processes in `accept()` gets a connection is left to the kernel.
* OtpWire: weak fairness of Rico's client and of the child that serves it.

Each property has a mutant in `PROJECT.json`: a change of one definition, as a
plausible mistake in the code would make it, under which TLC finds the property
violated.  The mutated operators stand next to the originals.

## 5. What is proved

The theorems hold for every value of the constants that the modules' `ASSUME`s allow
(sets of PIDs, processes and clients of any size; `MaxOutbound` must be one less
than the number of rooms; a buffer has more than two bytes; the files of the
bare-`recv()` programs are any strings of letters and of characters that are none,
and `Unreturned` is any set of integers but the empty one).  The theorems about a
family are about its TLC instance with the constants left open, that is about every
program of it.

**SmallshProofs.**  `TypeCorrect`: `TypeInv` adds to `TypeOK` that `spawnpid` is
a PID from `fork()` to the end of the iteration.  `ArrayBounds`: `BoundsInv` adds
to it what each label of the push knows about size, capacity and the loaded
index; a pop in between makes the size smaller, so the index stays inside the
block, and the lemma `PopBounds` says so.  `PromptReaped`: `ForegroundInv` says
that a process taken for the foreground is the one in `spawnpid`, and only while
the loop is at the labels that wait for it.  `TogglesAfterReaping` follows from the
types and the handler's `waitpid()`.  `JobsListed`: `ListedInv` relates, label by
label, where the PID is on its way into the array; every case of the handler's
pop either keeps the other PIDs (`PopKeeps`) or sets `raced`.  `ExitKillsAll`:
`ExitInv` says of each label of `Exit()` where the jobs still are: in the array's
first `size` slots, at the loaded index, or killed; `RoleInv` that a running
process is one of the two kinds as soon as the parent has decided.

**ShellsProofs.**  One invariant for the four shells.  `PlaceInv` says which kind of
process may be where, `ChildlessInv` that only shells have children,
`ForegroundInv` that a shell which waits, or has waited, for its child either still
has it or the SIGCHLD handler took it; with process numbers that are used again
this is what `ForegroundReaped` takes.  `InterruptInv` follows a background job from
`fork()` over its own `sigaction()` to `exec()`, which keeps what is ignored;
`JobsInv` says that Dougherty's array holds at least the jobs that run, whatever
stale numbers are with them.  They give `JobsSpared`, `ExitKillsJobs` and, with the
places, `OnlyShellReads`.  `DataInv` adds the arrays, statuses and flags, which each
program keeps in its own way, for `TypeCorrect`.

**BuildRoomsProofs** (all four builders).  One invariant `IInv`: the used slots of a
room are the first `num[x]` (`RowInv`), what the labels know of the two rooms
(`PickInv`), symmetry but for the connection under way (`AlmostBothWays`), and
`CountsNeighbours`.  The steps of the four programs are grouped into the few things
that they do to the arrays (`BuilderStep`).  From it `TypeCorrect`, `CountersCount`,
`ConnectionsBothWays` and `LoopsCanEnd`.  The last one counts: if the room
picked first, which is not full, found every other room full or connected to it
already, then a full room would be connected to all others, by symmetry each room
would be a neighbour of the first, and that room would be full after all.  This
is where `MaxOutbound = Cardinality(Rooms) - 1` is needed.  `BuildsRoomGraph` is the
refinement: initial states map to initial states, and each step to a step of
`RoomGraph` (the second half of a connection) or to a stutter.

**OtpPipelineProofs.**  `IInv` carries the text and the key that `otp_enc`
accepted through the later stages (`LaterInv`); lemmas about one character and one
line give `TypeCorrect`, `DecryptionAccepted` and `RoundTrip`, whose statements are
free of bounds on files, keys and buffers.

**OtpDaemonProofs.**  Three layers.  `TypeInv` adds to `TypeOK` which places of a
process go with a connection (`DaemonInv`) and gives `TypeCorrect`, with the bound of
`num_children`.  `ReaderInv` says that a connection waits in the accept queue once,
or is held by processes of which all but one are about to close it (`HolderInv`,
`QueueInv`, `NewInv`); `OneReaderOnly` follows.  With one reader, what it has read
and where the client is determine what is under way between them: `StreamInv` says
so for each place of the process (`Unserved`, `Permitted`, `HalfRead`, `AllRead`)
and of the client (`AnsweredOK`), and a step that does not use a connection leaves
its stream alone (`OtherStream`).  `AnswersAreOwn` follows.  `LossInv` counts the
processes lost together with the killed clients that may yet cost one: a process
is lost only to a client that the stream invariant knows to be killed, and that
one is then read by nobody else; hence `LossesCounted`.

**OtpStreamsProofs** (the programs with bare `recv()`).  The argument is one of
conservation: what one side has received, followed by what is under way, is what
the other has sent so far.  For Rico's programs that is an equation between
strings, whatever the cuts (`RicoInv`), so that the daemon cuts the string that the
client made: `TokensOfTheString` says that its tokens are text and key where the
text is not empty and the key begins with no star (`Tokens`), `Encrypted` and
`Decrypted` what may come out for a place where both have a letter, and for the
others only that they keep to their place or end the answer (`RightFor`); for the
third program the strings are whole as long as `split` is
FALSE (`Prog4Inv`); for Dougherty's and Suh's it is an equation between numbers of
bytes (`DoughertyInv`): a file is sent as more bytes than its text is long, so that
a loop which still waits, with nothing under way and nothing to come, must have
counted bytes of the other file, as `taken` shows.  `RicoPrintsTheAnswer`,
`Prog4PrintsTheAnswer` and `NoWaitWithoutOverread` follow.

**AdventureClockProofs.**  For Suh's game `MutexInv` (who holds the mutex where),
`FileInv` (an emptied file is being filled, or a kill left it) and `FreshInv` (the
file is no older than the question once written) make up `IInv`; `FileLeftWhole`
follows.  For Luu's and Dougherty's, `JoinedInv` says where the thread can be while
the game is where it is.  `AllTypesCorrect`, `NoneReadsHalf`, `AllAnswersAreFresh` and
`JoinedReadsAfterWrite` are about all three.

**RoomsProofs** (the three builders with their games).  The loops of these programs
are recursive functions of the model: the draws that shuffle an array, the lines of
a file, the rounds over the connections of a room.  Two lemmas take the place of
induction over data: `Induction` goes up to a number with a set where a predicate
would be, from the least element that a set of numbers has, and `Rounds` builds the
function that a loop of steps in a set of states makes, by which the recursive
definition is known to have a value.  With them `ShufflePermutes` and `DrawsDiffer`
say of `rand()`'s every result that the names differ, which is all that
`MadeRoomsDiffer` needs besides `GoodRooms` of the invariant.

The invariant has layers.  `DiskInv` says what is in the directories: the files of
the rooms closed so far hold those rooms, the others are empty, and nothing else is
there but perhaps `currentTime.txt`.  `PlaceInv` and `SearchInv` say where the game
is and that no directory it has looked at is younger than the one it remembers,
other than those changed since, hence `NewestChosen`.  `FinishedInv` follows the
directory that was finished when it was opened.  `ReadInv` says what has been read
so far: the rooms have different names of the builder's; in Suh's game each is as it
was built (`SuhRead`); in Luu's a room may be known by nothing but its name until
its own file comes (`LuuRead`, `Fresh`); in Dougherty's all names are there first
and are filled in one by one (`DoughertyRead`).  One file is one step of this:
`SuhFile`, `LuuFile` with its induction over the lines (`OneLink`, `AllLinks`),
`DoughertyFile` with `DoughertyLinks`.  Names that differ and are all taken from
`NUM_ROOMS` ones can be no more than that (`RoomsFit`, counting), which is why Suh's
and Luu's arrays hold even for directories that were left unfinished (Suh's game up
to the first empty file); for Dougherty's the same counting gives exactly one name
behind the array (`NamesCount`, `DoughertyCounts`), and that only beside the time
file: `GamesArraysHold`, with `CapacityInv` for Luu's path.  When all files are
read, the same names are all there (`ReadingDone`), and exactly one room is the
START_ROOM (`StartThere`), which gives `GameRoomsAsBuilt` and, with `UndefinedInv`,
`FinishedPlayable`.  `TimeFileInv` says that Dougherty's time file is in no
directory whose other names are not all there: the game counts entries, and seven of
them could else be six rooms and the time.

`WalkInv` says that the path is a walk, and `CurrentInv` that the player is in a room
as long as the game is played; a move adds a neighbour (`WalkOn`).  No more than one
START_ROOM is ever read, whatever is missing in the directory (`StartsOnce`), and
Luu's and Dougherty's connections are positions in the array, so that their paths are
walks in unfinished directories too.  In Suh's game the name
must be found once among the connections and once among the rooms (`OneWay`); in
Dougherty's one name may move the player more than once, and each round of the loop
keeps the walk (`TryKeeps`, `TryEnds`): `PathsAreWalks`.  With `BoundInv` for the
clock and the games, the same invariants give `TypeCorrect`.

The theorems assume of the constants that the names in `ROOM_NAMES` differ and none is
that of the time file, as in the arrays of the code, and that `Graphs` are arrays of
different room numbers, which is what `CountsNeighbours` proves of the builders'
loops.  Neither symmetry nor the number of connections is needed.

**Model-checked only.**  Liveness and everything with fairness
(`ReturnsToPrompt`, `WaitEnds`, `Terminates`, `EveryClientAnswered`, `RicoAnswers`,
`TimeCommandEnds`), since the proof system covers neither liveness under fairness
nor ENABLED; of the refinement `ImplementsRoomGraph` the fairness, the rest being
`BuildsRoomGraph`.  Every invariant and action property of the passing runs is also a
theorem.

## 6. Where the code does not do what it says

Three runs state what a comment says, and TLC finds it violated.

* `smallsh_status`: `program3_smallsh/main.c:38`, "exit status of the latest
  foreground child".  `CatchSIGCHLD` may reap that child before the main loop
  waits for it and keeps the status to itself; `status` then reports an earlier
  child.
* `smallsh_exit_code`: `program3_smallsh/main.c:150`, "exit with code 0".  If the
  handler pops the last job after `PopBackDynPidArr` has tested the size, the pop
  reads the slot before the array, takes it for a PID, and the shell kills its own
  process group.
* `otp_streams_key`: `OSU-CS344_Prog4-master/otp_enc_d.c:128`, a loop "to avoid
  network interruptions causing a truncated message".  It passes the start of the
  buffer to every `recv()`, so that the second part of a key is written over the
  first.

Other places where the code does something its author hardly meant are part of the
models, and the properties are stated around them:

* `program3_smallsh/main.c:77`, `:82`: two children that end together send one
  SIGCHLD, and the handler calls `waitpid()` once; the other stays a zombie until
  the next child ends.  A pop inside a push or a pop may lose an entry;
  `LiveJobsListed` and `ExitKillsUnlessRaced` speak of runs without one (`raced`).
* `program4_otp/otp_enc_d.c:149`: "if maximum connections have been reached, don't
  create any child", but only the child counts itself, in its own copy.
* `program4_otp/otp_dec_d.c`: the handler of SIGCHLD is never installed.
* `suhho.adventure.c:151`: the first time command may find no file.  `:61`:
  `get_directory()` compares a mode with a time, so that it does not find the
  newest directory (`NewestDirChosen` speaks of the two other games).
* `smallsh.final.c:102`: `Kill_Process()` assigns where it means to compare, and
  `kill()` gets an uninitialised pid (`ExitTermsJobs` speaks of Dougherty's shell).
  `:259`: a child whose `execvp()` failed goes on reading lines (`OneReader` speaks
  of the three others).
* `CS344- ans1/pg3/smallsh.c:206`: a key ends the wait for a foreground process
  (`PromptMeansReaped` and `CtrlCSparesJobs` speak of the three others).
* `dougherm.adventure.c:147`: a game that was played before has left
  `currentTime.txt` in the room directory, and the next one stores its name, the
  eighth, behind the array of seven rooms, against its comment "the name is copied
  to the rooms array" (`:124`).  `ArraysHold` states when that happens, which
  `room_files` reaches; `FinishedIsPlayable` speaks of the two other games.
* `dougherm.buildrooms.c:57`: `isChosen` has seven elements and is indexed with
  `rand() % 9`.  The model takes it for an array of nine: a word behind it that
  happens to hold a 1 only leaves fewer draws, but what the 1 written there
  does to other variables is not modelled.
* `suhho.adventure.c:251`: from an empty file `fscanf()` reads nothing and the room
  gets what the buffers held before; the model ends at `"undefined"` there
  (`PathIsWalk` and `RoomsAsBuilt` speak of finished directories).
* `CS344- ans1/otp/otp_enc.c:76`, `otp_dec.c:76`: `isalpha()` and `isspace()` take
  lower case letters and tabs, and nothing looks at the key; `cToI()`
  (`otp_enc_d.c:311`) writes a message for such a byte and ends without a
  return, and `strtok_r()` takes a star in the key, or an empty text, for a
  separator.  `numBytes` is read uninitialised when the connection was closed.
  `RicoAnswerRight` speaks of the places where text and key have letters.
* `OSU-CS344_Prog4-master/otp_enc_d.c`: text and key are stored without room for
  a NUL.  What is behind them makes the answer longer than the client asks for
  and no letter of it different, so that it is left out.
* `Assignment_4/otp_dec_d.c`, `assignment4/otp_dec_d.c`: the buffer is not cleared
  between the length and the text, as it is in `otp_enc_d.c` (`DoughertyLength`).
* `OSU-CS344_Prog4-master/otp_enc.c:168`, `assignment4/otp_enc_d.c:102` and
  Dougherty's `otp_enc_d.c`: an answer, a text or a key that arrives otherwise than
  in the parts it was sent in (`Prog4WrongOnlyIfSplit`, `WaitOnlyAfterOverread`).

## 7. What is not modelled, and why

* The parser of `program3_smallsh` (`parser.c`) and of the other shells: string
  functions without state between lines; the models take what they decide as an
  input.  A line of spaces, of which `parser.c:86` uses a word that was never read,
  is no input of theirs.
* Rico's adventure and the files of Rico's builder: a fourth pair of the same kind.
* The keygens but `program4_otp`'s, the limit of five children of Rico's daemon.
* `backup_assignment4` (nearly Dougherty's code) and `program4_backup`
  (unfinished: its `otp_enc.c` does not compile).  `suhho/smallsh.c` is
  `CS344 project 3/smallsh.c`, and `smallsh_hong.c` the same program but for
  comments: they have no module of their own.
* `matrix` (bash arithmetic, sequential, no state between calls), lecture
  examples, random-word scripts, grading scripts, PDFs and data.
* Everywhere: formatting, printing and prompts; failures of `malloc()`, `socket()`,
  `bind()` and `listen()`; wrong command-line arguments and files that cannot be
  opened (the programs print a message and exit); stdio's own locks inside
  handlers; the sizes of fixed buffers for text (`fscanf()` into ten bytes,
  `game_route[500]`).
