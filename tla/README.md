# Multiplayer-Quiz in TLA+

Models, model-checking runs and proofs for the quiz of this repository: a GTK
client in C with four kinds of threads, a loader that reads question catalogs
into shared memory, and the echo server that stands where the quiz server is
meant to grow. The source is the reference; line numbers below are those of
`src/`.

## The system

| component | state | operations | interacts through |
|---|---|---|---|
| **Client**: `client/main.c`, `client/common/*`, `client/gui/gui_interface.c` | two semaphores, `gui_runs`, `closeSocketOnEndGame`, the listener's locals (`net_head`, `phase`, `ca_rp_counter`, `qu_re`, `er_wa`), the socket | main: login, catalog request, first question request; listener: one case per message; change thread: sleep, question request; callbacks: select, start, answer, close | the socket (shared by all threads), the semaphores, the GDK lock |
| **GUI library** (`libquizgui*.a`, no source) | windows, mode, catalogs, selection, buttons, modal dialogs, GDK lock | the functions of `gui_interface.h` | called by listener and error paths, calls the callbacks |
| **Quiz server** (not in the repository) | phase, open question, leader | answers the requests, sends time-outs, lists, warnings | the socket |
| **Loader**: `loader/*.c`, `common/util.c: readLine` | command line under way, question stack, arrays being mixed, directory handles | BROWSE, LOAD | standard input and output, POSIX shared memory |
| **Catalog parser**: `loader/parser.c` | line number, question under way, stack | `parseQuestion`, `parseCatalog`, stack | file; called by load |
| **Echo server**: `server/main.c`, server part of `common/socket.c` | sockets, one static buffer, one thread per connection | bind, select, accept, echo | sockets |
| diagnostics, command lines, `message.c`, `*_old.c`, the client copy in `socket.c` (15-450) | - | printing; not built | - |

What is hard here: four kinds of client threads that meet only at two
semaphores, of which one (`semaphore_socket`) is both a start signal and the
place where every thread goes to wait after an error; a round of the game that
five parties carry on in turn (main, the requests, the server and its clock, the
listener, the change threads) with nothing that says whose turn it is; a header
that survives a failed read; reads that may come up short; a GUI lock that is
taken or not depending on the calling thread; writes of two parts on a socket
without a lock; the limit of ten catalogs; a line number that is counted in four
places; a loader whose every system call can fail after shared memory was
created, and which can die in between; a static buffer shared by threads. What
each component must get right is listed property by property below; the hazards
are in `PROJECT.json`, each at its line.

## Modules

| module | what it is |
|---|---|
| `Client` | the client's threads, callbacks, semaphores and socket, with GUI library, player and server as environment |
| `QuestionRound` | abstract: what the questions of a game promise the player |
| `ClientRound` | the client implements `QuestionRound` |
| `ClientClaims` | two statements of the client's comments that its code does not keep |
| `ClientProofs` | type correctness and "no GUI before guiInit" |
| `ClientRoundProofs` | one question at a time, main stays blocked, and the refinement of `QuestionRound` |
| `ClientAnswerProofs` | every answer belongs to the question the player saw |
| `ClientPrepareProofs` | the time up to the first question: messages in two parts stay whole, the selection arrives, the window lists every catalog |
| `Framing`, `MCFraming` | how the listener cuts the byte stream into messages and fields, read call by read call |
| `FramingProofs` | types, and what short reads can and cannot do |
| `Loader` | commands, browse, load, mixing, shared memory, death and restart, with the server as environment |
| `QuizStore` | abstract: what the loader is to the server, a store for at most one quiz |
| `LoaderStore` | the loader implements `QuizStore` |
| `LoaderClaims` | one statement of a comment that the code does not keep |
| `LoaderProofs` | type correctness, completeness of an announced quiz, a published quiz is left alone, nothing left behind by a LOAD, one answer for each command, and the refinement of `QuizStore` |
| `CatalogParser` | `parseQuestion` and `parseCatalog`, line by line, and the language of catalogs told without them |
| `CatalogLoad`, `MCCatalogLoad` | the parser in its place inside `Loader`'s LOAD; the lines of the run |
| `CatalogClaims` | one statement of a comment that the code does not keep |
| `CatalogProofs` | types, line numbers, all or nothing, nothing but catalogs accepted, refused at the first fault, the parser inside `Loader` |
| `EchoServer` | binding, the accept loop, connection threads and their shared buffer |
| `EchoClaims` | one statement of a comment that the code does not keep |
| `EchoProofs` | types, bound sockets, and what the threads can do to each other through the buffer |

Client, loader and echo server do not run in one process, and no program of the
repository starts the loader or serves the client. They are therefore separate
specifications, each with its environment. Where components do meet, the
modules compose: `CatalogLoad` puts the parser into `Loader`, and `Framing`
says when `Client` may take a message as a whole.

Definitions with the comment *mutant* are not used by any specification: they
are plausible mistakes, each of which makes a property fail when it replaces the
definition below it.

### Client

`pc[t]` is the place of main, listener and GUI thread; the change threads are
alike and only counted (`threads`: sleeping, about to show an error, waiting
for ever). A step is the code between two points where another thread can be
noticed: a socket call, a semaphore, a GUI call.

* **main** (`MainNext`): `Connect`, `CreateListener`, `SendLogin`, `WaitLogin`,
  `CreateGui`, `SendCatalogRequest`, `WaitStart`, `SendQuestionRequest`,
  `WaitEnd` are `main.c:113-192` in order.
* **listener**: `CallRead`/`ReadType`/`ReadSize` are lines 77-80, `Receive*` the
  reads of a case (the case of the login reads whatever size it was told, the others
  nothing if the size is 0), `Show*`, `SetMode`, `EnableButtons`, `HideGame` its GUI
  calls, `PostMain`, `WaitGui`, `SpawnQuestionThread`, `ReadRank`, `Severity`
  the rest. `CallRead` is apart from `ReadType` because `close` by another
  thread does not wake a `read` that has begun. A failed read leaves `hdr` as it
  was, as in the code, so the last case runs again; `stale` says which of
  `qu_re` and `er_wa` hold something.
* **errors**: `TestErrors` is `test_socketOnErrors`: ignored after a closed
  window, a dialog and a wait when the GUI runs, `close_process` otherwise.
* **GUI thread**: `GuiInit`, `GuiPost`, `GuiSetRuns`, then the main loop with the
  callbacks (`OnCatalogChanged`, `OnStartClicked`, `OnAnswerClicked`,
  `OnWindowClosed`) and `DismissDialog`, then `GuiDestroy`, `GuiExit`.
* **lock**: a GUI call needs `gdkLock = "free"`; a callback that writes holds it
  until `Unlock`. The GUI thread's own dialogs do not take it.
* **server**: `Server*`. It answers in order, and `Events` allows refused
  connections, failing `pthread_create`, unasked lists and warnings, fatal
  messages and a closed connection.

Semaphores start at their zero-initialised value: `init_semaphore` gets a copy
(`client_util.c:25`), and the globals are zero by C's rules.

**The round.** `QuestionRound` knows only how many questions were opened and
whether the game is before its start, asking, open, closing, over, or left by
the player. `ClientRound` reads that off the threads, the queues and the server:
somebody is about to ask or has asked (`Asking`), a question is open at the
server, a result is on its way (`Closing`). `ImplementsRound` says that no
thread, clock or fault makes a question be asked for twice, opened over another,
or closed unopened, and that the game does not start twice.

### Framing

A byte is its place in the stream; segments end anywhere (`Arrive`). `Read` is
one call of `read`: it takes what is there, up to the length it asks for, and
there is no loop around it. `ReadsOf` gives the places in the payload where the
reads of a case end, for a message the server and the client agree on, and `done`
counts those that are behind (`Goes`: the loop of a case ends with its last read). `Client` takes a message in three
reads; `Framing` shows when that is right: the listener loses its place exactly
if a read of more than one byte was cut (`LostByShortReads`), which can happen
to headers, player lists and questions only (`OneByteFieldsSurvive`).

### Loader

`pc` is the place in `processCommands`, `browse`, `parseCatalog` or
`moveToShmem`; one action per system call or loop round, each with its error
path. `ParseQuestion`/`ParseFails`/`ParseEnd` choose what the file holds. A
question is its place in the file with its right answer, answer `a` has the
text `a + 1`; that is all that mixing can get wrong. `mix` is one exchange per
step with every pair of random indices. The server sends commands, closes pipes,
unlinks the shared memory when it has no LOAD under way (`load.c:138`: the
server must delete it before it asks for a new quiz) and starts a new loader
after the old one died. `parsed` and `published` are history: what the file
held, and the file of the last `LOADED` until the unlink.

**The store.** To the server the loader is `QuizStore`: commands are answered in
order, a LOAD that succeeds makes a whole file the quiz in one step, and the quiz
stays until the server takes it, through deaths and restarts. In `LoaderStore`
the quiz is read out of the shared memory question by question, wherever `mix`
put it, by the text of the answer marked right; `Pending` is the pipe with the
command under way in front.

### CatalogParser

One action per `fgets` and what the code does with the line. A line is what the
parser tells apart: its beginning, which of the two buffers it fits into, and
the number behind `TIMEOUT:`. The file is not fixed in advance: each `fgets`
may meet any line, the end of the file (with or without an unfinished line,
`tail`) or a read error. The language is stated apart from the parser: `BlockIn`
says which lines are a question, `Catalog` which files consist of questions and
blank lines, `Viable` which beginnings can still become one. `CatalogLoad` maps
the parser's state to `Loader`'s (`ParsesForLoad`): the choice `Loader` makes
between a question, an error and the end is one the parser can make, and
the parser makes no other.

### EchoServer

main binds one socket per address, then select and accept alternate; each
connection has a thread that reads, copies in and out of the one static buffer
byte by byte, and closes. A write may stop short after any byte, which ends the
thread (`WriteFails`), and a failing `malloc`, whose result is not tested
(`socket.c:648`), ends the server (`AcceptCrashes`). A connection for which
`pthread_create` fails is `leaked`: open, and read by nobody. If no socket could be bound, or select fails, main
spins for ever (`server/main.c:59`). `met` is history: the connections whose
thread was alive at some time together with one's own.

## Runs

| run | module, constants | checks | result |
|---|---|---|---|
| ClientPlay | `Client`; 1 catalog, 2 questions, the player may close any window, no faults, fair | `LoginLeadsToMode`, `GameIsPlayed`, `GameEnds` | a game gets from login to rank; the process ends then and whenever a window is closed |
| ClientPrepare | `Client`; 3 catalogs, limit 2, unasked lists, closed connection, echo to the leader | `SelectionReported`, `PreparationShowsAll` | the server always learns which catalog is selected; the window opens with the catalogs up to the limit, also when lists of players reset the count |
| ClientFaults | `ClientRound`; 2 questions, all faults but unasked lists | `TypeOK`, `NoGuiBeforeInit`, `OneRoundAtATime`, `AnswerForShownQuestion`, `FramesIntact`, `MainStaysBlocked`, `ImplementsRound` | the threads' meeting points and the round hold under every fault |
| Framing | `MCFraming`; 3 messages of every kind, fields of one or two bytes, fair | `TypeOK`, `ReadsWholeMessage`, `StaysInMessage`, `LostByShortReads`, `OneByteFieldsSurvive`, `MessagesTaken` | what short reads can and cannot do |
| Loader | `LoaderStore`; 2 commands, 2 questions of 2 answers, 1 handle, 1 death, all faults, fair | `TypeOK`, `QuizReady`, `NoOrphan`, `OneAnswerEach`, `StackDrained`, `PublishedFixed`, `CommandsAnswered`, `ImplementsStore` | the loader is a quiz store and answers every command |
| CatalogLoad | `MCCatalogLoad`; files of up to 7 lines of 12 kinds, all faults | `TypeOK`, `AcceptsCatalog`, `RejectsFirstFault`, `BlamesLine`, `AllOrNothing`, `ParsesForLoad` | exactly the catalogs are accepted, the first fault is reported at its line |
| Echo | `EchoServer`; 2 clients, 2 addresses, buffer of 2, all faults, fair | `TypeOK`, `SocketsValid`, `OnlyMetData`, `EchoesData`, `ConnectionServed`, `ThreadEnds` | a connection alone is echoed exactly, two mix with each other only; a connection gets its thread unless `pthread_create` fails for it, and a thread ends |

What the properties say:

* `OneRoundAtATime`: main's first request, the change threads and the server's
  open question pass one token on; until a window is closed there is never a
  second. `ImplementsRound` adds the order.
* `AnswerForShownQuestion`: no answer overtakes the question it was given to. It
  depends on disabling the buttons before the change thread is started.
* `FramesIntact`: the two writes of a callback stay together, because of the
  GDK lock and because main and the change threads write only in other phases.
* `MainStaysBlocked`, `PreparationShowsAll`, `SelectionReported`: see the
  comments in `Client`.
* `QuizReady`: an announced quiz holds every question once, with all its answers
  and the right one marked, until the server unlinks it.
* `NoOrphan`: only a loader that died leaves shared memory nobody announced.
* `OneAnswerEach`: replies and commands match one to one, in order.
* `AcceptsCatalog`, `RejectsFirstFault`: together the parser accepts the language
  and stops at the first line that leaves it, no earlier.
* `OnlyMetData`, `EchoesData`: what the shared buffer can do. A client gets its
  own bytes and those of connections alive together with its own, never what an
  earlier one left; a connection that met no other gets its bytes exactly.
* `ConnectionServed`: no connection waits in a backlog for ever. Its three
  exceptions are named in it: `pthread_create` failed for this connection
  (`leaked`), the accept loop has returned (`spin`), the process has ended.

### Bounds, and why they are enough

The client treats the catalogs below the limit alike and the ones beyond alike,
so `MaxCatalogs` 2 instead of 10 keeps all branches: ClientPlay has fewer than
the limit, ClientPrepare and ClaimOverflow pass through the limit to one beyond. Two
questions show one change thread between questions and the end after the last
one; the theorems of `ClientRoundProofs` hold for any number. `MaxOutbox` bounds
only what the player clicks and `MaxInbox` only what the server sends unasked or
echoes; replies are never refused. `SemLimit` 2 stands for `SEM_VALUE_MAX`: no
correct behaviour needs more than one. `MaxQuestionThreads` 2 admits one thread
too many. In `Framing` the widths only have to make a field longer than a byte
and different from its neighbours; three messages let a cut in the first and in
the second be noticed by the next header. In the loader two commands are a LOAD on
top of another's result; two questions and two answers suffice for an exchange to
go wrong, and `LoadedIsComplete` is proved for any number; one handle lets the
next BROWSE fail. With two answers to a question seven lines hold two questions
with a timeout or a blank line between, so that every status appears in a second
question too; the timeouts are those around both ends of the range. In the echo server two
connections suffice to overwrite the buffer and two addresses to have one fail.

### Deadlock

Checked, except where the program really stops: in ClientPrepare, ClientFaults
and ClaimFatal (a callback whose write fails waits in the GUI thread for ever,
see *Findings*), and in the echo server (its process may be gone, and
`while(1){}` does nothing). In the other runs an ended process, a stopped loader
and a parse that has returned stutter explicitly.

### Fairness

`FairSpec` of Client: weak fairness for main, the listener's reads, the start of
the GUI thread, the change threads' writes and the server's answers - the system
schedules every thread and a correct server answers - and strong fairness for
what competes for the GDK lock (`ListenerShows`, `GuiEnds`, `Errors`,
`QuestionThreadFails`, `UserConfirms`), a mutex that does not starve a waiter for
ever. The player is assumed to press OK in a dialog, nothing else. Framing: weak
fairness of the listener and of the network, which delivers what was sent.
Loader: weak fairness of the one process. EchoServer: weak fairness of main and
of each thread, not of their failures, and strong fairness of an accept that
succeeds: a system that is out of descriptors recovers.

## Findings

Runs named `Claim...` check one statement each that a comment makes and TLC
refutes:

| run | comment | what happens |
|---|---|---|
| ClaimOverflow | `li_qu_thread.c:149` show the window | the unread name is taken for a header; the client exits (:434) |
| ClaimFatal | `li_qu_thread.c:415` until the process gets closed | a callback writing to the closed socket blocks the GUI thread |
| ClaimLastQuestion | `parser.h:23` too few answers for the last question | a last question line without a line break is dropped and the file accepted |
| ClaimBrowse | `browse.c:42` lists the directory | no `closedir`: after enough BROWSEs only the blank line |
| ClaimEcho | `socket.c:467` copies all data | the static buffer mixes connections |

Seen while modelling, without a run of their own:

* a player list between two catalogs resets the count (`li_qu_thread.c:180`), so
  more than ten can be listed, against the comment at :59;
* the empty response after exactly ten catalogs raises the message about more
  than ten (:133-146);
* the comment at :354 waits for the change thread, but the wait is commented
  out; a stale QUESTION_RESULT after a closed window starts one after the other;
* after a window was closed during START_GAME the stale case posts
  `semaphore_main` until main passes its last wait and returns;
* a server that echoes CATALOG_CHANGE to the leader can make the selection go
  back and forth, and the listener, which writes then, can tear another frame;
* the callback inside `preparation_selectCatalog` whose write fails waits for the
  GDK lock its own thread holds;
* `guiDestroy` frees windows the listener may still use, which aborts the process
  that is ending anyway;
* a stale warning after a closed window opens dialogs without end: ClientPlay
  therefore runs without warnings;
* a CATALOG_CHANGE that comes before its catalog is dropped;
* the name of a START_GAME and the text of a warning get as many bytes as they
  have characters, and the terminating zero goes behind them (:240, :390);
* `client_socket.c:25-31` says that a failed connection leaves -1 in `sock`; it
  leaves the last descriptor, so the client goes on (event "refuse");
* `parser.c:248` says a timeout may stand in the first line after the question;
  any number of timeout lines is accepted, and the last one counts;
* a last answer line without a line break is reported as too long.

## Proofs

Checked by TLAPS; nothing is assumed but the named assumption on the constants
of each module, which TLC evaluates in every run. Every theorem holds for all
values of the constants that the assumption admits, so also for the code's
sizes. The inductive invariants were checked with TLC before they were proved, on
the runs' constants (`AcceptInv` with its sequence of blocks drawn from the
blocks of the file, and fewer kinds of lines; `PrepInv` on four sizes of the
preparation, up to seven million states). `RejectInv` is the exception: it speaks
of every catalog that begins with the file, which TLC cannot enumerate.

* **ClientProofs.** `Typing`: `Spec => []TypeOK`; inductive, one lemma per group of
  actions, the helpers (`TestErrors`, `Write`, `Read`, ...) once each.
  `GuiBeforeUse`: `Spec => []NoGuiBeforeInit`. The property is not inductive: that
  the listener cannot be in a GUI call follows from what the server has sent.
  `GuiInv` (lemma `StartHolds`) adds to `TypeOK`: until main has sent the login the
  server is silent (`BeforeLogin`); until it answers, nothing can be read
  (`BeforeReply`); and without windows the listener is before its first message,
  which is the login's answer or a refusal, or inside that case waiting for a
  semaphore that is still 0 (`BeforeGui`, `ListenerBeforeGui`).
* **ClientRoundProofs.** `OneRound` (`OneRoundAtATime`), `MainBlocked`
  (`MainStaysBlocked`) and `ClientIsRound` (`ImplementsRound`). `RoundInv` has two
  parts. `PlaceInv`: where the threads can be, in particular that
  `semaphore_socket` is posted once, for the listener, so that a thread in an
  error check never comes back. `TokenInv`: three tokens, the right to post
  `semaphore_main` for the login, the right to post it for the game, and the
  round; each is in one place at a time (a queue, the listener at a place with a
  certain header, the server, a change thread, main) and a spent one never comes
  back. The tokens of a queue are counted, so the lemmas on `Count` come first
  (append, tail, concatenation). For the refinement the round's tokens are split
  into those before a question is opened and those after (`AskTokens`,
  `CloseTokens`); a step that only drops tokens (`NoGain`) is `Finish` or a
  stutter, and the others are followed one by one.
* **ClientAnswerProofs.** `AnswersMatch` (`AnswerForShownQuestion`). A question is
  on its way to the player from the server's message until its buttons are
  disabled (`OnItsWay`). `WayInv`: in that time somebody has started the round
  but nobody asks on (`RoundWay`), no question stands behind a result in the queue
  (`QueueWay`), and what is on its way or on display is the last question the
  server opened (`ListenerWay`). That nobody asks on is `RoundInv`'s one token: it
  lies with the server or with the result. `AnswerInv` claims this while the
  connection stands (`Live`); afterwards no frame reaches the server, so the
  property can only get easier (`AnswersKept`).
* **ClientPrepareProofs.** Three theorems about the time up to the first question.
  - `FramesStayWhole`: `FramesIntact`, if the server does not return CA_CH to the
    leader (`~EchoToLeader`). This hypothesis is needed: with an echo that arrives
    after the window is hidden the listener selects, its callback writes beside
    main, and TLC finds `FramesIntact` violated. `FrameInv`: only the leader is
    told that it is one and it is told of no change (`LeaderInv`), so the listener
    never runs a callback (`Uncalled`); the GUI thread is between its two writes
    exactly if the last frame waits for its name (`GuiWrites`); and the stages
    catalogs asked for, listed, chosen from, game started, announced and begun
    exclude each other in the order in which they come (`StageInv`), so that main
    and the change threads write before the first choice or after the last.
  - `SelectionArrives`: `SelectionReported`, with or without an echo. `SelectInv`:
    nothing is selected before the mode is known (`BusyInv`), a callback holds the
    lock for its thread until it has written the name (`LockInv`), and in the
    leader's client the last name on its way, or else the server's, is the
    selected one unless a thread is about to name it (`Tracked`).
  - `WindowListsAll`: `PreparationShowsAll`. `PrepInv`: the catalogs are asked for
    once, and nothing of them is on its way before (`AskInv`); the responses on
    their way name in order the catalogs not listed yet, none of them before the
    count has come to it, and the end of the list comes last (`Lists`). The count
    is only ever too low, because other messages reset it; so by the time it
    reaches the limit, or the end comes, everything up to the limit is listed
    (`Showing`). A name past the limit is left in the stream and taken for a header
    next; nothing is claimed of the responses behind it (`Torn`), as the client
    ends or stops there.
* **FramingProofs.** `TypeCorrect`, `WholeMessagesRead`, `NeverReadsAhead`,
  `LostOnlyByShortReads`, `ByteFieldsSurvive`: every safety property of the run,
  for every width of the fields. The reads of each kind of payload follow each
  other and end where the header says (`Covers`, one lemma for each kind; for the
  player list by arithmetic on quotient and remainder of three). `FramingInv`: the
  messages lie end to end in the stream (`Stream`); until a read is cut the
  listener is at the place they give, and from then on behind it (`Place`).
* **LoaderProofs.** `LoaderTyping`: `Spec => []TypeOK`. `LoadedIsComplete`:
  `Spec => []QuizReady`. `IInv` adds to `TypeOK`: the stack holds the questions
  not yet moved, in the file's order (`StackInv`), counters and sizes agree
  (`CountInv`), `order` and `answerOrder` are permutations (`OrderInv`; a swap
  keeps a permutation, `SwapPermutes`), the places already filled hold their
  questions (`SlotInv`), and shared memory under construction belongs to no
  published quiz (`OwnerInv`). `MixedRight` shows that writing a question through
  a permutation keeps all answers and the mark. `PublishedUntouched`:
  `Spec => PublishedFixed`, from `IInv`. Three more need `ResultInv`: a LOAD about
  to reply has either the whole file or one of the errors to tell.
  `StackIsDrained` (`StackDrained`) with `DrainInv`: between commands the stack is
  empty. `NoMemoryOrphaned` (`NoOrphan`) with `OrphanInv`: shared memory that
  nobody announced belongs to a LOAD that is still creating it or about to
  announce it, unless a loader died. `EachCommandOneAnswer` (`OneAnswerEach`) with
  `Balanced`: commands read, answers given and the answer under way agree.
  `LoaderIsStore`: `Spec => ImplementsStore`. Under `IInv` the quiz read out of the
  shared memory is the published file (`QuizIsPublished`), so that the steps need
  to be followed in `pc`, the pipes and `published` only; one step per action.
* **CatalogProofs.** `ParserTyping`, `ErrorsBlameTheirLine`, `AllQuestionsOrNone`,
  `AcceptsOnlyCatalogs`, `RejectsAtFirstFault`, `ParserLoads`. `LineInv` ties the
  line number to the number of lines read, which differs by place. `AcceptInv` carries a set of blocks along that
  covers what has been read, one for each question on the stack, with the
  beginning of one more while a question is under way. For `RejectsFirstFault` the
  lines read so far are completed to a catalog while the parse goes on
  (`ViableBetween`, `ViableInQuestion`), and `RejectInv` says that in no catalog
  which begins with them a question goes over the place where the parser expects
  one (`Bounded`): a line it refuses there has no place in any catalog.
  `ParserLoads` (`ParsesForLoad`) needs `LoadInv`: while the parser reads, what it
  has pushed is the stack, and each question of it began on a line of its own, so
  that `MaxLines` bounds the questions too. A step of the parser is then one of the
  loader's four steps or none, for every file, so that the choice `Loader` leaves
  open covers what the parser does.
* **EchoProofs.** `EchoTyping`, `OnlyBoundSockets`, `NoForeignData`, `AloneIsExact`.
  `PlaceInv`: a thread's copy stays within what it has read, and a connection
  waits in one backlog until it has its thread. `ShareInv`: two live threads
  have met, and the part of the buffer a thread has before it holds bytes of its
  own or of those it met. `AloneInv`: without such a meeting they are exactly the
  bytes it read last.

Only model-checked: all liveness (`LoginLeadsToMode`, `GameIsPlayed`, `GameEnds`,
`MessagesTaken`, `CommandsAnswered`, `ConnectionServed`, `ThreadEnds`: fairness and
ENABLED are beyond the prover). Every invariant and every action property that a
run checks, and both refinements, are stated by a theorem.

## Not modelled

* Reuse of a closed descriptor's number by another `open`, and the interleaving
  of GUI calls within one case of the listener: one case's calls are one step.
* The error path of `stackPop` in `moveToShmem` (`load.c:168-176`): `CountInv` of
  `LoaderProofs` shows that the stack holds a question for every slot that is left,
  so it is never taken.
* The capacity of pipes and of the listen backlog; the sizes of buffers.
* Sizes a header announces and the case does not expect: a server that keeps to
  the protocol sends none (`Framing`'s assumption).
* The command line of the loader (one decision before any state exists),
  printing, `message.c`, and the programs and copies that no target builds
  (`main_old.c` twice, `socket.c:15-450`). The Makefile builds loader and client
  only; EchoServer models code it leaves out because the quiz server would grow
  from it.
* The GUI library and the quiz server are not in the repository: they are modelled
  as the client's environment, from the header and from the client's cases.

## Plan

1. Done: Client, Framing, Loader, CatalogParser, EchoServer with their runs; the
   refinements of `QuizStore` and `QuestionRound`; the parser inside the loader.
2. Done: thirty-one theorems, among them both refinements, the parser inside the
   loader, and every invariant that a run checks.
3. Next to model: the GUI calls of one case as steps of their own, once the
   state space of ClientFaults allows it.
