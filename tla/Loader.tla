------------------------------- MODULE Loader -------------------------------
(***************************************************************************)
(* The loader (src/loader): it reads commands from its standard input,     *)
(* lists the catalog directory (BROWSE) or parses a catalog, mixes it and  *)
(* leaves it in the POSIX shared memory (LOAD), and writes its replies to  *)
(* its standard output.  The server at the other end of the two pipes is   *)
(* the environment: it sends commands, may close a pipe, unlinks the       *)
(* shared memory while no LOAD is under way (load.c:138 asks it to), and   *)
(* starts a new loader when the old one died.                              *)
(*                                                                         *)
(* A question is its place in the file and the index of its right answer;  *)
(* answer a of the file has the text a + 1, text 0 is the empty string.    *)
(***************************************************************************)
EXTENDS Integers, Sequences, FiniteSets

CONSTANTS
  Catalogs,      \* the visible files of the catalog directory
  NUM_ANSWERS,   \* answers of a question (4 in the code)
  MaxQuestions,  \* bound: questions of a file
  MaxCommands,   \* bound: commands the server sends
  MaxDirs,       \* directory handles the system grants a process
  MaxKills,      \* bound: loaders that die
  Faults         \* the failures the run allows

AllFaults == {"dir", "file", "memory", "shm", "pipe", "kill"}

ASSUME LoaderAssumption ==
  /\ NUM_ANSWERS \in Nat \ {0}
  /\ MaxQuestions \in Nat /\ MaxCommands \in Nat /\ MaxDirs \in Nat /\ MaxKills \in Nat
  /\ Faults \subseteq AllFaults

Answers == 0 .. NUM_ANSWERS - 1
Texts == 0 .. NUM_ANSWERS
Item == [question : Nat \ {0}, correct : Answers]
Question == [question : Nat, answers : [Answers -> Texts], correct : Answers]
Blank == [question |-> 0, answers |-> [a \in Answers |-> 0], correct |-> 0]

\* "HIDE" is a LOAD whose file name is empty, hidden or has a slash.
Commands == {"BROWSE", "LOAD", "HIDE", "other"}
Errors == {"CANNOT_OPEN", "CANNOT_READ", "INVALID", "SHMEM", "OOM"}
Replies == [type : Errors \cup {"LOADED", "blank"}, size : Nat]
             \cup [type : {"name"}, file : Catalogs]
Err(e) == [type |-> e, size |-> 0]

VARIABLES
  pc,            \* the place in the loader's code
  openDirs,      \* directory handles opened so far
  shown,         \* files the BROWSE under way has listed
  stack,         \* questionStack, its head at the end
  order, answerOrder, passesLeft,   \* the arrays being mixed
  i, current,    \* moveToShmem's counter and the question it has popped
  reply,         \* the reply of the LOAD under way
  exists, shmem, \* does the shared memory exist; its questions
  stdin, stdout, stdinOpen, stdoutOpen,
  asked, answered, kills,   \* counters of the environment
  parsed,        \* history: the file under way, right answers by question
  published      \* history: the file of the last LOADED, until the unlink

dirVars == <<openDirs, shown>>
mixVars == <<order, answerOrder, passesLeft>>
fillVars == <<i, current>>
shmVars == <<exists, shmem, published>>
pipeVars == <<stdin, stdout, stdinOpen, stdoutOpen, answered>>
envVars == <<asked, kills>>
vars == <<pc, dirVars, stack, mixVars, fillVars, reply, shmVars, pipeVars, envVars, parsed>>

Labels == {"read", "browse", "blank", "parse", "mix", "truncate", "map", "fill",
           "mixAnswers", "reply", "ended", "dead"}
Gone == {"ended", "dead"}
NoItem == [question |-> 1, correct |-> 0]

Init ==
  /\ pc = "read" /\ openDirs = 0 /\ shown = {}
  /\ stack = <<>> /\ order = <<>> /\ answerOrder = <<>> /\ passesLeft = 0
  /\ i = 0 /\ current = NoItem /\ reply = Err("OOM")
  /\ exists = FALSE /\ shmem = <<>> /\ published = <<>>
  /\ stdin = <<>> /\ stdout = <<>> /\ stdinOpen = TRUE /\ stdoutOpen = TRUE
  /\ asked = 0 /\ answered = 0 /\ kills = 0 /\ parsed = <<>>

-----------------------------------------------------------------------------
(* The helpers.                                                            *)

\* One write to the standard output; SIGPIPE ends the loader if nobody reads.
Write(r, next) ==
  IF stdoutOpen
  THEN /\ pc' = next
       /\ stdout' = Append(stdout, r)
       /\ answered' = IF r.type = "name" THEN answered ELSE answered + 1
  ELSE pc' = "dead" /\ UNCHANGED <<stdout, answered>>

Finish(r) == pc' = "reply" /\ reply' = r

\* Out of load: its locals and moveToShmem's are gone.
LocalsEnd ==
  /\ order' = <<>> /\ answerOrder' = <<>> /\ passesLeft' = 0
  /\ i' = 0 /\ current' = NoItem /\ parsed' = <<>> /\ reply' = Err("OOM")

\* mutant: no temporary in the exchange
SwapOverwrites(array, a, b) == [array EXCEPT ![a] = array[b]]
\* The loop of mix: the exchange of two places drawn by rand.
Swap(array, a, b) == [array EXCEPT ![a] = array[b], ![b] = array[a]]
Sequence(size) == [n \in 0 .. size - 1 |-> n]
Passes(size) == 2 * size

\* writeQuestionToShmem: place b holds the text of the last answer sent there.
Text(ord, b) ==
  CHOOSE t \in Texts : /\ t # 0 => ord[t - 1] = b
                       /\ \A a \in Answers : ord[a] = b => a + 1 <= t
Mixed(item, ord) ==
  [question |-> item.question,
   answers  |-> [b \in Answers |-> Text(ord, b)],
   correct  |-> ord[item.correct]]

\* The server has a LOAD under way.
LoadPending ==
  \/ pc \notin Gone \cup {"read", "browse", "blank"}
  \/ \E n \in DOMAIN stdin : pc \notin Gone /\ stdin[n] = "LOAD"

-----------------------------------------------------------------------------
(* processCommands and browse.                                             *)

NextCommand(c) ==
  /\ pc = "read" /\ stdin # <<>> /\ Head(stdin) = c
  /\ stdin' = Tail(stdin)

\* mutant: no blank line without a directory
ReadBrowseSilent ==
  /\ NextCommand("BROWSE")
  /\ \/ /\ openDirs < MaxDirs
        /\ pc' = "browse" /\ openDirs' = openDirs + 1
     \/ /\ openDirs = MaxDirs \/ "dir" \in Faults
        /\ pc' = "read" /\ UNCHANGED openDirs
  /\ UNCHANGED <<shown, stack, mixVars, fillVars, reply, shmVars, envVars, parsed,
                 stdout, stdinOpen, stdoutOpen, answered>>
\* No handle of the directory is ever closed.
ReadBrowse ==
  /\ NextCommand("BROWSE")
  /\ \/ /\ openDirs < MaxDirs
        /\ pc' = "browse" /\ openDirs' = openDirs + 1
     \/ /\ openDirs = MaxDirs \/ "dir" \in Faults
        /\ pc' = "blank" /\ UNCHANGED openDirs
  /\ UNCHANGED <<shown, stack, mixVars, fillVars, reply, shmVars, envVars, parsed,
                 stdout, stdinOpen, stdoutOpen, answered>>

BrowseEntry ==
  /\ pc = "browse"
  /\ \E f \in Catalogs \ shown :
       /\ Write([type |-> "name", file |-> f], "browse")
       /\ shown' = shown \cup {f}
  /\ UNCHANGED <<openDirs, stack, mixVars, fillVars, reply, shmVars, envVars, parsed,
                 stdin, stdinOpen, stdoutOpen>>

BrowseEnd ==
  /\ pc = "browse" /\ (shown = Catalogs \/ "dir" \in Faults)
  /\ pc' = "blank"
  /\ UNCHANGED <<dirVars, stack, mixVars, fillVars, reply, shmVars, pipeVars, envVars, parsed>>

WriteBlank ==
  /\ pc = "blank" /\ Write([type |-> "blank", size |-> 0], "read")
  /\ shown' = {}
  /\ UNCHANGED <<openDirs, stack, mixVars, fillVars, reply, shmVars, envVars, parsed,
                 stdin, stdinOpen, stdoutOpen>>

ReadOther ==
  /\ NextCommand("other")
  /\ UNCHANGED <<pc, dirVars, stack, mixVars, fillVars, reply, shmVars, envVars, parsed,
                 stdout, stdinOpen, stdoutOpen, answered>>

\* readLine returns NULL: the end of the input, or no memory for a line.
ReadEnd ==
  /\ pc = "read"
  /\ (stdin = <<>> /\ ~stdinOpen) \/ "memory" \in Faults
  /\ pc' = "ended"
  /\ UNCHANGED <<dirVars, stack, mixVars, fillVars, reply, shmVars, pipeVars, envVars, parsed>>

-----------------------------------------------------------------------------
(* load and parseCatalog.                                                  *)

ReadLoadRefused ==
  /\ NextCommand("HIDE")
  /\ Finish(Err("CANNOT_OPEN"))
  /\ UNCHANGED <<dirVars, stack, mixVars, fillVars, shmVars, envVars, parsed,
                 stdout, stdinOpen, stdoutOpen, answered>>


\* The path, the stack and fopen, which needs a handle of its own.
ReadLoad ==
  /\ NextCommand("LOAD")
  /\ stack' = <<>> /\ parsed' = <<>>
  /\ \/ "memory" \in Faults /\ Finish(Err("OOM"))
     \/ (openDirs = MaxDirs \/ "file" \in Faults) /\ Finish(Err("CANNOT_OPEN"))
     \/ openDirs < MaxDirs /\ pc' = "parse" /\ UNCHANGED reply
  /\ UNCHANGED <<dirVars, mixVars, fillVars, shmVars, envVars,
                 stdout, stdinOpen, stdoutOpen, answered>>

\* A well-formed question: parseQuestion and stackPush.
ParseQuestion ==
  /\ pc = "parse" /\ Len(stack) < MaxQuestions
  /\ \E c \in Answers :
       /\ stack' = Append(stack, [question |-> Len(stack) + 1, correct |-> c])
       /\ parsed' = Append(parsed, c)
  /\ UNCHANGED <<pc, dirVars, mixVars, fillVars, reply, shmVars, pipeVars, envVars>>

\* parseQuestion or stackPush fails: the stack is cleared.
ParseFails ==
  /\ pc = "parse" /\ stack' = <<>>
  /\ \/ "file" \in Faults /\ \E e \in {"CANNOT_READ", "INVALID"} : Finish(Err(e))
     \/ "memory" \in Faults /\ Finish(Err("OOM"))
  /\ UNCHANGED <<dirVars, mixVars, fillVars, shmVars, pipeVars, envVars, parsed>>

\* The end of the file; moveToShmem makes the order of the questions.
ParseEnd ==
  /\ pc = "parse"
  /\ \/ /\ stack = <<>> /\ Finish(Err("INVALID"))
        /\ UNCHANGED mixVars
     \/ /\ stack # <<>> /\ "memory" \in Faults /\ Finish(Err("SHMEM"))
        /\ UNCHANGED mixVars
     \/ /\ stack # <<>> /\ pc' = "mix"
        /\ order' = Sequence(Len(stack)) /\ passesLeft' = Passes(Len(stack))
        /\ UNCHANGED <<answerOrder, reply>>
  /\ UNCHANGED <<dirVars, stack, fillVars, shmVars, pipeVars, envVars, parsed>>

-----------------------------------------------------------------------------
(* moveToShmem, the reply, the way out of load.                            *)

\* mutant: the pass counter never ends the loop
MixOrderForever ==
  /\ pc = "mix" /\ passesLeft > 0
  /\ \E a, b \in DOMAIN order : order' = Swap(order, a, b)
  /\ UNCHANGED <<passesLeft, pc, dirVars, stack, answerOrder, fillVars, reply, shmVars,
                 pipeVars, envVars, parsed>>

MixOrder ==
  /\ pc = "mix" /\ passesLeft > 0
  /\ \E a, b \in DOMAIN order : order' = Swap(order, a, b)
  /\ passesLeft' = passesLeft - 1
  /\ UNCHANGED <<pc, dirVars, stack, answerOrder, fillVars, reply, shmVars, pipeVars,
                 envVars, parsed>>

\* mutant: the error path deletes what is there
ShmOpenUnlinks ==
  /\ pc = "mix" /\ passesLeft = 0
  /\ \/ /\ exists \/ "shm" \in Faults
        /\ Finish(Err("SHMEM")) /\ exists' = FALSE /\ shmem' = <<>> /\ UNCHANGED published
     \/ /\ ~exists
        /\ pc' = "truncate" /\ exists' = TRUE /\ shmem' = <<>>
        /\ UNCHANGED <<reply, published>>
  /\ UNCHANGED <<dirVars, stack, mixVars, fillVars, pipeVars, envVars, parsed>>
\* shm_open with O_CREAT | O_EXCL.
ShmOpen ==
  /\ pc = "mix" /\ passesLeft = 0
  /\ \/ /\ exists \/ "shm" \in Faults
        /\ Finish(Err("SHMEM")) /\ UNCHANGED shmVars
     \/ /\ ~exists
        /\ pc' = "truncate" /\ exists' = TRUE /\ shmem' = <<>>
        /\ UNCHANGED <<reply, published>>
  /\ UNCHANGED <<dirVars, stack, mixVars, fillVars, pipeVars, envVars, parsed>>

Unlinked == exists' = FALSE /\ shmem' = <<>>

Truncate ==
  /\ pc = "truncate"
  /\ \/ /\ pc' = "map"
        /\ shmem' = [n \in 0 .. Len(stack) - 1 |-> Blank]
        /\ UNCHANGED exists /\ UNCHANGED reply
     \/ "shm" \in Faults /\ Unlinked /\ Finish(Err("SHMEM"))
  /\ UNCHANGED <<dirVars, stack, mixVars, fillVars, published, pipeVars, envVars, parsed>>

\* mutant: a failed mmap does not unlink
MapKeeps ==
  /\ pc = "map"
  /\ \/ pc' = "fill" /\ i' = 0 /\ UNCHANGED exists /\ UNCHANGED <<shmem, reply>>
     \/ "shm" \in Faults /\ Finish(Err("SHMEM")) /\ UNCHANGED <<exists, shmem, i>>
  /\ UNCHANGED <<dirVars, stack, mixVars, current, published, pipeVars, envVars, parsed>>
Map ==
  /\ pc = "map"
  /\ \/ pc' = "fill" /\ i' = 0 /\ UNCHANGED exists /\ UNCHANGED <<shmem, reply>>
     \/ "shm" \in Faults /\ Unlinked /\ Finish(Err("SHMEM")) /\ UNCHANGED i
  /\ UNCHANGED <<dirVars, stack, mixVars, current, published, pipeVars, envVars, parsed>>

\* stackPop cannot fail here: the stack holds one question for each slot not yet filled
\* (CountInv of LoaderProofs); then the answers' order.
Pop ==
  /\ pc = "fill" /\ i < Cardinality(DOMAIN order) /\ stack # <<>>
  /\ pc' = "mixAnswers"
  /\ current' = stack[Len(stack)]
  /\ stack' = SubSeq(stack, 1, Len(stack) - 1)
  /\ answerOrder' = Sequence(NUM_ANSWERS) /\ passesLeft' = Passes(NUM_ANSWERS)
  /\ UNCHANGED <<dirVars, order, i, reply, shmVars, pipeVars, envVars, parsed>>

\* mutant: one pass too many
MixAnswersTooOften ==
  /\ pc = "mixAnswers" /\ passesLeft >= 0
  /\ \E a, b \in Answers : answerOrder' = Swap(answerOrder, a, b)
  /\ passesLeft' = passesLeft - 1
  /\ UNCHANGED <<pc, dirVars, stack, order, fillVars, reply, shmVars, pipeVars, envVars,
                 parsed>>
MixAnswers ==
  /\ pc = "mixAnswers" /\ passesLeft > 0
  /\ \E a, b \in Answers : answerOrder' = Swap(answerOrder, a, b)
  /\ passesLeft' = passesLeft - 1
  /\ UNCHANGED <<pc, dirVars, stack, order, fillVars, reply, shmVars, pipeVars, envVars,
                 parsed>>

WriteQuestion ==
  /\ pc = "mixAnswers" /\ passesLeft = 0
  /\ pc' = "fill" /\ i' = i + 1 /\ answerOrder' = <<>>
  /\ shmem' = [shmem EXCEPT ![order[i]] = Mixed(current, answerOrder)]
  /\ UNCHANGED <<dirVars, stack, order, passesLeft, current, reply, exists, published,
                 pipeVars, envVars, parsed>>

\* mutant: the reply counts from zero
FilledOneLess ==
  /\ pc = "fill" /\ i = Cardinality(DOMAIN order)
  /\ Finish([type |-> "LOADED", size |-> i - 1])
  /\ UNCHANGED <<dirVars, stack, mixVars, fillVars, shmVars, pipeVars, envVars, parsed>>
Filled ==
  /\ pc = "fill" /\ i = Cardinality(DOMAIN order)
  /\ Finish([type |-> "LOADED", size |-> Cardinality(DOMAIN order)])
  /\ UNCHANGED <<dirVars, stack, mixVars, fillVars, shmVars, pipeVars, envVars, parsed>>

\* mutant: the questions that are left are not freed
WriteReplyLeaks ==
  /\ pc = "reply" /\ Write(reply, "read") /\ LocalsEnd
  /\ published' = IF stdoutOpen /\ reply.type = "LOADED" THEN parsed ELSE published
  /\ UNCHANGED <<stack, dirVars, exists, shmem, envVars, stdin, stdinOpen, stdoutOpen>>
\* The write, and the stackClear behind it.
WriteReply ==
  /\ pc = "reply" /\ Write(reply, "read") /\ LocalsEnd
  /\ stack' = <<>>
  /\ published' = IF stdoutOpen /\ reply.type = "LOADED" THEN parsed ELSE published
  /\ UNCHANGED <<dirVars, exists, shmem, envVars, stdin, stdinOpen, stdoutOpen>>

-----------------------------------------------------------------------------
(* The environment: the server and whatever kills a process.               *)

Send ==
  /\ asked < MaxCommands /\ stdinOpen /\ pc \notin Gone
  /\ \E c \in Commands : /\ stdin' = Append(stdin, c)
                         /\ asked' = IF c = "other" THEN asked ELSE asked + 1
  /\ Len(stdin) < MaxCommands
  /\ UNCHANGED <<pc, dirVars, stack, mixVars, fillVars, reply, shmVars, kills, parsed,
                 stdout, stdinOpen, stdoutOpen, answered>>

Receive ==
  /\ stdoutOpen /\ stdout # <<>> /\ stdout' = Tail(stdout)
  /\ UNCHANGED <<pc, dirVars, stack, mixVars, fillVars, reply, shmVars, envVars, parsed,
                 stdin, stdinOpen, stdoutOpen, answered>>

ClosePipe ==
  /\ pc \notin Gone
  /\ \/ stdinOpen /\ stdinOpen' = FALSE /\ UNCHANGED stdoutOpen
     \/ "pipe" \in Faults /\ stdoutOpen /\ stdoutOpen' = FALSE /\ UNCHANGED stdinOpen
  /\ UNCHANGED <<pc, dirVars, stack, mixVars, fillVars, reply, shmVars, envVars, parsed,
                 stdin, stdout, answered>>

Unlink ==
  /\ exists /\ ~LoadPending
  /\ Unlinked /\ published' = <<>>
  /\ UNCHANGED <<pc, dirVars, stack, mixVars, fillVars, reply, pipeVars, envVars, parsed>>

\* Also the SIGBUS of a full shared memory.
Kill ==
  /\ "kill" \in Faults /\ pc \notin Gone
  /\ pc' = "dead" /\ shown' = {} /\ stack' = <<>> /\ LocalsEnd
  /\ UNCHANGED <<openDirs, shmVars, pipeVars, envVars>>

\* A new loader with new pipes; the shared memory is what the old one left, and
\* what the old one has not answered is lost.
Restart ==
  /\ pc = "dead" /\ kills < MaxKills
  /\ kills' = kills + 1 /\ pc' = "read" /\ openDirs' = 0 /\ shown' = {}
  /\ stdin' = <<>> /\ stdout' = <<>> /\ stdinOpen' = TRUE /\ stdoutOpen' = TRUE
  /\ asked' = answered /\ UNCHANGED answered
  /\ UNCHANGED <<stack, mixVars, fillVars, reply, shmVars, parsed>>

Stopped == pc \in Gone /\ UNCHANGED vars

LoaderStep ==
  \/ ReadBrowse \/ BrowseEntry \/ BrowseEnd \/ WriteBlank \/ ReadOther \/ ReadEnd
  \/ ReadLoadRefused \/ ReadLoad \/ ParseQuestion \/ ParseFails \/ ParseEnd
  \/ MixOrder \/ ShmOpen \/ Truncate \/ Map \/ Pop \/ MixAnswers \/ WriteQuestion
  \/ Filled \/ WriteReply
Environment == Send \/ Receive \/ ClosePipe \/ Unlink \/ Kill \/ Restart
Next == LoaderStep \/ Environment \/ Stopped

Spec == Init /\ [][Next]_vars
\* The loader is one process that the system keeps scheduling.
FairSpec == Spec /\ WF_vars(LoaderStep)

-----------------------------------------------------------------------------
(* The types, one part per group of variables.                             *)

BrowseTypeOK == openDirs \in 0 .. MaxDirs /\ shown \subseteq Catalogs
StackTypeOK == stack \in Seq(Item) /\ parsed \in Seq(Answers) /\ current \in Item
MixTypeOK ==
  /\ order \in [DOMAIN order -> DOMAIN order]
  /\ answerOrder = <<>> \/ answerOrder \in [Answers -> Answers]
  /\ passesLeft \in Nat /\ i \in Nat
ShmTypeOK ==
  /\ exists \in BOOLEAN /\ published \in Seq(Answers)
  /\ shmem \in [DOMAIN shmem -> Question]
PipeTypeOK ==
  /\ stdin \in Seq(Commands) /\ stdout \in Seq(Replies) /\ reply \in Replies
  /\ stdinOpen \in BOOLEAN /\ stdoutOpen \in BOOLEAN
  /\ asked \in Nat /\ answered \in Nat /\ kills \in Nat

\* Every variable keeps its type; the loader never holds more directory
\* handles than the system grants (browse.c:50).
TypeOK ==
  pc \in Labels /\ BrowseTypeOK /\ StackTypeOK /\ MixTypeOK /\ ShmTypeOK /\ PipeTypeOK

-----------------------------------------------------------------------------
(* Safety.                                                                 *)

\* A question of the shared memory has all answers of the file's question, and
\* its right answer under its index.
Holds(question, file) ==
  /\ \A t \in Texts \ {0} : \E a \in Answers : question.answers[a] = t
  /\ question.answers[question.correct] = file[question.question] + 1

\* What the shared memory must hold for a file: as many questions as the
\* file, and each of the file's questions.
ReadyFor(file) ==
  /\ DOMAIN shmem = 0 .. Len(file) - 1
  /\ \A q \in 1 .. Len(file) : \E s \in DOMAIN shmem : shmem[s].question = q
  /\ \A s \in DOMAIN shmem : shmem[s].question \in 1 .. Len(file) /\ Holds(shmem[s], file)

\* From the moment "LOADED, SIZE = n" is on its way until the server unlinks
\* the shared memory, it holds the whole catalog: n questions, each exactly
\* once, with all its answers and the right one marked, whatever mix has
\* done, loaders died or later LOADs asked for (load.c:28-188, 258-271).
QuizReady ==
  /\ pc = "reply" /\ reply.type = "LOADED" =>
       exists /\ reply.size = Len(parsed) /\ ReadyFor(parsed)
  /\ published # <<>> => exists /\ ReadyFor(published)

\* Shared memory that no LOADED announced is left only by a loader that died:
\* a LOAD that fails leaves none of its own (load.c:145-163).
NoOrphan ==
  pc \in {"read", "browse", "blank"} /\ exists /\ published = <<>> => kills > 0

\* A loader that is not dead owes one answer for every BROWSE and LOAD still
\* in the pipe and one for the command under way, never more and never fewer
\* (main.c:32-50, load.c:208-336, browse.c:53-78).
OneAnswerEach ==
  pc \notin Gone =>
    asked = answered + Cardinality({n \in DOMAIN stdin : stdin[n] # "other"})
                     + (IF pc = "read" THEN 0 ELSE 1)

\* No question of a LOAD, failed or not, stays on the heap when the loader
\* is back at its input (load.c:335-336).
StackDrained == pc = "read" => stack = <<>>

\* A published quiz never changes under the server: no later LOAD writes to
\* it, resizes it or unlinks it on its error paths (load.c:132-145).
PublishedFixed ==
  [][published # <<>> => UNCHANGED shmVars \/ (~LoadPending /\ ~exists')]_vars

-----------------------------------------------------------------------------
(* Liveness.                                                               *)

\* Every BROWSE and every LOAD is answered unless the loader ends or dies:
\* the reading, parsing and mixing loops all come to an end (main.c:32-50).
CommandsAnswered ==
  \A n \in 1 .. MaxCommands : asked >= n ~> (answered >= n \/ pc \in Gone)

=============================================================================
