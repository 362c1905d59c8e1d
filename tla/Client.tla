------------------------------- MODULE Client -------------------------------
(***************************************************************************)
(* The quiz client (src/client): its command thread (main), its listener   *)
(* thread, its GUI thread and the question change threads, the two         *)
(* semaphores and the GDK lock they meet at, the socket they share, and,   *)
(* as the environment, the server on the other end, the GUI library and    *)
(* the player.                                                             *)
(*                                                                         *)
(* A thread's position is pc[t].  A step is the code between two points at *)
(* which another thread can be observed: a blocking call, a socket call, a *)
(* GUI call (which takes the GDK lock), a semaphore operation.             *)
(* A message is [type, size, arg]: size 0 stands for an empty payload and  *)
(* 1 for any other, arg for the part of the payload the client acts on.    *)
(***************************************************************************)
EXTENDS Integers, Sequences, FiniteSets

CONSTANTS
  NumCatalogs,         \* catalogs the server offers
  MaxCatalogs,         \* catalogs the client is written for (10 in the code)
  NumQuestions,        \* questions of a game
  MaxQuestionThreads,  \* change threads the system grants, then pthread_create fails
  MaxInbox,            \* bound: the server sends nothing unasked or echoed beyond it
  MaxOutbox,           \* bound: the player clicks nothing beyond it
  SemLimit,            \* SEM_VALUE_MAX, where sem_post fails
  Events,              \* the faults and unasked messages the run allows
  UserActs,            \* the things the player may do
  EchoToLeader         \* does the server return CA_CH to the game leader too?

AllEvents == {"refuse", "nothread", "list", "warn", "fatal", "close"}
AllUserActs == {"select", "start", "answer", "close"}

ASSUME ClientAssumption ==
  /\ NumCatalogs \in Nat /\ NumQuestions \in Nat
  /\ MaxCatalogs \in Nat \ {0} /\ MaxQuestionThreads \in Nat \ {0}
  /\ MaxInbox \in Nat \ {0} /\ MaxOutbox \in Nat \ {0} /\ SemLimit \in Nat \ {0}
  /\ Events \subseteq AllEvents
  /\ UserActs \subseteq AllUserActs
  /\ EchoToLeader \in BOOLEAN

Threads == {"main", "listener", "gui"}
Catalog == 1 .. NumCatalogs

ServerTypes == {"LG_RQ_OK", "CA_RP", "CA_CH", "PL_LI", "ST_GA", "QU", "QU_RE",
                "GA_OV", "ER_WA", "RAW", "none"}
Message == [type : ServerTypes, size : {0, 1}, arg : Nat]
NoMsg == [type |-> "none", size |-> 0, arg |-> 0]
Raw == [type |-> "RAW", size |-> 0, arg |-> 0]   \* payload taken for a header
Msg(type, arg) == [type |-> type, size |-> 1, arg |-> arg]
Empty(type) == [type |-> type, size |-> 0, arg |-> 0]

\* CA_CH and ST_GA are written in two calls: the header, then the NAME.
FrameTypes == {"LG_RQ", "CA_RQ", "CA_CH", "ST_GA", "NAME", "QU_RQ", "QU_AN"}
Frame == [type : FrameTypes, arg : Nat]
Frm(type, arg) == [type |-> type, arg |-> arg]

VARIABLES
  proc,        \* how the process is: running, or how it ended
  pc, cont,    \* position of each thread; where an error wait returns to
  semMain, semSocket, guiRuns, closeOnEnd,
  hdr, msg,    \* net_head; the message whose payload is still to be read
  phase, counter,      \* listener locals phase and ca_rp_counter
  stale,       \* what qu_re and er_wa hold from earlier messages
  windows,     \* the two windows: none yet, ready, destroyed
  visible, dialogs, gdkLock, mode, listed, selected, shown, enabled,
  threads,     \* question change threads: sleeping, failing, waiting
  sockOpen, peer, inbox, outbox,
  srv, srvQ, srvActive, leader, srvReported

ctlVars == <<proc, pc, cont>>
semVars == <<semMain, semSocket>>
flagVars == <<guiRuns, closeOnEnd>>
liVars == <<hdr, msg, phase, counter, stale>>
prepVars == <<mode, listed, selected>>
gameVars == <<shown, enabled>>
guiVars == <<windows, visible, dialogs, gdkLock, prepVars, gameVars>>
netVars == <<sockOpen, peer, inbox, outbox>>
srvVars == <<srv, srvQ, srvActive, leader, srvReported>>
vars == <<ctlVars, semVars, flagVars, liVars, guiVars, threads, netVars, srvVars>>

MainLabels == {"connect", "create", "login", "waitLogin", "createGui", "catalogs",
               "waitStart", "request", "waitEnd"}
ListenerLabels == {"type", "inType", "size", "case", "post", "waitGui", "gui",
                   "buttons", "spawn", "rank", "severity", "info", "quit"}
GuiLabels == {"init", "post", "setRuns", "loop", "destroy", "exit"}
SharedLabels == {"none", "errDialog", "errWait", "name", "unlock"}
Labels == MainLabels \cup ListenerLabels \cup GuiLabels \cup SharedLabels

Init ==
  /\ proc = "running"
  /\ pc = [t \in Threads |-> IF t = "main" THEN "connect" ELSE "none"]
  /\ cont = [t \in Threads |-> "none"]
  /\ semMain = 0 /\ semSocket = 0 /\ guiRuns = FALSE /\ closeOnEnd = FALSE
  /\ hdr = [type |-> "none", size |-> 0] /\ msg = NoMsg
  /\ phase = 0 /\ counter = 0 /\ stale = [result |-> FALSE, warning |-> -1]
  /\ windows = "none" /\ visible = {} /\ dialogs = <<>> /\ gdkLock = "free"
  /\ mode = "busy" /\ listed = {} /\ selected = 0 /\ shown = 0
  /\ enabled = TRUE                \* the library creates the buttons sensitive
  /\ threads = [sleeping |-> 0, failing |-> 0, waiting |-> 0]
  /\ sockOpen = FALSE /\ peer = "closed" /\ inbox = <<>> /\ outbox = <<>>
  /\ srv = "await" /\ srvQ = 0 /\ srvActive = FALSE /\ leader = FALSE /\ srvReported = 0

-----------------------------------------------------------------------------
(* What the threads share: jumps, semaphores, the error check, write().     *)

\* what a step leaves alone that only moves a thread, or touches the GUI too
OnlyControl == UNCHANGED <<semVars, flagVars, liVars, guiVars, threads, netVars,
                           srvVars>>
OnlyGui == UNCHANGED <<semVars, flagVars, liVars, threads, netVars, srvVars>>

At(t, label) == proc = "running" /\ pc[t] = label
Goto(t, label) == pc' = [pc EXCEPT ![t] = label]
Continue(t, label) == Goto(t, label) /\ UNCHANGED <<proc, cont>>
End(how) == proc' = how /\ UNCHANGED <<pc, cont>>
\* A dialog opens on top of the others; one like the topmost counts with it.
Opened(kind) ==
  IF dialogs # <<>> /\ Head(dialogs) = kind THEN dialogs ELSE <<kind>> \o dialogs

\* sem_post fails at SEM_VALUE_MAX, and nobody looks at the result
SemPost(value) == IF value < SemLimit THEN value + 1 ELSE value

\* test_socketOnErrors(ret) with ret <= 0, in thread t, which goes on at next
TestErrors(t, ret, next) ==
  \/ ret < 0 /\ closeOnEnd /\ Continue(t, next)
  \/ /\ ~(ret < 0 /\ closeOnEnd)
     /\ guiRuns
     /\ Goto(t, "errDialog")
     /\ cont' = [cont EXCEPT ![t] = next]
     /\ UNCHANGED proc
  \/ ~(ret < 0 /\ closeOnEnd) /\ ~guiRuns /\ End("exited")

\* guiShowErrorDialog(.., 1): guiLock is skipped in the GUI thread
ErrorDialog(t) ==
  /\ At(t, "errDialog")
  /\ t = "gui" \/ gdkLock = "free"
  /\ dialogs' = Opened("quit")
  /\ Continue(t, "errWait")
  /\ OnlyGui /\ UNCHANGED <<windows, visible, gdkLock, prepVars, gameVars>>

\* the sem_wait(&semaphore_socket) after an error, and after the last dialog
SocketWait(t) ==
  /\ At(t, "errWait")
  /\ semSocket > 0
  /\ semSocket' = semSocket - 1
  /\ Continue(t, cont[t])
  /\ UNCHANGED <<semMain, flagVars, liVars, guiVars, threads, netVars, srvVars>>

\* write(): a server that is gone lets it pass, fail, or raise SIGPIPE
Write(t, frame, next) ==
  \/ /\ sockOpen /\ peer = "open"
     /\ outbox' = Append(outbox, frame)
     /\ Continue(t, next)
  \/ /\ sockOpen /\ peer = "closed"
     /\ UNCHANGED outbox
     /\ \/ Continue(t, next)
        \/ End("killed")
        \/ TestErrors(t, -1, next)
  \/ ~sockOpen /\ UNCHANGED outbox /\ TestErrors(t, -1, next)

\* the second write of preparation_onCatalogChanged and _onStartClicked
WriteName(t) ==
  /\ At(t, "name")
  /\ Write(t, Frm("NAME", selected), "unlock")
  /\ UNCHANGED <<semVars, flagVars, liVars, guiVars, threads, sockOpen, peer,
                 inbox, srvVars>>

\* the callback returns and GTK, or the library function, gives the lock back
Unlock(t) ==
  /\ At(t, "unlock")
  /\ gdkLock' = "free"
  /\ Continue(t, IF t = "gui" THEN "loop" ELSE "type")
  /\ OnlyGui /\ UNCHANGED <<windows, visible, dialogs, prepVars, gameVars>>

-----------------------------------------------------------------------------
(* The command thread, main().                                              *)

\* connect_socket_client tries the addresses until one accepts; sock is the socket
\* of the last one tried, -1 only if that one could not be had
Connect ==
  /\ At("main", "connect")
  /\ \/ /\ sockOpen' = TRUE
        /\ peer' \in {"open"} \cup (IF "refuse" \in Events THEN {"closed"} ELSE {})
        /\ Continue("main", "create")
     \/ /\ "refuse" \in Events         \* no address at all, or main's test for -1
        /\ End("exited") /\ UNCHANGED <<sockOpen, peer>>
  /\ UNCHANGED <<semVars, flagVars, liVars, guiVars, threads, inbox, outbox,
                 srvVars>>

\* pthread_create of the listener, or, when it fails, close_process
CreateListener ==
  /\ At("main", "create")
  /\ \/ pc' = [pc EXCEPT !["main"] = "login", !["listener"] = "type"]
        /\ UNCHANGED <<proc, cont>>
     \/ "nothread" \in Events /\ End("exited")
  /\ OnlyControl

CreateGui ==
  /\ At("main", "createGui")
  /\ \/ pc' = [pc EXCEPT !["main"] = "catalogs", !["gui"] = "init"]
        /\ UNCHANGED <<proc, cont>>
     \/ "nothread" \in Events /\ End("exited")
  /\ OnlyControl

MainWrites(label, type, next) ==
  /\ At("main", label)
  /\ Write("main", Frm(type, 0), next)
  /\ UNCHANGED <<semVars, flagVars, liVars, guiVars, threads, sockOpen, peer,
                 inbox, srvVars>>

SendLogin == MainWrites("login", "LG_RQ", "waitLogin")
SendCatalogRequest == MainWrites("catalogs", "CA_RQ", "waitStart")
\* mutant: TYPE_QU, the question, in the header instead of the request for one
SendQuestionRequestWrongType == MainWrites("request", "QU", "waitEnd")
SendQuestionRequest == MainWrites("request", "QU_RQ", "waitEnd")

MainWaits(label, next) ==
  /\ At("main", label)
  /\ semMain > 0
  /\ semMain' = semMain - 1
  /\ Continue("main", next)
  /\ UNCHANGED <<semSocket, flagVars, liVars, guiVars, threads, netVars, srvVars>>

WaitLogin == MainWaits("waitLogin", "createGui")
\* mutant: the first QUESTION_REQUEST is forgotten
WaitStartAsksNothing == MainWaits("waitStart", "waitEnd")
WaitStart == MainWaits("waitStart", "request")

\* "Block Command-Thread": past it, main returns and the process ends
WaitEnd ==
  /\ At("main", "waitEnd")
  /\ semMain > 0
  /\ semMain' = semMain - 1
  /\ End("returned")
  /\ UNCHANGED <<semSocket, flagVars, liVars, guiVars, threads, netVars, srvVars>>

-----------------------------------------------------------------------------
(* The GUI thread and the callbacks of gui_interface.c.  GTK dispatches     *)
(* them in the main loop, with the GDK lock; a modal dialog takes all input *)

GuiInit ==
  /\ At("gui", "init")
  /\ windows' = "ready"
  /\ Continue("gui", "post")
  /\ OnlyGui /\ UNCHANGED <<visible, dialogs, gdkLock, prepVars, gameVars>>

GuiPost ==
  /\ At("gui", "post")
  /\ semSocket' = SemPost(semSocket)
  /\ Continue("gui", "setRuns")
  /\ UNCHANGED <<semMain, flagVars, liVars, guiVars, threads, netVars, srvVars>>

GuiSetRuns ==
  /\ At("gui", "setRuns")
  /\ guiRuns' = TRUE
  /\ Continue("gui", "loop")
  /\ UNCHANGED <<semVars, closeOnEnd, liVars, guiVars, threads, netVars, srvVars>>

Dispatches(act, window) ==
  /\ act \in UserActs
  /\ At("gui", "loop")
  /\ gdkLock = "free" /\ dialogs = <<>>
  /\ window \in visible

\* a callback that writes: the lock is kept until it returns
Callback(frame, next) ==
  /\ Len(outbox) < MaxOutbox
  /\ gdkLock' = "gui"
  /\ Write("gui", frame, next)
  /\ UNCHANGED <<semVars, flagVars, liVars, windows, visible, dialogs, mode,
                 listed, gameVars, threads, sockOpen, peer, inbox, srvVars>>

\* catalogSelectionChanged, then preparation_onCatalogChanged
OnCatalogChanged(c) ==
  /\ Dispatches("select", "preparation")
  /\ mode = "privileged"
  /\ c \in listed /\ c # selected
  /\ selected' = c
  /\ Callback(Frm("CA_CH", 0), "name")

OnStartClicked ==
  /\ Dispatches("start", "preparation")
  /\ mode = "privileged" /\ selected # 0
  /\ UNCHANGED selected
  /\ Callback(Frm("ST_GA", 0), "name")

\* the frame remembers, for the properties, which question was on display
OnAnswerClicked ==
  /\ Dispatches("answer", "game")
  /\ enabled
  /\ UNCHANGED selected
  /\ Callback(Frm("QU_AN", shown), "unlock")

\* mutant: the message does not end the GUI (quitOnClose is 0)
OnWindowClosedStays(window) ==
  /\ Dispatches("close", window)
  /\ visible' = visible \ {window}
  /\ closeOnEnd' = TRUE /\ sockOpen' = FALSE
  /\ dialogs' = Opened("info")
  /\ UNCHANGED <<ctlVars, semVars, guiRuns, liVars, windows, gdkLock, prepVars,
                 gameVars, threads, peer, inbox, outbox, srvVars>>

OnWindowClosed(window) ==
  /\ Dispatches("close", window)
  /\ visible' = visible \ {window}
  /\ closeOnEnd' = TRUE
  /\ sockOpen' = FALSE
  /\ dialogs' = Opened("quit")
  /\ UNCHANGED <<ctlVars, semVars, guiRuns, liVars, windows, gdkLock, prepVars,
                 gameVars, threads, peer, inbox, outbox, srvVars>>

\* OK in the topmost dialog: it goes away, or, with quitOnClose, the loop ends
DismissDialog(d) ==
  /\ At("gui", "loop")
  /\ gdkLock = "free"
  /\ dialogs # <<>> /\ Head(dialogs) = d
  /\ \/ d = "info" /\ dialogs' = Tail(dialogs) /\ UNCHANGED ctlVars
     \/ d = "quit" /\ UNCHANGED dialogs /\ Continue("gui", "destroy")
  /\ OnlyGui /\ UNCHANGED <<windows, visible, gdkLock, prepVars, gameVars>>

GuiDestroy ==
  /\ At("gui", "destroy")
  /\ gdkLock = "free"
  /\ windows' = "destroyed" /\ visible' = {}
  /\ Continue("gui", "exit")
  /\ OnlyGui /\ UNCHANGED <<dialogs, gdkLock, prepVars, gameVars>>

GuiExit ==
  /\ At("gui", "exit")
  /\ End("exited")
  /\ OnlyControl

-----------------------------------------------------------------------------
(* The listener thread: read a type, a size, then the case for the type.    *)
(* hdr survives the loop, so a failed read leaves the previous header.      *)

InThread == UNCHANGED <<semVars, flagVars, guiVars, threads, srvVars>>

\* enters read(); close() by another thread does not interrupt it from here on
CallRead ==
  /\ At("listener", "type")
  /\ msg' = NoMsg
  /\ \/ sockOpen /\ Continue("listener", "inType")
     \/ ~sockOpen /\ TestErrors("listener", -1, "size")
  /\ InThread
  /\ UNCHANGED <<hdr, phase, counter, stale, netVars>>

ReadType ==
  /\ At("listener", "inType")
  /\ \/ /\ inbox # <<>>
        /\ msg' = Head(inbox) /\ inbox' = Tail(inbox)
        /\ hdr' = [hdr EXCEPT !.type = Head(inbox).type]
        /\ Continue("listener", "size")
     \/ /\ peer = "closed"         \* end of stream, or a reset that drops the rest
        /\ msg' = NoMsg /\ inbox' = <<>>
        /\ UNCHANGED hdr
        /\ \E ret \in {0, -1} :
             (ret = 0 => inbox = <<>>) /\ TestErrors("listener", ret, "size")
  /\ InThread
  /\ UNCHANGED <<phase, counter, stale, sockOpen, peer, outbox>>

\* any later read: the rest of the message is there unless a close lost it
Read(next) ==
  \/ /\ sockOpen /\ msg # NoMsg
     /\ UNCHANGED msg
     /\ Continue("listener", next)
  \/ /\ ~sockOpen \/ peer = "closed"
     /\ msg' = NoMsg
     /\ \E ret \in {0, -1} :
          (ret = 0 => sockOpen) /\ TestErrors("listener", ret, next)

ReadSize ==
  /\ At("listener", "size")
  /\ Read("case")
  /\ hdr' = IF msg' # NoMsg THEN [hdr EXCEPT !.size = msg.size] ELSE hdr
  /\ InThread
  /\ UNCHANGED <<phase, counter, stale, netVars>>

Case(type) == At("listener", "case") /\ hdr.type = type
Skip(next) == Continue("listener", next) /\ UNCHANGED msg
ReadPayload(next) == IF hdr.size = 0 THEN Skip(next) ELSE Read(next)

\* the cases that reset ca_rp_counter, read their payload and go on at next
Receive(type, next) ==
  /\ Case(type)
  /\ counter' = 0
  /\ ReadPayload(next)
  /\ InThread
  /\ UNCHANGED <<hdr, phase, stale, netVars>>

\* read() is called whatever the size says: a size of zero reads nothing, and its
\* result 0 counts as an error
ReceiveLoginOk ==
  /\ Case("LG_RQ_OK")
  /\ counter' = 0
  /\ Read("post")
  /\ InThread
  /\ UNCHANGED <<hdr, phase, stale, netVars>>

ReceiveCatalogChange == Receive("CA_CH", "gui")
\* mutant: a sem_post that belongs to another case
PlayerListPostsMain == Receive("PL_LI", "post")
ReceivePlayerList == Receive("PL_LI", "gui")
ReceiveStartGame == Receive("ST_GA", "gui")

\* below the limit the name is read; from there on it is left in the stream
ReceiveCatalog ==
  /\ Case("CA_RP")
  /\ \/ /\ counter < MaxCatalogs
        /\ ReadPayload("gui")
        /\ UNCHANGED <<counter, inbox>>
     \/ /\ counter >= MaxCatalogs
        /\ Skip(IF counter = MaxCatalogs THEN "gui" ELSE "type")
        /\ inbox' = IF hdr.size # 0 /\ msg # NoMsg THEN <<Raw>> \o inbox ELSE inbox
        /\ counter' = IF counter = MaxCatalogs THEN counter ELSE MaxCatalogs + 1
  /\ InThread
  /\ UNCHANGED <<hdr, phase, stale, sockOpen, peer, outbox>>

ReceiveQuestion ==
  /\ Case("QU")
  /\ ReadPayload("gui")
  /\ InThread
  /\ UNCHANGED <<hdr, phase, counter, stale, netVars>>

\* answer and correct are read whatever the size says
ReceiveResult ==
  /\ Case("QU_RE")
  /\ Read("gui")
  /\ stale' = IF msg' # NoMsg THEN [stale EXCEPT !.result = TRUE] ELSE stale
  /\ InThread
  /\ UNCHANGED <<hdr, phase, counter, netVars>>

ReadRank ==
  /\ At("listener", "rank")
  /\ Read("quit")
  /\ InThread
  /\ UNCHANGED <<hdr, phase, counter, stale, netVars>>

ReceiveWarning ==
  /\ Case("ER_WA")
  /\ counter' = 0
  /\ Read("severity")
  /\ stale' = IF msg' # NoMsg THEN [stale EXCEPT !.warning = msg.arg] ELSE stale
  /\ InThread
  /\ UNCHANGED <<hdr, phase, netVars>>

\* a stale size of 0 makes malloc(-1) fail and the terminating zero a fault;
\* er_wa.msg_type was never read: any value; a fatal one closes the socket
Severity ==
  /\ At("listener", "severity")
  /\ \/ hdr.size = 0 /\ End("crashed") /\ UNCHANGED sockOpen
     \/ /\ hdr.size # 0
        /\ \E s \in IF stale.warning = -1 THEN 0 .. 2 ELSE {stale.warning} :
             \/ s = 0 /\ Continue("listener", "info") /\ UNCHANGED sockOpen
             \/ /\ s = 1
                /\ sockOpen' = FALSE
                /\ IF guiRuns THEN Continue("listener", "quit") ELSE End("exited")
             \/ s = 2 /\ End("exited") /\ UNCHANGED sockOpen
  /\ InThread
  /\ UNCHANGED <<liVars, peer, inbox, outbox>>

\* case default: close_process
ReceiveUnknown ==
  /\ At("listener", "case")
  /\ hdr.type \in {"RAW", "none"}
  /\ counter' = 0
  /\ End("exited")
  /\ InThread
  /\ UNCHANGED <<hdr, msg, phase, stale, netVars>>

\* sem_post(&semaphore_main), the last word of LG_RQ_OK's read and of ST_GA
\* mutant: without "wait until GUI-Thread is started"
AfterPostNoWait == IF hdr.type = "LG_RQ_OK" THEN "gui" ELSE "type"
AfterPost == IF hdr.type = "LG_RQ_OK" THEN "waitGui" ELSE "type"

PostMain ==
  /\ At("listener", "post")
  /\ semMain' = SemPost(semMain)
  /\ Continue("listener", AfterPost)
  /\ UNCHANGED <<semSocket, flagVars, liVars, guiVars, threads, netVars, srvVars>>

\* "Wait until GUI-Thread is started"
WaitGui ==
  /\ At("listener", "waitGui")
  /\ semSocket > 0
  /\ semSocket' = semSocket - 1
  /\ Continue("listener", "gui")
  /\ UNCHANGED <<semMain, flagVars, liVars, guiVars, threads, netVars, srvVars>>

-----------------------------------------------------------------------------
(* The GUI calls of the cases.  Each takes the lock and asserts its window. *)

\* mutant: a library function that forgets guiLock
GuiCallNoLock(type) ==
  /\ At("listener", IF type = "GA_OV" THEN "case" ELSE "gui")
  /\ hdr.type = type
  /\ windows = "ready"

GuiCall(type) ==
  /\ At("listener", IF type = "GA_OV" THEN "case" ELSE "gui")
  /\ hdr.type = type
  /\ windows = "ready"
  /\ gdkLock = "free"

\* assert(window != NULL), or, for an answer never read, its index check
ListenerAborts ==
  /\ proc = "running"
  /\ \/ /\ windows # "ready"
        /\ \/ pc["listener"] \in {"gui", "buttons"}
           \/ pc["listener"] = "case" /\ hdr.type = "GA_OV"
     \/ pc["listener"] = "gui" /\ hdr.type = "QU_RE" /\ ~stale.result
  /\ End("aborted")
  /\ OnlyControl

\* mutant: only the leader's window leaves the busy mode
SetModeLeaderOnly ==
  /\ GuiCall("LG_RQ_OK")
  /\ mode' = IF msg.arg = 0 THEN "privileged" ELSE mode
  /\ Continue("listener", "type")
  /\ OnlyGui /\ UNCHANGED <<windows, visible, dialogs, gdkLock, listed, selected,
                            gameVars>>

SetMode ==
  /\ GuiCall("LG_RQ_OK")
  /\ mode' = IF msg = NoMsg THEN mode ELSE IF msg.arg = 0 THEN "privileged" ELSE "normal"
  /\ Continue("listener", "type")
  /\ OnlyGui /\ UNCHANGED <<windows, visible, dialogs, gdkLock, listed, selected,
                            gameVars>>

\* mutant: the counter taken to start at 1
AddsCatalogOffByOne == counter > 0 /\ counter < MaxCatalogs /\ hdr.size # 0
AddsCatalog == counter < MaxCatalogs /\ hdr.size # 0

\* a name, or the window: at the end of the list or at the response past the limit
ShowCatalog ==
  /\ GuiCall("CA_RP")
  /\ \/ /\ AddsCatalog
        /\ listed' = IF msg # NoMsg THEN listed \cup {msg.arg} ELSE listed
        /\ UNCHANGED visible
     \/ /\ ~AddsCatalog
        /\ visible' = visible \cup {"preparation"}
        /\ UNCHANGED listed
  /\ dialogs' = IF counter = MaxCatalogs /\ guiRuns THEN Opened("info") ELSE dialogs
  /\ counter' = counter + 1
  /\ Continue("listener", "type")
  /\ UNCHANGED <<semVars, flagVars, hdr, msg, phase, stale, windows, gdkLock,
                 mode, selected, gameVars, threads, netVars, srvVars>>

\* in the leader's client a changed selection runs preparation_onCatalogChanged,
\* here in the listener thread and under the lock this call took
\* mutant: no callback for a selection the program makes
CallsBackNever == FALSE
CallsBack == mode = "privileged"

ShowSelection ==
  /\ GuiCall("CA_CH")
  /\ IF msg.arg \in listed /\ msg.arg # selected
     THEN /\ selected' = msg.arg
          /\ \/ /\ CallsBack
                /\ gdkLock' = "listener"
                /\ Write("listener", Frm("CA_CH", 0), "name")
             \/ /\ ~CallsBack
                /\ Continue("listener", "type")
                /\ UNCHANGED <<gdkLock, outbox>>
     ELSE Continue("listener", "type") /\ UNCHANGED <<gdkLock, selected, outbox>>
  /\ UNCHANGED <<semVars, flagVars, liVars, windows, visible, dialogs, mode,
                 listed, gameVars, threads, sockOpen, peer, inbox, srvVars>>

ShowPlayers ==
  /\ GuiCall("PL_LI")
  /\ Continue("listener", "type")
  /\ OnlyControl

ShowGame ==
  /\ GuiCall("ST_GA")
  /\ visible' = (visible \ {"preparation"}) \cup {"game"}
  /\ phase' = 1
  /\ Continue("listener", "post")
  /\ UNCHANGED <<semVars, flagVars, hdr, msg, counter, stale, windows, dialogs,
                 gdkLock, prepVars, gameVars, threads, netVars, srvVars>>

\* the question and its answers, and later the buttons; or "all questions played"
ShowQuestion ==
  /\ GuiCall("QU")
  /\ \/ /\ hdr.size # 0
        /\ shown' = IF msg # NoMsg THEN msg.arg ELSE shown
        /\ Continue("listener", "buttons")
     \/ hdr.size = 0 /\ shown' = 0 /\ Continue("listener", "type")
  /\ OnlyGui /\ UNCHANGED <<windows, visible, dialogs, gdkLock, prepVars, enabled>>

EnableButtons ==
  /\ At("listener", "buttons")
  /\ windows = "ready" /\ gdkLock = "free"
  /\ enabled' = TRUE
  /\ Continue("listener", "type")
  /\ OnlyGui /\ UNCHANGED <<windows, visible, dialogs, gdkLock, prepVars, shown>>

\* mark the answers, disable the buttons, and only then start the change thread
\* mutant: the buttons stay enabled while the next question is on its way
ShowResultEnabled ==
  /\ GuiCall("QU_RE")
  /\ Continue("listener", "spawn")
  /\ OnlyControl

ShowResult ==
  /\ GuiCall("QU_RE")
  /\ enabled' = FALSE
  /\ Continue("listener", "spawn")
  /\ OnlyGui /\ UNCHANGED <<windows, visible, dialogs, gdkLock, prepVars, shown>>

AliveThreads == threads.sleeping + threads.failing + threads.waiting

\* mutant: a second pthread_create though the first did not fail
SpawnedTwice == IF AliveThreads < MaxQuestionThreads
                THEN [threads EXCEPT !.sleeping = @ + 2] ELSE threads
Spawned == IF AliveThreads < MaxQuestionThreads
           THEN [threads EXCEPT !.sleeping = @ + 1] ELSE threads

SpawnQuestionThread ==
  /\ At("listener", "spawn")
  /\ threads' = Spawned
  /\ Continue("listener", "type")
  /\ UNCHANGED <<semVars, flagVars, liVars, guiVars, netVars, srvVars>>

HideGame ==
  /\ GuiCall("GA_OV")
  /\ visible' = visible \ {"game"}
  /\ Continue("listener", "rank")
  /\ OnlyGui /\ UNCHANGED <<windows, dialogs, gdkLock, prepVars, gameVars>>

ShowWarning ==
  /\ At("listener", "info")
  /\ gdkLock = "free"
  /\ dialogs' = Opened("info")
  /\ Continue("listener", "type")
  /\ OnlyGui /\ UNCHANGED <<windows, visible, gdkLock, prepVars, gameVars>>

\* the rank, or a fatal error; then "block thread, until process gets quit"
ShowEnd ==
  /\ At("listener", "quit")
  /\ gdkLock = "free"
  /\ dialogs' = Opened("quit")
  /\ Goto("listener", "errWait")
  /\ cont' = [cont EXCEPT !["listener"] = "type"]
  /\ UNCHANGED proc
  /\ OnlyGui /\ UNCHANGED <<windows, visible, gdkLock, prepVars, gameVars>>

-----------------------------------------------------------------------------
(* Question change threads: sleep(4), one write, and the error check.       *)

QuestionThreadWrites ==
  /\ proc = "running"
  /\ threads.sleeping > 0
  /\ \/ /\ sockOpen
        /\ outbox' = IF peer = "open" THEN Append(outbox, Frm("QU_RQ", 0)) ELSE outbox
        /\ threads' = [threads EXCEPT !.sleeping = @ - 1]
        /\ UNCHANGED ctlVars
     \/ /\ sockOpen /\ peer = "closed"
        /\ End("killed")
        /\ UNCHANGED <<threads, outbox>>
     \/ /\ ~sockOpen \/ peer = "closed"
        /\ \/ closeOnEnd /\ threads' = [threads EXCEPT !.sleeping = @ - 1]
           \/ ~closeOnEnd /\ threads' = [threads EXCEPT !.sleeping = @ - 1,
                                                        !.failing = @ + 1]
        /\ UNCHANGED <<ctlVars, outbox>>
  /\ UNCHANGED <<semVars, flagVars, liVars, guiVars, sockOpen, peer, inbox,
                 srvVars>>

\* the dialog, then sem_wait(&semaphore_socket), whose one post is long gone
QuestionThreadFails ==
  /\ proc = "running"
  /\ threads.failing > 0
  /\ gdkLock = "free"
  /\ dialogs' = Opened("quit")
  /\ threads' = [threads EXCEPT !.failing = @ - 1, !.waiting = @ + 1]
  /\ UNCHANGED <<ctlVars, semVars, flagVars, liVars, windows, visible, gdkLock,
                 prepVars, gameVars, netVars, srvVars>>

-----------------------------------------------------------------------------
(* The server, as the client's code expects it.  It takes the client's     *)
(* frames in order, answers each, and may send some messages unasked.      *)

Serving == proc = "running" /\ peer = "open" /\ srv # "over"
Receives(type) == Serving /\ outbox # <<>> /\ Head(outbox).type = type
Reply(msgs) ==
  /\ outbox' = Tail(outbox)
  /\ inbox' = inbox \o msgs
InServer == UNCHANGED <<ctlVars, semVars, flagVars, liVars, guiVars, threads,
                        sockOpen>>

\* client id 0 is the game leader; the list of players follows the login
ServerLogin ==
  /\ Receives("LG_RQ") /\ srv = "await"
  /\ \E id \in {0, 1} :
       /\ Reply(<<Msg("LG_RQ_OK", id), Msg("PL_LI", 0)>>)
       /\ leader' = (id = 0)
  /\ srv' = "lobby"
  /\ InServer /\ UNCHANGED <<peer, srvQ, srvActive, srvReported>>

\* one response for each catalog and an empty one; a new player's list between them
ServerCatalogs ==
  /\ Receives("CA_RQ")
  /\ LET list == [c \in Catalog |-> Msg("CA_RP", c)] \o <<Empty("CA_RP")>>
     IN \/ Reply(list)
        \/ /\ "list" \in Events
           /\ \E i \in Catalog : Reply(SubSeq(list, 1, i) \o <<Msg("PL_LI", 0)>>
                                       \o SubSeq(list, i + 1, Len(list)))
  /\ InServer /\ UNCHANGED <<peer, srvVars>>

\* a two-part frame is taken when both parts are there
ReplyToName(type, msgs) ==
  /\ Receives(type) /\ Len(outbox) > 1 /\ outbox[2].type = "NAME"
  /\ outbox' = Tail(Tail(outbox))
  /\ srvReported' = outbox[2].arg
  /\ inbox' = inbox \o msgs

ServerCatalogChange ==
  /\ EchoToLeader => Len(inbox) < MaxInbox
  /\ ReplyToName("CA_CH", IF EchoToLeader THEN <<Msg("CA_CH", outbox[2].arg)>> ELSE <<>>)
  /\ InServer /\ UNCHANGED <<peer, srv, srvQ, srvActive, leader>>

ServerStart ==
  /\ ReplyToName("ST_GA", IF srv = "lobby" THEN <<Msg("ST_GA", outbox[2].arg)>> ELSE <<>>)
  /\ srv' = IF srv = "lobby" THEN "game" ELSE srv
  /\ InServer /\ UNCHANGED <<peer, srvQ, srvActive, leader>>

ServerQuestion ==
  /\ Receives("QU_RQ")
  /\ IF srvQ < NumQuestions
     THEN /\ Reply(<<Msg("QU", srvQ + 1)>>)
          /\ srvQ' = srvQ + 1 /\ srvActive' = TRUE /\ UNCHANGED srv
     ELSE /\ Reply(<<Empty("QU")>>)
          /\ srv' = "finished" /\ UNCHANGED <<srvQ, srvActive>>
  /\ InServer /\ UNCHANGED <<peer, leader, srvReported>>

\* an answer ends the question; one that comes too late is dropped
ServerAnswer ==
  /\ Receives("QU_AN")
  /\ Reply(IF srvActive THEN <<Msg("QU_RE", 0)>> ELSE <<>>)
  /\ srvActive' = FALSE
  /\ InServer /\ UNCHANGED <<peer, srv, srvQ, leader, srvReported>>

Sends(message) ==
  /\ Serving
  /\ inbox' = Append(inbox, message)
  /\ InServer /\ UNCHANGED <<peer, outbox, srvQ, leader>>

ServerTimeout ==
  /\ srvActive
  /\ srvActive' = FALSE
  /\ Sends(Msg("QU_RE", 0)) /\ UNCHANGED <<srv, srvReported>>

\* what other players do: join or leave, choose a catalog, start the game
ServerUnasked ==
  /\ srv \notin {"await", "over"}
  /\ Len(inbox) < MaxInbox
  /\ \/ /\ \/ "list" \in Events /\ Sends(Msg("PL_LI", 0))
           \/ "warn" \in Events /\ Sends(Msg("ER_WA", 0))
        /\ UNCHANGED srv
     \/ /\ srv = "lobby" /\ ~leader
        /\ \/ \E c \in Catalog : Sends(Msg("CA_CH", c)) /\ UNCHANGED srv
           \/ Sends(Empty("ST_GA")) /\ srv' = "game"
  /\ UNCHANGED <<srvActive, srvReported>>

ServerGameOver ==
  /\ srv = "finished"
  /\ Sends(Msg("GA_OV", 0))
  /\ srv' = "over" /\ UNCHANGED <<srvActive, srvReported>>

\* a login refused, or a game that cannot go on
ServerFatal ==
  /\ "fatal" \in Events
  /\ srv = "await" => outbox # <<>>
  /\ Sends(Msg("ER_WA", 1))
  /\ srv' = "over" /\ UNCHANGED <<srvActive, srvReported>>

ServerCloses ==
  /\ "close" \in Events
  /\ proc = "running" /\ peer = "open"
  /\ peer' = "closed"
  /\ InServer /\ UNCHANGED <<inbox, outbox, srvVars>>

-----------------------------------------------------------------------------
MainNext ==
  \/ Connect \/ CreateListener \/ SendLogin \/ WaitLogin \/ CreateGui
  \/ SendCatalogRequest \/ WaitStart \/ SendQuestionRequest \/ WaitEnd

ListenerReads ==
  \/ CallRead \/ ReadType \/ ReadSize \/ ReadRank
  \/ ReceiveLoginOk \/ ReceiveCatalog \/ ReceiveCatalogChange \/ ReceivePlayerList
  \/ ReceiveStartGame \/ ReceiveQuestion \/ ReceiveResult \/ ReceiveWarning
  \/ ReceiveUnknown \/ Severity \/ PostMain \/ WaitGui \/ SpawnQuestionThread

ListenerShows ==
  \/ ListenerAborts \/ SetMode \/ ShowCatalog \/ ShowSelection \/ ShowPlayers
  \/ ShowGame \/ ShowQuestion \/ EnableButtons \/ ShowResult \/ HideGame \/ ShowWarning \/ ShowEnd

GuiStarts == GuiInit \/ GuiPost \/ GuiSetRuns
GuiEnds == GuiDestroy \/ GuiExit
Errors(t) == ErrorDialog(t) \/ SocketWait(t) \/ WriteName(t) \/ Unlock(t)
QuestionThreads == QuestionThreadWrites \/ QuestionThreadFails

UserNext ==
  \/ \E c \in Catalog : OnCatalogChanged(c)
  \/ OnStartClicked \/ OnAnswerClicked
  \/ \E w \in {"preparation", "game"} : OnWindowClosed(w)

UserConfirms == \E d \in {"info", "quit"} : DismissDialog(d)

ServerReplies ==
  \/ ServerLogin \/ ServerCatalogs \/ ServerCatalogChange \/ ServerStart
  \/ ServerQuestion \/ ServerAnswer \/ ServerTimeout \/ ServerGameOver

ServerActs == ServerUnasked \/ ServerFatal \/ ServerCloses

\* once the process is gone nothing happens any more
Ended == proc # "running" /\ UNCHANGED vars

Next ==
  \/ MainNext \/ ListenerReads \/ ListenerShows \/ GuiStarts \/ GuiEnds
  \/ QuestionThreads \/ UserNext \/ UserConfirms \/ ServerReplies \/ ServerActs
  \/ \E t \in Threads : Errors(t)
  \/ Ended

Spec == Init /\ [][Next]_vars

\* every thread is scheduled, the GDK mutex starves nobody, the player confirms
\* dialogs and the server answers; the player's other acts and the faults are free
Fairness ==
  /\ WF_vars(MainNext) /\ WF_vars(ListenerReads) /\ SF_vars(ListenerShows)
  /\ WF_vars(GuiStarts) /\ SF_vars(GuiEnds) /\ SF_vars(UserConfirms)
  /\ WF_vars(QuestionThreadWrites) /\ SF_vars(QuestionThreadFails)
  /\ \A t \in Threads : SF_vars(Errors(t))
  /\ WF_vars(ServerReplies)

FairSpec == Spec /\ Fairness

-----------------------------------------------------------------------------
(* Properties.                                                              *)

CtlTypeOK ==
  /\ proc \in {"running", "exited", "returned", "killed", "aborted", "crashed"}
  /\ pc \in [Threads -> Labels] /\ cont \in [Threads -> Labels]
SemTypeOK == semMain \in 0 .. SemLimit /\ semSocket \in 0 .. SemLimit
FlagTypeOK == guiRuns \in BOOLEAN /\ closeOnEnd \in BOOLEAN
LiTypeOK ==
  /\ hdr \in [type : ServerTypes, size : {0, 1}] /\ msg \in Message
  /\ phase \in {0, 1} /\ counter \in Nat
  /\ stale \in [result : BOOLEAN, warning : Nat \cup {-1}]
GuiTypeOK ==
  /\ windows \in {"none", "ready", "destroyed"}
  /\ visible \subseteq {"preparation", "game"}
  /\ dialogs \in Seq({"info", "quit"})
  /\ gdkLock \in {"free", "gui", "listener"}
  /\ mode \in {"busy", "normal", "privileged"}
  /\ listed \subseteq Nat /\ selected \in Nat /\ shown \in Nat /\ enabled \in BOOLEAN
ThreadsTypeOK == threads \in [sleeping : Nat, failing : Nat, waiting : Nat]
NetTypeOK ==
  /\ sockOpen \in BOOLEAN /\ peer \in {"open", "closed"}
  /\ inbox \in Seq(Message) /\ outbox \in Seq(Frame)
SrvTypeOK ==
  /\ srv \in {"await", "lobby", "game", "finished", "over"}
  /\ srvQ \in Nat /\ srvActive \in BOOLEAN /\ leader \in BOOLEAN
  /\ srvReported \in Nat

\* Every variable keeps its type: in particular main, the change threads and the
\* callbacks put only requests of the protocol on the socket, the listener finds only
\* its messages there, and no semaphore and no count of threads leaves its range.
TypeOK ==
  /\ CtlTypeOK /\ SemTypeOK /\ FlagTypeOK /\ LiTypeOK
  /\ GuiTypeOK /\ ThreadsTypeOK /\ NetTypeOK /\ SrvTypeOK

\* The listener uses no GUI function before guiInit has created the windows:
\* an assertion of the library never fails for that reason.
NoGuiBeforeInit == proc = "aborted" => windows # "none"

Count(queue, type) == Cardinality({i \in DOMAIN queue : queue[i].type = type})
One(condition) == IF condition THEN 1 ELSE 0

\* Until the player closes a window at most one question is asked for, open or
\* being wound up: main, the change threads and the server pass one token on.
OneRoundAtATime ==
  closeOnEnd \/
  threads.sleeping + Count(outbox, "QU_RQ") + Count(inbox, "QU_RE")
    + One(srvActive) + One(pc["main"] = "request")
    + One(pc["listener"] \in {"size", "case", "gui", "spawn"} /\ hdr.type = "QU_RE")
    <= 1

\* An answer to a question on display is never credited to another question: no
\* request is sent ahead of it and the server's open question is the one it saw.
AnswerForShownQuestion ==
  \A i \in DOMAIN outbox : outbox[i].type = "QU_AN" /\ outbox[i].arg > 0 =>
    /\ \A j \in 1 .. i - 1 : outbox[j].type # "QU_RQ"
    /\ srvActive => outbox[i].arg = srvQ

\* The threads write whole messages: between the header of CA_CH or ST_GA and its
\* name no other thread gets a write in, though no lock guards the socket.  It holds
\* only with a server that does not return CA_CH to the leader: an echo handled after
\* the preparation window is hidden selects in the listener thread, whose callback
\* then writes CA_CH while main asks for the first question.
FramesIntact ==
  \A i \in DOMAIN outbox :
    /\ outbox[i].type \in {"CA_CH", "ST_GA"} /\ i < Len(outbox)
         => outbox[i + 1].type = "NAME"
    /\ outbox[i].type = "NAME"
         => i > 1 /\ outbox[i - 1].type \in {"CA_CH", "ST_GA"}

\* Until the player closes a window the command thread stays in its last wait.
MainStaysBlocked == closeOnEnd \/ proc # "returned"

\* Until the player closes a window, a preparation window that can be seen lists
\* every catalog of the server up to as many as the client is written for, also
\* when the count was reset by other players' messages in between.
PreparationShowsAll ==
  ~closeOnEnd /\ "preparation" \in visible
    => {c \in Catalog : c <= MaxCatalogs} \subseteq listed

\* While no change is under way or in flight, the server has the catalog the
\* leader's window shows as selected, also when the server's echo moves the
\* selection and the callback runs in the listener thread.
SelectionReported ==
  \/ proc # "running" \/ mode # "privileged" \/ ~sockOpen \/ peer = "closed"
  \/ \E i \in DOMAIN outbox : outbox[i].type \in {"CA_CH", "NAME"}
  \/ "name" \in {pc["gui"], pc["listener"]}
  \/ selected = srvReported

\* A client the server let in learns whether its player leads the game.
LoginLeadsToMode == srv = "lobby" ~> mode # "busy" \/ closeOnEnd

\* A game that was started is played to its last question unless the player
\* closes a window.
GameIsPlayed == srv = "game" ~> srv = "finished" \/ closeOnEnd

\* After the last question, or a closed window, the player who confirms the
\* message leaves the program, whatever the threads do with the socket then.
GameEnds == srv = "over" \/ closeOnEnd ~> proc # "running"

=============================================================================
