---------------------------- MODULE ClientProofs ----------------------------
(***************************************************************************)
(* Proofs about the client for every number of catalogs, questions and     *)
(* threads, every bound, every set of faults and of acts of the player.    *)
(***************************************************************************)
EXTENDS Client, SequenceTheorems, TLAPS

(* What the helpers of the actions keep.                                    *)

\* A jump keeps the threads at points of their code.
LEMMA ContinueTyped ==
  ASSUME CtlTypeOK, NEW t \in Threads, NEW next \in Labels, Continue(t, next)
  PROVE  CtlTypeOK'
  BY DEF CtlTypeOK, Continue, Goto

Endings == {"exited", "returned", "killed", "aborted", "crashed"}

\* An end of the process leaves the threads where they are.
LEMMA EndTyped ==
  ASSUME CtlTypeOK, NEW how \in Endings, End(how)
  PROVE  CtlTypeOK'
  BY DEF CtlTypeOK, End, Endings

\* The error check goes on, shows a dialog first, or ends the process.
LEMMA TestErrorsTyped ==
  ASSUME CtlTypeOK, NEW t \in Threads, NEW ret, NEW next \in Labels,
         TestErrors(t, ret, next)
  PROVE  CtlTypeOK'
  BY DEF CtlTypeOK, TestErrors, Continue, Goto, End, Labels, SharedLabels

\* A write changes the position of its thread and appends at most one frame.
LEMMA WriteTyped ==
  ASSUME CtlTypeOK, NetTypeOK, NEW t \in Threads, NEW frame \in Frame,
         NEW next \in Labels, Write(t, frame, next)
  PROVE  CtlTypeOK' /\ outbox' \in Seq(Frame)
<1>1. CASE Continue(t, next)
  BY SMTT(60), <1>1, ContinueTyped DEF Write, NetTypeOK
<1>2. CASE End("killed")
  BY <1>2, EndTyped DEF Write, NetTypeOK, Endings
<1>3. CASE TestErrors(t, -1, next)
  BY <1>3, TestErrorsTyped DEF Write, NetTypeOK
<1> QED BY <1>1, <1>2, <1>3 DEF Write

\* A read of the listener leaves the message, or nothing when it failed.
LEMMA ReadTyped ==
  ASSUME CtlTypeOK, NEW next \in Labels, Read(next)
  PROVE  CtlTypeOK' /\ msg' \in {msg, NoMsg}
<1>1. CASE Continue("listener", next)
  BY <1>1, ContinueTyped DEF Read, Threads
<1>2. ASSUME NEW ret \in {0, -1}, TestErrors("listener", ret, next)
      PROVE  CtlTypeOK'
  BY <1>2, TestErrorsTyped DEF Threads
<1> QED BY <1>1, <1>2 DEF Read

\* What a step leaves unchanged keeps its type.
LEMMA Kept ==
  ASSUME TypeOK
  PROVE  /\ UNCHANGED ctlVars => CtlTypeOK'
         /\ UNCHANGED semVars => SemTypeOK'
         /\ UNCHANGED flagVars => FlagTypeOK'
         /\ UNCHANGED liVars => LiTypeOK'
         /\ UNCHANGED guiVars => GuiTypeOK'
         /\ UNCHANGED threads => ThreadsTypeOK'
         /\ UNCHANGED netVars => NetTypeOK'
         /\ UNCHANGED srvVars => SrvTypeOK'
<1> USE DEF TypeOK
<1>1. UNCHANGED ctlVars => CtlTypeOK'
  BY DEF CtlTypeOK, ctlVars
<1>2. UNCHANGED semVars => SemTypeOK'
  BY DEF SemTypeOK, semVars
<1>3. UNCHANGED flagVars => FlagTypeOK'
  BY DEF FlagTypeOK, flagVars
<1>4. UNCHANGED liVars => LiTypeOK'
  BY DEF LiTypeOK, liVars
<1>5. UNCHANGED guiVars => GuiTypeOK'
  BY DEF GuiTypeOK, guiVars, prepVars, gameVars
<1>6. UNCHANGED threads => ThreadsTypeOK'
  BY DEF ThreadsTypeOK
<1>7. UNCHANGED netVars => NetTypeOK'
  BY DEF NetTypeOK, netVars
<1>8. UNCHANGED srvVars => SrvTypeOK'
  BY DEF SrvTypeOK, srvVars
<1> QED BY <1>1, <1>2, <1>3, <1>4, <1>5, <1>6, <1>7, <1>8

\* A post stays in the range of a semaphore.
LEMMA SemPostTyped ==
  ASSUME NEW n \in 0 .. SemLimit
  PROVE  SemPost(n) \in 0 .. SemLimit
<1>1. SemLimit \in Nat
  BY ClientAssumption
<1> QED BY <1>1 DEF SemPost

-----------------------------------------------------------------------------
(* Types, one lemma for each group of actions.                              *)

\* A step of main (client/main.c) keeps every variable in its type.
LEMMA MainTyped ==
  ASSUME TypeOK, MainNext
  PROVE  TypeOK'
<1> USE DEF TypeOK
<1>1. CASE Connect
  <2>1. CtlTypeOK'
    BY <1>1, ContinueTyped, EndTyped DEF Connect, Threads, Labels, MainLabels, Endings
  <2>2. NetTypeOK'
    BY <1>1 DEF Connect, NetTypeOK
  <2> QED BY <1>1, <2>1, <2>2, Kept DEF Connect
<1>2. CASE CreateListener
  <2>1. CtlTypeOK'
    BY <1>2, EndTyped
    DEF CreateListener, CtlTypeOK, Threads, Labels, MainLabels, ListenerLabels, Endings
  <2> QED BY <1>2, <2>1, Kept DEF CreateListener, OnlyControl
<1>3. CASE CreateGui
  <2>1. CtlTypeOK'
    BY <1>3, EndTyped
    DEF CreateGui, CtlTypeOK, Threads, Labels, MainLabels, GuiLabels, Endings
  <2> QED BY <1>3, <2>1, Kept DEF CreateGui, OnlyControl
<1>4. ASSUME NEW label, NEW type \in FrameTypes, NEW next \in Labels,
             MainWrites(label, type, next)
      PROVE  TypeOK'
  <2>1. Frm(type, 0) \in Frame
    BY DEF Frm, Frame
  <2>2. CtlTypeOK' /\ outbox' \in Seq(Frame)
    BY <1>4, <2>1, WriteTyped DEF MainWrites, Threads
  <2> QED BY <1>4, <2>2, Kept DEF MainWrites, NetTypeOK
<1>5. CASE SendLogin \/ SendCatalogRequest \/ SendQuestionRequest
  BY <1>4, <1>5
  DEF SendLogin, SendCatalogRequest, SendQuestionRequest, FrameTypes, Labels, MainLabels
<1>6. ASSUME NEW label, NEW next \in Labels, MainWaits(label, next)
      PROVE  TypeOK'
  <2>1. CtlTypeOK' /\ SemTypeOK'
    BY <1>6, ContinueTyped, ClientAssumption DEF MainWaits, SemTypeOK, Threads
  <2> QED BY <1>6, <2>1, Kept DEF MainWaits
<1>7. CASE WaitLogin \/ WaitStart
  BY <1>6, <1>7 DEF WaitLogin, WaitStart, Labels, MainLabels
<1>8. CASE WaitEnd
  <2>1. CtlTypeOK' /\ SemTypeOK'
    BY <1>8, EndTyped, ClientAssumption DEF WaitEnd, SemTypeOK, Endings
  <2> QED BY <1>8, <2>1, Kept DEF WaitEnd
<1> QED BY <1>1, <1>2, <1>3, <1>5, <1>7, <1>8 DEF MainNext

\* What the listener knows of a message that it has taken from the socket.
LEMMA MessageTyped ==
  /\ NoMsg \in Message /\ Raw \in Message
  /\ \A m \in Message : m.type \in ServerTypes /\ m.size \in {0, 1} /\ m.arg \in Nat
  BY DEF Message, NoMsg, Raw, ServerTypes

\* A read, a case or a semaphore call of listener_thread keeps every variable in
\* its type (li_qu_thread.c).
LEMMA ListenerReadsTyped ==
  ASSUME TypeOK, ListenerReads
  PROVE  TypeOK'
<1> USE DEF TypeOK
<1> USE DEF InThread
<1>1. CASE CallRead
  <2>1. CtlTypeOK'
    BY <1>1, ContinueTyped, TestErrorsTyped DEF CallRead, Threads, Labels, ListenerLabels
  <2>2. LiTypeOK'
    BY <1>1, MessageTyped DEF CallRead, LiTypeOK
  <2> QED BY <1>1, <2>1, <2>2, Kept DEF CallRead
<1>2. CASE ReadType
  <2>1. CtlTypeOK'
    BY <1>2, ContinueTyped, TestErrorsTyped DEF ReadType, Threads, Labels, ListenerLabels
  <2>2. inbox # <<>> => Head(inbox) \in Message /\ Tail(inbox) \in Seq(Message)
    BY HeadTailProperties DEF NetTypeOK
  <2>3. inbox' \in {Tail(inbox), <<>>} /\ (inbox = <<>> => inbox' = <<>>)
    BY <1>2 DEF ReadType
  <2>4. NetTypeOK'
    <3>1. inbox' \in Seq(Message)
      BY <2>2, <2>3, EmptySeq
    <3>2. UNCHANGED <<sockOpen, peer, outbox>>
      BY <1>2 DEF ReadType
    <3> QED BY <3>1, <3>2 DEF NetTypeOK
  <2>5. LiTypeOK'
    BY <1>2, <2>2, MessageTyped DEF ReadType, LiTypeOK
  <2> QED BY <1>2, <2>1, <2>4, <2>5, Kept DEF ReadType
<1>3. CASE ReadSize
  <2>1. CtlTypeOK' /\ msg' \in {msg, NoMsg}
    BY <1>3, ReadTyped DEF ReadSize, Labels, ListenerLabels
  <2>2. LiTypeOK'
    BY <1>3, <2>1, MessageTyped DEF ReadSize, LiTypeOK
  <2> QED BY <1>3, <2>1, <2>2, Kept DEF ReadSize
<1>4. ASSUME NEW next \in Labels, ReadPayload(next)
      PROVE  CtlTypeOK' /\ msg' \in {msg, NoMsg}
  BY <1>4, ReadTyped, ContinueTyped DEF ReadPayload, Skip, Threads
<1>5. ASSUME NEW type, NEW next \in Labels, Receive(type, next)
      PROVE  TypeOK'
  <2>1. CtlTypeOK' /\ msg' \in {msg, NoMsg}
    BY <1>4, <1>5 DEF Receive
  <2>2. LiTypeOK'
    BY <1>5, <2>1, MessageTyped DEF Receive, LiTypeOK
  <2> QED BY <1>5, <2>1, <2>2, Kept DEF Receive
<1>6. CASE \/ ReceiveLoginOk \/ ReceiveCatalogChange \/ ReceivePlayerList
           \/ ReceiveStartGame
  <2>1. CASE ReceiveLoginOk
    <3>1. CtlTypeOK' /\ msg' \in {msg, NoMsg}
      BY <2>1, ReadTyped DEF ReceiveLoginOk, Labels, ListenerLabels
    <3>2. LiTypeOK'
      BY <2>1, <3>1, MessageTyped DEF ReceiveLoginOk, LiTypeOK
    <3> QED BY <2>1, <3>1, <3>2, Kept DEF ReceiveLoginOk
  <2>2. CASE ReceiveCatalogChange \/ ReceivePlayerList \/ ReceiveStartGame
    BY <1>5, <2>2
    DEF ReceiveCatalogChange, ReceivePlayerList, ReceiveStartGame, Labels, ListenerLabels
  <2> QED BY <1>6, <2>1, <2>2
<1>7. CASE ReceiveCatalog
  <2>1. CtlTypeOK' /\ msg' \in {msg, NoMsg}
    BY <1>4, <1>7, ContinueTyped
    DEF ReceiveCatalog, Skip, Threads, Labels, ListenerLabels
  <2>2. LiTypeOK'
    BY <1>7, <2>1, MessageTyped, ClientAssumption DEF ReceiveCatalog, LiTypeOK
  <2>3. <<Raw>> \o inbox \in Seq(Message)
    BY MessageTyped, ConcatProperties DEF NetTypeOK
  <2>4. NetTypeOK'
    BY <1>7, <2>3 DEF ReceiveCatalog, NetTypeOK
  <2> QED BY <1>7, <2>1, <2>2, <2>4, Kept DEF ReceiveCatalog
<1>8. CASE ReceiveQuestion
  <2>1. CtlTypeOK' /\ msg' \in {msg, NoMsg}
    BY <1>4, <1>8 DEF ReceiveQuestion, Labels, ListenerLabels
  <2>2. LiTypeOK'
    BY <1>8, <2>1, MessageTyped DEF ReceiveQuestion, LiTypeOK
  <2> QED BY <1>8, <2>1, <2>2, Kept DEF ReceiveQuestion
<1>9. CASE ReceiveResult
  <2>1. CtlTypeOK' /\ msg' \in {msg, NoMsg}
    BY <1>9, ReadTyped DEF ReceiveResult, Labels, ListenerLabels
  <2>2. LiTypeOK'
    BY <1>9, <2>1, MessageTyped DEF ReceiveResult, LiTypeOK
  <2> QED BY <1>9, <2>1, <2>2, Kept DEF ReceiveResult
<1>10. CASE ReadRank
  <2>1. CtlTypeOK' /\ msg' \in {msg, NoMsg}
    BY <1>10, ReadTyped DEF ReadRank, Labels, ListenerLabels
  <2>2. LiTypeOK'
    BY <1>10, <2>1, MessageTyped DEF ReadRank, LiTypeOK
  <2> QED BY <1>10, <2>1, <2>2, Kept DEF ReadRank
<1>11. CASE ReceiveWarning
  <2>1. CtlTypeOK' /\ msg' \in {msg, NoMsg}
    BY <1>11, ReadTyped, EndTyped DEF ReceiveWarning, Labels, ListenerLabels, Endings
  <2>2. LiTypeOK'
    BY <1>11, <2>1, MessageTyped DEF ReceiveWarning, LiTypeOK
  <2> QED BY <1>11, <2>1, <2>2, Kept DEF ReceiveWarning
<1>12. CASE Severity
  <2>1. CtlTypeOK'
    BY <1>12, ContinueTyped, EndTyped
    DEF Severity, Threads, Labels, ListenerLabels, Endings
  <2>2. NetTypeOK'
    BY <1>12 DEF Severity, NetTypeOK
  <2> QED BY <1>12, <2>1, <2>2, Kept DEF Severity
<1>13. CASE ReceiveUnknown
  <2>1. CtlTypeOK'
    BY <1>13, EndTyped DEF ReceiveUnknown, Endings
  <2>2. LiTypeOK'
    BY <1>13 DEF ReceiveUnknown, LiTypeOK
  <2> QED BY <1>13, <2>1, <2>2, Kept DEF ReceiveUnknown
<1>14. CASE PostMain
  <2>1. AfterPost \in Labels
    BY DEF AfterPost, Labels, ListenerLabels
  <2>2. CtlTypeOK' /\ SemTypeOK'
    BY <1>14, <2>1, ContinueTyped, SemPostTyped DEF PostMain, SemTypeOK, Threads
  <2> QED BY <1>14, <2>2, Kept DEF PostMain
<1>15. CASE WaitGui
  <2>1. CtlTypeOK' /\ SemTypeOK'
    BY <1>15, ContinueTyped, ClientAssumption
    DEF WaitGui, SemTypeOK, Threads, Labels, ListenerLabels
  <2> QED BY <1>15, <2>1, Kept DEF WaitGui
<1>16. CASE SpawnQuestionThread
  <2>1. CtlTypeOK'
    BY <1>16, ContinueTyped
    DEF SpawnQuestionThread, Threads, Labels, ListenerLabels
  <2>2. ThreadsTypeOK'
    BY <1>16 DEF SpawnQuestionThread, Spawned, ThreadsTypeOK
  <2> QED BY <1>16, <2>1, <2>2, Kept DEF SpawnQuestionThread
<1> QED BY <1>1, <1>2, <1>3, <1>6, <1>7, <1>8, <1>9, <1>10, <1>11, <1>12, <1>13,
           <1>14, <1>15, <1>16 DEF ListenerReads

\* A dialog that opens keeps the stack of dialogs a stack of dialogs.
LEMMA OpenedTyped ==
  ASSUME GuiTypeOK, NEW kind \in {"info", "quit"}
  PROVE  Opened(kind) \in Seq({"info", "quit"})
<1>1. <<kind>> \o dialogs \in Seq({"info", "quit"})
  BY ConcatProperties DEF GuiTypeOK
<1> QED BY <1>1 DEF Opened, GuiTypeOK

\* One step of a thread to a label, and a change of the GUI and nothing else.
LEMMA ShowsTyped ==
  ASSUME TypeOK, NEW t \in Threads, NEW next \in Labels, Continue(t, next), OnlyGui,
         GuiTypeOK'
  PROVE  TypeOK'
  BY ContinueTyped, Kept DEF TypeOK, OnlyGui

\* A GUI call of listener_thread keeps every variable in its type.
LEMMA ListenerShowsTyped ==
  ASSUME TypeOK, ListenerShows
  PROVE  TypeOK'
<1> USE DEF TypeOK, prepVars, gameVars
<1>1. /\ "listener" \in Threads
      /\ {"type", "post", "spawn", "rank", "errWait", "name", "buttons"} \subseteq Labels
  BY DEF Threads, Labels, ListenerLabels, SharedLabels
<1>2. CASE ListenerAborts
  <2>1. CtlTypeOK'
    BY <1>2, EndTyped DEF ListenerAborts, Endings
  <2> QED BY <1>2, <2>1, Kept DEF ListenerAborts, OnlyControl
<1>3. CASE SetMode
  <2>1. GuiTypeOK'
    BY <1>3 DEF SetMode, GuiTypeOK
  <2> QED BY <1>1, <1>3, <2>1, ShowsTyped DEF SetMode
<1>4. CASE ShowCatalog
  <2>1. msg.arg \in Nat /\ counter + 1 \in Nat
    BY MessageTyped DEF LiTypeOK
  <2>2. LiTypeOK'
    BY <1>4, <2>1 DEF ShowCatalog, LiTypeOK
  <2>3. dialogs' \in Seq({"info", "quit"})
    BY <1>4, OpenedTyped DEF ShowCatalog, GuiTypeOK
  <2>4. GuiTypeOK'
    BY <1>4, <2>1, <2>3 DEF ShowCatalog, GuiTypeOK
  <2>5. CtlTypeOK'
    BY <1>1, <1>4, ContinueTyped DEF ShowCatalog
  <2> QED BY <1>4, <2>2, <2>4, <2>5, Kept DEF ShowCatalog
<1>5. CASE ShowSelection
  <2>1. msg.arg \in Nat /\ Frm("CA_CH", 0) \in Frame
    BY MessageTyped DEF LiTypeOK, Frm, Frame, FrameTypes
  <2>2. CtlTypeOK' /\ outbox' \in Seq(Frame)
    BY <1>1, <1>5, <2>1, WriteTyped, ContinueTyped DEF ShowSelection, NetTypeOK
  <2>3. GuiTypeOK'
    BY <1>5, <2>1 DEF ShowSelection, GuiTypeOK
  <2>4. NetTypeOK'
    BY <1>5, <2>2 DEF ShowSelection, NetTypeOK
  <2> QED BY <1>5, <2>2, <2>3, <2>4, Kept DEF ShowSelection
<1>6. CASE ShowPlayers
  <2>1. CtlTypeOK'
    BY <1>1, <1>6, ContinueTyped DEF ShowPlayers
  <2> QED BY <1>6, <2>1, Kept DEF ShowPlayers, OnlyControl
<1>7. CASE ShowGame
  <2>1. GuiTypeOK' /\ LiTypeOK'
    BY <1>7 DEF ShowGame, GuiTypeOK, LiTypeOK
  <2>2. CtlTypeOK'
    BY <1>1, <1>7, ContinueTyped DEF ShowGame
  <2> QED BY <1>7, <2>1, <2>2, Kept DEF ShowGame
<1>8. CASE ShowQuestion
  <2>1. msg.arg \in Nat
    BY MessageTyped DEF LiTypeOK
  <2>2. GuiTypeOK'
    BY <1>8, <2>1 DEF ShowQuestion, GuiTypeOK
  <2> QED BY <1>1, <1>8, <2>2, ShowsTyped DEF ShowQuestion
<1>9. CASE EnableButtons
  <2>1. GuiTypeOK'
    BY <1>9 DEF EnableButtons, GuiTypeOK
  <2> QED BY <1>1, <1>9, <2>1, ShowsTyped DEF EnableButtons
<1>10. CASE ShowResult
  <2>1. GuiTypeOK'
    BY <1>10 DEF ShowResult, GuiTypeOK
  <2> QED BY <1>1, <1>10, <2>1, ShowsTyped DEF ShowResult
<1>11. CASE HideGame
  <2>1. GuiTypeOK'
    BY <1>11 DEF HideGame, GuiTypeOK
  <2> QED BY <1>1, <1>11, <2>1, ShowsTyped DEF HideGame
<1>12. CASE ShowWarning
  <2>1. GuiTypeOK'
    BY <1>12, OpenedTyped DEF ShowWarning, GuiTypeOK
  <2> QED BY <1>1, <1>12, <2>1, ShowsTyped DEF ShowWarning
<1>13. CASE ShowEnd
  <2>1. GuiTypeOK'
    BY <1>13, OpenedTyped DEF ShowEnd, GuiTypeOK
  <2>2. CtlTypeOK'
    BY <1>1, <1>13 DEF ShowEnd, Goto, CtlTypeOK
  <2> QED BY <1>13, <2>1, <2>2, Kept DEF ShowEnd, OnlyGui
<1> QED BY <1>2, <1>3, <1>4, <1>5, <1>6, <1>7, <1>8, <1>9, <1>10, <1>11, <1>12, <1>13
        DEF ListenerShows

\* The steps behind a failed call, test_socketOnErrors, and the second write of a
\* callback keep every variable in its type.
LEMMA ErrorsKeepTypes ==
  ASSUME TypeOK, NEW t \in Threads, Errors(t)
  PROVE  TypeOK'
<1> USE DEF TypeOK, prepVars, gameVars
<1>1. CASE ErrorDialog(t)
  <2>1. GuiTypeOK'
    BY <1>1, OpenedTyped DEF ErrorDialog, GuiTypeOK
  <2> QED BY <1>1, <2>1, ShowsTyped DEF ErrorDialog, Labels, SharedLabels
<1>2. CASE SocketWait(t)
  <2>1. cont[t] \in Labels
    BY DEF CtlTypeOK
  <2>2. CtlTypeOK' /\ SemTypeOK'
    BY <1>2, <2>1, ContinueTyped, ClientAssumption DEF SocketWait, SemTypeOK
  <2> QED BY <1>2, <2>2, Kept DEF SocketWait
<1>3. CASE WriteName(t)
  <2>1. Frm("NAME", selected) \in Frame
    BY DEF Frm, Frame, FrameTypes, GuiTypeOK
  <2>2. CtlTypeOK' /\ outbox' \in Seq(Frame)
    BY <1>3, <2>1, WriteTyped DEF WriteName, Labels, SharedLabels
  <2>3. NetTypeOK'
    BY <1>3, <2>2 DEF WriteName, NetTypeOK
  <2> QED BY <1>3, <2>2, <2>3, Kept DEF WriteName
<1>4. CASE Unlock(t)
  <2>1. GuiTypeOK'
    BY <1>4 DEF Unlock, GuiTypeOK
  <2>2. (IF t = "gui" THEN "loop" ELSE "type") \in Labels
    BY DEF Labels, GuiLabels, ListenerLabels
  <2> QED BY <1>4, <2>1, <2>2, ShowsTyped DEF Unlock
<1> QED BY <1>1, <1>2, <1>3, <1>4 DEF Errors

\* A question change thread keeps every variable in its type.
LEMMA QuestionThreadsTyped ==
  ASSUME TypeOK, QuestionThreads
  PROVE  TypeOK'
<1> USE DEF TypeOK, prepVars, gameVars
<1>1. CASE QuestionThreadWrites
  <2>1. CtlTypeOK'
    BY <1>1, EndTyped, Kept DEF QuestionThreadWrites, Endings
  <2>2. ThreadsTypeOK'
    <3>1. \/ threads' = threads
          \/ threads' = [threads EXCEPT !.sleeping = @ - 1]
          \/ threads' = [sleeping |-> threads.sleeping - 1,
                          failing |-> threads.failing + 1, waiting |-> threads.waiting]
      BY <1>1 DEF QuestionThreadWrites, ThreadsTypeOK
    <3>2. threads.sleeping - 1 \in Nat
      BY <1>1 DEF QuestionThreadWrites, ThreadsTypeOK
    <3> QED BY <3>1, <3>2 DEF ThreadsTypeOK
  <2>3. Append(outbox, Frm("QU_RQ", 0)) \in Seq(Frame)
    BY AppendProperties DEF Frm, Frame, FrameTypes, NetTypeOK
  <2>4. NetTypeOK'
    BY <1>1, <2>3 DEF QuestionThreadWrites, NetTypeOK
  <2> QED BY <1>1, <2>1, <2>2, <2>4, Kept DEF QuestionThreadWrites
<1>2. CASE QuestionThreadFails
  <2>1. ThreadsTypeOK'
    <3>1. threads.failing - 1 \in Nat
      BY <1>2 DEF QuestionThreadFails, ThreadsTypeOK
    <3>2. threads' = [sleeping |-> threads.sleeping, failing |-> threads.failing - 1,
                      waiting |-> threads.waiting + 1]
      BY <1>2 DEF QuestionThreadFails, ThreadsTypeOK
    <3> QED BY <3>1, <3>2 DEF ThreadsTypeOK
  <2>2. GuiTypeOK'
    BY <1>2, OpenedTyped DEF QuestionThreadFails, GuiTypeOK
  <2> QED BY <1>2, <2>1, <2>2, Kept DEF QuestionThreadFails
<1> QED BY <1>1, <1>2 DEF QuestionThreads

\* The GUI thread's start and end (main.c:60-88) keep every variable in its type.
LEMMA GuiTyped ==
  ASSUME TypeOK, GuiStarts \/ GuiEnds
  PROVE  TypeOK'
<1> USE DEF TypeOK, prepVars, gameVars
<1>1. "gui" \in Threads /\ {"post", "setRuns", "loop", "exit"} \subseteq Labels
  BY DEF Threads, Labels, GuiLabels, ListenerLabels
<1>2. CASE GuiInit
  <2>1. GuiTypeOK'
    BY <1>2 DEF GuiInit, GuiTypeOK
  <2> QED BY <1>1, <1>2, <2>1, ShowsTyped DEF GuiInit
<1>3. CASE GuiPost
  <2>1. CtlTypeOK' /\ SemTypeOK'
    BY <1>1, <1>3, ContinueTyped, SemPostTyped DEF GuiPost, SemTypeOK
  <2> QED BY <1>3, <2>1, Kept DEF GuiPost
<1>4. CASE GuiSetRuns
  <2>1. CtlTypeOK' /\ FlagTypeOK'
    BY <1>1, <1>4, ContinueTyped DEF GuiSetRuns, FlagTypeOK
  <2> QED BY <1>4, <2>1, Kept DEF GuiSetRuns
<1>5. CASE GuiDestroy
  <2>1. GuiTypeOK'
    BY <1>5 DEF GuiDestroy, GuiTypeOK
  <2> QED BY <1>1, <1>5, <2>1, ShowsTyped DEF GuiDestroy
<1>6. CASE GuiExit
  <2>1. CtlTypeOK'
    BY <1>6, EndTyped DEF GuiExit, Endings
  <2> QED BY <1>6, <2>1, Kept DEF GuiExit, OnlyControl
<1> QED BY <1>2, <1>3, <1>4, <1>5, <1>6 DEF GuiStarts, GuiEnds

\* A callback of gui_interface.c or a dismissed dialog keeps every variable in its
\* type.
LEMMA UserTyped ==
  ASSUME TypeOK, UserNext \/ UserConfirms
  PROVE  TypeOK'
<1> USE DEF TypeOK, prepVars, gameVars
<1>1. ASSUME NEW frame \in Frame, NEW next \in {"name", "unlock"}, Callback(frame, next),
             selected' \in Nat
      PROVE  TypeOK'
  <2>1. CtlTypeOK' /\ outbox' \in Seq(Frame)
    BY <1>1, WriteTyped DEF Callback, Threads, Labels, SharedLabels
  <2>2. GuiTypeOK' /\ NetTypeOK'
    BY <1>1, <2>1 DEF Callback, GuiTypeOK, NetTypeOK
  <2> QED BY <1>1, <2>1, <2>2, Kept DEF Callback
<1>2. \A type \in FrameTypes, arg \in Nat : Frm(type, arg) \in Frame
  BY DEF Frm, Frame
<1>3. selected \in Nat /\ shown \in Nat
  BY DEF GuiTypeOK
<1>4. ASSUME NEW c \in Catalog, OnCatalogChanged(c)
      PROVE  TypeOK'
  BY <1>1, <1>2, <1>4 DEF OnCatalogChanged, Catalog, FrameTypes
<1>5. CASE OnStartClicked
  BY <1>1, <1>2, <1>3, <1>5 DEF OnStartClicked, FrameTypes
<1>6. CASE OnAnswerClicked
  BY <1>1, <1>2, <1>3, <1>6 DEF OnAnswerClicked, FrameTypes
<1>7. ASSUME NEW w \in {"preparation", "game"}, OnWindowClosed(w)
      PROVE  TypeOK'
  <2>1. GuiTypeOK'
    BY <1>7, OpenedTyped DEF OnWindowClosed, GuiTypeOK
  <2>2. FlagTypeOK' /\ NetTypeOK'
    BY <1>7 DEF OnWindowClosed, FlagTypeOK, NetTypeOK
  <2> QED BY <1>7, <2>1, <2>2, Kept DEF OnWindowClosed
<1>8. ASSUME NEW d \in {"info", "quit"}, DismissDialog(d)
      PROVE  TypeOK'
  <2>1. Tail(dialogs) \in Seq({"info", "quit"})
    BY <1>8, HeadTailProperties DEF DismissDialog, GuiTypeOK
  <2>2. GuiTypeOK'
    BY <1>8, <2>1 DEF DismissDialog, GuiTypeOK
  <2>3. CtlTypeOK'
    BY <1>8, ContinueTyped, Kept DEF DismissDialog, Threads, Labels, GuiLabels
  <2> QED BY <1>8, <2>2, <2>3, Kept DEF DismissDialog, OnlyGui
<1> QED BY <1>4, <1>5, <1>6, <1>7, <1>8 DEF UserNext, UserConfirms

\* The messages the server sends are messages of the protocol.
LEMMA ServerMessagesTyped ==
  /\ \A type \in ServerTypes, arg \in Nat : Msg(type, arg) \in Message
  /\ \A type \in ServerTypes : Empty(type) \in Message
  BY DEF Msg, Empty, Message

\* Whatever the server does, the client still reads first what was sent first.
LEMMA ServerSends ==
  ASSUME TypeOK, ServerReplies \/ ServerActs
  PROVE  \E more \in Seq(Message) : inbox' = inbox \o more
<1> USE DEF TypeOK
<1>1. <<>> \in Seq(Message) /\ \A m \in Message : <<m>> \in Seq(Message)
  BY EmptySeq
<1>2. inbox' = inbox => inbox' = inbox \o <<>>
  BY ConcatEmptySeq DEF NetTypeOK
<1>3. CASE ServerLogin
  <2>1. \A id \in {0, 1} : <<Msg("LG_RQ_OK", id), Msg("PL_LI", 0)>> \in Seq(Message)
    BY ServerMessagesTyped DEF ServerTypes
  <2> QED BY <1>3, <2>1 DEF ServerLogin, Reply
<1>4. CASE ServerCatalogs
  <2> DEFINE names == [c \in Catalog |-> Msg("CA_RP", c)]
             end == <<Empty("CA_RP")>>
             list == names \o end
  <2>1. list \in Seq(Message) /\ Len(list) = NumCatalogs + 1
    <3>1. names \in Seq(Message) /\ Len(names) = NumCatalogs
      BY ServerMessagesTyped, ClientAssumption DEF ServerTypes, Catalog
    <3>2. end \in Seq(Message) /\ Len(end) = 1
      BY <1>1, ServerMessagesTyped DEF ServerTypes
    <3> HIDE DEF names, end
    <3> QED BY <3>1, <3>2, ConcatProperties
  <2>2. ASSUME NEW i \in Catalog
        PROVE  SubSeq(list, 1, i) \o <<Msg("PL_LI", 0)>> \o SubSeq(list, i + 1, Len(list))
                 \in Seq(Message)
    <3> HIDE DEF list, names, end
    <3>1. <<Msg("PL_LI", 0)>> \in Seq(Message)
      BY <1>1, ServerMessagesTyped DEF ServerTypes
    <3>2. i \in 1 .. Len(list) /\ i + 1 \in 1 .. Len(list)
      BY <2>1, ClientAssumption DEF Catalog
    <3>3. \A j \in 1 .. Len(list) : list[j] \in Message
      BY <2>1, ElementOfSeq
    <3>4. SubSeq(list, 1, i) \in Seq(Message)
      BY <3>2, <3>3, SubSeqProperties
    <3>5. SubSeq(list, i + 1, Len(list)) \in Seq(Message)
      BY <3>2, <3>3, SubSeqProperties
    <3> QED BY <3>1, <3>4, <3>5, ConcatProperties
  <2> QED BY <1>4, <2>1, <2>2 DEF ServerCatalogs, Reply
<1>5. CASE ServerCatalogChange \/ ServerStart
  <2>1. Len(outbox) > 1 => outbox[2].arg \in Nat
    <3>1. Len(outbox) > 1 => 2 \in 1 .. Len(outbox)
      BY LenProperties DEF NetTypeOK
    <3>2. Len(outbox) > 1 => outbox[2] \in Frame
      BY <3>1, ElementOfSeq DEF NetTypeOK
    <3> QED BY <3>2 DEF Frame
  <2>2. Len(outbox) > 1 => /\ <<Msg("CA_CH", outbox[2].arg)>> \in Seq(Message)
                           /\ <<Msg("ST_GA", outbox[2].arg)>> \in Seq(Message)
    BY <1>1, <2>1, ServerMessagesTyped DEF ServerTypes
  <2> QED BY <1>1, <1>5, <2>2 DEF ServerCatalogChange, ServerStart, ReplyToName
<1>6. CASE ServerQuestion
  <2>1. <<Msg("QU", srvQ + 1)>> \in Seq(Message) /\ <<Empty("QU")>> \in Seq(Message)
    BY <1>1, ServerMessagesTyped DEF ServerTypes, SrvTypeOK
  <2> QED BY <1>6, <2>1 DEF ServerQuestion, Reply
<1>7. CASE ServerAnswer
  <2>1. <<Msg("QU_RE", 0)>> \in Seq(Message)
    BY <1>1, ServerMessagesTyped DEF ServerTypes
  <2> QED BY <1>1, <1>7, <2>1 DEF ServerAnswer, Reply
<1>8. ASSUME NEW m \in Message, Sends(m)
      PROVE  \E more \in Seq(Message) : inbox' = inbox \o more
  <2>1. Append(inbox, m) = inbox \o <<m>>
    BY AppendIsConcat DEF NetTypeOK
  <2> QED BY <1>1, <1>8, <2>1 DEF Sends
<1>9. CASE ServerTimeout \/ ServerGameOver \/ ServerFatal
  BY <1>8, <1>9, ServerMessagesTyped
  DEF ServerTimeout, ServerGameOver, ServerFatal, ServerTypes
<1>10. CASE ServerUnasked
  BY <1>8, <1>10, ServerMessagesTyped DEF ServerUnasked, ServerTypes, Catalog
<1>11. CASE ServerCloses
  BY <1>1, <1>2, <1>11 DEF ServerCloses
<1> QED BY <1>3, <1>4, <1>5, <1>6, <1>7, <1>9, <1>10, <1>11
        DEF ServerReplies, ServerActs

\* What the server sends and takes keeps every variable in its type.
LEMMA ServerTyped ==
  ASSUME TypeOK, ServerReplies \/ ServerActs
  PROVE  TypeOK'
<1> USE DEF TypeOK
<1>1. inbox' \in Seq(Message)
  BY ServerSends, ConcatProperties DEF NetTypeOK
<1>2. outbox # <<>> => Tail(outbox) \in Seq(Frame)
  BY HeadTailProperties DEF NetTypeOK
<1>3. Len(outbox) > 1 => Tail(Tail(outbox)) \in Seq(Frame) /\ outbox[2].arg \in Nat
  <2> SUFFICES ASSUME Len(outbox) > 1
               PROVE  Tail(Tail(outbox)) \in Seq(Frame) /\ outbox[2].arg \in Nat
    OBVIOUS
  <2>1. outbox \in Seq(Frame) /\ outbox # <<>> /\ 2 \in 1 .. Len(outbox)
    BY LenProperties, EmptySeq DEF NetTypeOK
  <2>2. Tail(outbox) \in Seq(Frame) /\ Len(Tail(outbox)) = Len(outbox) - 1
    BY <2>1, HeadTailProperties
  <2>3. Tail(outbox) # <<>>
    <3>1. Len(Tail(outbox)) # 0
      BY <2>1, <2>2, LenProperties
    <3> QED BY <3>1, EmptySeq
  <2>4. outbox[2] \in Frame
    BY <2>1, ElementOfSeq
  <2> QED BY <2>2, <2>3, <2>4, HeadTailProperties DEF Frame
<1>4. outbox' \in {outbox, Tail(outbox), Tail(Tail(outbox))} /\ outbox' \in Seq(Frame)
  BY <1>2, <1>3
  DEF ServerReplies, ServerActs, ServerLogin, ServerCatalogs, ServerCatalogChange,
      ServerStart, ServerQuestion, ServerAnswer, ServerTimeout, ServerGameOver,
      ServerUnasked, ServerFatal, ServerCloses, Sends, ReplyToName, Receives, Reply,
      NetTypeOK
<1>5. sockOpen' = sockOpen /\ peer' \in {peer, "closed"}
  BY DEF ServerReplies, ServerActs, ServerLogin, ServerCatalogs, ServerCatalogChange,
         ServerStart, ServerQuestion, ServerAnswer, ServerTimeout, ServerGameOver,
         ServerUnasked, ServerFatal, ServerCloses, Sends, InServer
<1>6. NetTypeOK'
  BY <1>1, <1>4, <1>5 DEF NetTypeOK
<1>7. /\ srv' \in {srv, "lobby", "game", "finished", "over"} /\ srvQ' \in {srvQ, srvQ + 1}
      /\ srvReported' \in Nat
  BY <1>3
  DEF ServerReplies, ServerActs, ServerLogin, ServerCatalogs, ServerCatalogChange,
      ServerStart, ServerQuestion, ServerAnswer, ServerTimeout, ServerGameOver,
      ServerUnasked, ServerFatal, ServerCloses, Sends, ReplyToName, SrvTypeOK, srvVars
<1>8. srvActive' \in BOOLEAN /\ leader' \in BOOLEAN
  BY DEF ServerReplies, ServerActs, ServerLogin, ServerCatalogs, ServerCatalogChange,
         ServerStart, ServerQuestion, ServerAnswer, ServerTimeout, ServerGameOver,
         ServerUnasked, ServerFatal, ServerCloses, Sends, SrvTypeOK, srvVars
<1>9. SrvTypeOK'
  BY <1>7, <1>8 DEF SrvTypeOK
<1>10. UNCHANGED <<ctlVars, semVars, flagVars, liVars, guiVars, threads>>
  BY DEF ServerReplies, ServerActs, ServerLogin, ServerCatalogs, ServerCatalogChange,
         ServerStart, ServerQuestion, ServerAnswer, ServerTimeout, ServerGameOver,
         ServerUnasked, ServerFatal, ServerCloses, Sends, InServer
<1> QED BY <1>6, <1>9, <1>10, Kept

-----------------------------------------------------------------------------
\* The state the process starts in is well typed.
LEMMA InitTyped == Init => TypeOK
<1> SUFFICES ASSUME Init PROVE TypeOK
  OBVIOUS
<1>1. CtlTypeOK
  BY DEF Init, CtlTypeOK, Threads, Labels, MainLabels, SharedLabels
<1>2. SemTypeOK
  BY ClientAssumption DEF Init, SemTypeOK
<1>3. FlagTypeOK /\ ThreadsTypeOK /\ SrvTypeOK
  BY DEF Init, FlagTypeOK, ThreadsTypeOK, SrvTypeOK
<1>4. LiTypeOK
  BY MessageTyped DEF Init, LiTypeOK, ServerTypes
<1>5. GuiTypeOK
  BY EmptySeq DEF Init, GuiTypeOK
<1>6. NetTypeOK
  BY EmptySeq DEF Init, NetTypeOK
<1> QED BY <1>1, <1>2, <1>3, <1>4, <1>5, <1>6 DEF TypeOK

\* Every step of the client and its environment keeps every variable in its type.
LEMMA NextTyped == TypeOK /\ [Next]_vars => TypeOK'
<1> SUFFICES ASSUME TypeOK, [Next]_vars PROVE TypeOK'
  OBVIOUS
<1>1. CASE UNCHANGED vars
  BY <1>1, Kept DEF vars, TypeOK
<1>2. ASSUME NEW t \in Threads, Errors(t)
      PROVE  TypeOK'
  BY <1>2, ErrorsKeepTypes
<1> QED BY <1>1, <1>2, MainTyped, ListenerReadsTyped, ListenerShowsTyped, GuiTyped,
           QuestionThreadsTyped, UserTyped, ServerTyped DEF Next, Ended

\* The semaphores never count past SEM_VALUE_MAX, the numbers of threads never fall
\* below zero, and the queues hold only messages of the protocol, whatever the
\* player and the server do and however long the client runs.
THEOREM Typing == Spec => []TypeOK
  BY InitTyped, NextTyped, PTL DEF Spec

-----------------------------------------------------------------------------
(* No GUI call before guiInit.  The library asserts its windows, so a call of *)
(* the listener ahead of the GUI thread would abort.  The post of guiInit     *)
(* reaches the listener only in the case of LG_RQ_OK: the invariant says that *)
(* this is the first message the listener gets past, because the server sends *)
(* it first and any failure before the GUI runs ends the process.             *)

\* Until main has sent the login the server has nothing to answer.
Early == {"connect", "create", "login"}
BeforeLogin ==
  /\ cont["main"] \notin Early
  /\ pc["main"] \in Early => srv = "await" /\ outbox = <<>>
  /\ pc["main"] \in {"connect", "create"} => pc["listener"] = "none"

\* Until the server answers, main waits and the listener has nothing to read.
BeforeReply ==
  srv = "await" =>
    /\ windows = "none" /\ pc["gui"] = "none"
    /\ semMain = 0 /\ inbox = <<>> /\ ~srvActive
    /\ pc["main"] \in Early \cup {"waitLogin"}
    /\ \A i \in DOMAIN outbox : outbox[i].type = "LG_RQ"
    /\ proc = "running" => pc["listener"] \in {"none", "type", "inType"}

\* What the listener may meet first: the answer to the login, or a refusal.
FirstMessage(m) ==
  m.size = 1 /\ (m.type = "LG_RQ_OK" \/ (m.type = "ER_WA" /\ m.arg = 1))

FirstQueued == IF inbox = <<>> THEN srv = "await" ELSE FirstMessage(Head(inbox))

\* Where the listener can be before there are windows, and with which message.
ListenerBeforeGui ==
  \/ pc["listener"] \in {"none", "type", "inType"} /\ FirstQueued
  \/ /\ pc["listener"] \in {"size", "case"}
     /\ FirstMessage(msg) /\ hdr.type = msg.type
     /\ pc["listener"] = "case" => hdr.size = 1
  \/ pc["listener"] = "severity" /\ stale.warning = 1 /\ hdr.size = 1
  \/ pc["listener"] \in {"post", "waitGui"} /\ hdr.type = "LG_RQ_OK"

BeforeGui ==
  windows = "none" =>
    /\ proc # "aborted" /\ ~guiRuns /\ ~closeOnEnd /\ semSocket = 0
    /\ pc["gui"] \in {"none", "init"}
    /\ threads.sleeping = 0 /\ threads.failing = 0
    /\ proc = "running" => ListenerBeforeGui

StartInv == BeforeLogin /\ BeforeReply /\ BeforeGui
GuiInv == TypeOK /\ StartInv

\* What an error check does to the threads; before the GUI runs it ends the process.
LEMMA TestErrorsMoves ==
  ASSUME CtlTypeOK, NEW t \in Threads, NEW ret, NEW next, TestErrors(t, ret, next)
  PROVE  /\ \A u \in Threads \ {t} : pc'[u] = pc[u] /\ cont'[u] = cont[u]
         /\ pc'[t] \in {pc[t], next, "errDialog"} /\ cont'[t] \in {cont[t], next}
         /\ proc' \in {proc, "exited"}
         /\ ~guiRuns /\ ~closeOnEnd => proc' = "exited" /\ UNCHANGED <<pc, cont>>
  BY DEF CtlTypeOK, TestErrors, Continue, Goto, End

\* A write moves its own thread only; before the GUI runs it does or the process ends.
LEMMA WriteMoves ==
  ASSUME CtlTypeOK, NEW t \in Threads, NEW frame, NEW next, Write(t, frame, next)
  PROVE  /\ \A u \in Threads \ {t} : pc'[u] = pc[u] /\ cont'[u] = cont[u]
         /\ pc'[t] \in {pc[t], next, "errDialog"} /\ cont'[t] \in {cont[t], next}
         /\ proc' \in {proc, "exited", "killed"}
         /\ ~guiRuns /\ ~closeOnEnd =>
              \/ proc' \in {"exited", "killed"} /\ UNCHANGED <<pc, cont, outbox>>
              \/ /\ pc'[t] = next /\ UNCHANGED <<proc, cont>>
                 /\ outbox' \in {outbox, Append(outbox, frame)}
<1>1. \/ Continue(t, next) /\ outbox' \in {outbox, Append(outbox, frame)}
      \/ End("killed") /\ UNCHANGED outbox
      \/ TestErrors(t, -1, next) /\ UNCHANGED outbox
  BY DEF Write
<1>2. CASE Continue(t, next) /\ outbox' \in {outbox, Append(outbox, frame)}
  BY <1>2 DEF CtlTypeOK, Continue, Goto
<1>3. CASE End("killed") /\ UNCHANGED outbox
  BY <1>3 DEF End
<1>4. CASE TestErrors(t, -1, next) /\ UNCHANGED outbox
  BY <1>4, TestErrorsMoves
<1> QED BY <1>1, <1>2, <1>3, <1>4

\* A read moves the listener only; before the GUI runs it succeeds or all is over.
LEMMA ReadMoves ==
  ASSUME CtlTypeOK, NEW next, Read(next), ~guiRuns, ~closeOnEnd
  PROVE  /\ \A u \in {"main", "gui"} : pc'[u] = pc[u]
         /\ UNCHANGED cont
         /\ \/ proc' = "exited"
            \/ proc' = proc /\ pc'["listener"] = next /\ msg' = msg
<1>1. CASE Continue("listener", next) /\ UNCHANGED msg
  BY <1>1 DEF Continue, Goto, CtlTypeOK, Threads
<1>2. ASSUME NEW ret \in {0, -1}, TestErrors("listener", ret, next)
      PROVE  proc' = "exited" /\ UNCHANGED <<pc, cont>>
  BY <1>2, TestErrorsMoves DEF Threads
<1> QED BY <1>1, <1>2 DEF Read

\* Once there are windows, a step that leaves main, the server's stage and the
\* existence of the windows alone keeps all three parts.
LEMMA AfterGui ==
  ASSUME StartInv, windows # "none", windows' # "none", srv' = srv,
         pc'["main"] = pc["main"], cont'["main"] = cont["main"]
  PROVE  StartInv'
  BY DEF StartInv, BeforeLogin, BeforeReply, BeforeGui, Early

\* A step of main that is past the login.
LEMMA MainMoves ==
  ASSUME StartInv, srv # "await", srv' = srv,
         pc'["main"] \notin Early, cont'["main"] \notin Early,
         proc' \in {proc, "exited", "killed", "returned"}, pc'["listener"] = pc["listener"],
         pc'["gui"] = pc["gui"] \/ pc'["gui"] = "init",
         UNCHANGED <<guiRuns, closeOnEnd, liVars, windows, threads, inbox>>,
         semSocket' = semSocket \/ semSocket > 0
  PROVE  StartInv'
<1>1. BeforeLogin'
  BY DEF StartInv, BeforeLogin, Early
<1>2. BeforeReply'
  BY DEF BeforeReply
<1>3. BeforeGui'
  BY DEF StartInv, BeforeGui, ListenerBeforeGui, FirstQueued, liVars
<1> QED BY <1>1, <1>2, <1>3 DEF StartInv

\* The steps that need a window: GUI calls, callbacks, dialogs, change threads.
LEMMA ShowsInv ==
  ASSUME GuiInv, \/ ListenerShows \/ UserNext \/ UserConfirms \/ QuestionThreads
                 \/ GuiPost \/ GuiSetRuns \/ GuiEnds \/ SpawnQuestionThread
  PROVE  StartInv'
<1> USE DEF GuiInv, TypeOK, At
<1>1. windows # "none"
  <2> SUFFICES ASSUME windows = "none" PROVE FALSE
    OBVIOUS
  <2>1. BeforeGui
    BY DEF StartInv
  <2>2. ~ListenerShows
    BY <2>1
    DEF BeforeGui, ListenerBeforeGui, FirstMessage, ListenerShows, ListenerAborts, SetMode,
        ShowCatalog, ShowSelection, ShowPlayers, ShowGame, ShowQuestion, EnableButtons,
        ShowResult, HideGame, ShowWarning, ShowEnd, GuiCall
  <2>3. ~UserNext /\ ~UserConfirms
    BY <2>1
    DEF BeforeGui, UserNext, UserConfirms, OnCatalogChanged, OnStartClicked,
        OnAnswerClicked, OnWindowClosed, Dispatches, DismissDialog
  <2>4. ~GuiPost /\ ~GuiSetRuns /\ ~GuiEnds
    BY <2>1 DEF BeforeGui, GuiPost, GuiSetRuns, GuiEnds, GuiDestroy, GuiExit
  <2>5. ~QuestionThreads /\ ~SpawnQuestionThread
    BY <2>1
    DEF BeforeGui, ListenerBeforeGui, QuestionThreads, QuestionThreadWrites,
        QuestionThreadFails, SpawnQuestionThread
  <2> QED BY <2>2, <2>3, <2>4, <2>5
<1> USE DEF Continue, Goto, End, OnlyGui, OnlyControl, Threads, srvVars, guiVars, ctlVars
<1>2. ASSUME NEW t \in {"listener", "gui"}, NEW frame, NEW next, Write(t, frame, next)
      PROVE  pc'["main"] = pc["main"] /\ cont'["main"] = cont["main"]
  BY <1>2, WriteMoves
<1>3. CASE ListenerShows
  <2>1. pc'["main"] = pc["main"] /\ cont'["main"] = cont["main"]
    BY <1>2, <1>3
    DEF ListenerShows, ListenerAborts, SetMode, ShowCatalog, ShowSelection, ShowPlayers,
        ShowGame, ShowQuestion, EnableButtons, ShowResult, HideGame, ShowWarning, ShowEnd,
        CtlTypeOK
  <2>2. srv' = srv /\ windows' = windows
    BY <1>3
    DEF ListenerShows, ListenerAborts, SetMode, ShowCatalog, ShowSelection, ShowPlayers,
        ShowGame, ShowQuestion, EnableButtons, ShowResult, HideGame, ShowWarning, ShowEnd
  <2> QED BY <1>1, <2>1, <2>2, AfterGui
<1>4. CASE UserNext
  <2>1. pc'["main"] = pc["main"] /\ cont'["main"] = cont["main"]
    BY <1>2, <1>4
    DEF UserNext, OnCatalogChanged, OnStartClicked, OnAnswerClicked, OnWindowClosed,
        Callback, CtlTypeOK
  <2>2. srv' = srv /\ windows' = windows
    BY <1>4
    DEF UserNext, OnCatalogChanged, OnStartClicked, OnAnswerClicked, OnWindowClosed,
        Callback
  <2> QED BY <1>1, <2>1, <2>2, AfterGui
<1>5. CASE UserConfirms \/ GuiPost \/ GuiSetRuns \/ GuiEnds
  <2>1. pc'["main"] = pc["main"] /\ cont'["main"] = cont["main"]
    BY <1>5
    DEF UserConfirms, DismissDialog, GuiPost, GuiSetRuns, GuiEnds, GuiDestroy, GuiExit,
        CtlTypeOK
  <2>2. srv' = srv /\ windows' \in {windows, "destroyed"}
    BY <1>5
    DEF UserConfirms, DismissDialog, GuiPost, GuiSetRuns, GuiEnds, GuiDestroy, GuiExit
  <2> QED BY <1>1, <2>1, <2>2, AfterGui
<1>6. CASE QuestionThreads \/ SpawnQuestionThread
  <2>1. pc'["main"] = pc["main"] /\ cont'["main"] = cont["main"]
    BY <1>6
    DEF QuestionThreads, QuestionThreadWrites, QuestionThreadFails, SpawnQuestionThread,
        CtlTypeOK
  <2>2. srv' = srv /\ windows' = windows
    BY <1>6
    DEF QuestionThreads, QuestionThreadWrites, QuestionThreadFails, SpawnQuestionThread
  <2> QED BY <1>1, <2>1, <2>2, AfterGui
<1> QED BY <1>3, <1>4, <1>5, <1>6

\* The steps of main.
LEMMA MainInv ==
  ASSUME GuiInv, MainNext
  PROVE  StartInv'
<1> USE DEF GuiInv, TypeOK, At
<1> USE DEF StartInv
<1>1. CASE Connect
  BY <1>1
  DEF Connect, Continue, Goto, End, CtlTypeOK, Threads, BeforeLogin, BeforeReply, BeforeGui,
      ListenerBeforeGui, FirstQueued, Early, semVars, flagVars, liVars, guiVars, srvVars
<1>2. CASE CreateListener
  BY <1>2
  DEF CreateListener, End, OnlyControl, CtlTypeOK, Threads, BeforeLogin, BeforeReply,
      BeforeGui, ListenerBeforeGui, FirstQueued, Early, semVars, flagVars, liVars,
      guiVars, netVars, srvVars
<1>3. CASE SendLogin
  <2>1. pc["main"] = "login" /\ srv = "await" /\ windows = "none"
    BY <1>3 DEF SendLogin, MainWrites, BeforeLogin, BeforeReply, Early
  <2>2. ~guiRuns /\ ~closeOnEnd
    BY <2>1 DEF BeforeGui
  <2>3. Write("main", Frm("LG_RQ", 0), "waitLogin")
    BY <1>3 DEF SendLogin, MainWrites
  <2>4. /\ pc'["listener"] = pc["listener"] /\ pc'["gui"] = pc["gui"] /\ UNCHANGED cont
        /\ \/ proc' \in {"exited", "killed"} /\ UNCHANGED <<pc, outbox>>
           \/ /\ pc'["main"] = "waitLogin" /\ UNCHANGED proc
              /\ outbox' \in {outbox, Append(outbox, Frm("LG_RQ", 0))}
    BY <2>2, <2>3, WriteMoves DEF Threads
  <2>5. outbox = <<>>
    BY <2>1 DEF BeforeLogin, Early
  <2>6. \A i \in DOMAIN outbox' : outbox'[i].type = "LG_RQ"
    BY <2>4, <2>5 DEF Frm
  <2>7. UNCHANGED <<semVars, flagVars, liVars, guiVars, threads, inbox, srvVars>>
    BY <1>3 DEF SendLogin, MainWrites
  <2>8. BeforeLogin'
    BY <2>1, <2>4, <2>5, <2>7 DEF BeforeLogin, Early, srvVars
  <2>9. BeforeReply'
    BY <2>1, <2>4, <2>6, <2>7 DEF BeforeReply, Early, srvVars, semVars, guiVars
  <2>10. BeforeGui'
    BY <2>1, <2>4, <2>7
    DEF BeforeGui, ListenerBeforeGui, FirstQueued, semVars, flagVars, liVars, guiVars,
        srvVars
  <2> QED BY <2>8, <2>9, <2>10
<1>4. ASSUME NEW label \in {"catalogs", "request"}, NEW type,
             NEW next \in {"waitStart", "waitEnd"}, MainWrites(label, type, next)
      PROVE  StartInv'
  <2>1. srv # "await"
    BY <1>4 DEF MainWrites, BeforeReply, Early
  <2>2. Write("main", Frm(type, 0), next)
    BY <1>4 DEF MainWrites
  <2>3. /\ pc'["listener"] = pc["listener"] /\ pc'["gui"] = pc["gui"]
        /\ pc'["main"] \in {pc["main"], next, "errDialog"}
        /\ cont'["main"] \in {cont["main"], next}
        /\ proc' \in {proc, "exited", "killed"}
    BY <2>2, WriteMoves DEF Threads
  <2>4. pc'["main"] \notin Early /\ cont'["main"] \notin Early
    BY <1>4, <2>3 DEF MainWrites, BeforeLogin, Early
  <2> QED BY <1>4, <2>1, <2>3, <2>4, MainMoves
          DEF MainWrites, semVars, flagVars, guiVars, srvVars
<1>5. CASE SendCatalogRequest \/ SendQuestionRequest
  BY <1>4, <1>5 DEF SendCatalogRequest, SendQuestionRequest
<1>6. CASE WaitLogin \/ WaitStart \/ WaitEnd \/ CreateGui
  <2>1. srv # "await"
    BY <1>6
    DEF WaitLogin, WaitStart, WaitEnd, CreateGui, MainWaits, BeforeReply, SemTypeOK, Early
  <2>2. /\ pc'["main"] \in {pc["main"], "createGui", "request", "catalogs"}
        /\ pc["main"] \notin Early /\ UNCHANGED cont /\ pc'["listener"] = pc["listener"]
        /\ pc'["gui"] \in {pc["gui"], "init"}
        /\ proc' \in {proc, "exited", "returned"}
    BY <1>6
    DEF WaitLogin, WaitStart, WaitEnd, CreateGui, MainWaits, Continue, Goto, End,
        CtlTypeOK, Threads, Early
  <2>3. UNCHANGED <<semSocket, flagVars, liVars, guiVars, threads, netVars, srvVars>>
    BY <1>6
    DEF WaitLogin, WaitStart, WaitEnd, CreateGui, MainWaits, OnlyControl, semVars
  <2>4. pc'["main"] \notin Early /\ cont'["main"] \notin Early
    BY <2>2 DEF BeforeLogin, Early
  <2> QED BY <2>1, <2>2, <2>3, <2>4, MainMoves DEF flagVars, guiVars, netVars, srvVars
<1> QED BY <1>1, <1>2, <1>3, <1>5, <1>6 DEF MainNext

\* The reads of the listener; before the GUI runs it takes one message, no more.
LEMMA ListenerInv ==
  ASSUME GuiInv, ListenerReads
  PROVE  StartInv'
<1> USE DEF GuiInv, TypeOK, At
<1>1. UNCHANGED <<srv, srvActive, windows, guiRuns, closeOnEnd, outbox>>
  BY DEF ListenerReads, CallRead, ReadType, ReadSize, ReadRank, ReceiveLoginOk,
         ReceiveCatalog, ReceiveCatalogChange, ReceivePlayerList, ReceiveStartGame,
         ReceiveQuestion, ReceiveResult, ReceiveWarning, ReceiveUnknown, Severity,
         PostMain, WaitGui, SpawnQuestionThread, Receive, InThread, srvVars, guiVars,
         flagVars, netVars
<1>2. pc'["main"] = pc["main"] /\ cont'["main"] = cont["main"]
  <2>1. ASSUME NEW next, Continue("listener", next)
        PROVE  pc'["main"] = pc["main"] /\ cont'["main"] = cont["main"]
    BY <2>1 DEF Continue, Goto, CtlTypeOK, Threads
  <2>2. ASSUME NEW ret, NEW next, TestErrors("listener", ret, next)
        PROVE  pc'["main"] = pc["main"] /\ cont'["main"] = cont["main"]
    BY <2>2, TestErrorsMoves DEF Threads
  <2>3. ASSUME NEW next, Read(next)
        PROVE  pc'["main"] = pc["main"] /\ cont'["main"] = cont["main"]
    BY <2>1, <2>2, <2>3 DEF Read
  <2>4. ASSUME NEW next, ReadPayload(next)
        PROVE  pc'["main"] = pc["main"] /\ cont'["main"] = cont["main"]
    BY <2>1, <2>3, <2>4 DEF ReadPayload, Skip
  <2>5. ASSUME NEW how, End(how)
        PROVE  pc'["main"] = pc["main"] /\ cont'["main"] = cont["main"]
    BY <2>5 DEF End
  <2> QED
    BY <2>1, <2>2, <2>3, <2>4, <2>5
    DEF ListenerReads, CallRead, ReadType, ReadSize, ReadRank, ReceiveLoginOk,
        ReceiveCatalog, ReceiveCatalogChange, ReceivePlayerList, ReceiveStartGame,
        ReceiveQuestion, ReceiveResult, ReceiveWarning, ReceiveUnknown, Severity,
        PostMain, WaitGui, SpawnQuestionThread, Receive, Skip
<1>3. CASE windows # "none"
  BY <1>1, <1>2, <1>3, AfterGui
<1>4. CASE windows = "none"
  <2>1. BeforeGui /\ BeforeReply /\ BeforeLogin /\ ~guiRuns /\ ~closeOnEnd
    BY <1>4 DEF StartInv, BeforeGui
  <2>2. proc = "running" /\ ListenerBeforeGui
    BY <1>4, <2>1
    DEF BeforeGui, ListenerReads, CallRead, ReadType, ReadSize, ReadRank, ReceiveLoginOk,
        ReceiveCatalog, ReceiveCatalogChange, ReceivePlayerList, ReceiveStartGame,
        ReceiveQuestion, ReceiveResult, ReceiveWarning, ReceiveUnknown, Severity,
        PostMain, WaitGui, SpawnQuestionThread, Receive, Case
  <2>3. pc["listener"] # "none"
    BY DEF ListenerReads, CallRead, ReadType, ReadSize, ReadRank, ReceiveLoginOk,
           ReceiveCatalog, ReceiveCatalogChange, ReceivePlayerList, ReceiveStartGame,
           ReceiveQuestion, ReceiveResult, ReceiveWarning, ReceiveUnknown, Severity,
           PostMain, WaitGui, SpawnQuestionThread, Receive, Case
  \* it is enough to show where the listener gets, if the process goes on
  <2>4. ASSUME UNCHANGED <<semSocket, threads>>, pc'["gui"] = pc["gui"],
               proc' = "exited" \/ (proc' = "running" /\ ListenerBeforeGui'),
               srv = "await" => /\ proc' = "exited" \/ pc'["listener"] = "inType"
                                /\ inbox' = <<>> /\ semMain' = semMain
        PROVE  StartInv'
    <3>1. BeforeLogin'
      BY <1>1, <1>2, <2>1, <2>3 DEF BeforeLogin, Early
    <3>2. BeforeReply'
      BY <1>1, <1>2, <2>1, <2>4 DEF BeforeReply
    <3>3. BeforeGui'
      BY <1>1, <1>4, <2>1, <2>4 DEF BeforeGui
    <3> QED BY <3>1, <3>2, <3>3 DEF StartInv
  <2>5. ASSUME NEW ret, NEW next, TestErrors("listener", ret, next)
        PROVE  proc' = "exited" /\ UNCHANGED <<pc, cont>>
    BY <2>1, <2>5, TestErrorsMoves DEF Threads
  <2>6. ASSUME NEW next, Read(next)
        PROVE  /\ pc'["gui"] = pc["gui"]
               /\ \/ proc' = "exited"
                  \/ proc' = proc /\ pc'["listener"] = next /\ msg' = msg
    BY <2>1, <2>6, ReadMoves
  <2>7. CASE CallRead
    BY <2>1, <2>2, <2>4, <2>5, <2>7
    DEF CallRead, ListenerBeforeGui, FirstQueued, BeforeReply, InThread, Continue, Goto, CtlTypeOK,
        Threads, semVars, srvVars, netVars
  <2>8. CASE ReadType
    <3>1. CASE /\ inbox # <<>> /\ msg' = Head(inbox) /\ Continue("listener", "size")
               /\ hdr' = [hdr EXCEPT !.type = Head(inbox).type]
      <4>1. srv # "await" /\ FirstMessage(Head(inbox))
        BY <2>1, <2>2, <2>8, <3>1 DEF ReadType, ListenerBeforeGui, FirstQueued, BeforeReply
      <4>2. msg' = Head(inbox) /\ hdr'.type = Head(inbox).type
        BY <3>1 DEF LiTypeOK
      <4>3. /\ pc'["listener"] = "size" /\ pc'["gui"] = pc["gui"] /\ proc' = proc
            /\ UNCHANGED <<semSocket, threads>>
        BY <2>8, <3>1 DEF ReadType, InThread, Continue, Goto, CtlTypeOK, Threads, semVars
      <4> QED BY <2>2, <2>4, <4>1, <4>2, <4>3 DEF ListenerBeforeGui
    <3>2. CASE \E ret \in {0, -1} : TestErrors("listener", ret, "size") /\ inbox' = <<>>
      BY <2>4, <2>5, <2>8, <3>2 DEF ReadType, InThread, semVars
    <3> QED BY <2>8, <3>1, <3>2 DEF ReadType
  <2>9. srv # "await" \/ CallRead \/ ReadType
    BY <2>1, <2>2
    DEF BeforeReply, ListenerReads, ReadSize, ReadRank, ReceiveLoginOk, ReceiveCatalog,
        ReceiveCatalogChange, ReceivePlayerList, ReceiveStartGame, ReceiveQuestion,
        ReceiveResult, ReceiveWarning, ReceiveUnknown, Severity, PostMain, WaitGui,
        SpawnQuestionThread, Receive, Case
  <2>10. CASE ReadSize /\ srv # "await"
    BY <2>2, <2>4, <2>6, <2>10
    DEF ReadSize, ListenerBeforeGui, FirstMessage, NoMsg, InThread, semVars, LiTypeOK
  <2>11. CASE ReceiveLoginOk /\ srv # "await"
    <3>1. Read("post") /\ hdr.type = "LG_RQ_OK" /\ UNCHANGED <<hdr, semVars, threads>>
      BY <2>2, <2>11
      DEF ReceiveLoginOk, Receive, ReadPayload, Case, ListenerBeforeGui, InThread
    <3> QED BY <2>2, <2>4, <2>6, <2>11, <3>1 DEF ListenerBeforeGui, semVars
  <2>12. CASE ReceiveWarning /\ srv # "await"
    <3>1. /\ Read("severity") /\ msg # NoMsg /\ msg.arg = 1 /\ hdr' = hdr /\ hdr.size = 1
          /\ stale' = IF msg' # NoMsg THEN [stale EXCEPT !.warning = msg.arg] ELSE stale
          /\ UNCHANGED <<semVars, threads>>
      BY <2>2, <2>12
      DEF ReceiveWarning, Case, ListenerBeforeGui, FirstMessage, NoMsg, InThread
    <3> QED BY <2>2, <2>4, <2>6, <2>12, <3>1 DEF ListenerBeforeGui, semVars, LiTypeOK
  <2>13. CASE Severity /\ srv # "await"
    BY <2>1, <2>2, <2>4, <2>13 DEF Severity, ListenerBeforeGui, InThread, End, semVars
  <2>14. CASE PostMain /\ srv # "await"
    BY <2>2, <2>4, <2>14
    DEF PostMain, AfterPost, ListenerBeforeGui, Continue, Goto, CtlTypeOK, Threads, liVars
  <2>15. CASE \/ ReceiveCatalog \/ ReceiveCatalogChange \/ ReceivePlayerList
              \/ ReceiveStartGame \/ ReceiveQuestion \/ ReceiveResult \/ ReceiveUnknown
              \/ ReadRank \/ WaitGui \/ SpawnQuestionThread
    BY <1>4, <2>1, <2>2, <2>15
    DEF BeforeGui, ListenerBeforeGui, FirstMessage, ReceiveCatalog, ReceiveCatalogChange,
        ReceivePlayerList, ReceiveStartGame, ReceiveQuestion, ReceiveResult,
        ReceiveUnknown, ReadRank, WaitGui, SpawnQuestionThread, Receive, Case, SemTypeOK
  <2> QED BY <2>7, <2>8, <2>9, <2>10, <2>11, <2>12, <2>13, <2>14, <2>15 DEF ListenerReads
<1> QED BY <1>3, <1>4

\* guiInit, and the error checks of any thread.
LEMMA GuiAndErrorsInv ==
  ASSUME GuiInv, GuiInit \/ \E t \in Threads : Errors(t)
  PROVE  StartInv'
<1> USE DEF GuiInv, TypeOK, At, OnlyGui
<1>1. CASE GuiInit
  <2>1. /\ windows' = "ready" /\ srv' = srv /\ pc["gui"] = "init"
        /\ pc'["main"] = pc["main"] /\ cont'["main"] = cont["main"]
    BY <1>1 DEF GuiInit, Continue, Goto, CtlTypeOK, Threads, srvVars
  <2>2. srv # "await"
    BY <2>1 DEF StartInv, BeforeReply
  <2> QED BY <2>1, <2>2 DEF StartInv, BeforeLogin, BeforeReply, BeforeGui, Early
<1>2. ASSUME NEW t \in {"listener", "gui"}, Errors(t)
      PROVE  StartInv'
  <2>1. windows # "none"
    BY <1>2
    DEF Errors, ErrorDialog, SocketWait, WriteName, Unlock, StartInv, BeforeGui,
        ListenerBeforeGui
  <2>2. pc'["main"] = pc["main"] /\ cont'["main"] = cont["main"]
    BY <1>2, WriteMoves
    DEF Errors, ErrorDialog, SocketWait, WriteName, Unlock, Continue, Goto, CtlTypeOK,
        Threads
  <2>3. srv' = srv /\ windows' = windows
    BY <1>2 DEF Errors, ErrorDialog, SocketWait, WriteName, Unlock, srvVars, guiVars
  <2> QED BY <2>1, <2>2, <2>3, AfterGui
<1>3. CASE Errors("main")
  <2>1. srv # "await" /\ cont["main"] \notin Early
    BY <1>3
    DEF Errors, ErrorDialog, SocketWait, WriteName, Unlock, StartInv, BeforeLogin,
        BeforeReply, Early
  <2>2. CASE WriteName("main")
    <3>1. Write("main", Frm("NAME", selected), "unlock")
      BY <2>2 DEF WriteName
    <3>2. /\ pc'["listener"] = pc["listener"] /\ pc'["gui"] = pc["gui"]
          /\ pc'["main"] \in {"name", "unlock", "errDialog"}
          /\ cont'["main"] \in {cont["main"], "unlock"}
          /\ proc' \in {proc, "exited", "killed"}
      BY <2>2, <3>1, WriteMoves DEF WriteName, Threads
    <3>3. pc'["main"] \notin Early /\ cont'["main"] \notin Early
      BY <2>1, <3>2 DEF Early
    <3> QED BY <2>1, <2>2, <3>2, <3>3, MainMoves
            DEF WriteName, semVars, flagVars, guiVars, srvVars
  <2>3. CASE ErrorDialog("main") \/ SocketWait("main") \/ Unlock("main")
    <3>1. /\ pc'["listener"] = pc["listener"] /\ pc'["gui"] = pc["gui"]
          /\ pc'["main"] \in {"errWait", "type", cont["main"]}
          /\ UNCHANGED <<proc, cont>>
      BY <2>3 DEF ErrorDialog, SocketWait, Unlock, Continue, Goto, CtlTypeOK, Threads
    <3>2. pc'["main"] \notin Early /\ cont'["main"] \notin Early
      BY <2>1, <3>1 DEF Early
    <3>3. /\ UNCHANGED <<guiRuns, closeOnEnd, liVars, windows, threads, inbox, srv>>
          /\ semSocket' = semSocket \/ semSocket > 0
      BY <2>3
      DEF ErrorDialog, SocketWait, Unlock, semVars, flagVars, guiVars, netVars, srvVars
    <3> QED BY <2>1, <3>1, <3>2, <3>3, MainMoves
  <2> QED BY <1>3, <2>2, <2>3 DEF Errors
<1> QED BY <1>1, <1>2, <1>3 DEF Threads

\* The server: its first message is the answer to the login, or a refusal.
LEMMA ServerInv ==
  ASSUME GuiInv, ServerReplies \/ ServerActs
  PROVE  StartInv'
<1> USE DEF GuiInv, TypeOK, StartInv
<1>1. /\ UNCHANGED <<ctlVars, semVars, flagVars, liVars, guiVars, threads>>
      /\ proc = "running"
  BY DEF ServerReplies, ServerActs, ServerLogin, ServerCatalogs, ServerCatalogChange,
         ServerStart, ServerQuestion, ServerAnswer, ServerTimeout, ServerGameOver,
         ServerUnasked, ServerFatal, ServerCloses, Sends, ReplyToName, Receives, Serving,
         InServer
\* a step keeps the three parts if it keeps what they say of the server
<1>2. ASSUME srv = "await" => pc["main"] \notin Early \/ (srv' = "await" /\ outbox' = <<>>),
             srv' = "await" => UNCHANGED <<srv, inbox, srvActive, outbox>>,
             FirstQueued => FirstQueued'
      PROVE  StartInv'
  <2>1. BeforeLogin'
    BY <1>1, <1>2 DEF BeforeLogin, ctlVars
  <2>2. BeforeReply'
    BY <1>1, <1>2 DEF BeforeReply, ctlVars, semVars, guiVars
  <2>3. BeforeGui'
    BY <1>1, <1>2
    DEF BeforeGui, ListenerBeforeGui, ctlVars, semVars, flagVars, liVars, guiVars
  <2> QED BY <2>1, <2>2, <2>3 DEF StartInv
<1>3. ASSUME srv = "await"
      PROVE  /\ inbox = <<>> /\ ~srvActive
             /\ outbox # <<>> => pc["main"] \notin Early /\ Head(outbox).type = "LG_RQ"
  <2>1. BeforeReply /\ BeforeLogin
    BY DEF StartInv
  <2>2. outbox # <<>> => 1 \in DOMAIN outbox /\ Head(outbox) = outbox[1]
    BY DEF NetTypeOK
  <2> QED BY <1>3, <2>1, <2>2 DEF BeforeReply, BeforeLogin
<1>4. CASE ServerLogin
  <2>1. \E id \in {0, 1} : inbox' = inbox \o <<Msg("LG_RQ_OK", id), Msg("PL_LI", 0)>>
    BY <1>4 DEF ServerLogin, Reply
  <2>2. inbox' # <<>> /\ FirstMessage(Head(inbox'))
    BY <1>3, <1>4, <2>1 DEF ServerLogin, FirstMessage, Msg
  <2> QED BY <1>2, <1>3, <1>4, <2>2 DEF ServerLogin, Receives, FirstQueued
<1>5. CASE ServerFatal /\ srv = "await"
  <2>1. inbox' = <<Msg("ER_WA", 1)>>
    BY <1>3, <1>5 DEF ServerFatal, Sends
  <2>2. inbox' # <<>> /\ FirstMessage(Head(inbox'))
    BY <2>1 DEF FirstMessage, Msg
  <2> QED BY <1>2, <1>3, <1>5, <2>2 DEF ServerFatal, FirstQueued
<1>6. CASE ServerCloses
  BY <1>2, <1>6, <1>3 DEF ServerCloses, srvVars, FirstQueued, StartInv, BeforeLogin
<1>7. CASE srv # "await" /\ ~ServerCloses
  <2>1. srv' # "await"
    BY <1>7
    DEF ServerReplies, ServerActs, ServerCatalogs, ServerCatalogChange, ServerStart,
        ServerQuestion, ServerAnswer, ServerTimeout, ServerGameOver, ServerUnasked,
        ServerLogin, ServerFatal, srvVars
  <2>2. FirstQueued => FirstQueued'
    <3>1. PICK more \in Seq(Message) : inbox' = inbox \o more
      BY ServerSends
    <3> QED BY <1>7, <3>1, ConcatProperties DEF FirstQueued, NetTypeOK
  <2> QED BY <1>2, <1>7, <2>1, <2>2
<1>8. srv # "await" \/ ServerLogin \/ ServerFatal \/ ServerCloses
  BY <1>3
  DEF ServerReplies, ServerActs, ServerCatalogs, ServerCatalogChange, ServerStart,
      ServerQuestion, ServerAnswer, ServerTimeout, ServerGameOver, ServerUnasked,
      ReplyToName, Receives
<1> QED BY <1>4, <1>5, <1>6, <1>7, <1>8

\* The inductive invariant of the start: it holds, whatever the constants are.
LEMMA StartHolds == Spec => []GuiInv
<1>1. Init => GuiInv
  <2> SUFFICES ASSUME Init PROVE GuiInv
    OBVIOUS
  <2>1. TypeOK
    BY InitTyped
  <2>2. BeforeLogin /\ BeforeReply
    BY DEF Init, BeforeLogin, BeforeReply, Early, Threads
  <2>3. BeforeGui
    BY DEF Init, BeforeGui, ListenerBeforeGui, FirstQueued, Threads
  <2> QED BY <2>1, <2>2, <2>3 DEF GuiInv, StartInv
<1>2. GuiInv /\ [Next]_vars => GuiInv'
  <2> SUFFICES ASSUME GuiInv, [Next]_vars PROVE GuiInv'
    OBVIOUS
  <2>1. TypeOK'
    BY NextTyped DEF GuiInv
  <2>2. CASE UNCHANGED vars
    BY <2>1, <2>2
    DEF GuiInv, StartInv, BeforeLogin, BeforeReply, BeforeGui, ListenerBeforeGui,
        FirstQueued, vars, ctlVars, semVars, flagVars, liVars, guiVars, netVars, srvVars
  <2>3. CASE Next
    BY <2>1, <2>2, <2>3, ShowsInv, MainInv, ListenerInv, GuiAndErrorsInv, ServerInv
    DEF GuiInv, Next, GuiStarts, Ended
  <2> QED BY <2>2, <2>3
<1> QED BY <1>1, <1>2, PTL DEF Spec

\* The listener never uses the GUI before the GUI thread has created the windows,
\* for any number of catalogs and questions and whatever the server sends: no
\* assertion of the library fails for a window that is not there yet.
THEOREM GuiBeforeUse == Spec => []NoGuiBeforeInit
<1>1. GuiInv => NoGuiBeforeInit
  BY DEF GuiInv, StartInv, BeforeGui, NoGuiBeforeInit
<1> QED BY <1>1, StartHolds, PTL

=============================================================================
