-------------------------- MODULE ClientAnswerProofs --------------------------
(***************************************************************************)
(* An answer of the player reaches the server while the question it was    *)
(* given to is the one that is open, or was: for every number of questions,*)
(* threads and catalogs, and whatever the server and the player do.        *)
(***************************************************************************)
EXTENDS ClientRoundProofs

(* The invariant.  A question is on its way to the player from the server's  *)
(* message until its buttons are disabled.  While the connection stands,     *)
(* nobody asks for the next one in that time, and what is on its way or on   *)
(* display is the last question the server opened.  A connection that is     *)
(* gone brings no frame to the server any more, so nothing is said of it.    *)

Live ==
  proc = "running" /\ (pc["main"] = "connect" \/ (sockOpen /\ peer = "open"))

Has(queue, type) == \E n \in DOMAIN queue : queue[n].type = type
Carries(type) == pc["listener"] \in {"size", "case", "gui"} /\ hdr.type = type
Shows == enabled /\ shown > 0
OnItsWay == Has(inbox, "QU") \/ Carries("QU") \/ pc["listener"] = "buttons" \/ Shows

\* The question in a message, if there is one, is the last one the server opened.
Current(m) == m.size = 1 => m.arg = srvQ
\* No question comes after a result: the next one is not asked for yet.
Ordered(queue) ==
  \A m, n \in DOMAIN queue : queue[m].type = "QU_RE" /\ queue[n].type = "QU" => n < m

QueueWay ==
  /\ \A n \in DOMAIN inbox : inbox[n].type = "QU" => Current(inbox[n])
  /\ Ordered(inbox)
  /\ Has(inbox, "QU") => ~Carries("QU_RE")
ListenerWay ==
  /\ Carries("QU") =>
       /\ msg.type = "QU" /\ Current(msg)
       /\ pc["listener"] # "size" => hdr.size = msg.size
  /\ pc["listener"] = "buttons" \/ Shows => shown \in {0, srvQ}
RoundWay == OnItsWay => Started /\ ~Asking /\ pc["listener"] # "spawn"
WayInv == QueueWay /\ ListenerWay /\ RoundWay

\* The window that closes takes the connection along, and it is made only once.
ClosedInv == closeOnEnd => ~sockOpen /\ pc["main"] # "connect"

AnswerInv == ClosedInv /\ AnswerForShownQuestion /\ (Live => WayInv)

-----------------------------------------------------------------------------
(* The connection: once gone it stays so.                                   *)

\* Only the first step of main opens the socket.
LEMMA OnlyMainConnects ==
  ASSUME [Next]_vars, ~Connect
  PROVE  (sockOpen' => sockOpen) /\ (peer' = "open" => peer = "open")
         /\ (proc' = "running" => proc = "running")
<1> USE DEF At
<1>1. CASE MainNext
  BY <1>1
  DEF MainNext, CreateListener, SendLogin, WaitLogin, CreateGui, SendCatalogRequest,
      WaitStart, SendQuestionRequest, WaitEnd, MainWrites, MainWaits, OnlyControl, netVars
<1>2. CASE ListenerReads
  BY <1>2
  DEF ListenerReads, CallRead, ReadType, ReadSize, ReadRank, ReceiveLoginOk, ReceiveCatalog,
      ReceiveCatalogChange, ReceivePlayerList, ReceiveStartGame, ReceiveQuestion,
      ReceiveResult, ReceiveWarning, ReceiveUnknown, Severity, PostMain, WaitGui,
      SpawnQuestionThread, Receive, Case, netVars
<1>3. CASE ListenerShows
  BY <1>3
  DEF ListenerShows, ListenerAborts, SetMode, ShowCatalog, ShowSelection, ShowPlayers,
      ShowGame, ShowQuestion, EnableButtons, ShowResult, HideGame, ShowWarning, ShowEnd,
      GuiCall, OnlyGui, OnlyControl, netVars
<1>4. CASE GuiStarts \/ GuiEnds \/ UserNext \/ UserConfirms
  BY <1>4
  DEF GuiStarts, GuiInit, GuiPost, GuiSetRuns, GuiEnds, GuiDestroy, GuiExit, UserNext,
      OnCatalogChanged, OnStartClicked, OnAnswerClicked, OnWindowClosed, Callback, Dispatches,
      UserConfirms, DismissDialog, OnlyGui, OnlyControl, netVars
<1>5. CASE QuestionThreads \/ \E t \in Threads : Errors(t)
  BY <1>5
  DEF QuestionThreads, QuestionThreadWrites, QuestionThreadFails, Errors, ErrorDialog,
      SocketWait, WriteName, Unlock, OnlyGui, netVars
<1>6. CASE ServerReplies \/ ServerActs
  BY <1>6
  DEF ServerReplies, ServerActs, ServerLogin, ServerCatalogs, ServerCatalogChange,
      ServerStart, ServerQuestion, ServerAnswer, ServerTimeout, ServerGameOver,
      ServerUnasked, ServerFatal, ServerCloses, Sends, InServer, ReplyToName, Receives, Serving
<1>7. CASE UNCHANGED vars \/ Ended
  BY <1>7 DEF vars, netVars, ctlVars, Ended
<1> QED BY <1>1, <1>2, <1>3, <1>4, <1>5, <1>6, <1>7 DEF Next

\* main does not come back to its first step.
LEMMA NoReconnect ==
  ASSUME GuiInv, [Next]_vars
  PROVE  pc'["main"] = "connect" => pc["main"] = "connect"
<1> USE DEF GuiInv, TypeOK, CtlTypeOK, Threads
<1>1. ASSUME NEW t \in Threads, NEW next, t = "main" => next # "connect",
             Continue(t, next)
      PROVE  pc'["main"] = "connect" => pc["main"] = "connect"
  BY <1>1 DEF Continue, Goto
<1>2. ASSUME NEW how, End(how)
      PROVE  pc'["main"] = pc["main"]
  BY <1>2 DEF End
<1>3. ASSUME NEW t \in Threads, NEW ret, NEW next, t = "main" => next # "connect",
             TestErrors(t, ret, next)
      PROVE  pc'["main"] = "connect" => pc["main"] = "connect"
  BY <1>3, TestErrorsMoves
<1>4. ASSUME NEW t \in Threads, NEW frame, NEW next, t = "main" => next # "connect",
             Write(t, frame, next)
      PROVE  pc'["main"] = "connect" => pc["main"] = "connect"
  BY <1>1, <1>2, <1>3, <1>4 DEF Write
<1>5. ASSUME NEW next, Read(next) \/ ReadPayload(next)
      PROVE  pc'["main"] = "connect" => pc["main"] = "connect"
  BY <1>1, <1>3, <1>5 DEF Read, ReadPayload, Skip
<1>6. CASE MainNext
  <2>1. \/ \E next : next # "connect" /\ Continue("main", next)
        \/ \E how : End(how)
        \/ pc' = [pc EXCEPT !["main"] = "login", !["listener"] = "type"]
        \/ pc' = [pc EXCEPT !["main"] = "catalogs", !["gui"] = "init"]
        \/ \E frame, next : next # "connect" /\ Write("main", frame, next)
    BY <1>6
    DEF MainNext, Connect, CreateListener, SendLogin, WaitLogin, CreateGui,
        SendCatalogRequest, WaitStart, SendQuestionRequest, WaitEnd, MainWrites, MainWaits
  <2> QED BY <1>1, <1>2, <1>4, <2>1
<1>7. CASE ListenerReads
  <2>1. \/ \E next : Continue("listener", next) \/ Read(next) \/ ReadPayload(next)
        \/ \E how : End(how)
        \/ \E ret, next : TestErrors("listener", ret, next)
    BY <1>7
    DEF ListenerReads, CallRead, ReadType, ReadSize, ReadRank, ReceiveLoginOk, ReceiveCatalog,
        ReceiveCatalogChange, ReceivePlayerList, ReceiveStartGame, ReceiveQuestion,
        ReceiveResult, ReceiveWarning, ReceiveUnknown, Severity, PostMain, WaitGui,
        SpawnQuestionThread, Receive, Skip
  <2> QED BY <1>1, <1>2, <1>3, <1>5, <2>1
<1>8. CASE ListenerShows
  <2>1. \/ \E next : Continue("listener", next) \/ Goto("listener", next)
        \/ \E how : End(how)
        \/ \E frame, next : Write("listener", frame, next)
    BY <1>8
    DEF ListenerShows, ListenerAborts, SetMode, ShowCatalog, ShowSelection, ShowPlayers,
        ShowGame, ShowQuestion, EnableButtons, ShowResult, HideGame, ShowWarning, ShowEnd
  <2> QED BY <1>1, <1>2, <1>4, <2>1 DEF Goto
<1>9. CASE GuiStarts \/ GuiEnds \/ UserNext \/ UserConfirms
  <2>1. \/ \E next : Continue("gui", next)
        \/ \E how : End(how)
        \/ \E frame, next : Write("gui", frame, next)
        \/ UNCHANGED ctlVars
    BY <1>9
    DEF GuiStarts, GuiInit, GuiPost, GuiSetRuns, GuiEnds, GuiDestroy, GuiExit, UserNext,
        OnCatalogChanged, OnStartClicked, OnAnswerClicked, OnWindowClosed, Callback,
        UserConfirms, DismissDialog
  <2> QED BY <1>1, <1>2, <1>4, <2>1 DEF ctlVars
<1>10. CASE QuestionThreads \/ ServerReplies \/ ServerActs \/ UNCHANGED vars \/ Ended
  BY <1>10
  DEF QuestionThreads, QuestionThreadWrites, QuestionThreadFails, End, ctlVars, ServerReplies,
      ServerActs, ServerLogin, ServerCatalogs, ServerCatalogChange, ServerStart,
      ServerQuestion, ServerAnswer, ServerTimeout, ServerGameOver, ServerUnasked, ServerFatal,
      ServerCloses, Sends, InServer, vars, Ended
<1>11. ASSUME NEW t \in Threads, Errors(t)
       PROVE  pc'["main"] = "connect" => pc["main"] = "connect"
  <2>1. cont["main"] # "connect"
    BY DEF StartInv, BeforeLogin, Early
  <2>2. \/ \E next : next # "connect" /\ Continue(t, next)
        \/ Continue(t, cont[t])
        \/ \E frame, next : next # "connect" /\ Write(t, frame, next)
    BY <1>11 DEF Errors, ErrorDialog, SocketWait, WriteName, Unlock
  <2> QED BY <1>1, <1>4, <2>1, <2>2
<1> QED BY <1>6, <1>7, <1>8, <1>9, <1>10, <1>11 DEF Next

\* A connection that stands has stood, and no window has been closed.
LEMMA LiveBefore ==
  ASSUME GuiInv, [Next]_vars, ClosedInv
  PROVE  (Live' => Live) /\ (Live => ~closeOnEnd)
<1>1. CASE Connect
  BY <1>1 DEF Connect, At, Live, ClosedInv
<1>2. CASE ~Connect
  BY <1>2, OnlyMainConnects, NoReconnect DEF Live, ClosedInv
<1> QED BY <1>1, <1>2

\* Only the player's closing of a window sets the flag.
LEMMA OnlyWindowsClose ==
  ASSUME [Next]_vars, ~closeOnEnd,
         ~\E w \in {"preparation", "game"} : OnWindowClosed(w)
  PROVE  ~closeOnEnd'
<1>1. CASE MainNext
  BY <1>1
  DEF MainNext, Connect, CreateListener, SendLogin, WaitLogin, CreateGui,
      SendCatalogRequest, WaitStart, SendQuestionRequest, WaitEnd, MainWrites, MainWaits,
      OnlyControl, flagVars
<1>2. CASE ListenerReads
  BY <1>2
  DEF ListenerReads, CallRead, ReadType, ReadSize, ReadRank, ReceiveLoginOk, ReceiveCatalog,
      ReceiveCatalogChange, ReceivePlayerList, ReceiveStartGame, ReceiveQuestion,
      ReceiveResult, ReceiveWarning, ReceiveUnknown, Severity, PostMain, WaitGui,
      SpawnQuestionThread, Receive, InThread, flagVars
<1>3. CASE ListenerShows
  BY <1>3
  DEF ListenerShows, ListenerAborts, SetMode, ShowCatalog, ShowSelection, ShowPlayers,
      ShowGame, ShowQuestion, EnableButtons, ShowResult, HideGame, ShowWarning, ShowEnd,
      OnlyGui, OnlyControl, flagVars
<1>4. CASE GuiStarts \/ GuiEnds \/ UserNext \/ UserConfirms
  BY <1>4
  DEF GuiStarts, GuiInit, GuiPost, GuiSetRuns, GuiEnds, GuiDestroy, GuiExit, UserNext,
      OnCatalogChanged, OnStartClicked, OnAnswerClicked, Callback,
      UserConfirms, DismissDialog, OnlyGui, OnlyControl, flagVars
<1>5. CASE QuestionThreads \/ \E t \in Threads : Errors(t)
  BY <1>5
  DEF QuestionThreads, QuestionThreadWrites, QuestionThreadFails, Errors, ErrorDialog,
      SocketWait, WriteName, Unlock, OnlyGui, flagVars
<1>6. CASE ServerReplies \/ ServerActs
  BY <1>6
  DEF ServerReplies, ServerActs, ServerLogin, ServerCatalogs, ServerCatalogChange,
      ServerStart, ServerQuestion, ServerAnswer, ServerTimeout, ServerGameOver,
      ServerUnasked, ServerFatal, ServerCloses, Sends, InServer, flagVars
<1>7. CASE UNCHANGED vars
  BY <1>7 DEF vars, flagVars
<1> QED BY <1>1, <1>2, <1>3, <1>4, <1>5, <1>6, <1>7 DEF Next, Ended

\* Closing a window closes the connection, and nobody makes it again.
LEMMA ClosedKept ==
  ASSUME GuiInv, RoundInv, [Next]_vars, ClosedInv
  PROVE  ClosedInv'
<1>1. CASE closeOnEnd
  <2>1. ~Connect
    BY <1>1 DEF Connect, At, ClosedInv
  <2> QED BY <1>1, <2>1, OnlyMainConnects, NoReconnect DEF ClosedInv
<1>2. CASE ~closeOnEnd /\ \E w \in {"preparation", "game"} : OnWindowClosed(w)
  <2>1. pc["gui"] = "loop" /\ ~sockOpen' /\ pc' = pc
    BY <1>2 DEF OnWindowClosed, Dispatches, At, ctlVars
  <2>2. pc["main"] # "connect"
    BY <1>2, <2>1 DEF RoundInv, PlaceInv, MainPlaces, InLogin, Early
  <2> QED BY <2>1, <2>2 DEF ClosedInv
<1>3. CASE ~closeOnEnd /\ ~\E w \in {"preparation", "game"} : OnWindowClosed(w)
  <2>1. ~closeOnEnd'
    BY <1>3, OnlyWindowsClose
  <2> QED BY <2>1 DEF ClosedInv
<1> QED BY <1>1, <1>2, <1>3

-----------------------------------------------------------------------------
(* What is on its way.                                                      *)

\* The queue of the server's messages as it may be: nothing out of order or date.
QueueOK(queue) ==
  Ordered(queue) /\ \A n \in DOMAIN queue : queue[n].type = "QU" => Current(queue[n])

\* Taking the first message, or a name left unread in front, keeps the queue.
LEMMA QueueTaken ==
  ASSUME NEW queue \in Seq(Message), QueueOK(queue)
  PROVE  /\ QueueOK(<<Raw>> \o queue)
         /\ \A type : type # "RAW" /\ Has(<<Raw>> \o queue, type) => Has(queue, type)
         /\ queue # <<>> =>
              /\ QueueOK(Tail(queue))
              /\ \A type : Has(Tail(queue), type) => Has(queue, type)
              /\ Has(queue, Head(queue).type)
              /\ Head(queue).type = "QU" => Current(Head(queue))
              /\ Head(queue).type = "QU_RE" => ~Has(Tail(queue), "QU")
<1>1. /\ DOMAIN queue = 1 .. Len(queue) /\ Len(queue) \in Nat
      /\ <<Raw>> \in Seq(Message) /\ Len(<<Raw>>) = 1 /\ <<Raw>>[1] = Raw
  BY MessageTyped, LenProperties
<1>2. LET more == <<Raw>> \o queue
      IN  /\ DOMAIN more = 1 .. Len(queue) + 1 /\ more[1] = Raw
          /\ \A n \in 2 .. Len(queue) + 1 : more[n] = queue[n - 1]
  <2>1. /\ <<Raw>> \o queue \in Seq(Message) /\ Len(<<Raw>> \o queue) = 1 + Len(queue)
        /\ \A i \in 1 .. 1 + Len(queue) :
             (<<Raw>> \o queue)[i] = IF i <= 1 THEN <<Raw>>[i] ELSE queue[i - 1]
    BY <1>1, ConcatProperties
  <2> QED BY <1>1, <2>1, LenProperties
<1>3. Raw.type = "RAW"
  BY DEF Raw
<1>4. QueueOK(<<Raw>> \o queue)
  <2>1. Ordered(<<Raw>> \o queue)
    BY <1>1, <1>2, <1>3 DEF Ordered, QueueOK
  <2> QED BY <1>1, <1>2, <1>3, <2>1 DEF QueueOK
<1>5. ASSUME NEW type, type # "RAW", Has(<<Raw>> \o queue, type)
      PROVE  Has(queue, type)
  <2>1. PICK n \in 1 .. Len(queue) + 1 : (<<Raw>> \o queue)[n].type = type
    BY <1>2, <1>5 DEF Has
  <2>2. n \in 2 .. Len(queue) + 1
    BY <1>1, <1>2, <1>3, <1>5, <2>1
  <2>3. n - 1 \in DOMAIN queue /\ queue[n - 1].type = type
    BY <1>1, <1>2, <2>1, <2>2
  <2> QED BY <2>3 DEF Has
<1>6. ASSUME queue # <<>>
      PROVE  /\ QueueOK(Tail(queue))
             /\ \A type : Has(Tail(queue), type) => Has(queue, type)
             /\ Has(queue, Head(queue).type)
             /\ Head(queue).type = "QU" => Current(Head(queue))
             /\ Head(queue).type = "QU_RE" => ~Has(Tail(queue), "QU")
  <2>1. /\ Tail(queue) \in Seq(Message) /\ DOMAIN Tail(queue) = 1 .. Len(queue) - 1
        /\ \A n \in 1 .. Len(queue) - 1 : Tail(queue)[n] = queue[n + 1]
        /\ 1 \in DOMAIN queue /\ Head(queue) = queue[1]
    BY <1>1, <1>6, HeadTailProperties, LenProperties, EmptySeq
  <2>2. \A n \in DOMAIN Tail(queue) : n + 1 \in DOMAIN queue /\ n + 1 # 1 /\ n \in Nat
    BY <1>1, <2>1
  <2>3. Ordered(Tail(queue))
    BY <1>1, <2>1, <2>2 DEF Ordered, QueueOK
  <2>4. QueueOK(Tail(queue))
    BY <1>1, <2>1, <2>2, <2>3 DEF QueueOK
  <2>5. \A type : Has(Tail(queue), type) => Has(queue, type)
    BY <1>1, <2>1, <2>2 DEF Has
  <2>6. Has(queue, Head(queue).type) /\ (Head(queue).type = "QU" => Current(Head(queue)))
    BY <2>1 DEF Has, QueueOK
  <2>7. ASSUME Head(queue).type = "QU_RE", Has(Tail(queue), "QU")
        PROVE  FALSE
    <3>1. PICK n \in DOMAIN Tail(queue) : Tail(queue)[n].type = "QU"
      BY <2>7 DEF Has
    <3>2. n + 1 < 1
      BY <2>1, <2>2, <2>7, <3>1 DEF QueueOK, Ordered
    <3> QED BY <2>2, <3>2
  <2> QED BY <2>4, <2>5, <2>6, <2>7
<1> QED BY <1>4, <1>5, <1>6

\* Messages that are no questions may follow whatever there is.
LEMMA QueueExtended ==
  ASSUME NEW queue \in Seq(Message), NEW more \in Seq(Message), ~Has(more, "QU")
  PROVE  /\ QueueOK(queue) => QueueOK(queue \o more)
         /\ Has(queue \o more, "QU") => Has(queue, "QU")
<1>1. /\ DOMAIN queue = 1 .. Len(queue) /\ Len(queue) \in Nat
      /\ DOMAIN more = 1 .. Len(more) /\ Len(more) \in Nat
      /\ DOMAIN (queue \o more) = 1 .. Len(queue) + Len(more)
      /\ \A i \in 1 .. Len(queue) + Len(more) :
           (queue \o more)[i] = IF i <= Len(queue) THEN queue[i] ELSE more[i - Len(queue)]
  BY ConcatProperties, LenProperties
<1>2. ASSUME NEW n \in DOMAIN (queue \o more), (queue \o more)[n].type = "QU"
      PROVE  n \in DOMAIN queue /\ (queue \o more)[n] = queue[n]
  <2>1. CASE n <= Len(queue)
    BY <1>1, <2>1
  <2>2. CASE n > Len(queue)
    <3>1. n - Len(queue) \in DOMAIN more /\ (queue \o more)[n] = more[n - Len(queue)]
      BY <1>1, <2>2
    <3> QED BY <1>2, <3>1 DEF Has
  <2> QED BY <1>1, <2>1, <2>2
<1>3. ASSUME QueueOK(queue)
      PROVE  QueueOK(queue \o more)
  <2>1. ASSUME NEW m \in DOMAIN (queue \o more), NEW n \in DOMAIN (queue \o more),
               (queue \o more)[m].type = "QU_RE", (queue \o more)[n].type = "QU"
        PROVE  n < m
    <3>1. n \in DOMAIN queue /\ queue[n].type = "QU"
      BY <1>2, <2>1
    <3>2. CASE m <= Len(queue)
      <4>1. m \in DOMAIN queue /\ queue[m].type = "QU_RE"
        BY <1>1, <2>1, <3>2
      <4> QED BY <1>3, <3>1, <4>1 DEF QueueOK, Ordered
    <3> QED BY <1>1, <3>1, <3>2
  <2> QED BY <1>2, <1>3, <2>1 DEF QueueOK, Ordered
<1> QED BY <1>2, <1>3 DEF Has

\* A step that puts nothing on its way and asks for nothing keeps what is said of it.
LEMMA WayKept ==
  ASSUME WayInv, UNCHANGED <<shown, enabled, srvQ>>, hdr'.type = hdr.type,
         QueueOK(inbox) => QueueOK(inbox'), Has(inbox', "QU") => Has(inbox, "QU"),
         Asking' => Asking, Started => Started',
         pc'["listener"] \in {"buttons", "spawn"} => pc'["listener"] = pc["listener"],
         pc'["listener"] \in {"size", "case", "gui"} /\ hdr.type \in {"QU", "QU_RE"}
           => pc["listener"] \in {"size", "case", "gui"},
         Carries("QU")' => msg' = msg /\ (pc'["listener"] # "size" => hdr'.size = msg.size)
  PROVE  WayInv'
<1>1. (Carries("QU")' => Carries("QU")) /\ (Carries("QU_RE")' => Carries("QU_RE"))
  BY DEF Carries
<1>2. OnItsWay' => OnItsWay
  BY <1>1 DEF OnItsWay, Shows
<1>3. QueueWay'
  <2>1. QueueOK(inbox)
    BY DEF WayInv, QueueWay, QueueOK
  <2>2. QueueOK(inbox')
    BY <2>1
  <2>3. \A n \in DOMAIN inbox' :
          inbox'[n].type = "QU" => (inbox'[n].size = 1 => inbox'[n].arg = srvQ')
    BY <2>2 DEF QueueOK, Current
  <2>4. Ordered(inbox)'
    BY <2>2 DEF QueueOK, Ordered
  <2> QED BY <1>1, <2>3, <2>4 DEF WayInv, QueueWay, Has, Current
<1>4. ListenerWay'
  BY <1>1 DEF WayInv, ListenerWay, Current, Shows
<1>5. RoundWay'
  BY <1>2 DEF WayInv, RoundWay
<1> QED BY <1>3, <1>4, <1>5 DEF WayInv

\* A step that gains no token asks for nothing.
LEMMA NoGainAsksNothing ==
  ASSUME TypeOK, TypeOK', NoGain
  PROVE  (Asking' => Asking) /\ (Started' <=> Started)
  BY StateOfTokens, RoundSum DEF NoGain

-----------------------------------------------------------------------------
(* The frames the server has not taken yet.                                 *)

\* An answer in the queue is for the question the server has open, if it has one.
Matched(queue) ==
  \A i \in DOMAIN queue : queue[i].type = "QU_AN" /\ queue[i].arg > 0 =>
    /\ \A j \in 1 .. i - 1 : queue[j].type # "QU_RQ"
    /\ srvActive => queue[i].arg = srvQ

\* What is taken from the front, or appended and is no answer, leaves the rest matched.
LEMMA MatchedKept ==
  ASSUME NEW queue \in Seq(Frame), Matched(queue)
  PROVE  /\ queue # <<>> => Matched(Tail(queue)) /\ Tail(queue) \in Seq(Frame)
         /\ \A f \in Frame :
              \/ f.type # "QU_AN" \/ f.arg = 0
              \/ ~Has(queue, "QU_RQ") /\ f.arg = srvQ
              => Matched(Append(queue, f))
<1>1. DOMAIN queue = 1 .. Len(queue) /\ Len(queue) \in Nat
  BY LenProperties
<1>2. ASSUME queue # <<>>
      PROVE  Matched(Tail(queue)) /\ Tail(queue) \in Seq(Frame)
  <2>1. /\ Tail(queue) \in Seq(Frame) /\ DOMAIN Tail(queue) = 1 .. Len(queue) - 1
        /\ \A n \in 1 .. Len(queue) - 1 : Tail(queue)[n] = queue[n + 1]
    BY <1>1, <1>2, HeadTailProperties, LenProperties
  <2>2. ASSUME NEW i \in DOMAIN Tail(queue), Tail(queue)[i].type = "QU_AN",
               Tail(queue)[i].arg > 0
        PROVE  /\ \A j \in 1 .. i - 1 : Tail(queue)[j].type # "QU_RQ"
               /\ srvActive => Tail(queue)[i].arg = srvQ
    <3>1. i + 1 \in DOMAIN queue /\ Tail(queue)[i] = queue[i + 1]
      BY <1>1, <2>1
    <3>2. /\ \A j \in 1 .. (i + 1) - 1 : queue[j].type # "QU_RQ"
          /\ srvActive => queue[i + 1].arg = srvQ
      BY <2>2, <3>1 DEF Matched
    <3>3. \A j \in 1 .. i - 1 : Tail(queue)[j] = queue[j + 1] /\ j + 1 \in 1 .. (i + 1) - 1
      BY <1>1, <2>1
    <3> QED BY <3>1, <3>2, <3>3
  <2> QED BY <2>1, <2>2 DEF Matched
<1>3. ASSUME NEW f \in Frame,
             \/ f.type # "QU_AN" \/ f.arg = 0
             \/ ~Has(queue, "QU_RQ") /\ f.arg = srvQ
      PROVE  Matched(Append(queue, f))
  <2>1. /\ DOMAIN Append(queue, f) = 1 .. Len(queue) + 1
        /\ \A n \in 1 .. Len(queue) : Append(queue, f)[n] = queue[n]
        /\ Append(queue, f)[Len(queue) + 1] = f
    BY <1>1, AppendProperties, LenProperties
  <2>2. ASSUME NEW i \in DOMAIN Append(queue, f), Append(queue, f)[i].type = "QU_AN",
               Append(queue, f)[i].arg > 0
        PROVE  /\ \A j \in 1 .. i - 1 : Append(queue, f)[j].type # "QU_RQ"
               /\ srvActive => Append(queue, f)[i].arg = srvQ
    <3>1. \A j \in 1 .. i - 1 : j \in DOMAIN queue /\ Append(queue, f)[j] = queue[j]
      BY <1>1, <2>1
    <3>2. CASE i = Len(queue) + 1
      <4>1. f.arg # 0
        BY <2>1, <2>2, <3>2
      <4>2. ~Has(queue, "QU_RQ") /\ f.arg = srvQ
        BY <1>3, <2>1, <2>2, <3>2, <4>1
      <4> QED BY <2>1, <3>1, <3>2, <4>2 DEF Has
    <3>3. CASE i # Len(queue) + 1
      <4>1. i \in DOMAIN queue /\ Append(queue, f)[i] = queue[i]
        BY <1>1, <2>1, <3>3
      <4> QED BY <2>2, <3>1, <4>1 DEF Matched
    <3> QED BY <3>2, <3>3
  <2> QED BY <2>2 DEF Matched
<1> QED BY <1>2, <1>3

\* Of two frames the second is left when the first is taken.
LEMMA TwoFrames ==
  ASSUME NEW S, NEW queue \in Seq(S), Len(queue) > 1
  PROVE  queue # <<>> /\ Tail(queue) # <<>>
<1>1. queue # <<>>
  BY EmptySeq
<1>2. Len(Tail(queue)) = Len(queue) - 1 /\ Len(queue) \in Nat
  BY <1>1, HeadTailProperties, LenProperties
<1>3. \A n \in Nat : n > 1 => n - 1 # 0
  OBVIOUS
<1>4. Len(queue) - 1 # 0
  BY <1>2, <1>3, Zenon
<1> QED BY <1>1, <1>2, <1>4, EmptySeq

\* A step that opens no question and appends no answer keeps the answers matched.
LEMMA AnswersKept ==
  ASSUME TypeOK, AnswerForShownQuestion, srvQ' = srvQ, srvActive' => srvActive,
         \/ outbox' = outbox
         \/ \E f \in Frame : f.type # "QU_AN" /\ outbox' = Append(outbox, f)
         \/ outbox # <<>> /\ outbox' = Tail(outbox)
         \/ Len(outbox) > 1 /\ outbox' = Tail(Tail(outbox))
  PROVE  AnswerForShownQuestion'
<1>1. outbox \in Seq(Frame) /\ Matched(outbox)
  BY DEF TypeOK, NetTypeOK, AnswerForShownQuestion, Matched
<1>2. Matched(outbox')
  <2>1. CASE Len(outbox) > 1 /\ outbox' = Tail(Tail(outbox))
    <3>1. outbox # <<>> /\ Tail(outbox) # <<>>
      BY <1>1, <2>1, TwoFrames
    <3>2. Matched(Tail(outbox)) /\ Tail(outbox) \in Seq(Frame)
      BY <1>1, <3>1, MatchedKept
    <3> QED BY <2>1, <3>1, <3>2, MatchedKept
  <2>2. ASSUME NEW f \in Frame, f.type # "QU_AN", outbox' = Append(outbox, f)
        PROVE  Matched(outbox')
    <3>1. Matched(Append(outbox, f))
      BY <1>1, <2>2, MatchedKept
    <3> QED BY <2>2, <3>1
  <2>3. CASE outbox # <<>> /\ outbox' = Tail(outbox)
    BY <1>1, <2>3, MatchedKept
  <2> QED BY <1>1, <2>1, <2>2, <2>3
<1>3. \A i \in DOMAIN outbox' : outbox'[i].type = "QU_AN" /\ outbox'[i].arg > 0 =>
        /\ \A j \in 1 .. i - 1 : outbox'[j].type # "QU_RQ"
        /\ srvActive' => outbox'[i].arg = srvQ'
  BY <1>2 DEF Matched
<1> QED BY <1>3 DEF AnswerForShownQuestion

\* What a write leaves in the queue.
LEMMA WriteAppends ==
  ASSUME NEW t, NEW frame, NEW next, Write(t, frame, next)
  PROVE  outbox' = outbox \/ outbox' = Append(outbox, frame)
  BY DEF Write

\* While the connection stands a write succeeds, and so does a read.
LEMMA LiveSucceeds ==
  ASSUME CtlTypeOK, ~closeOnEnd, sockOpen, peer = "open", NEW next
  PROVE  /\ \A t, frame : Write(t, frame, next)
              => outbox' = Append(outbox, frame) /\ Continue(t, next)
         /\ Read(next) \/ ReadPayload(next) => Continue("listener", next) /\ msg' = msg
  BY DEF Write, Read, ReadPayload, Skip

-----------------------------------------------------------------------------
(* The steps of the threads.                                                *)

\* main has nothing to do while a question is on its way but to wait.
LEMMA MainAnswers ==
  ASSUME GuiInv, TypeOK', RoundInv, AnswerInv, MainNext
  PROVE  AnswerForShownQuestion' /\ (Live /\ Live' => WayInv')
<1> USE DEF At
<1>1. TypeOK /\ proc = "running"
  BY DEF GuiInv, MainNext, Connect, CreateListener, SendLogin, WaitLogin, CreateGui,
         SendCatalogRequest, WaitStart, SendQuestionRequest, WaitEnd, MainWrites, MainWaits
<1>2. /\ UNCHANGED <<hdr, msg, inbox, shown, enabled, srvQ, srvActive>>
      /\ \/ outbox' = outbox
         \/ \E type \in {"LG_RQ", "CA_RQ", "QU_RQ"} : \E next : Write("main", Frm(type, 0), next)
  BY DEF MainNext, Connect, CreateListener, SendLogin, WaitLogin, CreateGui,
         SendCatalogRequest, WaitStart, SendQuestionRequest, WaitEnd, MainWrites, MainWaits,
         OnlyControl, liVars, guiVars, gameVars, netVars, srvVars
<1>3. AnswerForShownQuestion'
  <2>1. \A type \in {"LG_RQ", "CA_RQ", "QU_RQ"} :
          Frm(type, 0) \in Frame /\ Frm(type, 0).type # "QU_AN"
    BY DEF Frm, Frame, FrameTypes
  <2> QED BY <1>1, <1>2, <2>1, WriteAppends, AnswersKept DEF AnswerInv
<1>4. ASSUME Live, Live', OnItsWay
      PROVE  FALSE
  <2>1. Started /\ ~Asking
    BY <1>4 DEF AnswerInv, WayInv, RoundWay
  <2>2. pc["main"] \in {"waitEnd", "errDialog", "errWait"}
    BY <2>1 DEF Started, Asking
  <2>3. WaitEnd
    BY <2>2
    DEF MainNext, Connect, CreateListener, SendLogin, WaitLogin, CreateGui,
        SendCatalogRequest, WaitStart, SendQuestionRequest, MainWrites, MainWaits
  <2> QED BY <1>4, <2>3 DEF WaitEnd, End, Live
<1>5. ASSUME Live, Live'
      PROVE  WayInv'
  <2>1. ~OnItsWay
    BY <1>4, <1>5
  <2>2. pc'["listener"] \in {pc["listener"], "type"}
    <3>1. CASE CreateListener
      BY <1>1, <3>1 DEF CreateListener, End, TypeOK, CtlTypeOK, Threads
    <3>2. CASE ~CreateListener
      <4>1. \/ \E next : Continue("main", next)
            \/ \E how : End(how)
            \/ pc' = [pc EXCEPT !["main"] = "catalogs", !["gui"] = "init"]
            \/ \E frame, next : Write("main", frame, next)
        BY <3>2
        DEF MainNext, Connect, SendLogin, WaitLogin, CreateGui, SendCatalogRequest, WaitStart,
            SendQuestionRequest, WaitEnd, MainWrites, MainWaits
      <4>2. TypeOK /\ "main" \in Threads /\ "listener" \in Threads \ {"main"} /\ CtlTypeOK
        BY <1>1 DEF Threads, TypeOK
      <4> QED BY <4>1, <4>2, WriteMoves DEF Continue, Goto, End, CtlTypeOK, Threads
    <3> QED BY <3>1, <3>2
  <2>3. ~OnItsWay'
    BY <1>2, <2>1, <2>2 DEF OnItsWay, Has, Carries, Shows
  <2>4. RoundWay'
    BY <2>3 DEF RoundWay
  <2>5. ListenerWay'
    BY <2>3 DEF ListenerWay, OnItsWay
  <2>6. QueueWay'
    BY <1>2, <1>5, <2>3 DEF AnswerInv, WayInv, QueueWay, OnItsWay, Ordered, Has, Current
  <2> QED BY <2>4, <2>5, <2>6 DEF WayInv
<1> QED BY <1>3, <1>5

\* When the listener acts the connection that stands is main's, and no window is closed.
LEMMA ListenerLive ==
  ASSUME GuiInv, RoundInv, AnswerInv, Live, pc["listener"] # "none"
  PROVE  ~closeOnEnd /\ sockOpen /\ peer = "open" /\ PlaceInv /\ TokenInv /\ WayInv
<1>1. pc["main"] # "connect"
  BY DEF GuiInv, StartInv, BeforeLogin
<1> QED BY <1>1 DEF AnswerInv, ClosedInv, Live, RoundInv

\* A read or a case of listener_thread other than the read of a type.
LEMMA ListenerReadsAnswers ==
  ASSUME GuiInv, TypeOK', RoundInv, AnswerInv, ListenerReads
  PROVE  AnswerForShownQuestion' /\ (Live /\ Live' => WayInv')
<1> USE DEF At
<1>1. /\ TypeOK /\ CtlTypeOK /\ inbox \in Seq(Message)
      /\ hdr \in [type : ServerTypes, size : {0, 1}]
  BY DEF GuiInv, TypeOK, NetTypeOK, LiTypeOK
<1>2. UNCHANGED <<shown, enabled, srvQ, srvActive, outbox>>
  BY DEF ListenerReads, CallRead, ReadType, ReadSize, ReadRank, ReceiveLoginOk, ReceiveCatalog,
         ReceiveCatalogChange, ReceivePlayerList, ReceiveStartGame, ReceiveQuestion,
         ReceiveResult, ReceiveWarning, ReceiveUnknown, Severity, PostMain, WaitGui,
         SpawnQuestionThread, Receive, InThread, guiVars, gameVars, netVars, srvVars
<1>3. AnswerForShownQuestion'
  BY <1>1, <1>2, AnswersKept DEF AnswerInv
<1>4. ASSUME Live, Live'
      PROVE  WayInv'
  <2>1. pc["listener"] # "none"
    BY DEF ListenerReads, CallRead, ReadType, ReadSize, ReadRank, ReceiveLoginOk,
           ReceiveCatalog, ReceiveCatalogChange, ReceivePlayerList, ReceiveStartGame,
           ReceiveQuestion, ReceiveResult, ReceiveWarning, ReceiveUnknown, Severity, PostMain,
           WaitGui, SpawnQuestionThread, Receive, Case
  <2>2. ~closeOnEnd /\ sockOpen /\ peer = "open" /\ PlaceInv /\ TokenInv /\ WayInv
    BY <1>4, <2>1, ListenerLive
  <2>3. ASSUME NEW next, Read(next) \/ ReadPayload(next)
        PROVE  Continue("listener", next) /\ msg' = msg
    BY <1>1, <2>2, <2>3, LiveSucceeds
  <2>4. ASSUME NEW next, Continue("listener", next)
        PROVE  pc'["listener"] = next /\ pc'["main"] = pc["main"] /\ cont' = cont
    BY <1>1, <2>4 DEF Continue, Goto, CtlTypeOK, Threads
  <2>5. QueueOK(inbox)
    BY <2>2 DEF WayInv, QueueWay, QueueOK
  <2>6. QueueOK(<<Raw>> \o inbox) /\ (Has(<<Raw>> \o inbox, "QU") => Has(inbox, "QU"))
    BY <1>1, <2>5, QueueTaken
  <2>7. ASSUME NoGain, hdr'.type = hdr.type, inbox' \in {inbox, <<Raw>> \o inbox},
               pc'["listener"] \notin {"buttons", "spawn"},
               pc'["listener"] \in {"size", "case", "gui"} /\ hdr.type \in {"QU", "QU_RE"}
                 => /\ pc["listener"] \in {"size", "case"} /\ pc'["listener"] # "size"
                    /\ msg' = msg
                    /\ hdr'.size = IF pc["listener"] = "size" THEN msg.size ELSE hdr.size
        PROVE  WayInv'
    <3>1. (Asking' => Asking) /\ (Started => Started')
      BY <1>1, <2>7, NoGainAsksNothing
    <3>2. Carries("QU")' => msg' = msg /\ hdr'.size = msg.size
      <4>1. SUFFICES ASSUME Carries("QU")'
                     PROVE  msg' = msg /\ hdr'.size = msg.size
        OBVIOUS
      <4>2. hdr.type = "QU" /\ pc["listener"] \in {"size", "case"} /\ Carries("QU")
        BY <2>7, <4>1 DEF Carries
      <4>3. pc["listener"] # "size" => hdr.size = msg.size
        BY <2>2, <4>2 DEF WayInv, ListenerWay
      <4> QED BY <2>7, <4>1, <4>2, <4>3 DEF Carries
    <3>3. /\ QueueOK(inbox) => QueueOK(inbox')
          /\ Has(inbox', "QU") => Has(inbox, "QU")
      BY <2>5, <2>6, <2>7
    <3> QED BY <1>2, <2>2, <2>7, <3>1, <3>2, <3>3, WayKept
  <2>8. CASE \/ CallRead \/ ReadSize \/ ReadRank \/ ReceiveLoginOk \/ ReceiveCatalog
             \/ ReceiveCatalogChange \/ ReceivePlayerList \/ ReceiveStartGame
             \/ ReceiveQuestion \/ ReceiveResult \/ ReceiveWarning \/ ReceiveUnknown
             \/ Severity
    <3>1. NoGain
      BY <2>2, <2>8, ListenerReadsRound
    <3>2. hdr'.type = hdr.type /\ inbox' \in {inbox, <<Raw>> \o inbox}
      <4>1. hdr'.type = hdr.type
        BY <1>1, <2>8
        DEF CallRead, ReadSize, ReadRank, ReceiveLoginOk, ReceiveCatalog,
            ReceiveCatalogChange, ReceivePlayerList, ReceiveStartGame, ReceiveQuestion,
            ReceiveResult, ReceiveWarning, ReceiveUnknown, Severity, Receive, liVars
      <4>2. inbox' \in {inbox, <<Raw>> \o inbox}
        BY <2>8
        DEF CallRead, ReadSize, ReadRank, ReceiveLoginOk, ReceiveCatalog,
            ReceiveCatalogChange, ReceivePlayerList, ReceiveStartGame, ReceiveQuestion,
            ReceiveResult, ReceiveWarning, ReceiveUnknown, Severity, Receive, netVars
      <4> QED BY <4>1, <4>2
    <3>3. CASE CallRead
      <4>1. Continue("listener", "inType")
        BY <2>2, <3>3 DEF CallRead
      <4> QED BY <2>4, <2>7, <3>1, <3>2, <4>1
    <3>4. CASE ReadSize
      <4>1. Continue("listener", "case") /\ msg' = msg /\ pc["listener"] = "size"
        BY <2>3, <3>4 DEF ReadSize
      <4>2. hdr.type \in {"QU", "QU_RE"} => msg # NoMsg
        <5>1. Read("case") /\ ~(~sockOpen \/ peer = "closed")
          BY <2>2, <3>4 DEF ReadSize
        <5> QED BY <5>1 DEF Read
      <4>3. msg # NoMsg => hdr'.size = msg.size
        BY <1>1, <3>4, <4>1 DEF ReadSize
      <4> QED BY <2>4, <2>7, <3>1, <3>2, <4>1, <4>2, <4>3
    <3>5. CASE \/ ReceiveLoginOk \/ ReceiveCatalogChange \/ ReceivePlayerList
               \/ ReceiveStartGame
      <4>1. \E next \in {"post", "gui"} : ReadPayload(next) \/ Read(next)
        BY <3>5
        DEF ReceiveLoginOk, ReceiveCatalogChange, ReceivePlayerList, ReceiveStartGame, Receive
      <4>2. hdr.type \notin {"QU", "QU_RE"}
        BY <3>5
        DEF ReceiveLoginOk, ReceiveCatalogChange, ReceivePlayerList, ReceiveStartGame, Receive,
            Case
      <4> QED BY <2>3, <2>4, <2>7, <3>1, <3>2, <4>1, <4>2
    <3>6. CASE ReceiveCatalog
      <4>1. hdr.type = "CA_RP" /\ \E next \in {"gui", "type"} :
              ReadPayload(next) \/ Continue("listener", next)
        BY <3>6 DEF ReceiveCatalog, Case, Skip
      <4> QED BY <2>3, <2>4, <2>7, <3>1, <3>2, <4>1
    <3>7. CASE ReceiveQuestion \/ ReceiveResult
      <4>1. /\ ReadPayload("gui") \/ Read("gui")
            /\ pc["listener"] = "case" /\ hdr' = hdr
        BY <3>7 DEF ReceiveQuestion, ReceiveResult, Case
      <4> QED BY <2>3, <2>4, <2>7, <3>1, <3>2, <4>1
    <3>8. CASE ReadRank \/ ReceiveWarning \/ Severity
      <4>1. \E next \in {"quit", "severity", "info"} :
              Read(next) \/ Continue("listener", next)
        BY <1>4, <3>8 DEF ReadRank, ReceiveWarning, Severity, End, Live
      <4> QED BY <2>3, <2>4, <2>7, <3>1, <3>2, <4>1
    <3>9. CASE ReceiveUnknown
      BY <1>4, <3>9 DEF ReceiveUnknown, End, Live
    <3> QED BY <2>8, <3>3, <3>4, <3>5, <3>6, <3>7, <3>8, <3>9
  <2>9. CASE PostMain \/ WaitGui
    <3>1. NoGain /\ UNCHANGED <<hdr, inbox>>
      BY <2>2, <2>9, PostMainRound, WaitGuiRound DEF PostMain, WaitGui, liVars, netVars
    <3>2. \E next \in {"waitGui", "type", "gui"} : Continue("listener", next)
      BY <2>9 DEF PostMain, WaitGui, AfterPost
    <3>3. WaitGui => hdr.type = "LG_RQ_OK"
      BY <2>2 DEF WaitGui, PlaceInv, ListenerPlaces
    <3>4. PostMain => pc'["listener"] \in {"waitGui", "type"}
      BY <2>4 DEF PostMain, AfterPost
    <3> QED BY <2>4, <2>7, <2>9, <3>1, <3>2, <3>3, <3>4
  <2>10. CASE SpawnQuestionThread
    <3>1. pc'["listener"] = "type" /\ UNCHANGED <<hdr, msg, inbox>> /\ pc["listener"] = "spawn"
      BY <2>4, <2>10 DEF SpawnQuestionThread, liVars, netVars
    <3>2. ~OnItsWay
      BY <2>2, <3>1 DEF WayInv, RoundWay
    <3>3. ~OnItsWay'
      BY <1>2, <3>1, <3>2 DEF OnItsWay, Has, Carries, Shows
    <3>4. QueueWay'
      BY <1>2, <2>2, <3>1, <3>3 DEF WayInv, QueueWay, OnItsWay, Ordered, Has, Current
    <3> QED BY <3>3, <3>4 DEF WayInv, RoundWay, ListenerWay, OnItsWay
  <2>11. CASE ReadType
    <3>1. /\ inbox # <<>> /\ msg' = Head(inbox) /\ inbox' = Tail(inbox)
          /\ hdr'.type = Head(inbox).type /\ Continue("listener", "size")
      BY <1>1, <2>2, <2>11 DEF ReadType
    <3>2. pc["listener"] = "inType" /\ pc'["listener"] = "size"
      BY <2>4, <2>11, <3>1 DEF ReadType
    <3>3. (Asking' => Asking) /\ (Started => Started')
      BY <1>1, <2>2, <2>11, ReadTypeRound, NoGainAsksNothing
    <3>5. /\ QueueOK(Tail(inbox))
          /\ Has(Tail(inbox), "QU") => Has(inbox, "QU")
          /\ Has(inbox, Head(inbox).type)
          /\ Head(inbox).type = "QU" => Current(Head(inbox))
          /\ Head(inbox).type = "QU_RE" => ~Has(Tail(inbox), "QU")
      BY <1>1, <2>5, <3>1, QueueTaken
    <3>6. OnItsWay' => OnItsWay
      BY <1>2, <3>1, <3>2, <3>5 DEF OnItsWay, Carries, Shows
    <3>7. RoundWay'
      BY <2>2, <3>2, <3>3, <3>6 DEF WayInv, RoundWay
    <3>8. ListenerWay'
      BY <1>2, <2>2, <3>1, <3>2, <3>5 DEF WayInv, ListenerWay, Carries, Shows, Current
    <3>9. QueueWay'
      <4>1. ~Has(inbox', "QU") \/ ~Carries("QU_RE")'
        BY <3>1, <3>5 DEF Carries
      <4>2. Ordered(inbox') /\ \A n \in DOMAIN inbox' :
              inbox'[n].type = "QU" => (inbox'[n].size = 1 => inbox'[n].arg = srvQ')
        BY <1>2, <3>1, <3>5 DEF QueueOK, Current
      <4> QED BY <4>1, <4>2 DEF QueueWay, Has, Ordered, Current
    <3> QED BY <3>7, <3>8, <3>9 DEF WayInv
  <2> QED BY <2>8, <2>9, <2>10, <2>11 DEF ListenerReads
<1> QED BY <1>3, <1>4

\* A GUI call of listener_thread: the question is put on display, and its result
\* takes it away before the next one is asked for.
LEMMA ListenerShowsAnswers ==
  ASSUME GuiInv, TypeOK', RoundInv, AnswerInv, ListenerShows
  PROVE  AnswerForShownQuestion' /\ (Live /\ Live' => WayInv')
<1> USE DEF At, GuiCall
<1>1. TypeOK /\ CtlTypeOK
  BY DEF GuiInv, TypeOK
<1>2. /\ UNCHANGED <<hdr, msg, inbox, srvQ, srvActive>>
      /\ outbox' = outbox \/ \E next : Write("listener", Frm("CA_CH", 0), next)
  BY DEF ListenerShows, ListenerAborts, SetMode, ShowCatalog, ShowSelection,
         ShowPlayers, ShowGame, ShowQuestion, EnableButtons, ShowResult, HideGame,
         ShowWarning, ShowEnd, OnlyGui, OnlyControl, liVars, netVars, srvVars
<1>3. AnswerForShownQuestion'
  <2>1. Frm("CA_CH", 0) \in Frame /\ Frm("CA_CH", 0).type # "QU_AN"
    BY DEF Frm, Frame, FrameTypes
  <2> QED BY <1>1, <1>2, <2>1, WriteAppends, AnswersKept DEF AnswerInv
<1>4. ASSUME Live, Live'
      PROVE  WayInv'
  <2>1. pc["listener"] # "none"
    BY DEF ListenerShows, ListenerAborts, SetMode, ShowCatalog, ShowSelection, ShowPlayers,
           ShowGame, ShowQuestion, EnableButtons, ShowResult, HideGame, ShowWarning, ShowEnd
  <2>2. ~closeOnEnd /\ sockOpen /\ peer = "open" /\ PlaceInv /\ TokenInv /\ WayInv
    BY <1>4, <2>1, ListenerLive
  <2>3. (Asking' => Asking) /\ (Started => Started')
    BY <1>1, <2>2, ListenerShowsRound, NoGainAsksNothing
  <2>4. ASSUME NEW next, Continue("listener", next) \/ Goto("listener", next)
        PROVE  pc'["listener"] = next
    BY <1>1, <2>4 DEF Continue, Goto, CtlTypeOK, Threads
  <2>5. ASSUME UNCHANGED <<shown, enabled>>,
               pc'["listener"] \in {"type", "name", "post", "rank", "errWait"}
        PROVE  WayInv'
    BY <1>2, <2>2, <2>3, <2>5, WayKept DEF Carries
  <2>6. CASE ListenerAborts
    BY <1>4, <2>6 DEF ListenerAborts, End, Live
  <2>7. CASE SetMode \/ ShowCatalog \/ ShowPlayers \/ ShowGame \/ HideGame \/ ShowWarning
             \/ ShowEnd
    <3>1. \E next \in {"type", "post", "rank", "errWait"} :
            Continue("listener", next) \/ Goto("listener", next)
      BY <2>7
      DEF SetMode, ShowCatalog, ShowPlayers, ShowGame, HideGame, ShowWarning, ShowEnd
    <3>2. UNCHANGED <<shown, enabled>>
      BY <2>7
      DEF SetMode, ShowCatalog, ShowPlayers, ShowGame, HideGame, ShowWarning, ShowEnd,
          OnlyControl, OnlyGui, guiVars, gameVars
    <3> QED BY <2>4, <2>5, <3>1, <3>2
  <2>8. CASE ShowSelection
    <3>1. UNCHANGED <<shown, enabled>>
      BY <2>8 DEF ShowSelection, gameVars
    <3>2. \/ Write("listener", Frm("CA_CH", 0), "name")
          \/ Continue("listener", "type")
      BY <2>8 DEF ShowSelection
    <3>3. \E next \in {"name", "type"} : Continue("listener", next)
      BY <1>1, <2>2, <3>2, LiveSucceeds
    <3> QED BY <2>4, <2>5, <3>1, <3>3
  <2>9. CASE ShowQuestion
    <3>1. /\ pc["listener"] = "gui" /\ hdr.type = "QU" /\ enabled' = enabled
          /\ OnItsWay /\ Carries("QU")
      BY <2>9 DEF ShowQuestion, OnItsWay, Carries
    <3>2. msg.type = "QU" /\ hdr.size = msg.size /\ msg # NoMsg
          /\ (msg.size = 1 => msg.arg = srvQ)
      BY <2>2, <3>1 DEF WayInv, ListenerWay, Current, NoMsg
    <3>3. msg.size \in {0, 1}
      BY <1>1 DEF TypeOK, LiTypeOK, Message
    <3>4. \/ pc'["listener"] = "buttons" /\ shown' = srvQ
          \/ pc'["listener"] = "type" /\ shown' = 0
      BY <2>4, <2>9, <3>2, <3>3 DEF ShowQuestion
    <3>5. RoundWay'
      BY <2>2, <2>3, <3>1, <3>4 DEF WayInv, RoundWay
    <3>6. ListenerWay'
      BY <1>2, <3>4 DEF ListenerWay, Carries, Shows
    <3>7. QueueWay'
      BY <1>2, <2>2, <3>4 DEF WayInv, QueueWay, Carries, Has, Ordered, Current
    <3> QED BY <3>5, <3>6, <3>7 DEF WayInv
  <2>10. CASE EnableButtons
    <3>1. /\ pc["listener"] = "buttons" /\ shown' = shown /\ pc'["listener"] = "type"
      BY <2>4, <2>10 DEF EnableButtons
    <3>2. OnItsWay /\ shown \in {0, srvQ}
      BY <2>2, <3>1 DEF OnItsWay, WayInv, ListenerWay
    <3>3. RoundWay'
      BY <2>2, <2>3, <3>1, <3>2 DEF WayInv, RoundWay
    <3>4. ListenerWay'
      BY <1>2, <3>1, <3>2 DEF ListenerWay, Carries
    <3>5. QueueWay'
      BY <1>2, <2>2, <3>1 DEF WayInv, QueueWay, Carries, Has, Ordered, Current
    <3> QED BY <3>3, <3>4, <3>5 DEF WayInv
  <2>11. CASE ShowResult
    <3>1. /\ pc["listener"] = "gui" /\ hdr.type = "QU_RE" /\ ~enabled'
          /\ pc'["listener"] = "spawn" /\ Carries("QU_RE")
      BY <2>4, <2>11 DEF ShowResult, Carries
    <3>2. ~Has(inbox, "QU")
      BY <2>2, <3>1 DEF WayInv, QueueWay
    <3>3. ~OnItsWay'
      BY <1>2, <3>1, <3>2 DEF OnItsWay, Has, Carries, Shows
    <3>4. QueueWay'
      BY <1>2, <2>2, <3>3 DEF WayInv, QueueWay, OnItsWay, Has, Ordered, Current
    <3> QED BY <3>3, <3>4 DEF WayInv, RoundWay, ListenerWay, OnItsWay
  <2> QED BY <2>6, <2>7, <2>8, <2>9, <2>10, <2>11 DEF ListenerShows
<1> QED BY <1>3, <1>4

\* Steps of others leave the listener and what it shows alone.
LEMMA OthersAnswer ==
  ASSUME TypeOK, TypeOK', WayInv, NoGain, pc'["listener"] = pc["listener"],
         UNCHANGED <<hdr, msg, inbox, shown, enabled, srvQ>>
  PROVE  WayInv'
<1>1. (Asking' => Asking) /\ (Started => Started')
  BY NoGainAsksNothing
<1>2. Carries("QU")' => (pc'["listener"] # "size" => hdr'.size = msg.size)
  BY DEF Carries, WayInv, ListenerWay
<1> QED BY <1>1, <1>2, WayKept

\* The player answers the question on display, as long as its buttons are enabled.
LEMMA UserAnswers ==
  ASSUME GuiInv, TypeOK', RoundInv, AnswerInv, ClosedInv',
         GuiStarts \/ GuiEnds \/ UserNext \/ UserConfirms
  PROVE  AnswerForShownQuestion' /\ (Live /\ Live' => WayInv')
<1> USE DEF At
<1>1. TypeOK /\ CtlTypeOK /\ outbox \in Seq(Frame)
  BY DEF GuiInv, TypeOK, NetTypeOK
<1>2. /\ UNCHANGED <<hdr, msg, inbox, shown, enabled, srvQ, srvActive>>
      /\ proc = "running"
  BY DEF GuiStarts, GuiInit, GuiPost, GuiSetRuns, GuiEnds, GuiDestroy, GuiExit, UserNext,
         OnCatalogChanged, OnStartClicked, OnAnswerClicked, OnWindowClosed, Callback,
         Dispatches, UserConfirms, DismissDialog, OnlyGui, OnlyControl, liVars, guiVars,
         gameVars, netVars, srvVars
<1>3. srvQ' = srvQ /\ (srvActive' => srvActive) /\ AnswerForShownQuestion
  BY <1>2 DEF AnswerInv
<1>4. ASSUME OnAnswerClicked
      PROVE  AnswerForShownQuestion'
  <2>1. pc["gui"] = "loop" /\ enabled /\ Write("gui", Frm("QU_AN", shown), "unlock")
    BY <1>4 DEF OnAnswerClicked, Dispatches, Callback
  <2>2. CASE outbox' = outbox
    BY <1>3, <1>1, <2>2, AnswersKept
  <2>3. CASE outbox' # outbox
    <3>1. outbox' = Append(outbox, Frm("QU_AN", shown)) /\ sockOpen /\ peer = "open"
      BY <2>1, <2>3 DEF Write
    <3>2. Live /\ WayInv
      BY <1>2, <3>1 DEF Live, AnswerInv
    <3>3. Frm("QU_AN", shown) \in Frame /\ Frm("QU_AN", shown).arg = shown /\ shown \in Nat
      BY <1>1 DEF Frm, Frame, FrameTypes, TypeOK, GuiTypeOK
    <3>4. shown # 0 => ~Has(outbox, "QU_RQ") /\ shown = srvQ
      <4>1. shown # 0 => Shows /\ OnItsWay
        BY <2>1, <3>3 DEF Shows, OnItsWay
      <4> QED BY <3>2, <4>1 DEF WayInv, RoundWay, ListenerWay, Asking, Has
    <3>5. Matched(outbox)
      BY DEF AnswerInv, AnswerForShownQuestion, Matched
    <3>6. Matched(outbox')
      BY <1>1, <3>1, <3>3, <3>4, <3>5, MatchedKept
    <3>7. \A i \in DOMAIN outbox' : outbox'[i].type = "QU_AN" /\ outbox'[i].arg > 0 =>
            /\ \A j \in 1 .. i - 1 : outbox'[j].type # "QU_RQ"
            /\ srvActive' => outbox'[i].arg = srvQ'
      BY <1>3, <3>6 DEF Matched
    <3> QED BY <3>7 DEF AnswerForShownQuestion
  <2> QED BY <2>2, <2>3
<1>5. ASSUME ~OnAnswerClicked
      PROVE  AnswerForShownQuestion'
  <2>1. \/ outbox' = outbox
        \/ \E type \in {"CA_CH", "ST_GA"} : \E next : Write("gui", Frm(type, 0), next)
    BY <1>5
    DEF GuiStarts, GuiInit, GuiPost, GuiSetRuns, GuiEnds, GuiDestroy, GuiExit, UserNext,
        OnCatalogChanged, OnStartClicked, OnWindowClosed, Callback, UserConfirms,
        DismissDialog, OnlyGui, OnlyControl, netVars
  <2>2. \A type \in {"CA_CH", "ST_GA"} :
          Frm(type, 0) \in Frame /\ Frm(type, 0).type # "QU_AN"
    BY DEF Frm, Frame, FrameTypes
  <2> QED BY <1>3, <1>1, <2>1, <2>2, WriteAppends, AnswersKept
<1>6. ASSUME Live, Live'
      PROVE  WayInv'
  <2>1. ~closeOnEnd /\ ~closeOnEnd'
    BY <1>6 DEF Live, AnswerInv, ClosedInv
  <2>2. NoGain
    BY <2>1, GuiRound DEF RoundInv
  <2>3. pc'["listener"] = pc["listener"]
    <3>1. \/ UNCHANGED pc \/ \E next : Continue("gui", next)
          \/ \E frame, next : Write("gui", frame, next)
      BY DEF GuiStarts, GuiInit, GuiPost, GuiSetRuns, GuiEnds, GuiDestroy, GuiExit, UserNext,
             OnCatalogChanged, OnStartClicked, OnAnswerClicked, OnWindowClosed, Callback,
             UserConfirms, DismissDialog, End, ctlVars
    <3> QED BY <1>1, <3>1, WriteMoves DEF Continue, Goto, CtlTypeOK, Threads
  <2> QED BY <1>1, <1>2, <1>6, <2>2, <2>3, OthersAnswer DEF AnswerInv
<1> QED BY <1>4, <1>5, <1>6

\* An error check or the second write of a frame, and a question change thread.
LEMMA ErrorsAnswer ==
  ASSUME GuiInv, TypeOK', RoundInv, AnswerInv,
         QuestionThreads \/ \E t \in Threads : Errors(t)
  PROVE  AnswerForShownQuestion' /\ (Live /\ Live' => WayInv')
<1> USE DEF At
<1>1. TypeOK /\ CtlTypeOK /\ selected \in Nat
  BY DEF GuiInv, TypeOK, GuiTypeOK
<1>2. UNCHANGED <<hdr, msg, inbox, shown, enabled, srvQ, srvActive>>
  BY DEF QuestionThreads, QuestionThreadWrites, QuestionThreadFails, Errors, ErrorDialog,
         SocketWait, WriteName, Unlock, OnlyGui, liVars, guiVars, gameVars, netVars, srvVars
<1>3. srvQ' = srvQ /\ (srvActive' => srvActive) /\ AnswerForShownQuestion
  BY <1>2 DEF AnswerInv
<1>4. AnswerForShownQuestion'
  <2>1. \/ outbox' = outbox \/ outbox' = Append(outbox, Frm("QU_RQ", 0))
        \/ \E t, next : Write(t, Frm("NAME", selected), next)
    BY DEF QuestionThreads, QuestionThreadWrites, QuestionThreadFails, Errors, ErrorDialog,
           SocketWait, WriteName, Unlock, OnlyGui, netVars
  <2>2. /\ Frm("QU_RQ", 0) \in Frame /\ Frm("QU_RQ", 0).type # "QU_AN"
        /\ Frm("NAME", selected) \in Frame /\ Frm("NAME", selected).type # "QU_AN"
    BY <1>1 DEF Frm, Frame, FrameTypes
  <2> QED BY <1>1, <1>3, <2>1, <2>2, WriteAppends, AnswersKept
<1>5. ASSUME Live, Live'
      PROVE  WayInv'
  <2>1. WayInv /\ ~closeOnEnd
    BY <1>5 DEF Live, AnswerInv, ClosedInv
  <2>2. CASE QuestionThreads
    <3>1. NoGain
      BY <2>1, <2>2, QuestionThreadsRound DEF RoundInv
    <3>2. pc'["listener"] = pc["listener"]
      BY <2>2 DEF QuestionThreads, QuestionThreadWrites, QuestionThreadFails, End, ctlVars
    <3> QED BY <1>1, <1>2, <2>1, <3>1, <3>2, OthersAnswer
  <2>3. ASSUME NEW t \in Threads, Errors(t)
        PROVE  WayInv'
    <3>1. NoGain
      BY <2>1, <2>3, ErrorsRound DEF RoundInv
    <3>2. CASE t # "listener"
      <4>1. pc'["listener"] = pc["listener"]
        BY <1>1, <2>3, <3>2, WriteMoves
        DEF Errors, ErrorDialog, SocketWait, WriteName, Unlock, Continue, Goto, CtlTypeOK,
            Threads
      <4> QED BY <1>1, <1>2, <2>1, <3>1, <4>1, OthersAnswer
    <3>3. CASE t = "listener"
      <4>1. pc["listener"] # "none"
        BY <2>3, <3>3 DEF Errors, ErrorDialog, SocketWait, WriteName, Unlock
      <4>2. sockOpen /\ peer = "open" /\ PlaceInv
        BY <1>5, <4>1, ListenerLive
      <4>3. ~SocketWait("listener")
        <5>1. ASSUME SocketWait("listener")
              PROVE  FALSE
          <6>1. pc["listener"] = "errWait" /\ semSocket > 0
            BY <5>1 DEF SocketWait
          <6>2. pc["main"] \in InLogin \cup {"createGui"} \/ semSocket = 0
            BY <4>2, <6>1 DEF PlaceInv, ListenerPlaces, LoggedIn
          <6> QED BY <4>2, <6>1, <6>2 DEF PlaceInv, MainPlaces, InError
        <5> QED BY <5>1
      <4>4. \E next \in {"errWait", "unlock", "type"} : Continue("listener", next)
        BY <1>1, <2>1, <2>3, <3>3, <4>2, <4>3, LiveSucceeds
        DEF Errors, ErrorDialog, WriteName, Unlock
      <4>5. pc'["listener"] \in {"errWait", "unlock", "type"}
        BY <1>1, <4>4 DEF Continue, Goto, CtlTypeOK, Threads
      <4>6. (Asking' => Asking) /\ (Started => Started')
        BY <1>1, <3>1, NoGainAsksNothing
      <4> QED BY <1>2, <2>1, <4>5, <4>6, WayKept DEF Carries
    <3> QED BY <3>2, <3>3
  <2> QED BY <2>2, <2>3
<1> QED BY <1>4, <1>5

-----------------------------------------------------------------------------
(* The server.                                                              *)

\* What the server sends is a question only when it was asked for one.
LEMMA ServerMessages ==
  ASSUME TypeOK, ServerReplies \/ ServerActs, ~ServerQuestion
  PROVE  \E more \in Seq(Message) : inbox' = inbox \o more /\ ~Has(more, "QU")
<1>1. inbox \in Seq(Message) /\ outbox \in Seq(Frame) /\ srvQ \in Nat
  BY DEF TypeOK, NetTypeOK, SrvTypeOK
<1>2. /\ <<>> \in Seq(Message) /\ ~Has(<<>>, "QU")
      /\ \A m \in Message : <<m>> \in Seq(Message) /\ (m.type # "QU" => ~Has(<<m>>, "QU"))
  BY EmptySeq DEF Has
<1>3. inbox' = inbox => inbox' = inbox \o <<>>
  BY <1>1, ConcatEmptySeq
<1>4. \A m \in Message : Append(inbox, m) = inbox \o <<m>>
  BY <1>1, AppendIsConcat
<1>5. \A type \in ServerTypes, arg \in Nat :
        /\ Msg(type, arg) \in Message /\ Msg(type, arg).type = type
        /\ Empty(type) \in Message /\ Empty(type).type = type
  BY DEF Msg, Empty, Message
<1>6. CASE ServerLogin
  <2>1. PICK id \in {0, 1} : inbox' = inbox \o <<Msg("LG_RQ_OK", id), Msg("PL_LI", 0)>>
    BY <1>6 DEF ServerLogin, Reply
  <2>2. <<Msg("LG_RQ_OK", id), Msg("PL_LI", 0)>> \in Seq(Message)
    BY <1>5 DEF ServerTypes
  <2>3. ~Has(<<Msg("LG_RQ_OK", id), Msg("PL_LI", 0)>>, "QU")
    BY <1>5 DEF Has, ServerTypes
  <2> QED BY <2>1, <2>2, <2>3
<1>7. CASE ServerCatalogs
  BY <1>7, CatalogsSent DEF Has
<1>8. CASE ServerCatalogChange \/ ServerStart
  <2>1. /\ outbox # <<>> /\ Len(outbox) > 1
        /\ \/ inbox' = inbox \o <<>>
           \/ \E type \in {"CA_CH", "ST_GA"} : inbox' = inbox \o <<Msg(type, outbox[2].arg)>>
    BY <1>8 DEF ServerCatalogChange, ServerStart, ReplyToName, Receives
  <2>2. outbox[2].arg \in Nat
    <3>1. 2 \in 1 .. Len(outbox)
      BY <1>1, <2>1, LenProperties
    <3>2. outbox[2] \in Frame
      BY <1>1, <3>1, ElementOfSeq
    <3> QED BY <3>2 DEF Frame
  <2> QED BY <1>2, <1>5, <2>1, <2>2 DEF ServerTypes
<1>9. CASE ServerAnswer
  BY <1>2, <1>5, <1>9 DEF ServerAnswer, Reply, ServerTypes
<1>10. CASE ServerTimeout \/ ServerGameOver \/ ServerFatal \/ ServerUnasked
  <2>1. \E m \in Message : m.type # "QU" /\ Sends(m)
    <3>1. \/ \E type \in {"QU_RE", "GA_OV", "PL_LI", "ER_WA"}, arg \in {0, 1} :
               Sends(Msg(type, arg))
          \/ \E c \in Catalog : Sends(Msg("CA_CH", c))
          \/ Sends(Empty("ST_GA"))
      BY <1>10 DEF ServerTimeout, ServerGameOver, ServerFatal, ServerUnasked
    <3> QED BY <1>5, <3>1 DEF ServerTypes, Catalog
  <2> QED BY <1>2, <1>4, <2>1 DEF Sends
<1>11. CASE ServerCloses
  BY <1>2, <1>3, <1>11 DEF ServerCloses
<1> QED BY <1>6, <1>7, <1>8, <1>9, <1>10, <1>11 DEF ServerReplies, ServerActs

\* A step of the server leaves the threads alone, and takes frames from the front.
LEMMA ServerTakes ==
  ASSUME ServerReplies \/ ServerActs
  PROVE  /\ UNCHANGED <<pc, cont, hdr, msg, shown, enabled, threads>>
         /\ \/ outbox' = outbox
            \/ outbox # <<>> /\ outbox' = Tail(outbox)
            \/ Len(outbox) > 1 /\ outbox' = Tail(Tail(outbox))
         /\ ~ServerQuestion => srvQ' = srvQ /\ (srvActive' => srvActive)
<1>1. UNCHANGED <<pc, cont, hdr, msg, shown, enabled, threads>>
  BY DEF ServerReplies, ServerActs, ServerLogin, ServerCatalogs, ServerCatalogChange,
         ServerStart, ServerQuestion, ServerAnswer, ServerTimeout, ServerGameOver,
         ServerUnasked, ServerFatal, ServerCloses, Sends, InServer, ctlVars, liVars, guiVars,
         gameVars
<1>2. \/ outbox' = outbox
      \/ outbox # <<>> /\ outbox' = Tail(outbox)
      \/ Len(outbox) > 1 /\ outbox' = Tail(Tail(outbox))
  BY DEF ServerReplies, ServerActs, ServerLogin, ServerCatalogs, ServerCatalogChange,
         ServerStart, ServerQuestion, ServerAnswer, ServerTimeout, ServerGameOver,
         ServerUnasked, ServerFatal, ServerCloses, Sends, Reply, ReplyToName, Receives
<1>3. ~ServerQuestion => srvQ' = srvQ /\ (srvActive' => srvActive)
  BY DEF ServerReplies, ServerActs, ServerLogin, ServerCatalogs, ServerCatalogChange,
         ServerStart, ServerAnswer, ServerTimeout, ServerGameOver, ServerUnasked, ServerFatal,
         ServerCloses, Sends, srvVars
<1> QED BY <1>1, <1>2, <1>3

\* What is left of the frames holds no type that was not there.
LEMMA FramesLeft ==
  ASSUME NEW queue \in Seq(Frame), NEW type
  PROVE  /\ queue # <<>> => Tail(queue) \in Seq(Frame)
                            /\ (Has(Tail(queue), type) => Has(queue, type))
         /\ Len(queue) > 1 => (Has(Tail(Tail(queue)), type) => Has(queue, type))
<1>1. ASSUME NEW q \in Seq(Frame), q # <<>>
      PROVE  Tail(q) \in Seq(Frame) /\ (Has(Tail(q), type) => Has(q, type))
  <2>1. /\ Tail(q) \in Seq(Frame) /\ DOMAIN Tail(q) = 1 .. Len(q) - 1
        /\ \A n \in 1 .. Len(q) - 1 : Tail(q)[n] = q[n + 1]
        /\ DOMAIN q = 1 .. Len(q) /\ Len(q) \in Nat
    BY <1>1, HeadTailProperties, LenProperties
  <2>2. \A n \in DOMAIN Tail(q) : n + 1 \in DOMAIN q
    BY <2>1
  <2> QED BY <2>1, <2>2 DEF Has
<1> QED BY <1>1, TwoFrames

\* The server sends anything but a question, and asks for nothing.
LEMMA ServerAnswers ==
  ASSUME GuiInv, TypeOK', RoundInv, AnswerInv, ServerReplies \/ ServerActs, ~ServerQuestion
  PROVE  AnswerForShownQuestion' /\ (Live /\ Live' => WayInv')
<1>1. TypeOK /\ outbox \in Seq(Frame) /\ inbox \in Seq(Message)
  BY DEF GuiInv, TypeOK, NetTypeOK
<1>2. /\ UNCHANGED <<pc, cont, hdr, msg, shown, enabled, threads, srvQ>>
      /\ srvActive' => srvActive
  BY ServerTakes
<1>3. \/ outbox' = outbox
      \/ outbox # <<>> /\ outbox' = Tail(outbox)
      \/ Len(outbox) > 1 /\ outbox' = Tail(Tail(outbox))
  BY ServerTakes
<1>4. AnswerForShownQuestion'
  BY <1>1, <1>2, <1>3, AnswersKept DEF AnswerInv
<1>5. ASSUME Live
      PROVE  WayInv'
  <2>1. WayInv
    BY <1>5 DEF AnswerInv
  <2>2. Has(outbox', "QU_RQ") => Has(outbox, "QU_RQ")
    BY <1>1, <1>3, FramesLeft
  <2>3. Asking' => Asking
    BY <1>2, <2>2 DEF Asking, Has
  <2>4. Started => Started'
    BY <1>2 DEF Started
  <2>5. PICK more \in Seq(Message) : inbox' = inbox \o more /\ ~Has(more, "QU")
    BY <1>1, ServerMessages
  <2>6. /\ QueueOK(inbox) => QueueOK(inbox \o more)
        /\ Has(inbox \o more, "QU") => Has(inbox, "QU")
    BY <1>1, <2>5, QueueExtended
  <2>7. Carries("QU")' => msg' = msg /\ (pc'["listener"] # "size" => hdr'.size = msg.size)
    BY <1>2, <2>1 DEF WayInv, ListenerWay, Carries
  <2> QED BY <1>2, <2>1, <2>3, <2>4, <2>5, <2>6, <2>7, WayKept
<1> QED BY <1>4, <1>5

\* The next question is opened when none is on its way, nor an answer to one.
LEMMA QuestionAnswers ==
  ASSUME GuiInv, TypeOK', RoundInv, AnswerInv, ServerQuestion
  PROVE  AnswerForShownQuestion' /\ (Live /\ Live' => WayInv')
<1>1. /\ TypeOK /\ outbox \in Seq(Frame) /\ inbox \in Seq(Message) /\ srvQ \in Nat
      /\ UNCHANGED <<msg, shown, enabled>>
  BY DEF GuiInv, TypeOK, NetTypeOK, SrvTypeOK, ServerQuestion, InServer, liVars, guiVars,
         gameVars
<1>2. outbox # <<>> /\ outbox' = Tail(outbox) /\ Head(outbox).type = "QU_RQ"
  <2>1. CASE srvQ < NumQuestions
    BY <2>1 DEF ServerQuestion, Receives, Reply
  <2>2. CASE ~(srvQ < NumQuestions)
    BY <2>2 DEF ServerQuestion, Receives, Reply
  <2> QED BY <2>1, <2>2
<1>3. AnswerForShownQuestion'
  <2>1. /\ DOMAIN Tail(outbox) = 1 .. Len(outbox) - 1
        /\ \A n \in 1 .. Len(outbox) - 1 : Tail(outbox)[n] = outbox[n + 1]
        /\ Head(outbox) = outbox[1] /\ DOMAIN outbox = 1 .. Len(outbox) /\ Len(outbox) \in Nat
    BY <1>1, <1>2, HeadTailProperties, LenProperties
  <2>2. ASSUME NEW i \in DOMAIN Tail(outbox), Tail(outbox)[i].type = "QU_AN",
               Tail(outbox)[i].arg > 0
        PROVE  FALSE
    <3>1. i + 1 \in DOMAIN outbox /\ Tail(outbox)[i] = outbox[i + 1] /\ 1 \in 1 .. (i + 1) - 1
      BY <2>1
    <3>2. outbox[1].type # "QU_RQ"
      BY <2>2, <3>1 DEF AnswerInv, AnswerForShownQuestion
    <3> QED BY <1>2, <2>1, <3>2
  <2> QED BY <1>2, <2>2 DEF AnswerForShownQuestion
<1>4. ASSUME Live
      PROVE  WayInv'
  <2>1. WayInv /\ PlaceInv /\ TokenInv
    BY <1>4 DEF Live, AnswerInv, ClosedInv, RoundInv
  <2>2. /\ UNCHANGED <<pc, cont, hdr>>
        /\ \/ srvQ' = srvQ + 1 /\ inbox' = inbox \o <<Msg("QU", srvQ + 1)>>
           \/ srvQ' = srvQ /\ inbox' = inbox \o <<Empty("QU")>>
        /\ AskTokens = 1 /\ CloseTokens = 0 /\ Started /\ AskTokens' = 0
    BY <1>1, <2>1, RequestTaken
  <2>3. Asking /\ ~Closing /\ ~Asking'
    BY <1>1, <2>2, StateOfTokens
  <2>4. ~OnItsWay
    BY <2>1, <2>3 DEF WayInv, RoundWay
  <2>5. ~Has(inbox, "QU_RE") /\ ~Carries("QU_RE") /\ pc["listener"] # "spawn"
    BY <2>1, <2>3 DEF Closing, Has, Carries, PlaceInv, ListenerPlaces
  <2>6. RoundWay'
    BY <2>2, <2>3, <2>5 DEF RoundWay, Started
  <2>7. ListenerWay'
    BY <1>1, <2>2, <2>4 DEF ListenerWay, OnItsWay, Carries, Shows
  <2>8. PICK m \in Message : /\ inbox' = Append(inbox, m) /\ m.type = "QU"
                             /\ m.size = 1 => m.arg = srvQ'
    <3>1. /\ Msg("QU", srvQ + 1) \in Message /\ Msg("QU", srvQ + 1).type = "QU"
          /\ Msg("QU", srvQ + 1).arg = srvQ + 1
          /\ Empty("QU") \in Message /\ Empty("QU").type = "QU" /\ Empty("QU").size # 1
      BY <1>1 DEF Msg, Empty, Message, ServerTypes
    <3>2. /\ Append(inbox, Msg("QU", srvQ + 1)) = inbox \o <<Msg("QU", srvQ + 1)>>
          /\ Append(inbox, Empty("QU")) = inbox \o <<Empty("QU")>>
      BY <1>1, <3>1, AppendIsConcat
    <3> QED BY <2>2, <3>1, <3>2
  <2>9. /\ DOMAIN inbox' = 1 .. Len(inbox) + 1 /\ DOMAIN inbox = 1 .. Len(inbox)
        /\ \A n \in 1 .. Len(inbox) : inbox'[n] = inbox[n]
        /\ inbox'[Len(inbox) + 1] = m /\ Len(inbox) \in Nat
    BY <1>1, <2>8, AppendProperties, LenProperties
  <2>10. \A n \in DOMAIN inbox' : inbox'[n].type # "QU_RE"
    BY <2>5, <2>8, <2>9 DEF Has
  <2>11. \A n \in DOMAIN inbox' :
           inbox'[n].type = "QU" => (inbox'[n].size = 1 => inbox'[n].arg = srvQ')
    BY <2>4, <2>8, <2>9 DEF OnItsWay, Has
  <2>12. QueueWay'
    BY <2>2, <2>5, <2>10, <2>11 DEF QueueWay, Ordered, Current, Carries
  <2> QED BY <2>6, <2>7, <2>12 DEF WayInv
<1> QED BY <1>3, <1>4

-----------------------------------------------------------------------------
(* The theorem.                                                             *)

LEMMA AnswerStarts == Init => AnswerInv
<1> SUFFICES ASSUME Init
             PROVE  AnswerInv
  OBVIOUS
<1>1. /\ pc["main"] = "connect" /\ pc["listener"] = "none" /\ outbox = <<>> /\ inbox = <<>>
      /\ ~closeOnEnd /\ shown = 0
  BY DEF Init, Threads
<1>2. ~OnItsWay /\ ~Carries("QU") /\ ~Carries("QU_RE")
  BY <1>1 DEF OnItsWay, Has, Carries, Shows
<1>3. WayInv
  BY <1>1, <1>2 DEF WayInv, QueueWay, ListenerWay, RoundWay, Ordered, OnItsWay
<1>4. ClosedInv /\ AnswerForShownQuestion
  BY <1>1 DEF ClosedInv, AnswerForShownQuestion
<1> QED BY <1>3, <1>4 DEF AnswerInv

LEMMA AnswerStep ==
  ASSUME GuiInv, TypeOK', RoundInv, AnswerInv, [Next]_vars
  PROVE  AnswerInv'
<1>1. ClosedInv' /\ (Live' => Live)
  BY ClosedKept, LiveBefore DEF AnswerInv
<1>2. AnswerForShownQuestion' /\ (Live /\ Live' => WayInv')
  <2>1. CASE MainNext
    BY <2>1, MainAnswers
  <2>2. CASE ListenerReads
    BY <2>2, ListenerReadsAnswers
  <2>3. CASE ListenerShows
    BY <2>3, ListenerShowsAnswers
  <2>4. CASE GuiStarts \/ GuiEnds \/ UserNext \/ UserConfirms
    BY <1>1, <2>4, UserAnswers
  <2>5. CASE QuestionThreads \/ \E t \in Threads : Errors(t)
    BY <2>5, ErrorsAnswer
  <2>6. CASE (ServerReplies \/ ServerActs) /\ ~ServerQuestion
    BY <2>6, ServerAnswers
  <2>7. CASE ServerQuestion
    BY <2>7, QuestionAnswers
  <2>8. CASE UNCHANGED vars
    <3>1. UNCHANGED <<pc, cont, hdr, msg, shown, enabled, threads, inbox, outbox, srvQ,
                      srvActive>>
      BY <2>8 DEF vars, ctlVars, liVars, guiVars, gameVars, netVars, srvVars
    <3>2. AnswerForShownQuestion' /\ (WayInv => WayInv')
      BY <3>1 DEF AnswerInv, AnswerForShownQuestion, WayInv, QueueWay, ListenerWay, RoundWay,
                  OnItsWay, Has, Carries, Shows, Ordered, Current, Started, Asking
    <3> QED BY <3>2 DEF AnswerInv
  <2> QED BY <2>1, <2>2, <2>3, <2>4, <2>5, <2>6, <2>7, <2>8 DEF Next, Ended
<1> QED BY <1>1, <1>2 DEF AnswerInv

\* The player's answer is counted for the question it was given to, for every number
\* of questions, threads and queued messages: the buttons are disabled before the next
\* question is asked for and enabled only after it is shown (li_qu_thread.c:31-50,
\* 263-356; the answer is written by game_onAnswerClicked, gui_interface.c:62-75).
THEOREM AnswersMatch == Spec => []AnswerForShownQuestion
<1>1. GuiInv /\ TypeOK' /\ RoundInv /\ AnswerInv /\ [Next]_vars => AnswerInv'
  BY AnswerStep
<1>2. AnswerInv => AnswerForShownQuestion
  BY DEF AnswerInv
<1> QED BY <1>1, <1>2, AnswerStarts, RoundHolds, StartHolds, Typing, PTL DEF Spec

=============================================================================
