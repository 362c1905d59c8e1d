------------------------- MODULE ClientPrepareProofs -------------------------
(***************************************************************************)
(* The time up to the first question: the messages in two parts stay whole *)
(* with a server that does not return CA_CH to the game leader, the server *)
(* has the catalog that the leader selected, and the preparation window    *)
(* lists every catalog.                                                    *)
(***************************************************************************)
EXTENDS ClientAnswerProofs

(* The invariant.  Only the leader's GUI thread writes such a message, while *)
(* the preparation window is open; main and the change threads write before *)
(* the window opens or after it is hidden.                                   *)

CallingBack == {"name", "unlock"}

\* Only a leader is told that it is one, and no leader of a change of catalog.
Told(m) ==
  /\ m.type = "LG_RQ_OK" /\ m.arg = 0 => leader
  /\ m.type = "CA_CH" => ~leader /\ srv # "await"
ToldAll(queue) == \A n \in DOMAIN queue : Told(queue[n])
LeaderInv ==
  /\ ToldAll(inbox) /\ Told(msg)
  /\ msg = NoMsg \/ msg.type = hdr.type
  /\ hdr.type = "CA_CH" => ~leader /\ srv # "await"
  /\ mode = "privileged" => leader
  /\ srv = "await" => ~leader

\* The listener never runs the callback of a selection.
Uncalled == pc["listener"] \notin CallingBack /\ cont["listener"] \notin CallingBack

\* The stages of the preparation: the catalogs asked for, listed, chosen from and
\* the game started by the leader, announced by the server and begun by main.
Asked == Has(outbox, "CA_RQ")
Listing == Has(inbox, "CA_RP") \/ Carries("CA_RP")
Choosing == "preparation" \in visible \/ pc["gui"] = "name"
Starting == Has(outbox, "ST_GA")
Begun ==
  \/ pc["listener"] = "post" /\ hdr.type = "ST_GA"
  \/ pc["main"] \notin InLogin /\ semMain > 0
  \/ Started
Announced == Has(inbox, "ST_GA") \/ Carries("ST_GA") \/ Begun

\* No message of the type first comes after one of the type last.
Sorted(queue, first, last) ==
  \A m, n \in DOMAIN queue : queue[m].type = last /\ queue[n].type = first => n < m

BeforeList == InLogin \cup {"createGui", "catalogs"}
StageInv ==
  /\ pc["main"] \in BeforeList => ~Asked
  /\ pc["main"] \in BeforeList \/ Asked => ~Listing /\ ~Choosing /\ ~Starting /\ ~Announced
  /\ Count(outbox, "CA_RQ") <= 1 /\ Sorted(inbox, "CA_RP", "ST_GA")
  /\ Carries("ST_GA") \/ Begun => ~Listing
  /\ Begun => ~Choosing

\* A message waits for its name while the GUI thread is between its two writes.
Opens == {"CA_CH", "ST_GA"}
Unfinished(queue) == queue # <<>> /\ queue[Len(queue)].type \in Opens
GuiWrites ==
  /\ pc["gui"] \notin InError
  /\ pc["gui"] \in CallingBack => gdkLock = "gui"
  /\ pc["gui"] = "name" => leader
  /\ pc["gui"] = "name" <=> Unfinished(outbox)

FrameInv ==
  /\ FramesIntact /\ LeaderInv /\ Uncalled /\ ClosedInv
  /\ Live => GuiWrites /\ (leader \/ srv = "await" => StageInv)

-----------------------------------------------------------------------------
(* Who leads the game.                                                      *)

\* What is taken from the front, or left unread there, was told before.
LEMMA ToldKept ==
  ASSUME NEW queue \in Seq(Message), ToldAll(queue)
  PROVE  /\ ToldAll(<<Raw>> \o queue)
         /\ queue # <<>> => ToldAll(Tail(queue)) /\ Told(Head(queue))
         /\ \A more \in Seq(Message) : ToldAll(more) => ToldAll(queue \o more)
<1>1. ASSUME NEW p \in Seq(Message), NEW q \in Seq(Message), ToldAll(p), ToldAll(q)
      PROVE  ToldAll(p \o q)
  <2>1. /\ DOMAIN (p \o q) = 1 .. Len(p) + Len(q) /\ Len(p) \in Nat /\ Len(q) \in Nat
        /\ DOMAIN p = 1 .. Len(p) /\ DOMAIN q = 1 .. Len(q)
        /\ \A i \in 1 .. Len(p) + Len(q) :
             (p \o q)[i] = IF i <= Len(p) THEN p[i] ELSE q[i - Len(p)]
    BY ConcatProperties, LenProperties
  <2>2. ASSUME NEW i \in DOMAIN (p \o q)
        PROVE  Told((p \o q)[i])
    <3>1. CASE i <= Len(p)
      BY <1>1, <2>1, <3>1 DEF ToldAll
    <3>2. CASE i > Len(p)
      <4>1. i - Len(p) \in DOMAIN q /\ (p \o q)[i] = q[i - Len(p)]
        BY <2>1, <3>2
      <4> QED BY <1>1, <4>1 DEF ToldAll
    <3> QED BY <2>1, <3>1, <3>2
  <2> QED BY <2>2 DEF ToldAll
<1>2. <<Raw>> \in Seq(Message) /\ ToldAll(<<Raw>>)
  BY MessageTyped DEF ToldAll, Told, Raw
<1>3. ASSUME queue # <<>>
      PROVE  ToldAll(Tail(queue)) /\ Told(Head(queue))
  <2>1. /\ DOMAIN Tail(queue) = 1 .. Len(queue) - 1 /\ DOMAIN queue = 1 .. Len(queue)
        /\ \A n \in 1 .. Len(queue) - 1 : Tail(queue)[n] = queue[n + 1]
        /\ 1 \in DOMAIN queue /\ Head(queue) = queue[1] /\ Len(queue) \in Nat
    BY <1>3, HeadTailProperties, LenProperties, EmptySeq
  <2>2. \A n \in DOMAIN Tail(queue) : n + 1 \in DOMAIN queue
    BY <2>1
  <2> QED BY <2>1, <2>2 DEF ToldAll
<1> QED BY <1>1, <1>2, <1>3

\* A step that neither makes a leader nor ends the login leaves what was told true.
LEMMA LeaderKept ==
  ASSUME LeaderInv, UNCHANGED <<leader, srv>>,
         mode' = mode, msg' \in {msg, NoMsg}, hdr'.type = hdr.type, ToldAll(inbox')
  PROVE  LeaderInv'
<1>1. ToldAll(inbox)' /\ Told(msg)'
  BY DEF LeaderInv, ToldAll, Told, NoMsg
<1> QED BY <1>1 DEF LeaderInv

\* The steps that neither read nor set the mode.
LEMMA OthersLead ==
  ASSUME LeaderInv, UNCHANGED <<inbox, msg, leader, srv>>, hdr' = hdr, mode' = mode
  PROVE  LeaderInv'
  BY DEF LeaderInv, ToldAll, Told

\* A read takes a message as it was told, or none.
LEMMA ListenerReadsLead ==
  ASSUME GuiInv, LeaderInv, ListenerReads
  PROVE  LeaderInv'
<1>1. /\ inbox \in Seq(Message) /\ hdr \in [type : ServerTypes, size : {0, 1}]
      /\ UNCHANGED <<leader, srv, mode>>
  BY DEF GuiInv, TypeOK, NetTypeOK, LiTypeOK, ListenerReads, CallRead, ReadType, ReadSize,
         ReadRank, ReceiveLoginOk, ReceiveCatalog, ReceiveCatalogChange, ReceivePlayerList,
         ReceiveStartGame, ReceiveQuestion, ReceiveResult, ReceiveWarning, ReceiveUnknown,
         Severity, PostMain, WaitGui, SpawnQuestionThread, Receive, InThread, guiVars, prepVars,
         srvVars
<1>2. /\ ToldAll(<<Raw>> \o inbox) /\ ToldAll(inbox)
      /\ inbox # <<>> => ToldAll(Tail(inbox)) /\ Told(Head(inbox))
  BY <1>1, ToldKept DEF LeaderInv
<1>3. CASE ReadType
  <2>1. CASE /\ inbox # <<>> /\ msg' = Head(inbox) /\ inbox' = Tail(inbox)
             /\ hdr' = [hdr EXCEPT !.type = Head(inbox).type]
    <3>1. hdr'.type = Head(inbox).type
      BY <1>1, <2>1
    <3>2. ToldAll(inbox)' /\ Told(msg)'
      BY <1>1, <1>2, <2>1 DEF ToldAll, Told
    <3>3. hdr'.type = "CA_CH" => ~leader' /\ srv' # "await"
      BY <1>1, <1>2, <2>1, <3>1 DEF Told
    <3> QED BY <1>1, <2>1, <3>1, <3>2, <3>3 DEF LeaderInv
  <2>2. CASE msg' = NoMsg /\ inbox' = <<>> /\ UNCHANGED hdr
    <3>1. ToldAll(inbox')
      BY <2>2 DEF ToldAll
    <3> QED BY <1>1, <2>2, <3>1, LeaderKept
  <2> QED BY <1>3, <2>1, <2>2 DEF ReadType
<1>4. CASE ~ReadType
  <2>1. msg' \in {msg, NoMsg}
    BY <1>4
    DEF ListenerReads, CallRead, ReadSize, ReadRank, ReceiveLoginOk, ReceiveCatalog,
        ReceiveCatalogChange, ReceivePlayerList, ReceiveStartGame, ReceiveQuestion,
        ReceiveResult, ReceiveWarning, ReceiveUnknown, Severity, PostMain, WaitGui,
        SpawnQuestionThread, Receive, ReadPayload, Read, Skip, liVars
  <2>2. hdr'.type = hdr.type
    BY <1>1, <1>4
    DEF ListenerReads, CallRead, ReadSize, ReadRank, ReceiveLoginOk, ReceiveCatalog,
        ReceiveCatalogChange, ReceivePlayerList, ReceiveStartGame, ReceiveQuestion,
        ReceiveResult, ReceiveWarning, ReceiveUnknown, Severity, PostMain, WaitGui,
        SpawnQuestionThread, Receive, liVars
  <2>3. inbox' \in {inbox, <<Raw>> \o inbox}
    BY <1>4
    DEF ListenerReads, CallRead, ReadSize, ReadRank, ReceiveLoginOk, ReceiveCatalog,
        ReceiveCatalogChange, ReceivePlayerList, ReceiveStartGame, ReceiveQuestion,
        ReceiveResult, ReceiveWarning, ReceiveUnknown, Severity, PostMain, WaitGui,
        SpawnQuestionThread, Receive, netVars
  <2> QED BY <1>1, <1>2, <2>1, <2>2, <2>3, LeaderKept
<1> QED BY <1>3, <1>4

\* The mode is set to what the server said.
LEMMA ListenerShowsLead ==
  ASSUME LeaderInv, ListenerShows
  PROVE  LeaderInv'
<1>1. UNCHANGED <<inbox, msg, leader, srv>> /\ hdr' = hdr
  BY DEF ListenerShows, ListenerAborts, SetMode, ShowCatalog, ShowSelection, ShowPlayers,
         ShowGame, ShowQuestion, EnableButtons, ShowResult, HideGame, ShowWarning, ShowEnd,
         OnlyGui, OnlyControl, liVars, netVars, srvVars
<1>2. CASE SetMode
  <2>1. hdr.type = "LG_RQ_OK"
    BY <1>2 DEF SetMode, GuiCall
  <2>2. mode' = "privileged" => leader
    BY <1>2, <2>1 DEF SetMode, LeaderInv, Told
  <2> QED BY <1>1, <2>2 DEF LeaderInv, ToldAll, Told
<1>3. CASE ~SetMode
  <2>1. mode' = mode
    BY <1>3
    DEF ListenerShows, ListenerAborts, ShowCatalog, ShowSelection, ShowPlayers, ShowGame,
        ShowQuestion, EnableButtons, ShowResult, HideGame, ShowWarning, ShowEnd, OnlyGui,
        OnlyControl, guiVars, prepVars
  <2> QED BY <1>1, <2>1, OthersLead
<1> QED BY <1>2, <1>3

\* The server makes a leader when it lets the client in, and tells no leader of a change.
LEMMA ServerLeads ==
  ASSUME GuiInv, LeaderInv, ~EchoToLeader, ServerReplies \/ ServerActs
  PROVE  LeaderInv'
<1>1. /\ TypeOK /\ inbox \in Seq(Message) /\ outbox \in Seq(Frame)
      /\ UNCHANGED <<msg, hdr, mode>>
  BY DEF GuiInv, TypeOK, NetTypeOK, ServerReplies, ServerActs, ServerLogin, ServerCatalogs,
         ServerCatalogChange, ServerStart, ServerQuestion, ServerAnswer, ServerTimeout,
         ServerGameOver, ServerUnasked, ServerFatal, ServerCloses, Sends, InServer, liVars,
         guiVars, prepVars
<1> DEFINE Plain(m) == m.type # "LG_RQ_OK" /\ (m.type = "CA_CH" => ~leader /\ srv # "await")
           AllPlain(queue) == \A n \in DOMAIN queue : Plain(queue[n])
<1>0. /\ <<>> \in Seq(Message) /\ AllPlain(<<>>)
      /\ \A m \in Message : <<m>> \in Seq(Message) /\ (Plain(m) => AllPlain(<<m>>))
  OBVIOUS
<1>2. ASSUME NEW more \in Seq(Message), inbox' = inbox \o more,
             UNCHANGED leader, srv' = "await" => srv = "await", AllPlain(more)
      PROVE  LeaderInv'
  <2>1. ToldAll(more)
    BY <1>2 DEF ToldAll, Told
  <2>2. ToldAll(inbox \o more)
    BY <1>1, <2>1, ToldKept DEF LeaderInv
  <2>3. ToldAll(inbox)' /\ Told(msg)'
    BY <1>1, <1>2, <2>2 DEF ToldAll, Told, LeaderInv
  <2> QED BY <1>1, <1>2, <2>3 DEF LeaderInv
<1>3. ASSUME NEW m \in Message, inbox' = Append(inbox, m),
             UNCHANGED leader, srv' = "await" => srv = "await", Plain(m)
      PROVE  LeaderInv'
  <2>1. inbox' = inbox \o <<m>> /\ <<m>> \in Seq(Message) /\ AllPlain(<<m>>)
    BY <1>1, <1>0, <1>3, AppendIsConcat
  <2> HIDE DEF AllPlain
  <2> QED BY <1>2, <1>3, <2>1
<1>4. ASSUME inbox' = inbox, UNCHANGED leader, srv' = "await" => srv = "await"
      PROVE  LeaderInv'
  <2>1. inbox' = inbox \o <<>> /\ <<>> \in Seq(Message) /\ AllPlain(<<>>)
    BY <1>1, <1>0, <1>4, ConcatEmptySeq
  <2> HIDE DEF AllPlain
  <2> QED BY <1>2, <1>4, <2>1
<1>5. \A type \in ServerTypes, arg \in Nat :
        /\ Msg(type, arg) \in Message /\ Msg(type, arg).type = type
        /\ Empty(type) \in Message /\ Empty(type).type = type
  BY DEF Msg, Empty, Message
<1>6. CASE ServerLogin
  <2>1. srv = "await" /\ srv' = "lobby" /\ ~leader
    BY <1>6 DEF ServerLogin, LeaderInv
  <2>2. PICK id \in {0, 1} :
          /\ inbox' = inbox \o <<Msg("LG_RQ_OK", id), Msg("PL_LI", 0)>>
          /\ leader' = (id = 0)
    BY <1>6 DEF ServerLogin, Reply
  <2> DEFINE more == <<Msg("LG_RQ_OK", id), Msg("PL_LI", 0)>>
  <2>3. /\ more \in Seq(Message) /\ DOMAIN more = {1, 2}
        /\ more[1] = Msg("LG_RQ_OK", id) /\ more[2] = Msg("PL_LI", 0)
    BY <1>5 DEF ServerTypes
  <2>4. /\ \A n \in DOMAIN inbox :
             inbox[n].type # "CA_CH" /\ (inbox[n].type = "LG_RQ_OK" => inbox[n].arg # 0)
        /\ msg.type # "CA_CH" /\ (msg.type = "LG_RQ_OK" => msg.arg # 0)
        /\ hdr.type # "CA_CH" /\ mode # "privileged"
    BY <2>1 DEF LeaderInv, ToldAll, Told
  <2>5. \A n \in DOMAIN inbox' : inbox'[n].type # "CA_CH"
           /\ (inbox'[n].type = "LG_RQ_OK" /\ inbox'[n].arg = 0 => leader')
    <3>1. /\ DOMAIN inbox' = 1 .. Len(inbox) + 2 /\ Len(inbox) \in Nat
          /\ DOMAIN inbox = 1 .. Len(inbox)
          /\ \A i \in 1 .. Len(inbox) + 2 :
               inbox'[i] = IF i <= Len(inbox) THEN inbox[i] ELSE more[i - Len(inbox)]
      <4> HIDE DEF more
      <4>1. Len(more) = 2
        BY <2>3, LenProperties
      <4> QED BY <1>1, <2>2, <2>3, <4>1, ConcatProperties, LenProperties DEF more
    <3>2. /\ Msg("LG_RQ_OK", id).type = "LG_RQ_OK" /\ Msg("LG_RQ_OK", id).arg = id
          /\ Msg("PL_LI", 0).type = "PL_LI"
      BY DEF Msg
    <3>3. ASSUME NEW n \in DOMAIN inbox', n > Len(inbox)
          PROVE  inbox'[n] \in {Msg("LG_RQ_OK", id), Msg("PL_LI", 0)}
      <4>1. n - Len(inbox) \in {1, 2} /\ inbox'[n] = more[n - Len(inbox)]
        BY <3>1, <3>3
      <4> QED BY <2>3, <4>1
    <3>4. ASSUME NEW n \in DOMAIN inbox'
          PROVE  /\ inbox'[n].type # "CA_CH"
                 /\ inbox'[n].type = "LG_RQ_OK" /\ inbox'[n].arg = 0 => leader'
      <4>1. CASE n > Len(inbox)
        BY <2>2, <3>2, <3>3, <4>1
      <4>2. CASE ~(n > Len(inbox))
        <5>1. n \in DOMAIN inbox /\ inbox'[n] = inbox[n]
          BY <3>1, <4>2
        <5> QED BY <2>4, <5>1
      <4> QED BY <4>1, <4>2
    <3> QED BY <3>4
  <2>6. ToldAll(inbox)' /\ Told(msg)'
    BY <1>1, <2>4, <2>5 DEF ToldAll, Told
  <2> QED BY <1>1, <2>1, <2>4, <2>6 DEF LeaderInv
<1>7. CASE ServerCatalogs
  <2>1. PICK more \in Seq(Message) :
          inbox' = inbox \o more /\ \A i \in DOMAIN more : more[i].type \in {"CA_RP", "PL_LI"}
    BY <1>1, <1>7, CatalogsSent
  <2>2. UNCHANGED <<leader, srv>>
    BY <1>7 DEF ServerCatalogs, srvVars
  <2> QED BY <1>2, <2>1, <2>2
<1>8. CASE ServerCatalogChange
  <2>1. inbox' = inbox \o <<>> /\ UNCHANGED <<leader, srv>>
    BY <1>8 DEF ServerCatalogChange, ReplyToName
  <2>2. inbox' = inbox
    BY <1>1, <2>1, ConcatEmptySeq
  <2> QED BY <1>4, <2>1, <2>2
<1>9. CASE ServerStart
  <2>1. /\ outbox # <<>> /\ Len(outbox) > 1 /\ UNCHANGED leader /\ srv' \in {srv, "game"}
        /\ inbox' = inbox \o <<>> \/ inbox' = inbox \o <<Msg("ST_GA", outbox[2].arg)>>
    BY <1>9 DEF ServerStart, ReplyToName, Receives
  <2>2. Msg("ST_GA", outbox[2].arg) \in Message /\ Msg("ST_GA", outbox[2].arg).type = "ST_GA"
    <3>1. 2 \in 1 .. Len(outbox)
      BY <1>1, <2>1, LenProperties
    <3>2. outbox[2] \in Frame
      BY <1>1, <3>1, ElementOfSeq
    <3>3. outbox[2].arg \in Nat
      BY <3>2 DEF Frame
    <3> QED BY <1>5, <3>3 DEF ServerTypes
  <2>3. CASE inbox' = inbox \o <<>>
    BY <1>1, <1>4, <2>1, <2>3, ConcatEmptySeq
  <2>4. CASE inbox' = inbox \o <<Msg("ST_GA", outbox[2].arg)>>
    <3>1. inbox' = Append(inbox, Msg("ST_GA", outbox[2].arg))
      BY <1>1, <2>2, <2>4, AppendIsConcat
    <3> QED BY <1>3, <2>1, <2>2, <3>1
  <2> QED BY <2>1, <2>3, <2>4
<1>10. CASE ServerQuestion \/ ServerAnswer
  <2>1. /\ UNCHANGED leader /\ srv' \in {srv, "finished"}
        /\ \/ inbox' = inbox \o <<>>
           \/ inbox' = inbox \o <<Msg("QU_RE", 0)>>
           \/ inbox' = inbox \o <<Msg("QU", srvQ + 1)>>
           \/ inbox' = inbox \o <<Empty("QU")>>
    BY <1>10 DEF ServerQuestion, ServerAnswer, Reply
  <2>2. /\ Msg("QU_RE", 0) \in Message /\ Msg("QU_RE", 0).type = "QU_RE"
        /\ Msg("QU", srvQ + 1) \in Message /\ Msg("QU", srvQ + 1).type = "QU"
        /\ Empty("QU") \in Message /\ Empty("QU").type = "QU"
    BY <1>1, <1>5 DEF ServerTypes, TypeOK, SrvTypeOK
  <2>3. ASSUME NEW m \in Message, m.type \in {"QU", "QU_RE"}, inbox' = inbox \o <<m>>
        PROVE  LeaderInv'
    <3>1. inbox' = Append(inbox, m)
      BY <1>1, <2>3, AppendIsConcat
    <3> QED BY <1>3, <2>1, <2>3, <3>1
  <2>4. inbox \o <<>> = inbox
    BY <1>1, ConcatEmptySeq
  <2> QED BY <1>4, <2>1, <2>2, <2>3, <2>4
<1>11. CASE ServerTimeout \/ ServerGameOver \/ ServerFatal \/ ServerUnasked
  <2>1. \E m \in Message :
          /\ inbox' = Append(inbox, m) /\ m.type # "LG_RQ_OK"
          /\ m.type = "CA_CH" => ~leader /\ srv # "await"
    <3>1. \/ \E type \in {"QU_RE", "GA_OV", "PL_LI", "ER_WA"} : \E arg \in {0, 1} :
               Sends(Msg(type, arg))
          \/ srv = "lobby" /\ ~leader /\ \E c \in Catalog : Sends(Msg("CA_CH", c))
          \/ Sends(Empty("ST_GA"))
      BY <1>11 DEF ServerTimeout, ServerGameOver, ServerFatal, ServerUnasked
    <3> QED BY <1>5, <3>1 DEF ServerTypes, Catalog, Sends
  <2>2. UNCHANGED leader /\ (srv' = "await" => srv = "await")
    BY <1>11 DEF ServerTimeout, ServerGameOver, ServerFatal, ServerUnasked, Sends
  <2> QED BY <1>3, <2>1, <2>2
<1>12. CASE ServerCloses
  <2>1. UNCHANGED <<inbox, leader, srv>>
    BY <1>12 DEF ServerCloses, srvVars
  <2> QED BY <1>4, <2>1
<1> QED BY <1>6, <1>7, <1>8, <1>9, <1>10, <1>11, <1>12 DEF ServerReplies, ServerActs

\* The selection the listener shows is never a leader's, so no callback runs.
LEMMA UncalledStep ==
  ASSUME GuiInv, LeaderInv, Uncalled, [Next]_vars
  PROVE  Uncalled'
<1> USE DEF GuiInv, TypeOK, CtlTypeOK, Threads
<1>1. ASSUME NEW t \in Threads, NEW next, t = "listener" => next \notin CallingBack,
             Continue(t, next)
      PROVE  Uncalled'
  BY <1>1 DEF Continue, Goto, Uncalled
<1>2. ASSUME NEW how, End(how)
      PROVE  Uncalled'
  BY <1>2 DEF End, Uncalled
<1>3. ASSUME NEW t \in Threads, NEW ret, NEW next, t = "listener" => next \notin CallingBack,
             TestErrors(t, ret, next)
      PROVE  Uncalled'
  BY <1>3, TestErrorsMoves DEF Uncalled, CallingBack
<1>4. ASSUME NEW t \in Threads, NEW frame, NEW next, t = "listener" => next \notin CallingBack,
             Write(t, frame, next)
      PROVE  Uncalled'
  BY <1>1, <1>2, <1>3, <1>4 DEF Write
<1>5. ASSUME NEW next, next \notin CallingBack, Read(next) \/ ReadPayload(next)
      PROVE  Uncalled'
  BY <1>1, <1>3, <1>5 DEF Read, ReadPayload, Skip
<1>6. CASE MainNext
  <2>1. \/ \E next : Continue("main", next)
        \/ \E how : End(how)
        \/ /\ \/ pc' = [pc EXCEPT !["main"] = "login", !["listener"] = "type"]
              \/ pc' = [pc EXCEPT !["main"] = "catalogs", !["gui"] = "init"]
           /\ UNCHANGED cont
        \/ \E frame, next : Write("main", frame, next)
    BY <1>6
    DEF MainNext, Connect, CreateListener, SendLogin, WaitLogin, CreateGui,
        SendCatalogRequest, WaitStart, SendQuestionRequest, WaitEnd, MainWrites, MainWaits
  <2> QED BY <1>1, <1>2, <1>4, <2>1 DEF Uncalled, CallingBack
<1>7. CASE ListenerReads
  <2>1. \/ \E next : /\ next \notin CallingBack
                     /\ Continue("listener", next) \/ Read(next) \/ ReadPayload(next)
        \/ \E how : End(how)
        \/ \E ret, next : next \notin CallingBack /\ TestErrors("listener", ret, next)
    BY <1>7
    DEF ListenerReads, CallRead, ReadType, ReadSize, ReadRank, ReceiveLoginOk, ReceiveCatalog,
        ReceiveCatalogChange, ReceivePlayerList, ReceiveStartGame, ReceiveQuestion,
        ReceiveResult, ReceiveWarning, ReceiveUnknown, Severity, PostMain, AfterPost, WaitGui,
        SpawnQuestionThread, Receive, Skip, CallingBack
  <2> QED BY <1>1, <1>2, <1>3, <1>5, <2>1
<1>8. CASE ListenerShows
  <2>1. CASE ShowSelection
    <3>1. ~CallsBack
      BY <2>1 DEF ShowSelection, GuiCall, LeaderInv, CallsBack
    <3> QED BY <1>1, <2>1, <3>1 DEF ShowSelection, CallingBack
  <2>2. CASE ~ShowSelection
    <3>1. \/ \E next : next \notin CallingBack /\ Continue("listener", next)
          \/ \E how : End(how)
          \/ ShowEnd
      BY <1>8, <2>2
      DEF ListenerShows, ListenerAborts, SetMode, ShowCatalog, ShowPlayers, ShowGame,
          ShowQuestion, EnableButtons, ShowResult, HideGame, ShowWarning, CallingBack
    <3>2. ShowEnd => Uncalled'
      BY DEF ShowEnd, Goto, Uncalled, CallingBack
    <3> QED BY <1>1, <1>2, <3>1, <3>2
  <2> QED BY <2>1, <2>2
<1>9. CASE GuiStarts \/ GuiEnds \/ UserNext \/ UserConfirms
  <2>1. \/ \E next : Continue("gui", next)
        \/ \E how : End(how)
        \/ \E frame, next : Write("gui", frame, next)
        \/ UNCHANGED ctlVars
    BY <1>9
    DEF GuiStarts, GuiInit, GuiPost, GuiSetRuns, GuiEnds, GuiDestroy, GuiExit, UserNext,
        OnCatalogChanged, OnStartClicked, OnAnswerClicked, OnWindowClosed, Callback,
        UserConfirms, DismissDialog
  <2> QED BY <1>1, <1>2, <1>4, <2>1 DEF ctlVars, Uncalled
<1>10. CASE QuestionThreads \/ ServerReplies \/ ServerActs \/ UNCHANGED vars \/ Ended
  BY <1>10
  DEF QuestionThreads, QuestionThreadWrites, QuestionThreadFails, End, ctlVars, ServerReplies,
      ServerActs, ServerLogin, ServerCatalogs, ServerCatalogChange, ServerStart,
      ServerQuestion, ServerAnswer, ServerTimeout, ServerGameOver, ServerUnasked, ServerFatal,
      ServerCloses, Sends, InServer, vars, Ended, Uncalled
<1>11. ASSUME NEW t \in Threads, Errors(t)
       PROVE  Uncalled'
  <2>1. t = "listener" => cont[t] \notin CallingBack /\ ~WriteName(t) /\ ~Unlock(t)
    BY DEF Uncalled, WriteName, Unlock, At, CallingBack
  <2>2. \/ \E next : (t = "listener" => next \notin CallingBack) /\ Continue(t, next)
        \/ \E frame, next : (t = "listener" => next \notin CallingBack) /\ Write(t, frame, next)
    BY <1>11, <2>1 DEF Errors, ErrorDialog, SocketWait, WriteName, Unlock, CallingBack
  <2> QED BY <1>1, <1>4, <2>2
<1> QED BY <1>6, <1>7, <1>8, <1>9, <1>10, <1>11 DEF Next

-----------------------------------------------------------------------------
(* The frames in the queue.                                                 *)

Intact(queue) ==
  \A i \in DOMAIN queue :
    /\ queue[i].type \in Opens /\ i < Len(queue) => queue[i + 1].type = "NAME"
    /\ queue[i].type = "NAME" => i > 1 /\ queue[i - 1].type \in Opens

\* A frame appended is the name where one is missing, and only there.
LEMMA FrameAppended ==
  ASSUME NEW queue \in Seq(Frame), Intact(queue), NEW f \in Frame,
         f.type = "NAME" <=> Unfinished(queue)
  PROVE  /\ Intact(Append(queue, f))
         /\ Unfinished(Append(queue, f)) <=> f.type \in Opens
<1>1. /\ DOMAIN queue = 1 .. Len(queue) /\ Len(queue) \in Nat
      /\ DOMAIN Append(queue, f) = 1 .. Len(queue) + 1 /\ Len(Append(queue, f)) = Len(queue) + 1
      /\ \A n \in 1 .. Len(queue) : Append(queue, f)[n] = queue[n]
      /\ Append(queue, f)[Len(queue) + 1] = f /\ Append(queue, f) \in Seq(Frame)
      /\ queue # <<>> <=> Len(queue) # 0
  BY AppendProperties, LenProperties, EmptySeq
<1>2. PICK l \in Nat : l = Len(queue)
  BY <1>1
<1>3. PICK more \in Seq(Frame) : more = Append(queue, f)
  BY <1>1
<1>4. /\ DOMAIN queue = 1 .. l /\ DOMAIN more = 1 .. l + 1 /\ Len(more) = l + 1
      /\ \A n \in 1 .. l : more[n] = queue[n]
      /\ more[l + 1] = f /\ (Unfinished(queue) <=> l # 0 /\ queue[l].type \in Opens)
  BY <1>1, <1>2, <1>3 DEF Unfinished
<1>5. ASSUME NEW i \in 1 .. l + 1
      PROVE  /\ more[i].type \in Opens /\ i < l + 1 => more[i + 1].type = "NAME"
             /\ more[i].type = "NAME" => i > 1 /\ more[i - 1].type \in Opens
  <2>1. CASE i = l + 1
    <3>1. l # 0 => l \in 1 .. l /\ more[l] = queue[l] /\ l + 1 > 1
      BY <1>4
    <3> QED BY <1>4, <2>1, <3>1
  <2>2. CASE i < l
    <3>1. /\ i \in DOMAIN queue /\ i < Len(queue) /\ more[i] = queue[i]
          /\ more[i + 1] = queue[i + 1]
          /\ i > 1 => more[i - 1] = queue[i - 1]
      BY <1>2, <1>4, <2>2
    <3>2. /\ queue[i].type \in Opens => queue[i + 1].type = "NAME"
          /\ queue[i].type = "NAME" => i > 1 /\ queue[i - 1].type \in Opens
      BY <3>1 DEF Intact
    <3> QED BY <3>1, <3>2
  <2>3. CASE i = l
    <3>1. /\ i \in DOMAIN queue /\ more[i] = queue[i] /\ more[i + 1] = f /\ l # 0
          /\ i > 1 => more[i - 1] = queue[i - 1]
      BY <1>4, <2>3
    <3>2. queue[i].type = "NAME" => i > 1 /\ queue[i - 1].type \in Opens
      BY <3>1 DEF Intact
    <3> QED BY <1>4, <2>3, <3>1, <3>2
  <2> QED BY <2>1, <2>2, <2>3
<1>6. Intact(more)
  BY <1>4, <1>5 DEF Intact
<1>7. Unfinished(more) <=> f.type \in Opens
  <2>1. more # <<>>
    BY <1>3, <1>4, EmptySeq
  <2> QED BY <1>4, <2>1 DEF Unfinished
<1> QED BY <1>3, <1>6, <1>7

\* What is left of a queue without its head.
LEMMA TailShape ==
  ASSUME NEW S, NEW queue \in Seq(S), queue # <<>>
  PROVE  \E l \in Nat :
           /\ l # 0 /\ Len(queue) = l /\ DOMAIN queue = 1 .. l /\ Head(queue) = queue[1]
           /\ Tail(queue) \in Seq(S) /\ Len(Tail(queue)) = l - 1
           /\ DOMAIN Tail(queue) = 1 .. l - 1
           /\ \A n \in 1 .. l - 1 : Tail(queue)[n] = queue[n + 1]
           /\ Tail(queue) # <<>> <=> l # 1
<1>1. PICK l \in Nat : Len(queue) = l
  BY LenProperties
<1>2. l # 0 /\ DOMAIN queue = 1 .. l /\ Head(queue) = queue[1]
  BY <1>1, LenProperties, EmptySeq
<1>3. /\ Tail(queue) \in Seq(S) /\ Len(Tail(queue)) = l - 1
      /\ \A n \in 1 .. l - 1 : Tail(queue)[n] = queue[n + 1]
  BY <1>1, HeadTailProperties
<1>4. DOMAIN Tail(queue) = 1 .. l - 1
  BY <1>3, LenProperties
<1>5. Tail(queue) # <<>> <=> l # 1
  <2>1. Tail(queue) = <<>> <=> Len(Tail(queue)) = 0
    BY <1>3, EmptySeq
  <2>2. l - 1 = 0 <=> l = 1
    BY <1>1
  <2> QED BY <1>3, <2>1, <2>2
<1> QED BY <1>1, <1>2, <1>3, <1>4, <1>5

\* The server takes a whole message: what is left begins with one.
LEMMA FrameTaken ==
  ASSUME NEW queue \in Seq(Frame), Intact(queue), queue # <<>>
  PROVE  /\ Head(queue).type \notin Opens =>
              Intact(Tail(queue)) /\ (Unfinished(Tail(queue)) <=> Unfinished(queue))
         /\ Len(queue) > 1 /\ Head(queue).type \in Opens =>
              /\ Intact(Tail(Tail(queue)))
              /\ Unfinished(Tail(Tail(queue))) <=> Unfinished(queue)
<1>1. PICK l \in Nat :
        /\ l # 0 /\ Len(queue) = l /\ DOMAIN queue = 1 .. l /\ Head(queue) = queue[1]
        /\ Tail(queue) \in Seq(Frame) /\ Len(Tail(queue)) = l - 1
        /\ DOMAIN Tail(queue) = 1 .. l - 1
        /\ \A n \in 1 .. l - 1 : Tail(queue)[n] = queue[n + 1]
        /\ Tail(queue) # <<>> <=> l # 1
  BY TailShape
<1>2. l = Len(queue)
  BY <1>1
<1>3. CASE Head(queue).type \notin Opens
  <2>1. PICK rest \in Seq(Frame) : rest = Tail(queue)
    BY <1>1
  <2>2. /\ DOMAIN rest = 1 .. l - 1 /\ Len(rest) = l - 1 /\ DOMAIN queue = 1 .. l
        /\ \A n \in 1 .. l - 1 : rest[n] = queue[n + 1]
        /\ rest # <<>> <=> l # 1
    BY <1>1, <1>2, <2>1
  <2>3. ASSUME NEW i \in 1 .. l - 1
        PROVE  /\ rest[i].type \in Opens /\ i < l - 1 => rest[i + 1].type = "NAME"
               /\ rest[i].type = "NAME" => i > 1 /\ rest[i - 1].type \in Opens
    <3>1. /\ i + 1 \in DOMAIN queue /\ rest[i] = queue[i + 1]
          /\ i < l - 1 => rest[i + 1] = queue[(i + 1) + 1] /\ i + 1 < Len(queue)
          /\ i > 1 => rest[i - 1] = queue[(i + 1) - 1]
          /\ i = 1 => queue[(i + 1) - 1] = Head(queue)
          /\ i > 1 \/ i = 1
      BY <1>1, <1>2, <2>2
    <3>2. /\ queue[i + 1].type \in Opens /\ i + 1 < Len(queue) => queue[(i + 1) + 1].type = "NAME"
          /\ queue[i + 1].type = "NAME" => queue[(i + 1) - 1].type \in Opens
      BY <3>1 DEF Intact
    <3> QED BY <1>3, <3>1, <3>2
  <2>4. Intact(rest)
    BY <2>2, <2>3 DEF Intact
  <2>5. Unfinished(rest) <=> Unfinished(queue)
    <3>1. CASE l = 1
      BY <1>1, <1>2, <1>3, <2>2, <3>1 DEF Unfinished
    <3>2. CASE l # 1
      <4>1. rest[l - 1] = queue[l] /\ l - 1 # 0
        BY <2>2, <3>2
      <4> QED BY <1>1, <1>2, <2>2, <4>1 DEF Unfinished
    <3> QED BY <3>1, <3>2
  <2> QED BY <1>3, <2>1, <2>4, <2>5
<1>4. CASE Len(queue) > 1 /\ Head(queue).type \in Opens
  <2>0. l > 1
    BY <1>2, <1>4
  <2>1. /\ DOMAIN Tail(Tail(queue)) = 1 .. l - 2 /\ Len(Tail(Tail(queue))) = l - 2
        /\ \A n \in 1 .. l - 2 : Tail(Tail(queue))[n] = Tail(queue)[n + 1]
        /\ Tail(Tail(queue)) # <<>> <=> l - 2 # 0
        /\ Tail(Tail(queue)) \in Seq(Frame)
    <3>1. Tail(queue) # <<>> /\ Tail(queue) \in Seq(Frame)
      BY <1>1, <2>0
    <3>2. PICK k \in Nat :
            /\ Len(Tail(queue)) = k /\ Len(Tail(Tail(queue))) = k - 1
            /\ DOMAIN Tail(Tail(queue)) = 1 .. k - 1 /\ Tail(Tail(queue)) \in Seq(Frame)
            /\ \A n \in 1 .. k - 1 : Tail(Tail(queue))[n] = Tail(queue)[n + 1]
            /\ Tail(Tail(queue)) # <<>> <=> k # 1
      BY <3>1, TailShape
    <3>3. k = l - 1
      BY <1>1, <3>2
    <3>4. k - 1 = l - 2 /\ (k # 1 <=> l - 2 # 0)
      BY <3>3
    <3> QED BY <3>2, <3>4
  <2>2. PICK rest \in Seq(Frame) : rest = Tail(Tail(queue))
    BY <2>1
  <2>3. /\ DOMAIN rest = 1 .. l - 2 /\ Len(rest) = l - 2 /\ DOMAIN queue = 1 .. l
        /\ \A n \in 1 .. l - 2 : rest[n] = queue[n + 2]
        /\ rest # <<>> <=> l - 2 # 0
    <3>1. \A n \in 1 .. l - 2 : n + 1 \in 1 .. Len(queue) - 1 /\ (n + 1) + 1 = n + 2
      BY <1>2
    <3> QED BY <1>1, <1>2, <2>1, <2>2, <3>1
  <2>4. queue[2].type = "NAME"
    <3>1. 1 \in DOMAIN queue /\ 1 < Len(queue) /\ 1 + 1 = 2
      BY <1>1, <1>4
    <3> QED BY <1>1, <1>4, <3>1 DEF Intact
  <2>5. ASSUME NEW i \in 1 .. l - 2
        PROVE  /\ rest[i].type \in Opens /\ i < l - 2 => rest[i + 1].type = "NAME"
               /\ rest[i].type = "NAME" => i > 1 /\ rest[i - 1].type \in Opens
    <3>1. /\ i + 2 \in DOMAIN queue /\ rest[i] = queue[i + 2]
          /\ i < l - 2 => rest[i + 1] = queue[(i + 2) + 1] /\ i + 2 < Len(queue)
          /\ i > 1 => rest[i - 1] = queue[(i + 2) - 1]
          /\ i = 1 => (i + 2) - 1 = 2
          /\ i > 1 \/ i = 1
      BY <1>2, <2>3
    <3>2. /\ queue[i + 2].type \in Opens /\ i + 2 < Len(queue) => queue[(i + 2) + 1].type = "NAME"
          /\ queue[i + 2].type = "NAME" => queue[(i + 2) - 1].type \in Opens
      BY <3>1 DEF Intact
    <3> QED BY <2>4, <3>1, <3>2 DEF Opens
  <2>6. Intact(rest)
    BY <2>3, <2>5 DEF Intact
  <2>7. Unfinished(rest) <=> Unfinished(queue)
    <3>1. CASE l = 2
      BY <1>1, <1>2, <2>3, <2>4, <3>1 DEF Unfinished, Opens
    <3>2. CASE l # 2
      <4>1. rest[l - 2] = queue[l] /\ l - 2 # 0
        BY <2>0, <2>3, <3>2
      <4> QED BY <1>1, <1>2, <2>3, <4>1 DEF Unfinished
    <3> QED BY <3>1, <3>2
  <2> QED BY <1>4, <2>2, <2>6, <2>7
<1> QED BY <1>3, <1>4

-----------------------------------------------------------------------------
(* What queues hold.                                                        *)

\* Two queues, one behind the other, hold the types of both.
LEMMA HasConcat ==
  ASSUME NEW S, NEW front \in Seq(S), NEW back \in Seq(S), NEW type
  PROVE  Has(front \o back, type) <=> Has(front, type) \/ Has(back, type)
<1>1. PICK k \in Nat, l \in Nat :
        /\ k = Len(front) /\ l = Len(back) /\ DOMAIN front = 1 .. k /\ DOMAIN back = 1 .. l
        /\ DOMAIN (front \o back) = 1 .. k + l
        /\ \A i \in 1 .. k + l : (front \o back)[i] = IF i <= k THEN front[i] ELSE back[i - k]
  BY ConcatProperties, LenProperties
<1>2. ASSUME Has(front \o back, type)
      PROVE  Has(front, type) \/ Has(back, type)
  <2>1. PICK i \in 1 .. k + l : (front \o back)[i].type = type
    BY <1>1, <1>2 DEF Has
  <2>2. CASE i <= k
    BY <1>1, <2>1, <2>2 DEF Has
  <2>3. CASE i > k
    <3>1. i - k \in DOMAIN back /\ back[i - k].type = type
      BY <1>1, <2>1, <2>3
    <3> QED BY <3>1 DEF Has
  <2> QED BY <1>1, <2>2, <2>3
<1>3. Has(front, type) => Has(front \o back, type)
  BY <1>1 DEF Has
<1>4. ASSUME NEW i \in DOMAIN back, back[i].type = type
      PROVE  Has(front \o back, type)
  <2>1. i + k \in DOMAIN (front \o back) /\ (front \o back)[i + k] = back[i]
    BY <1>1
  <2> QED BY <1>4, <2>1 DEF Has
<1> QED BY <1>2, <1>3, <1>4 DEF Has

\* The head taken, and one more at the end.
LEMMA HasEnds ==
  ASSUME NEW S, NEW queue \in Seq(S), NEW type
  PROVE  /\ queue # <<>> => (Has(queue, type) <=> Head(queue).type = type \/ Has(Tail(queue), type))
         /\ \A m \in S : Has(Append(queue, m), type) <=> Has(queue, type) \/ m.type = type
<1>1. \A m : Has(<<m>>, type) <=> m.type = type
  BY DEF Has
<1>2. ASSUME queue # <<>>
      PROVE  Has(queue, type) <=> Head(queue).type = type \/ Has(Tail(queue), type)
  <2>1. /\ <<Head(queue)>> \in Seq(S) /\ Tail(queue) \in Seq(S)
        /\ queue = <<Head(queue)>> \o Tail(queue)
    <3>1. Head(queue) \in S /\ Tail(queue) \in Seq(S)
      BY <1>2, HeadTailProperties
    <3> QED BY <1>2, <3>1, ConcatProperties, HeadTailProperties
  <2>2. Has(<<Head(queue)>> \o Tail(queue), type)
          <=> Has(<<Head(queue)>>, type) \/ Has(Tail(queue), type)
    BY <2>1, HasConcat
  <2> QED BY <1>1, <2>1, <2>2
<1>3. ASSUME NEW m \in S
      PROVE  Has(Append(queue, m), type) <=> Has(queue, type) \/ m.type = type
  <2>1. Append(queue, m) = queue \o <<m>> /\ <<m>> \in Seq(S)
    BY AppendIsConcat
  <2>2. Has(queue \o <<m>>, type) <=> Has(queue, type) \/ Has(<<m>>, type)
    BY <2>1, HasConcat
  <2> QED BY <1>1, <2>1, <2>2
<1> QED BY <1>2, <1>3

\* Taking from the front keeps the order, and so does sending what may come last.
LEMMA SortedKept ==
  ASSUME NEW S, NEW queue \in Seq(S), NEW first, NEW last, Sorted(queue, first, last)
  PROVE  /\ queue # <<>> =>
              /\ Sorted(Tail(queue), first, last)
              /\ Head(queue).type = last /\ first # last => ~Has(Tail(queue), first)
         /\ \A more \in Seq(S) : ~Has(more, first) => Sorted(queue \o more, first, last)
<1>1. ASSUME queue # <<>>
      PROVE  /\ Sorted(Tail(queue), first, last)
             /\ Head(queue).type = last /\ first # last => ~Has(Tail(queue), first)
  <2>1. PICK l \in Nat :
          /\ l # 0 /\ DOMAIN queue = 1 .. l /\ Head(queue) = queue[1]
          /\ DOMAIN Tail(queue) = 1 .. l - 1
          /\ \A n \in 1 .. l - 1 : Tail(queue)[n] = queue[n + 1]
    BY <1>1, TailShape
  <2>2. ASSUME NEW m \in 1 .. l - 1, NEW n \in 1 .. l - 1, Tail(queue)[m].type = last,
               Tail(queue)[n].type = first
        PROVE  n < m
    <3>1. /\ m + 1 \in DOMAIN queue /\ queue[m + 1].type = last
          /\ n + 1 \in DOMAIN queue /\ queue[n + 1].type = first
      BY <2>1, <2>2
    <3>2. n + 1 < m + 1
      BY <3>1 DEF Sorted
    <3> QED BY <3>2
  <2>3. ASSUME Head(queue).type = last, Has(Tail(queue), first)
        PROVE  FALSE
    <3>1. PICK n \in 1 .. l - 1 : Tail(queue)[n].type = first
      BY <2>1, <2>3 DEF Has
    <3>2. n + 1 \in DOMAIN queue /\ queue[n + 1].type = first /\ 1 \in DOMAIN queue
      BY <2>1, <3>1
    <3>3. n + 1 < 1
      BY <2>1, <2>3, <3>2 DEF Sorted
    <3> QED BY <3>3
  <2> QED BY <2>1, <2>2, <2>3 DEF Sorted
<1>2. ASSUME NEW more \in Seq(S), ~Has(more, first)
      PROVE  Sorted(queue \o more, first, last)
  <2>1. PICK k \in Nat, l \in Nat :
          /\ k = Len(queue) /\ l = Len(more) /\ DOMAIN queue = 1 .. k /\ DOMAIN more = 1 .. l
          /\ DOMAIN (queue \o more) = 1 .. k + l
          /\ \A i \in 1 .. k + l : (queue \o more)[i] = IF i <= k THEN queue[i] ELSE more[i - k]
    BY ConcatProperties, LenProperties
  <2>2. ASSUME NEW m \in 1 .. k + l, NEW n \in 1 .. k + l, (queue \o more)[m].type = last,
               (queue \o more)[n].type = first
        PROVE  n < m
    <3>1. n <= k
      <4>1. ASSUME n > k
            PROVE  FALSE
        <5>1. n - k \in DOMAIN more /\ more[n - k].type = first
          BY <2>1, <2>2, <4>1
        <5> QED BY <1>2, <5>1 DEF Has
      <4> QED BY <2>1, <4>1
    <3>2. n \in DOMAIN queue /\ queue[n].type = first
      BY <2>1, <2>2, <3>1
    <3>3. CASE m <= k
      <4>1. m \in DOMAIN queue /\ queue[m].type = last
        BY <2>1, <2>2, <3>3
      <4> QED BY <3>2, <4>1 DEF Sorted
    <3> QED BY <2>1, <3>1, <3>3
  <2> QED BY <2>1, <2>2 DEF Sorted
<1> QED BY <1>1, <1>2

\* A name left unread in front changes neither order nor what there is.
LEMMA RawFirst ==
  ASSUME NEW queue \in Seq(Message), NEW first, first # "RAW"
  PROVE  /\ Has(<<Raw>> \o queue, first) <=> Has(queue, first)
         /\ \A last : last # "RAW" /\ Sorted(queue, first, last)
              => Sorted(<<Raw>> \o queue, first, last)
<1>1. <<Raw>> \in Seq(Message) /\ Raw.type = "RAW" /\ <<Raw>>[1] = Raw /\ DOMAIN <<Raw>> = {1}
  BY MessageTyped DEF Raw
<1>2. Has(<<Raw>> \o queue, first) <=> Has(queue, first)
  <2>1. ~Has(<<Raw>>, first)
    BY <1>1 DEF Has
  <2> QED BY <1>1, <2>1, HasConcat
<1>3. ASSUME NEW last, last # "RAW", Sorted(queue, first, last)
      PROVE  Sorted(<<Raw>> \o queue, first, last)
  <2>1. PICK l \in Nat :
          /\ DOMAIN queue = 1 .. l /\ DOMAIN (<<Raw>> \o queue) = 1 .. 1 + l
          /\ \A i \in 1 .. 1 + l :
               (<<Raw>> \o queue)[i] = IF i <= 1 THEN Raw ELSE queue[i - 1]
    <3>1. Len(<<Raw>>) = 1
      OBVIOUS
    <3> QED BY <1>1, <3>1, ConcatProperties, LenProperties
  <2>2. ASSUME NEW i \in 1 .. 1 + l, NEW type \in {first, last},
               (<<Raw>> \o queue)[i].type = type
        PROVE  i - 1 \in DOMAIN queue /\ queue[i - 1].type = type
    BY <1>1, <1>3, <2>1, <2>2
  <2>3. ASSUME NEW m \in 1 .. 1 + l, NEW n \in 1 .. 1 + l,
               (<<Raw>> \o queue)[m].type = last, (<<Raw>> \o queue)[n].type = first
        PROVE  n < m
    <3>1. /\ m - 1 \in DOMAIN queue /\ queue[m - 1].type = last
          /\ n - 1 \in DOMAIN queue /\ queue[n - 1].type = first
      BY <2>2, <2>3
    <3>2. n - 1 < m - 1
      BY <1>3, <3>1 DEF Sorted
    <3> QED BY <3>2
  <2> QED BY <2>1, <2>3 DEF Sorted
<1> QED BY <1>2, <1>3

\* What is appended, or left behind by one or two frames, counts no more of the others.
LEMMA CountLeft ==
  ASSUME NEW queue \in Seq(Frame), NEW type
  PROVE  /\ Count(queue, type) \in Nat
         /\ \A f \in Frame : f.type # type => Count(Append(queue, f), type) = Count(queue, type)
         /\ queue # <<>> =>
              /\ Count(Tail(queue), type) <= Count(queue, type)
              /\ Head(queue).type = type /\ Count(queue, type) <= 1 => ~Has(Tail(queue), type)
         /\ Len(queue) > 1 => Count(Tail(Tail(queue)), type) <= Count(queue, type)
<1>1. ASSUME NEW q \in Seq(Frame), q # <<>>
      PROVE  /\ Tail(q) \in Seq(Frame) /\ Count(Tail(q), type) \in Nat /\ Count(q, type) \in Nat
             /\ Count(q, type) = One(Head(q).type = type) + Count(Tail(q), type)
             /\ Count(Tail(q), type) <= Count(q, type)
  <2>1. Tail(q) \in Seq(Frame)
    BY <1>1, HeadTailProperties
  <2>2. Count(Tail(q), type) \in Nat /\ Count(q, type) \in Nat
    BY <2>1, CountNat
  <2>3. Count(q, type) = One(Head(q).type = type) + Count(Tail(q), type)
    BY <1>1, CountTail
  <2>4. One(Head(q).type = type) \in {0, 1}
    BY DEF One
  <2> QED BY <2>1, <2>2, <2>3, <2>4
<1>2. ASSUME NEW f \in Frame, f.type # type
      PROVE  Count(Append(queue, f), type) = Count(queue, type)
  <2>1. Count(Append(queue, f), type) = Count(queue, type) + One(f.type = type)
    BY CountAppend
  <2>2. Count(queue, type) \in Nat /\ One(f.type = type) = 0
    BY <1>2, CountNat DEF One
  <2> QED BY <2>1, <2>2
<1>3. ASSUME queue # <<>>, Head(queue).type = type, Count(queue, type) <= 1
      PROVE  ~Has(Tail(queue), type)
  <2>1. One(Head(queue).type = type) = 1
    BY <1>3 DEF One
  <2>2. ~(Count(Tail(queue), type) > 0)
    BY <1>1, <1>3, <2>1
  <2> QED BY <1>1, <1>3, <2>2, CountSome DEF Has
<1>4. ASSUME Len(queue) > 1
      PROVE  Count(Tail(Tail(queue)), type) <= Count(queue, type)
  <2>1. queue # <<>> /\ Tail(queue) # <<>>
    <3>1. queue # <<>>
      BY <1>4, EmptySeq
    <3>2. PICK l \in Nat : Len(queue) = l /\ (Tail(queue) # <<>> <=> l # 1)
      BY <3>1, TailShape
    <3> QED BY <1>4, <3>1, <3>2
  <2>2. Tail(queue) \in Seq(Frame)
    BY <1>1, <2>1
  <2>3. /\ Count(Tail(Tail(queue)), type) <= Count(Tail(queue), type)
        /\ Count(Tail(Tail(queue)), type) \in Nat /\ Count(Tail(queue), type) \in Nat
    BY <1>1, <2>1, <2>2
  <2> QED BY <1>1, <2>1, <2>3
<1> QED BY <1>1, <1>2, <1>3, <1>4, CountNat

-----------------------------------------------------------------------------
(* The steps.                                                               *)

FrameStep ==
  /\ FramesIntact'
  /\ Live /\ Live' => GuiWrites' /\ (leader' \/ srv' = "await" => StageInv')

\* A step that brings no stage nearer keeps what is said of them.
LEMMA StageKept ==
  ASSUME StageInv, pc'["main"] \in BeforeList => pc["main"] \in BeforeList,
         Asked' => Asked, Listing' => Listing, Choosing' => Choosing, Starting' => Starting,
         Announced' => Announced, Begun' => Begun,
         Carries("ST_GA")' => Carries("ST_GA") \/ Begun,
         Count(outbox', "CA_RQ") <= 1, Sorted(inbox', "CA_RP", "ST_GA")
  PROVE  StageInv'
  BY DEF StageInv

\* The listener and main where they are, and what they have read.
LEMMA StagesStay ==
  ASSUME UNCHANGED <<inbox, hdr, semMain>>, pc'["listener"] = pc["listener"],
         pc'["main"] = pc["main"], cont'["main"] = cont["main"]
  PROVE  /\ Listing' <=> Listing
         /\ Announced' <=> Announced
         /\ Begun' <=> Begun
         /\ Carries("ST_GA")' <=> Carries("ST_GA")
         /\ Sorted(inbox, "CA_RP", "ST_GA") => Sorted(inbox', "CA_RP", "ST_GA")
  BY DEF Listing, Announced, Begun, Started, Carries, Has

\* While the connection stands the GUI thread's unfinished message is a leader's,
\* who still chooses: main has asked for the catalogs and not for a question.
LEMMA NameIsNext ==
  ASSUME FrameInv, Live, pc["gui"] = "name" \/ Unfinished(outbox)
  PROVE  /\ leader /\ StageInv /\ Choosing /\ ~Begun /\ ~Asked
         /\ pc["main"] \notin BeforeList /\ pc["gui"] = "name"
  BY DEF FrameInv, GuiWrites, StageInv, Choosing

\* Nobody appends but to a connection that stands.
LEMMA FrameWritten ==
  ASSUME TypeOK, FrameInv, NEW f \in Frame, outbox' = outbox \/ outbox' = Append(outbox, f),
         outbox' # outbox => (f.type = "NAME" <=> Unfinished(outbox))
  PROVE  /\ FramesIntact'
         /\ outbox' = Append(outbox, f) /\ (f.type = "NAME" <=> Unfinished(outbox))
              => (Unfinished(outbox') <=> f.type \in Opens)
<1>1. outbox \in Seq(Frame) /\ Intact(outbox)
  BY DEF TypeOK, NetTypeOK, FrameInv, FramesIntact, Intact, Opens
<1>2. Intact(outbox')
  BY <1>1, FrameAppended
<1>3. FramesIntact'
  BY <1>2 DEF FramesIntact, Intact, Opens
<1> QED BY <1>1, <1>3, FrameAppended

\* A step that writes nothing, sends nothing and brings no stage nearer.
LEMMA QuietFrames ==
  ASSUME FrameInv, UNCHANGED <<inbox, outbox, leader, srv>>,
         pc'["main"] \in BeforeList => pc["main"] \in BeforeList,
         Begun' => Begun, "preparation" \in visible' => "preparation" \in visible,
         Carries("CA_RP")' => Carries("CA_RP"), Carries("ST_GA")' => Carries("ST_GA"),
         \/ pc'["gui"] = pc["gui"] /\ gdkLock' = gdkLock
         \/ pc["gui"] # "name" /\ pc'["gui"] \notin CallingBack \cup InError
  PROVE  FrameStep
<1>1. FramesIntact'
  BY DEF FrameInv, FramesIntact
<1>2. ASSUME Live, Live'
      PROVE  GuiWrites' /\ (leader' \/ srv' = "await" => StageInv')
  <2>1. GuiWrites /\ (leader' \/ srv' = "await" => StageInv)
    BY <1>2 DEF FrameInv
  <2>2. GuiWrites'
    BY <2>1 DEF GuiWrites, Unfinished, CallingBack
  <2>3. ASSUME StageInv
        PROVE  StageInv'
    <3>1. /\ (Choosing' => Choosing) /\ (Asked' => Asked) /\ (Starting' => Starting)
          /\ (Listing' => Listing) /\ (Announced' => Announced)
          /\ Count(outbox', "CA_RQ") <= 1 /\ Sorted(inbox', "CA_RP", "ST_GA")
      BY <2>3 DEF Choosing, Asked, Starting, Listing, Announced, Has, StageInv, CallingBack
    <3> QED BY <2>3, <3>1, StageKept
  <2> QED BY <2>1, <2>2, <2>3
<1> QED BY <1>1, <1>2 DEF FrameStep

\* The login's tokens are a number.
LEMMA LoginNat ==
  ASSUME TypeOK, TypeOK'
  PROVE  LoginTokens \in Nat
<1>1. /\ One(srv = "await") \in {0, 1}
      /\ One(pc["listener"] \in {"size", "case", "post"} /\ hdr.type = "LG_RQ_OK") \in {0, 1}
  BY DEF One
<1>2. Count(inbox, "LG_RQ_OK") \in Nat
  BY CountsTyped
<1> QED BY <1>1, <1>2 DEF LoginTokens

\* main writes while the leader's window is not yet open, or no longer.
LEMMA MainFrames ==
  ASSUME GuiInv, TypeOK', RoundInv, FrameInv, MainNext
  PROVE  FrameStep
<1> USE DEF At
<1>1. /\ TypeOK /\ CtlTypeOK /\ proc = "running" /\ outbox \in Seq(Frame) /\ FramesIntact
      /\ UNCHANGED <<hdr, msg, inbox, mode, visible, gdkLock, leader, srv>>
  BY DEF GuiInv, TypeOK, NetTypeOK, FrameInv, MainNext, Connect, CreateListener, SendLogin,
         WaitLogin, CreateGui, SendCatalogRequest, WaitStart, SendQuestionRequest, WaitEnd,
         MainWrites, MainWaits, OnlyControl, liVars, guiVars, prepVars, netVars, srvVars
<1>2. ASSUME NEW label, NEW type \in {"LG_RQ", "CA_RQ", "QU_RQ"}, NEW next,
             label \in BeforeList \/ label = "request", MainWrites(label, type, next)
      PROVE  /\ Frm(type, 0) \in Frame /\ Frm(type, 0).type = type
             /\ outbox' = outbox \/ outbox' = Append(outbox, Frm(type, 0))
             /\ outbox' # outbox => Live
             /\ Live => pc["gui"] # "name" /\ ~Unfinished(outbox)
  <2>1. pc["main"] = label /\ Write("main", Frm(type, 0), next)
    BY <1>2 DEF MainWrites
  <2>2. outbox' # outbox => Live
    BY <1>1, <2>1 DEF Write, Live
  <2>3. ASSUME Live, pc["gui"] = "name" \/ Unfinished(outbox)
        PROVE  FALSE
    <3>1. pc["main"] \notin BeforeList /\ ~Begun
      BY <2>3, NameIsNext
    <3> QED BY <1>2, <2>1, <3>1 DEF Begun, Started
  <2> QED BY <2>1, <2>2, <2>3, WriteAppends DEF Frm, Frame, FrameTypes
<1>3. FramesIntact' /\ (Live /\ outbox' # outbox => ~Unfinished(outbox') /\ ~Unfinished(outbox))
  <2>1. ASSUME NEW label, NEW type \in {"LG_RQ", "CA_RQ", "QU_RQ"}, NEW next,
               label \in BeforeList \/ label = "request", MainWrites(label, type, next)
        PROVE  /\ FramesIntact'
               /\ Live /\ outbox' # outbox => ~Unfinished(outbox') /\ ~Unfinished(outbox)
    <3>1. type # "NAME" /\ type \notin Opens
      BY DEF Opens
    <3> QED BY <1>1, <1>2, <2>1, <3>1, FrameWritten
  <2>2. CASE ~(SendLogin \/ SendCatalogRequest \/ SendQuestionRequest)
    <3>1. outbox' = outbox
      BY <2>2
      DEF MainNext, Connect, CreateListener, WaitLogin, CreateGui, WaitStart, WaitEnd,
          MainWaits, OnlyControl, netVars
    <3> QED BY <1>1, <3>1 DEF FramesIntact
  <2> QED BY <2>1, <2>2
          DEF SendLogin, SendCatalogRequest, SendQuestionRequest, BeforeList, InLogin, Early
<1>4. ASSUME Live, Live'
      PROVE  GuiWrites' /\ (leader' \/ srv' = "await" => StageInv')
  <2>1. ~closeOnEnd /\ PlaceInv /\ TokenInv /\ GuiWrites
    BY <1>4 DEF FrameInv, ClosedInv, Live, RoundInv
  <2>2. ASSUME NEW next, Continue("main", next)
        PROVE  /\ pc'["main"] = next /\ pc'["gui"] = pc["gui"] /\ cont' = cont
               /\ pc'["listener"] = pc["listener"]
    BY <1>1, <2>2 DEF Continue, Goto, CtlTypeOK, Threads
  <2>3. ASSUME NEW label, label # "connect", NEW type, NEW next, MainWrites(label, type, next)
        PROVE  /\ Continue("main", next) /\ outbox' = Append(outbox, Frm(type, 0))
               /\ pc["main"] = label /\ semMain' = semMain
    <3>1. sockOpen /\ peer = "open" /\ pc["main"] = label
      BY <1>4, <2>3 DEF MainWrites, Live
    <3> QED BY <1>1, <2>1, <2>3, <3>1, LiveSucceeds DEF MainWrites, semVars
  <2>4. pc'["gui"] \in {pc["gui"], "init"} /\ (pc["gui"] = "name" => pc'["gui"] = "name")
        /\ (pc'["listener"] = pc["listener"] \/ CreateListener)
    <3>1. CASE CreateListener
      BY <1>1, <1>4, <3>1 DEF CreateListener, End, CtlTypeOK, Threads, Live
    <3>2. CASE CreateGui
      BY <1>1, <1>4, <2>1, <3>2
      DEF CreateGui, End, CtlTypeOK, Threads, Live, PlaceInv, MainPlaces
    <3>3. CASE ~CreateListener /\ ~CreateGui
      <4>1. \/ \E next : Continue("main", next)
            \/ \E how : End(how)
            \/ \E label, type, next : label # "connect" /\ MainWrites(label, type, next)
        BY <3>3
        DEF MainNext, Connect, SendLogin, WaitLogin, SendCatalogRequest, WaitStart,
            SendQuestionRequest, WaitEnd, MainWaits
      <4> QED BY <2>2, <2>3, <4>1 DEF End
    <3> QED BY <3>1, <3>2, <3>3
  <2>5. GuiWrites'
    <3>1. Unfinished(outbox') <=> Unfinished(outbox)
      BY <1>3, <1>4
    <3>2. Unfinished(outbox)' <=> Unfinished(outbox)
      BY <3>1 DEF Unfinished
    <3> QED BY <1>1, <2>1, <2>4, <3>2 DEF GuiWrites, InError, CallingBack
  <2>6. ASSUME leader' \/ srv' = "await"
        PROVE  StageInv'
    <3>1. StageInv
      BY <1>1, <1>4, <2>6 DEF FrameInv
    <3>2. (Choosing' => Choosing) /\ (Listing' => Listing) /\ (Carries("ST_GA")' => Carries("ST_GA"))
          /\ Sorted(inbox', "CA_RP", "ST_GA")
          /\ (pc'["listener"] = "post" => pc["listener"] = "post") /\ hdr' = hdr
          /\ (Has(inbox, "ST_GA")' => Has(inbox, "ST_GA"))
      <4>1. CreateListener => pc'["listener"] \in {pc["listener"], "type"}
        BY <1>1 DEF CreateListener, End, CtlTypeOK, Threads
      <4>2. pc'["listener"] \in {pc["listener"], "type"}
        BY <2>4, <4>1
      <4> QED BY <1>1, <2>4, <3>1, <4>2 DEF Choosing, Listing, Carries, Has, StageInv
    <3> DEFINE Far == pc'["main"] \in BeforeList => pc["main"] \in BeforeList
    <3>3. ASSUME outbox' = outbox, Begun' => Begun, Far
          PROVE  StageInv'
      <4>1. Announced' => Announced
        BY <3>2, <3>3 DEF Announced
      <4>2. (Asked' => Asked) /\ (Starting' => Starting) /\ Count(outbox', "CA_RQ") <= 1
        BY <3>1, <3>3 DEF Asked, Starting, Has, StageInv
      <4> QED BY <3>1, <3>2, <3>3, <4>1, <4>2, StageKept DEF Begun
    <3>4. CASE \/ Connect \/ CreateListener \/ WaitLogin \/ CreateGui \/ WaitStart \/ WaitEnd
      <4>1. outbox' = outbox
        BY <3>4
        DEF Connect, CreateListener, WaitLogin, CreateGui, WaitStart, WaitEnd, MainWaits,
            OnlyControl, netVars
      <4>2. CASE Connect \/ CreateListener \/ CreateGui
        <5>1. /\ pc["main"] \in {"connect", "create", "createGui"} /\ semMain' = semMain
              /\ pc'["main"] \in {"create", "login", "catalogs"}
              /\ pc["main"] = "createGui" <=> pc'["main"] = "catalogs"
          BY <1>1, <1>4, <4>2, <2>2
          DEF Connect, CreateListener, CreateGui, OnlyControl, semVars, End, CtlTypeOK, Threads,
              Live
        <5>2. (Begun' => Begun) /\ Far
          BY <3>2, <5>1 DEF Begun, Started, InLogin, Early, BeforeList
        <5> QED BY <3>3, <4>1, <5>2
      <4>3. CASE WaitLogin
        <5>1. /\ pc["main"] = "waitLogin" /\ pc'["main"] = "createGui" /\ semMain > 0
              /\ semMain' = semMain - 1
          BY <2>2, <4>3 DEF WaitLogin, MainWaits
        <5>2. LoginTokens + semMain <= 1 /\ LoginTokens \in Nat /\ semMain \in Nat
          BY <1>1, <2>1, <5>1, LoginNat DEF TokenInv, InLogin, TypeOK, SemTypeOK
        <5>3. ~(semMain' > 0)
          BY <5>1, <5>2
        <5>4. (Begun' => Begun) /\ Far
          BY <3>2, <5>1, <5>3 DEF Begun, Started, InLogin, BeforeList
        <5> QED BY <3>3, <4>1, <5>4
      <4>4. CASE WaitStart
        <5>1. /\ pc["main"] = "waitStart" /\ pc'["main"] = "request" /\ semMain > 0
          BY <2>2, <4>4 DEF WaitStart, MainWaits
        <5>2. Begun /\ Far
          BY <5>1 DEF Begun, InLogin, Early, BeforeList
        <5> QED BY <3>3, <4>1, <5>2
      <4>5. CASE WaitEnd
        BY <1>4, <4>5 DEF WaitEnd, End, Live
      <4> QED BY <3>4, <4>2, <4>3, <4>4, <4>5
    <3>5. ASSUME NEW label, NEW type \in {"LG_RQ", "CA_RQ", "QU_RQ"}, NEW next,
                 MainWrites(label, type, next), label # "connect",
                 <<label, type, next>> \in
                   {<<"login", "LG_RQ", "waitLogin">>, <<"catalogs", "CA_RQ", "waitStart">>,
                    <<"request", "QU_RQ", "waitEnd">>}
          PROVE  StageInv'
      <4>2. /\ pc["main"] = label /\ pc'["main"] = next /\ semMain' = semMain /\ cont' = cont
            /\ outbox' = Append(outbox, Frm(type, 0))
        BY <2>2, <2>3, <3>5
      <4>3. Frm(type, 0) \in Frame /\ Frm(type, 0).type = type
        BY DEF Frm, Frame, FrameTypes
      <4>4. /\ \A other : Has(outbox', other) <=> Has(outbox, other) \/ type = other
            /\ type # "CA_RQ" => Count(outbox', "CA_RQ") = Count(outbox, "CA_RQ")
        BY <1>1, <4>2, <4>3, HasEnds, CountLeft
      <4>5. (Begun' => Begun) /\ Far
        BY <3>2, <3>5, <4>2 DEF Begun, Started, InLogin, Early, BeforeList
      <4>6. Starting' => Starting
        BY <3>5, <4>4 DEF Starting, Has
      <4>7. Announced' => Announced
        BY <3>2, <4>5 DEF Announced
      <4>8. CASE type # "CA_RQ"
        <5>1. (Asked' => Asked) /\ Count(outbox', "CA_RQ") <= 1
          BY <3>1, <4>4, <4>8 DEF Asked, Has, StageInv
        <5> QED BY <3>1, <3>2, <4>5, <4>6, <4>7, <5>1, StageKept
      <4>9. CASE type = "CA_RQ"
        <5>1. pc["main"] \in BeforeList /\ pc'["main"] \notin BeforeList
          BY <3>5, <4>2, <4>9 DEF BeforeList, InLogin, Early
        <5>2. ~Asked /\ ~Listing /\ ~Choosing /\ ~Starting /\ ~Announced
          BY <3>1, <5>1 DEF StageInv
        <5>3. ~Listing' /\ ~Choosing' /\ ~Starting' /\ ~Announced'
          BY <3>2, <4>6, <4>7, <5>2
        <5>4. Count(outbox', "CA_RQ") <= 1
          <6>1. Count(outbox, "CA_RQ") \in Nat /\ ~(Count(outbox, "CA_RQ") > 0)
            BY <1>1, <5>2, CountLeft, CountSome DEF Asked, Has
          <6>2. Count(outbox', "CA_RQ") = Count(outbox, "CA_RQ") + One(type = "CA_RQ")
            BY <1>1, <4>2, <4>3, CountAppend
          <6> QED BY <4>9, <6>1, <6>2 DEF One
        <5> QED BY <3>2, <5>1, <5>3, <5>4 DEF StageInv
      <4> QED BY <4>8, <4>9
    <3> QED BY <3>4, <3>5 DEF MainNext, SendLogin, SendCatalogRequest, SendQuestionRequest
  <2> QED BY <2>5, <2>6
<1> QED BY <1>3, <1>4 DEF FrameStep

\* The listener reads on: of what it reads only the start of the game begins a stage,
\* and by then the list of the catalogs has been read.
LEMMA ListenerReadsFrames ==
  ASSUME GuiInv, TypeOK', RoundInv, FrameInv, ListenerReads
  PROVE  FrameStep
<1> USE DEF At
<1>1. /\ TypeOK /\ CtlTypeOK /\ inbox \in Seq(Message) /\ inbox' \in Seq(Message)
      /\ hdr \in [type : ServerTypes, size : {0, 1}]
  BY DEF GuiInv, TypeOK, NetTypeOK, LiTypeOK
<1>2. UNCHANGED <<outbox, visible, gdkLock, mode, leader, srv>>
  BY DEF ListenerReads, CallRead, ReadType, ReadSize, ReadRank, ReceiveLoginOk, ReceiveCatalog,
         ReceiveCatalogChange, ReceivePlayerList, ReceiveStartGame, ReceiveQuestion,
         ReceiveResult, ReceiveWarning, ReceiveUnknown, Severity, PostMain, WaitGui,
         SpawnQuestionThread, Receive, InThread, guiVars, prepVars, netVars, srvVars
<1>3. FramesIntact'
  BY <1>2 DEF FrameInv, FramesIntact
<1>4. ASSUME Live, Live'
      PROVE  GuiWrites' /\ (leader' \/ srv' = "await" => StageInv')
  <2>1. pc["listener"] # "none" /\ proc = "running"
    BY DEF ListenerReads, CallRead, ReadType, ReadSize, ReadRank, ReceiveLoginOk,
           ReceiveCatalog, ReceiveCatalogChange, ReceivePlayerList, ReceiveStartGame,
           ReceiveQuestion, ReceiveResult, ReceiveWarning, ReceiveUnknown, Severity, PostMain,
           WaitGui, SpawnQuestionThread, Receive, Case
  <2>2. ~closeOnEnd /\ sockOpen /\ peer = "open" /\ PlaceInv /\ TokenInv /\ GuiWrites
        /\ sockOpen'
    <3>1. pc["main"] # "connect"
      BY <2>1 DEF GuiInv, StartInv, BeforeLogin
    <3>2. proc' = "running" /\ (sockOpen' \/ pc'["main"] = "connect")
      BY <1>4 DEF Live
    <3>3. pc'["main"] # "connect"
      BY <3>1, NoReconnect DEF Next
    <3> QED BY <1>4, <3>1, <3>2, <3>3 DEF FrameInv, ClosedInv, Live, RoundInv
  <2>3. ASSUME NEW next, Read(next) \/ ReadPayload(next)
        PROVE  Continue("listener", next) /\ msg' = msg
    BY <1>1, <2>2, <2>3, LiveSucceeds
  <2>4. ASSUME NEW next, Continue("listener", next)
        PROVE  /\ pc'["listener"] = next /\ pc'["main"] = pc["main"] /\ cont' = cont
               /\ pc'["gui"] = pc["gui"]
    BY <1>1, <2>4 DEF Continue, Goto, CtlTypeOK, Threads
  <2> DEFINE Plain ==
        /\ UNCHANGED semMain /\ hdr'.type = hdr.type /\ inbox' \in {inbox, <<Raw>> \o inbox}
        /\ pc'["listener"] \in {"size", "case", "gui"} =>
             pc["listener"] \in {"size", "case"} \/ hdr.type = "LG_RQ_OK"
        /\ pc'["listener"] = "post" => hdr.type = "LG_RQ_OK"
  <2>5. ASSUME \/ CallRead \/ ReadSize \/ ReadRank \/ ReceiveLoginOk \/ ReceiveCatalog
               \/ ReceiveCatalogChange \/ ReceivePlayerList \/ ReceiveStartGame
               \/ ReceiveQuestion \/ ReceiveResult \/ ReceiveWarning \/ ReceiveUnknown
               \/ Severity \/ WaitGui \/ SpawnQuestionThread
        PROVE  Plain
    <3>1. UNCHANGED semMain /\ hdr'.type = hdr.type
      BY <1>1, <2>5
      DEF CallRead, ReadSize, ReadRank, ReceiveLoginOk, ReceiveCatalog,
          ReceiveCatalogChange, ReceivePlayerList, ReceiveStartGame, ReceiveQuestion,
          ReceiveResult, ReceiveWarning, ReceiveUnknown, Severity, WaitGui,
          SpawnQuestionThread, Receive, InThread, semVars, liVars
    <3>2. inbox' \in {inbox, <<Raw>> \o inbox}
      BY <2>5
      DEF CallRead, ReadSize, ReadRank, ReceiveLoginOk, ReceiveCatalog,
          ReceiveCatalogChange, ReceivePlayerList, ReceiveStartGame, ReceiveQuestion,
          ReceiveResult, ReceiveWarning, ReceiveUnknown, Severity, WaitGui,
          SpawnQuestionThread, Receive, netVars
    <3>3. \E next : Continue("listener", next)
             /\ (next \in {"size", "case", "gui"} =>
                   pc["listener"] \in {"size", "case"} \/ hdr.type = "LG_RQ_OK")
             /\ (next = "post" => hdr.type = "LG_RQ_OK")
      <4>1. CASE CallRead
        BY <2>2, <4>1 DEF CallRead
      <4>2. CASE ReadSize \/ ReadRank
        BY <2>3, <4>2 DEF ReadSize, ReadRank
      <4>3. CASE ReceiveCatalog
        BY <2>3, <4>3 DEF ReceiveCatalog, Case, Skip
      <4>4. CASE \/ ReceiveLoginOk \/ ReceiveCatalogChange \/ ReceivePlayerList
                 \/ ReceiveStartGame
        BY <2>3, <4>4
        DEF ReceiveLoginOk, ReceiveCatalogChange, ReceivePlayerList, ReceiveStartGame, Receive,
            Case
      <4>5. CASE ReceiveQuestion \/ ReceiveResult \/ ReceiveWarning
        BY <2>3, <4>5 DEF ReceiveQuestion, ReceiveResult, ReceiveWarning, Case
      <4>6. CASE ReceiveUnknown \/ Severity
        BY <1>4, <2>2, <4>6 DEF ReceiveUnknown, Severity, End, Live
      <4>7. CASE WaitGui \/ SpawnQuestionThread
        BY <2>2, <4>7 DEF WaitGui, SpawnQuestionThread, PlaceInv, ListenerPlaces
      <4> QED BY <2>5, <4>1, <4>2, <4>3, <4>4, <4>5, <4>6, <4>7
    <3> QED BY <2>4, <3>1, <3>2, <3>3
  <2>6. UNCHANGED <<cont>> /\ pc'["main"] = pc["main"] /\ pc'["gui"] = pc["gui"]
    <3>1. \E next : Continue("listener", next)
      <4>1. CASE ReadType
        BY <2>2, <4>1 DEF ReadType
      <4>2. CASE PostMain
        BY <4>2 DEF PostMain
      <4>3. CASE ReceiveUnknown \/ Severity
        BY <1>4, <2>2, <4>3 DEF ReceiveUnknown, Severity, End, Live
      <4>4. CASE ~ReadType /\ ~PostMain /\ ~ReceiveUnknown /\ ~Severity
        BY <2>2, <2>3, <4>4
        DEF ListenerReads, CallRead, ReadSize, ReadRank, ReceiveLoginOk, ReceiveCatalog,
            ReceiveCatalogChange, ReceivePlayerList, ReceiveStartGame, ReceiveQuestion,
            ReceiveResult, ReceiveWarning, WaitGui, SpawnQuestionThread, Receive, Skip
      <4> QED BY <4>1, <4>2, <4>3, <4>4
    <3> QED BY <2>4, <3>1
  <2>7. GuiWrites'
    BY <1>2, <2>2, <2>6 DEF GuiWrites, Unfinished
  <2>8. ASSUME leader' \/ srv' = "await"
        PROVE  StageInv'
    <3>1. StageInv
      BY <1>2, <1>4, <2>8 DEF FrameInv
    <3>2. /\ (Asked' => Asked) /\ (Starting' => Starting) /\ (Choosing' => Choosing)
          /\ Count(outbox', "CA_RQ") <= 1 /\ (Started' => Started)
          /\ pc'["main"] \in BeforeList => pc["main"] \in BeforeList
      BY <1>2, <2>6, <3>1 DEF Asked, Starting, Choosing, Started, Has, StageInv
    <3>3. CASE Plain
      <4>1. /\ Has(inbox', "CA_RP") => Has(inbox, "CA_RP")
            /\ Has(inbox', "ST_GA") => Has(inbox, "ST_GA")
            /\ Sorted(inbox', "CA_RP", "ST_GA")
        <5>1. Sorted(inbox, "CA_RP", "ST_GA")
          BY <3>1 DEF StageInv
        <5>2. /\ Has(<<Raw>> \o inbox, "CA_RP") => Has(inbox, "CA_RP")
              /\ Sorted(<<Raw>> \o inbox, "CA_RP", "ST_GA")
          BY <1>1, <5>1, RawFirst
        <5>3. Has(<<Raw>> \o inbox, "ST_GA") => Has(inbox, "ST_GA")
          BY <1>1, RawFirst
        <5>4. inbox' = inbox \/ inbox' = <<Raw>> \o inbox
          BY <3>3
        <5> QED BY <5>1, <5>2, <5>3, <5>4
      <4>2. (Carries("CA_RP")' => Carries("CA_RP")) /\ (Carries("ST_GA")' => Carries("ST_GA"))
        BY <3>3 DEF Carries
      <4>3. Begun' => Begun
        BY <2>6, <3>2, <3>3 DEF Begun
      <4>4. (Listing' => Listing) /\ (Announced' => Announced)
        BY <4>1, <4>2, <4>3 DEF Listing, Announced, Has
      <4> QED BY <3>1, <3>2, <4>1, <4>2, <4>3, <4>4, StageKept
    <3>4. CASE ReadType
      <4>1. /\ inbox # <<>> /\ inbox' = Tail(inbox) /\ hdr'.type = Head(inbox).type
            /\ pc'["listener"] = "size" /\ pc["listener"] = "inType" /\ semMain' = semMain
        BY <1>1, <2>2, <2>4, <3>4 DEF ReadType, InThread, semVars
      <4>2. \A type : Has(inbox, type) <=> hdr'.type = type \/ Has(inbox', type)
        BY <1>1, <4>1, HasEnds
      <4>3. Begun' => Begun
        BY <2>6, <3>2, <4>1 DEF Begun
      <4>4. (Listing' => Listing) /\ (Announced' => Announced)
        BY <4>1, <4>2, <4>3 DEF Listing, Announced, Carries, Has
      <4>5. /\ Sorted(inbox', "CA_RP", "ST_GA")
            /\ hdr'.type = "ST_GA" => ~Has(inbox', "CA_RP")
        BY <1>1, <3>1, <4>1, SortedKept DEF StageInv
      <4>6. CASE hdr'.type # "ST_GA"
        <5>1. ~Carries("ST_GA")'
          BY <4>6 DEF Carries
        <5> QED BY <3>1, <3>2, <4>3, <4>4, <4>5, <5>1, StageKept
      <4>7. CASE hdr'.type = "ST_GA"
        <5>1. ~Listing'
          BY <4>5, <4>7 DEF Listing, Carries, Has
        <5>2. Announced
          BY <4>2, <4>7 DEF Announced
        <5> QED BY <3>1, <3>2, <4>3, <4>5, <5>1, <5>2 DEF StageInv
      <4> QED BY <4>6, <4>7
    <3>5. CASE PostMain
      <4>1. /\ pc["listener"] = "post" /\ pc'["listener"] \in {"waitGui", "type"}
            /\ UNCHANGED <<hdr, inbox>> /\ hdr.type \in {"LG_RQ_OK", "ST_GA"}
        BY <2>2, <2>4, <3>5
        DEF PostMain, AfterPost, PlaceInv, ListenerPlaces, liVars, netVars
      <4>2. hdr.type = "LG_RQ_OK" => pc["main"] \in InLogin
        <5>1. ASSUME hdr.type = "LG_RQ_OK", pc["main"] \notin InLogin
              PROVE  FALSE
          <6>1. LoginTokens = 0
            BY <2>2, <5>1 DEF TokenInv
          <6>2. /\ One(pc["listener"] \in {"size", "case", "post"} /\ hdr.type = "LG_RQ_OK") = 1
                /\ One(srv = "await") \in {0, 1} /\ Count(inbox, "LG_RQ_OK") \in Nat
            BY <1>1, <4>1, <5>1, CountsTyped DEF One
          <6> QED BY <6>1, <6>2 DEF LoginTokens
        <5> QED BY <5>1
      <4>3. Begun' => Begun
        BY <2>6, <3>2, <4>1, <4>2 DEF Begun
      <4>4. /\ (Listing' => Listing) /\ (Announced' => Announced) /\ ~Carries("ST_GA")'
            /\ Sorted(inbox', "CA_RP", "ST_GA")
        BY <3>1, <4>1, <4>3 DEF Listing, Announced, Carries, Has, StageInv
      <4> QED BY <3>1, <3>2, <4>3, <4>4, StageKept
    <3> HIDE DEF Plain
    <3> QED BY <2>5, <3>3, <3>4, <3>5 DEF ListenerReads
  <2> QED BY <2>7, <2>8
<1> QED BY <1>3, <1>4 DEF FrameStep

\* The listener opens the leader's window with the end of the list, and hides it when
\* the game starts, while the GUI thread is not between its two writes.
LEMMA ListenerShowsFrames ==
  ASSUME GuiInv, TypeOK', RoundInv, FrameInv, ListenerShows
  PROVE  FrameStep
<1> USE DEF At
<1>1. TypeOK /\ CtlTypeOK
  BY DEF GuiInv, TypeOK
<1>2. UNCHANGED <<inbox, hdr, semMain, outbox, gdkLock, leader, srv>>
  <2>1. CASE ShowSelection
    <3>1. ~CallsBack
      BY <2>1 DEF ShowSelection, GuiCall, CallsBack, FrameInv, LeaderInv
    <3> QED BY <2>1, <3>1 DEF ShowSelection, semVars, liVars, srvVars
  <2>2. CASE ~ShowSelection
    BY <2>2
    DEF ListenerShows, ListenerAborts, SetMode, ShowCatalog, ShowPlayers,
        ShowGame, ShowQuestion, EnableButtons, ShowResult, HideGame, ShowWarning, ShowEnd,
        OnlyGui, OnlyControl, semVars, liVars, guiVars, netVars, srvVars
  <2> QED BY <2>1, <2>2
<1>3. FramesIntact'
  BY <1>2 DEF FrameInv, FramesIntact
<1>4. ASSUME Live, Live'
      PROVE  GuiWrites' /\ (leader' \/ srv' = "await" => StageInv')
  <2>1. GuiWrites /\ proc' = "running" /\ proc = "running"
    BY <1>4 DEF FrameInv, Live
  <2>2. /\ pc'["main"] = pc["main"] /\ cont'["main"] = cont["main"] /\ pc'["gui"] = pc["gui"]
        /\ pc'["listener"] \in {"type", "post", "buttons", "spawn", "rank", "errWait"}
        /\ pc'["listener"] = "post" => ShowGame
    <3>1. CASE ShowSelection
      <4>1. Continue("listener", "type")
        BY <3>1 DEF ShowSelection, GuiCall, CallsBack, FrameInv, LeaderInv
      <4> QED BY <1>1, <4>1 DEF Continue, Goto, CtlTypeOK, Threads
    <3>2. CASE ~ShowSelection
      <4>1. /\ \E next \in {"type", "post", "buttons", "spawn", "rank", "errWait"} :
                 /\ next = "post" => ShowGame
                 /\ Goto("listener", next)
            /\ cont'["main"] = cont["main"]
        BY <1>1, <2>1, <3>2
        DEF ListenerShows, ListenerAborts, SetMode, ShowCatalog, ShowPlayers, ShowGame,
            ShowQuestion, EnableButtons, ShowResult, HideGame, ShowWarning, ShowEnd, Continue,
            End, CtlTypeOK, Threads
      <4> QED BY <1>1, <4>1 DEF Goto, CtlTypeOK, Threads
    <3> QED BY <3>1, <3>2
  <2>3. GuiWrites'
    BY <1>2, <2>1, <2>2 DEF GuiWrites, Unfinished
  <2>4. ASSUME leader' \/ srv' = "await"
        PROVE  StageInv'
    <3>1. StageInv
      BY <1>2, <1>4, <2>4 DEF FrameInv
    <3>2. /\ (Asked' => Asked) /\ (Starting' => Starting) /\ (Started' => Started)
          /\ Count(outbox', "CA_RQ") <= 1 /\ Sorted(inbox', "CA_RP", "ST_GA")
          /\ (Listing' => Listing) /\ (Has(inbox', "ST_GA") => Has(inbox, "ST_GA"))
          /\ ~Carries("ST_GA")'
          /\ pc'["main"] \in BeforeList => pc["main"] \in BeforeList
      BY <1>2, <2>2, <3>1 DEF Asked, Starting, Started, Listing, Carries, Has, StageInv
    <3>3. CASE ShowGame
      <4>1. /\ pc["listener"] = "gui" /\ hdr.type = "ST_GA" /\ gdkLock = "free"
            /\ "preparation" \notin visible'
        BY <3>3 DEF ShowGame, GuiCall
      <4>2. Carries("ST_GA") /\ Announced
        BY <4>1 DEF Carries, Announced
      <4>3. ~Choosing'
        BY <2>1, <2>2, <4>1 DEF Choosing, GuiWrites, CallingBack
      <4> QED BY <3>1, <3>2, <4>2, <4>3 DEF StageInv
    <3>4. CASE ~ShowGame
      <4>1. Begun' => Begun
        BY <1>2, <2>2, <3>2, <3>4 DEF Begun
      <4>2. Announced' => Announced
        BY <3>2, <4>1 DEF Announced, Has
      <4>3. CASE ShowCatalog
        <5>1. Listing
          BY <4>3 DEF ShowCatalog, GuiCall, Listing, Carries
        <5> QED BY <3>1, <3>2, <4>1, <4>2, <5>1 DEF StageInv
      <4>4. CASE ~ShowCatalog
        <5>1. Choosing' => Choosing
          <6>1. "preparation" \in visible' => "preparation" \in visible
            BY <3>4, <4>4
            DEF ListenerShows, ListenerAborts, SetMode, ShowSelection, ShowPlayers,
                ShowQuestion, EnableButtons, ShowResult, HideGame, ShowWarning, ShowEnd,
                OnlyGui, OnlyControl, guiVars
          <6> QED BY <2>2, <6>1 DEF Choosing
        <5> QED BY <3>1, <3>2, <4>1, <4>2, <5>1, StageKept
      <4> QED BY <4>3, <4>4
    <3> QED BY <3>3, <3>4
  <2> QED BY <2>3, <2>4
<1> QED BY <1>3, <1>4 DEF FrameStep

\* The GUI thread begins a message while the leader chooses, and keeps the lock.
LEMMA UserFrames ==
  ASSUME GuiInv, TypeOK', RoundInv, FrameInv,
         GuiStarts \/ GuiEnds \/ UserNext \/ UserConfirms
  PROVE  FrameStep
<1> USE DEF At
<1>1. TypeOK /\ CtlTypeOK /\ outbox \in Seq(Frame) /\ shown \in Nat
  BY DEF GuiInv, TypeOK, NetTypeOK, GuiTypeOK
<1>2. /\ UNCHANGED <<inbox, hdr, semMain, mode, leader, srv>>
      /\ proc = "running" /\ pc["gui"] \notin CallingBack
      /\ "preparation" \in visible' => "preparation" \in visible
  BY DEF GuiStarts, GuiInit, GuiPost, GuiSetRuns, GuiEnds, GuiDestroy, GuiExit, UserNext,
         OnCatalogChanged, OnStartClicked, OnAnswerClicked, OnWindowClosed, Callback,
         Dispatches, UserConfirms, DismissDialog, OnlyGui, OnlyControl, semVars, liVars,
         guiVars, prepVars, netVars, srvVars, CallingBack
<1> DEFINE Clicks(type, arg, next) ==
      /\ gdkLock' = "gui" /\ Write("gui", Frm(type, arg), next)
      /\ <<type, next>> \in {<<"CA_CH", "name">>, <<"ST_GA", "name">>, <<"QU_AN", "unlock">>}
      /\ arg \in Nat /\ pc["gui"] = "loop"
      /\ next = "name" => "preparation" \in visible /\ mode = "privileged"
      /\ UNCHANGED visible
<1>3. ASSUME OnStartClicked \/ OnAnswerClicked \/ \E c \in Catalog : OnCatalogChanged(c)
      PROVE  \E type, arg, next : Clicks(type, arg, next)
  <2>1. CASE OnStartClicked
    <3>1. Clicks("ST_GA", 0, "name")
      BY <2>1 DEF OnStartClicked, Callback, Dispatches
    <3> QED BY <3>1
  <2>2. CASE OnAnswerClicked
    <3>1. Clicks("QU_AN", shown, "unlock")
      BY <1>1, <2>2 DEF OnAnswerClicked, Callback, Dispatches
    <3> QED BY <3>1
  <2>3. CASE \E c \in Catalog : OnCatalogChanged(c)
    <3>1. Clicks("CA_CH", 0, "name")
      BY <2>3 DEF OnCatalogChanged, Callback, Dispatches
    <3> QED BY <3>1
  <2> QED BY <1>3, <2>1, <2>2, <2>3
<1>4. ASSUME NEW type, NEW arg, NEW next, Clicks(type, arg, next)
      PROVE  FrameStep
  <2>1. /\ Frm(type, arg) \in Frame /\ Frm(type, arg).type = type /\ type # "NAME"
        /\ outbox' = outbox \/ outbox' = Append(outbox, Frm(type, arg))
        /\ outbox' # outbox => Live
        /\ type \in Opens <=> next = "name"
    BY <1>2, <1>4, WriteAppends DEF Frm, Frame, FrameTypes, Opens, Write, Live
  <2>2. Live => ~Unfinished(outbox)
    BY <1>2, NameIsNext DEF CallingBack
  <2>3. FramesIntact' /\ (Live /\ outbox' = Append(outbox, Frm(type, arg))
                            => (Unfinished(outbox') <=> type \in Opens))
    BY <1>1, <2>1, <2>2, FrameWritten
  <2>4. ASSUME Live, Live'
        PROVE  GuiWrites' /\ (leader' \/ srv' = "await" => StageInv')
    <3>1. /\ pc["gui"] = "loop" /\ GuiWrites /\ ~closeOnEnd /\ sockOpen /\ peer = "open"
      <4>1. ~closeOnEnd /\ GuiWrites
        BY <2>4 DEF FrameInv, ClosedInv, Live
      <4>2. PlaceInv
        BY <4>1 DEF RoundInv
      <4> QED BY <1>4, <2>4, <4>1, <4>2 DEF Live, PlaceInv, MainPlaces, InLogin, Early
    <3>2. outbox' = Append(outbox, Frm(type, arg)) /\ Continue("gui", next)
      BY <1>1, <1>4, <3>1, LiveSucceeds
    <3>3. /\ pc'["gui"] = next /\ pc'["main"] = pc["main"] /\ cont' = cont
          /\ pc'["listener"] = pc["listener"]
      BY <1>1, <3>2 DEF Continue, Goto, CtlTypeOK, Threads
    <3>4. next = "name" => leader /\ Choosing
      BY <1>4 DEF FrameInv, LeaderInv, Choosing
    <3>5. GuiWrites'
      <4>1. Unfinished(outbox') <=> pc'["gui"] = "name"
        BY <2>1, <2>3, <2>4, <3>2, <3>3
      <4>2. gdkLock' = "gui" /\ pc'["gui"] \in {"name", "unlock"}
        BY <1>4, <3>3
      <4> QED BY <1>2, <3>4, <3>3, <4>1, <4>2 DEF GuiWrites, InError, CallingBack, Unfinished
    <3>6. ASSUME leader' \/ srv' = "await"
          PROVE  StageInv'
      <4>1. StageInv
        BY <1>2, <2>4, <3>6 DEF FrameInv
      <4>2. /\ (Listing' <=> Listing) /\ (Announced' <=> Announced) /\ (Begun' <=> Begun)
            /\ Carries("ST_GA")' <=> Carries("ST_GA")
            /\ Sorted(inbox', "CA_RP", "ST_GA")
        BY <1>2, <3>3, <4>1, StagesStay DEF StageInv
      <4>3. Choosing' => Choosing
        BY <1>2, <1>4, <3>3, <3>4 DEF Choosing
      <4>4. /\ \A other : Has(outbox', other) <=> Has(outbox, other) \/ type = other
            /\ Count(outbox', "CA_RQ") = Count(outbox, "CA_RQ")
        <5>1. type # "CA_RQ"
          BY <1>4
        <5> QED BY <1>1, <2>1, <3>2, <5>1, HasEnds, CountLeft
      <4>5. (Asked' => Asked) /\ Count(outbox', "CA_RQ") <= 1
        BY <1>4, <4>1, <4>4 DEF Asked, Has, StageInv
      <4>6. CASE type = "ST_GA"
        <5>1. pc["main"] \notin BeforeList /\ ~Asked
          BY <1>4, <3>4, <4>1, <4>6 DEF StageInv
        <5> QED BY <3>3, <4>1, <4>2, <4>3, <4>5, <5>1 DEF StageInv
      <4>7. CASE type # "ST_GA"
        <5>1. Starting' => Starting
          BY <4>4, <4>7 DEF Starting, Has
        <5> QED BY <3>3, <4>1, <4>2, <4>3, <4>5, <5>1, StageKept
      <4> QED BY <4>6, <4>7
    <3> QED BY <3>5, <3>6
  <2> QED BY <2>3, <2>4 DEF FrameStep
<1>5. CASE \E w \in {"preparation", "game"} : OnWindowClosed(w)
  <2>1. outbox' = outbox /\ ~sockOpen' /\ pc' = pc /\ pc["gui"] = "loop"
    BY <1>5 DEF OnWindowClosed, Dispatches, ctlVars
  <2>2. ASSUME Live, Live'
        PROVE  FALSE
    <3>1. ~closeOnEnd /\ pc["main"] = "connect"
      BY <2>1, <2>2 DEF FrameInv, ClosedInv, Live
    <3>2. PlaceInv
      BY <3>1 DEF RoundInv
    <3> QED BY <2>1, <3>1, <3>2 DEF PlaceInv, MainPlaces, InLogin, Early
  <2>3. FramesIntact'
    BY <2>1 DEF FrameInv, FramesIntact
  <2> QED BY <2>2, <2>3 DEF FrameStep
<1>6. CASE GuiStarts \/ GuiEnds \/ UserConfirms
  <2>1. outbox' = outbox /\ gdkLock' = gdkLock
    BY <1>6
    DEF GuiStarts, GuiInit, GuiPost, GuiSetRuns, GuiEnds, GuiDestroy, GuiExit,
        UserConfirms, DismissDialog, OnlyGui, OnlyControl, netVars, guiVars
  <2>2. /\ pc'["gui"] = pc["gui"] \/ pc'["gui"] \notin CallingBack \cup InError
        /\ pc'["main"] = pc["main"] /\ cont'["main"] = cont["main"]
        /\ pc'["listener"] = pc["listener"]
    <3>1. \/ UNCHANGED <<pc, cont>>
          \/ \E next : next \notin CallingBack \cup InError /\ Continue("gui", next)
      BY <1>6
      DEF GuiStarts, GuiInit, GuiPost, GuiSetRuns, GuiEnds, GuiDestroy, GuiExit,
          UserConfirms, DismissDialog, End, ctlVars, CallingBack, InError
    <3> QED BY <1>1, <3>1 DEF Continue, Goto, CtlTypeOK, Threads
  <2>3. /\ Begun' => Begun
        /\ (Carries("CA_RP")' => Carries("CA_RP")) /\ (Carries("ST_GA")' => Carries("ST_GA"))
    BY <1>2, <2>2 DEF Begun, Started, Carries
  <2>4. \/ pc'["gui"] = pc["gui"] /\ gdkLock' = gdkLock
        \/ pc["gui"] # "name" /\ pc'["gui"] \notin CallingBack \cup InError
    BY <1>2, <2>1, <2>2 DEF CallingBack
  <2> QED BY <1>2, <2>1, <2>2, <2>3, <2>4, QuietFrames
<1> HIDE DEF Clicks
<1> QED BY <1>3, <1>4, <1>5, <1>6 DEF UserNext

\* The second write is the GUI thread's own, and a change thread asks for a question
\* while the leader's window is hidden.
LEMMA ErrorsFrames ==
  ASSUME GuiInv, TypeOK', RoundInv, FrameInv,
         QuestionThreads \/ \E t \in Threads : Errors(t)
  PROVE  FrameStep
<1> USE DEF At
<1>1. TypeOK /\ CtlTypeOK /\ outbox \in Seq(Frame) /\ selected \in Nat /\ FramesIntact
  BY DEF GuiInv, TypeOK, NetTypeOK, GuiTypeOK, FrameInv
<1>2. /\ UNCHANGED <<inbox, hdr, semMain, visible, leader, srv>>
      /\ proc = "running"
  BY DEF QuestionThreads, QuestionThreadWrites, QuestionThreadFails, Errors, ErrorDialog,
         SocketWait, WriteName, Unlock, OnlyGui, semVars, liVars, guiVars, netVars, srvVars
<1>3. ASSUME Live
      PROVE  /\ ~closeOnEnd /\ GuiWrites /\ PlaceInv /\ TokenInv
             /\ leader \/ srv = "await" => StageInv
  BY <1>3 DEF FrameInv, ClosedInv, Live, RoundInv
<1>4. CASE QuestionThreads
  <2>1. gdkLock' = gdkLock /\ (outbox' = outbox \/ outbox' = Append(outbox, Frm("QU_RQ", 0)))
        /\ (proc' = "running" => UNCHANGED <<pc, cont>>)
        /\ (outbox' # outbox => sockOpen /\ peer = "open" /\ threads.sleeping > 0)
    BY <1>4
    DEF QuestionThreads, QuestionThreadWrites, QuestionThreadFails, End, ctlVars, guiVars,
        netVars
  <2>2. CASE outbox' = outbox
    <3>1. CASE proc' = "running"
      <4>1. /\ Begun' => Begun
            /\ (Carries("CA_RP")' => Carries("CA_RP"))
            /\ (Carries("ST_GA")' => Carries("ST_GA"))
        BY <1>2, <2>1, <3>1 DEF Begun, Started, Carries
      <4> QED BY <1>2, <2>1, <2>2, <3>1, <4>1, QuietFrames
    <3>2. CASE proc' # "running"
      BY <1>1, <2>2, <3>2 DEF FrameStep, Live, FramesIntact
    <3> QED BY <3>1, <3>2
  <2>3. CASE outbox' # outbox
    <3>1. /\ Live /\ outbox' = Append(outbox, Frm("QU_RQ", 0)) /\ threads.sleeping > 0
          /\ Frm("QU_RQ", 0) \in Frame /\ Frm("QU_RQ", 0).type = "QU_RQ"
      BY <1>2, <2>1, <2>3 DEF Live, Frm, Frame, FrameTypes
    <3>2. ~Unfinished(outbox) /\ pc["gui"] # "name"
      <4>1. Begun
        <5>1. RoundTokens # 0
          <6>1. PICK a \in Nat, b \in Nat, c \in Nat, d \in Nat, e \in Nat, f \in Nat :
                  /\ a = threads.sleeping /\ b = Count(outbox, "QU_RQ")
                  /\ c = Count(inbox, "QU_RE") /\ d = One(srvActive)
                  /\ e = One(pc["main"] = "request")
                  /\ f = One(pc["listener"] \in {"size", "case", "gui", "spawn"}
                             /\ hdr.type = "QU_RE")
            BY <1>1, CountsTyped DEF One
          <6>2. a > 0
            BY <3>1, <6>1
          <6>3. RoundTokens = a + b + c + d + e + f
            BY <6>1 DEF RoundTokens
          <6>4. a + b + c + d + e + f # 0
            BY <6>2
          <6> QED BY <6>3, <6>4
        <5>2. Started
          BY <1>3, <3>1, <5>1 DEF TokenInv
        <5> QED BY <5>2 DEF Begun
      <4> QED BY <3>1, <4>1, NameIsNext
    <3>3. FramesIntact' /\ ~Unfinished(outbox')
      BY <1>1, <3>1, <3>2, FrameWritten DEF Opens
    <3>4. ASSUME Live'
          PROVE  GuiWrites' /\ (leader' \/ srv' = "await" => StageInv')
      <4>1. UNCHANGED <<pc, cont>>
        BY <2>1, <3>4 DEF Live
      <4>2. GuiWrites'
        BY <1>2, <1>3, <2>1, <3>1, <3>2, <3>3, <4>1 DEF GuiWrites, Unfinished
      <4>3. ASSUME StageInv
            PROVE  StageInv'
        <5>1. /\ (Listing' <=> Listing) /\ (Announced' <=> Announced) /\ (Begun' <=> Begun)
              /\ Carries("ST_GA")' <=> Carries("ST_GA")
              /\ Sorted(inbox', "CA_RP", "ST_GA")
          BY <1>2, <4>1, <4>3, StagesStay DEF StageInv
        <5>2. /\ \A other : Has(outbox', other) <=> Has(outbox, other) \/ other = "QU_RQ"
              /\ Count(outbox', "CA_RQ") = Count(outbox, "CA_RQ")
          BY <1>1, <3>1, HasEnds, CountLeft
        <5>3. /\ (Choosing' => Choosing) /\ (Asked' => Asked) /\ (Starting' => Starting)
              /\ Count(outbox', "CA_RQ") <= 1
          BY <1>2, <4>1, <4>3, <5>2 DEF Choosing, Asked, Starting, Has, StageInv
        <5> QED BY <4>1, <4>3, <5>1, <5>3, StageKept
      <4> QED BY <1>2, <1>3, <3>1, <4>2, <4>3
    <3> QED BY <3>3, <3>4 DEF FrameStep
  <2> QED BY <2>2, <2>3
<1>5. ASSUME NEW t \in Threads, Errors(t), ~WriteName(t)
      PROVE  FrameStep
  <2>1. outbox' = outbox
    BY <1>5 DEF Errors, ErrorDialog, SocketWait, Unlock, OnlyGui, netVars
  <2>2. CASE Live
    <3>1. ~closeOnEnd /\ GuiWrites /\ PlaceInv
      BY <1>3, <2>2
    <3>2. t = "listener" => ~Unlock(t) /\ ~SocketWait(t)
      <4>1. t = "listener" => ~Unlock(t)
        BY DEF Unlock, FrameInv, Uncalled, CallingBack
      <4>2. ASSUME SocketWait("listener")
            PROVE  FALSE
        <5>1. pc["listener"] = "errWait" /\ semSocket > 0
          BY <4>2 DEF SocketWait
        <5>2. pc["main"] \in InLogin \cup {"createGui"} \/ semSocket = 0
          BY <3>1, <5>1 DEF PlaceInv, ListenerPlaces, LoggedIn
        <5> QED BY <3>1, <5>1, <5>2 DEF PlaceInv, MainPlaces, InError
      <4> QED BY <4>1, <4>2
    <3>3. t = "gui" => Unlock(t)
      BY <1>5, <3>1 DEF Errors, ErrorDialog, SocketWait, GuiWrites, InError
    <3>4. t = "main" => ~Unlock(t) /\ pc["main"] \in InError
                        /\ cont["main"] \in {"waitStart", "waitEnd"}
      BY <1>5, <3>1
      DEF Errors, ErrorDialog, SocketWait, Unlock, PlaceInv, MainPlaces, MainLabels, InError
    <3>5. Continue(t, "errWait") \/ (SocketWait(t) /\ Continue(t, cont[t]))
          \/ (Unlock(t) /\ Continue(t, IF t = "gui" THEN "loop" ELSE "type"))
      BY <1>5 DEF Errors, ErrorDialog, SocketWait, Unlock
    <3>6. /\ \A u \in Threads \ {t} : pc'[u] = pc[u]
          /\ t = "gui" => pc["gui"] = "unlock" /\ pc'["gui"] = "loop"
          /\ t = "listener" => pc'["listener"] = "errWait"
          /\ t = "main" => pc'["main"] \in {"errWait", cont["main"]}
          /\ t # "gui" => gdkLock' = gdkLock
          /\ cont' = cont
      <4>1. t # "gui" => gdkLock' = gdkLock
        BY <1>5, <3>2, <3>4
        DEF Errors, ErrorDialog, SocketWait, guiVars, Threads
      <4>2. t = "gui" => pc["gui"] = "unlock"
        BY <3>3 DEF Unlock
      <4> QED BY <1>1, <3>2, <3>3, <3>4, <3>5, <4>1, <4>2
              DEF Continue, Goto, CtlTypeOK, Threads, Unlock, ErrorDialog, SocketWait
    <3>7. /\ pc'["main"] \in BeforeList => pc["main"] \in BeforeList
          /\ (Begun' => Begun) /\ (Carries("CA_RP")' => Carries("CA_RP"))
          /\ (Carries("ST_GA")' => Carries("ST_GA"))
      BY <1>2, <3>4, <3>6
      DEF Begun, Started, Carries, BeforeList, InLogin, Early, InError, Threads
    <3>8. \/ pc'["gui"] = pc["gui"] /\ gdkLock' = gdkLock
          \/ pc["gui"] # "name" /\ pc'["gui"] \notin CallingBack \cup InError
      BY <3>6 DEF CallingBack, InError, Threads
    <3> QED BY <1>2, <2>1, <3>7, <3>8, QuietFrames
  <2>3. CASE ~Live
    BY <1>1, <2>1, <2>3 DEF FrameStep, FramesIntact
  <2> QED BY <2>2, <2>3
<1>6. ASSUME NEW t \in Threads, WriteName(t)
      PROVE  FrameStep
  <2>1. /\ pc[t] = "name" /\ Write(t, Frm("NAME", selected), "unlock") /\ gdkLock' = gdkLock
        /\ t # "listener"
    BY <1>6 DEF WriteName, guiVars, FrameInv, Uncalled, CallingBack
  <2>2. CASE Live
    <3>1. ~closeOnEnd /\ GuiWrites /\ PlaceInv
      BY <1>3, <2>2
    <3>2. t = "gui"
      BY <2>1, <3>1 DEF PlaceInv, MainPlaces, MainLabels, InError, Threads
    <3>3. sockOpen /\ peer = "open" /\ StageInv /\ leader /\ Unfinished(outbox)
      <4>1. pc["main"] # "connect" /\ StageInv /\ leader
        BY <2>1, <2>2, <3>2, NameIsNext DEF BeforeList, InLogin, Early
      <4> QED BY <2>1, <2>2, <3>1, <3>2, <4>1 DEF Live, GuiWrites
    <3>4. outbox' = Append(outbox, Frm("NAME", selected)) /\ Continue("gui", "unlock")
      BY <1>1, <2>1, <3>1, <3>2, <3>3, LiveSucceeds
    <3>5. /\ pc'["gui"] = "unlock" /\ pc'["main"] = pc["main"] /\ cont' = cont
          /\ pc'["listener"] = pc["listener"]
      BY <1>1, <3>4 DEF Continue, Goto, CtlTypeOK, Threads
    <3>6. Frm("NAME", selected) \in Frame /\ Frm("NAME", selected).type = "NAME"
      BY <1>1 DEF Frm, Frame, FrameTypes
    <3>7. FramesIntact' /\ ~Unfinished(outbox')
      BY <1>1, <3>3, <3>4, <3>6, FrameWritten DEF Opens
    <3>8. GuiWrites'
      BY <2>1, <3>1, <3>2, <3>5, <3>7 DEF GuiWrites, InError, CallingBack, Unfinished
    <3>9. StageInv'
      <4>1. /\ (Listing' <=> Listing) /\ (Announced' <=> Announced) /\ (Begun' <=> Begun)
            /\ Carries("ST_GA")' <=> Carries("ST_GA")
            /\ Sorted(inbox', "CA_RP", "ST_GA")
        BY <1>2, <3>3, <3>5, StagesStay DEF StageInv
      <4>2. /\ \A other : Has(outbox', other) <=> Has(outbox, other) \/ other = "NAME"
            /\ Count(outbox', "CA_RQ") = Count(outbox, "CA_RQ")
        BY <1>1, <3>4, <3>6, HasEnds, CountLeft
      <4>3. /\ (Choosing' => Choosing) /\ (Asked' => Asked) /\ (Starting' => Starting)
            /\ Count(outbox', "CA_RQ") <= 1
        BY <1>2, <2>1, <3>2, <3>3, <4>2 DEF Choosing, Asked, Starting, Has, StageInv
      <4> QED BY <3>3, <3>5, <4>1, <4>3, StageKept
    <3> QED BY <3>7, <3>8, <3>9 DEF FrameStep
  <2>3. CASE ~Live
    <3>1. outbox' = outbox
      BY <1>2, <2>1, <2>3 DEF Write, Live
    <3> QED BY <1>1, <2>3, <3>1 DEF FrameStep, FramesIntact
  <2> QED BY <2>2, <2>3
<1> QED BY <1>4, <1>5, <1>6

\* The list of catalogs and the start of the game are sent for a frame of the leader's,
\* or the start for another player's.
LEMMA ServerTells ==
  ASSUME TypeOK, ServerReplies \/ ServerActs, ~ServerCatalogs, ~ServerStart
  PROVE  \E more \in Seq(Message) :
           /\ inbox' = inbox \o more /\ ~Has(more, "CA_RP")
           /\ Has(more, "ST_GA") => ~leader' /\ srv' # "await"
<1>1. inbox \in Seq(Message) /\ outbox \in Seq(Frame) /\ srvQ \in Nat
  BY DEF TypeOK, NetTypeOK, SrvTypeOK
<1>2. /\ <<>> \in Seq(Message) /\ \A type : ~Has(<<>>, type)
      /\ \A m \in Message : <<m>> \in Seq(Message)
      /\ \A m \in Message, type \in {"CA_RP", "ST_GA"} : m.type # type => ~Has(<<m>>, type)
  BY EmptySeq DEF Has
<1>3. inbox' = inbox => inbox' = inbox \o <<>>
  BY <1>1, ConcatEmptySeq
<1>4. \A m \in Message : Append(inbox, m) = inbox \o <<m>>
  BY <1>1, AppendIsConcat
<1>5. \A type \in ServerTypes, arg \in Nat :
        /\ Msg(type, arg) \in Message /\ Msg(type, arg).type = type
        /\ Empty(type) \in Message /\ Empty(type).type = type
  BY DEF Msg, Empty, Message
<1>6. ASSUME NEW m \in Message, m.type \notin {"CA_RP", "ST_GA"}, inbox' = inbox \o <<m>>
      PROVE  \E more \in Seq(Message) :
               /\ inbox' = inbox \o more /\ ~Has(more, "CA_RP") /\ ~Has(more, "ST_GA")
  BY <1>2, <1>6
<1>7. CASE ServerLogin
  <2>1. PICK id \in {0, 1} : inbox' = inbox \o <<Msg("LG_RQ_OK", id), Msg("PL_LI", 0)>>
    BY <1>7 DEF ServerLogin, Reply
  <2>2. <<Msg("LG_RQ_OK", id), Msg("PL_LI", 0)>> \in Seq(Message)
    BY <1>5 DEF ServerTypes
  <2>3. \A type \in {"CA_RP", "ST_GA"} : ~Has(<<Msg("LG_RQ_OK", id), Msg("PL_LI", 0)>>, type)
    BY <1>5 DEF Has, ServerTypes
  <2> QED BY <2>1, <2>2, <2>3
<1>8. CASE ServerCatalogChange
  <2>1. /\ outbox # <<>> /\ Len(outbox) > 1
        /\ inbox' = inbox \o <<>> \/ inbox' = inbox \o <<Msg("CA_CH", outbox[2].arg)>>
    BY <1>8 DEF ServerCatalogChange, ReplyToName, Receives
  <2>2. outbox[2].arg \in Nat
    <3>1. 2 \in 1 .. Len(outbox)
      BY <1>1, <2>1, LenProperties
    <3>2. outbox[2] \in Frame
      BY <1>1, <3>1, ElementOfSeq
    <3> QED BY <3>2 DEF Frame
  <2> QED BY <1>2, <1>5, <1>6, <2>1, <2>2 DEF ServerTypes
<1>9. CASE ServerQuestion \/ ServerAnswer
  <2>1. \/ inbox' = inbox \o <<>>
        \/ inbox' = inbox \o <<Msg("QU_RE", 0)>>
        \/ inbox' = inbox \o <<Msg("QU", srvQ + 1)>>
        \/ inbox' = inbox \o <<Empty("QU")>>
    BY <1>9 DEF ServerQuestion, ServerAnswer, Reply
  <2>2. CASE inbox' = inbox \o <<>>
    BY <1>2, <2>2
  <2>3. CASE \/ inbox' = inbox \o <<Msg("QU_RE", 0)>>
             \/ inbox' = inbox \o <<Msg("QU", srvQ + 1)>>
             \/ inbox' = inbox \o <<Empty("QU")>>
    <3>1. srvQ + 1 \in Nat
      BY <1>1
    <3>2. \E m \in Message : m.type \notin {"CA_RP", "ST_GA"} /\ inbox' = inbox \o <<m>>
      BY <1>5, <2>3, <3>1 DEF ServerTypes
    <3> QED BY <1>6, <3>2
  <2> QED BY <2>1, <2>2, <2>3
<1>10. CASE ServerTimeout \/ ServerGameOver \/ ServerFatal \/ ServerUnasked
  <2>1. \/ \E type \in {"QU_RE", "GA_OV", "PL_LI", "ER_WA"} : \E arg \in {0, 1} :
             Sends(Msg(type, arg))
        \/ \E c \in Catalog : Sends(Msg("CA_CH", c))
        \/ Sends(Empty("ST_GA")) /\ ~leader /\ srv' = "game"
    BY <1>10 DEF ServerTimeout, ServerGameOver, ServerFatal, ServerUnasked
  <2>2. CASE Sends(Empty("ST_GA")) /\ ~leader /\ srv' = "game"
    BY <1>2, <1>4, <1>5, <2>2 DEF Sends, ServerTypes
  <2>3. CASE \/ \E type \in {"QU_RE", "GA_OV", "PL_LI", "ER_WA"} : \E arg \in {0, 1} :
                  Sends(Msg(type, arg))
             \/ \E c \in Catalog : Sends(Msg("CA_CH", c))
    <3>1. \E m \in Message : m.type \notin {"CA_RP", "ST_GA"} /\ Sends(m)
      BY <1>5, <2>3 DEF ServerTypes, Catalog
    <3> QED BY <1>4, <1>6, <3>1 DEF Sends
  <2> QED BY <2>1, <2>2, <2>3
<1>11. CASE ServerCloses
  BY <1>2, <1>3, <1>11 DEF ServerCloses
<1> QED BY <1>7, <1>8, <1>9, <1>10, <1>11 DEF ServerReplies, ServerActs

\* The server takes whole messages, and sends the list for the request of the catalogs
\* and the start for the leader's.
LEMMA ServerFrames ==
  ASSUME GuiInv, TypeOK', RoundInv, FrameInv, ~EchoToLeader, ServerReplies \/ ServerActs
  PROVE  FrameStep
<1>1. /\ TypeOK /\ inbox \in Seq(Message) /\ outbox \in Seq(Frame) /\ Intact(outbox)
      /\ outbox' \in Seq(Frame)
  BY DEF GuiInv, TypeOK, NetTypeOK, FrameInv, FramesIntact, Intact, Opens
<1>2. UNCHANGED <<pc, cont, hdr, semMain, visible, gdkLock>>
  BY DEF ServerReplies, ServerActs, ServerLogin, ServerCatalogs, ServerCatalogChange,
         ServerStart, ServerQuestion, ServerAnswer, ServerTimeout, ServerGameOver,
         ServerUnasked, ServerFatal, ServerCloses, Sends, InServer, ctlVars, semVars, liVars,
         guiVars
<1>3. \/ outbox' = outbox
      \/ outbox # <<>> /\ outbox' = Tail(outbox) /\ Head(outbox).type \notin Opens
      \/ /\ Len(outbox) > 1 /\ outbox # <<>> /\ outbox' = Tail(Tail(outbox))
         /\ Head(outbox).type \in Opens
  BY DEF ServerReplies, ServerActs, ServerLogin, ServerCatalogs, ServerCatalogChange,
         ServerStart, ServerQuestion, ServerAnswer, ServerTimeout, ServerGameOver,
         ServerUnasked, ServerFatal, ServerCloses, Sends, Reply, ReplyToName, Receives, Opens
<1>4. Intact(outbox') /\ (Unfinished(outbox') <=> Unfinished(outbox))
  BY ZenonT(60), <1>1, <1>3, FrameTaken
<1>5. FramesIntact'
  BY <1>4 DEF FramesIntact, Intact, Opens
<1>6. /\ \A type : Has(outbox', type) => Has(outbox, type)
      /\ Count(outbox', "CA_RQ") <= Count(outbox, "CA_RQ")
      /\ Count(outbox, "CA_RQ") \in Nat /\ Count(outbox', "CA_RQ") \in Nat
  <2>1. CASE outbox' = outbox
    BY <1>1, <2>1, CountLeft
  <2>2. CASE outbox # <<>> /\ outbox' = Tail(outbox)
    BY <1>1, <2>2, FramesLeft, CountLeft
  <2>3. CASE outbox # <<>> /\ Len(outbox) > 1 /\ outbox' = Tail(Tail(outbox))
    BY <1>1, <2>3, FramesLeft, CountLeft
  <2> QED BY <1>3, <2>1, <2>2, <2>3
<1>7. /\ leader' = leader \/ srv = "await"
      /\ srv' = "await" => srv = "await" /\ leader' = leader
  BY DEF ServerReplies, ServerActs, ServerLogin, ServerCatalogs, ServerCatalogChange,
         ServerStart, ServerQuestion, ServerAnswer, ServerTimeout, ServerGameOver,
         ServerUnasked, ServerFatal, ServerCloses, Sends, srvVars
<1>8. ASSUME Live, Live'
      PROVE  GuiWrites' /\ (leader' \/ srv' = "await" => StageInv')
  <2>1. GuiWrites /\ (srv = "await" => ~leader)
    BY <1>8 DEF FrameInv, LeaderInv
  <2>2. GuiWrites'
    BY <1>2, <1>4, <1>7, <2>1 DEF GuiWrites, Unfinished
  <2>3. ASSUME leader' \/ srv' = "await"
        PROVE  StageInv'
    <3>1. StageInv
      BY <1>7, <1>8, <2>3 DEF FrameInv
    <3>2. /\ (Asked' => Asked) /\ (Starting' => Starting) /\ (Choosing' <=> Choosing)
          /\ (Begun' <=> Begun) /\ (Carries("ST_GA")' <=> Carries("ST_GA"))
          /\ (Carries("CA_RP")' <=> Carries("CA_RP")) /\ Count(outbox', "CA_RQ") <= 1
          /\ pc'["main"] = pc["main"]
      <4>1. Count(outbox', "CA_RQ") <= 1
        BY <1>6, <3>1 DEF StageInv
      <4> QED BY <1>2, <1>6, <4>1
              DEF Asked, Starting, Choosing, Begun, Started, Carries, Has
    <3>3. ASSUME NEW more \in Seq(Message), inbox' = inbox \o more, ~Has(more, "CA_RP")
          PROVE  /\ Sorted(inbox', "CA_RP", "ST_GA") /\ (Listing' => Listing)
                 /\ Announced' => Announced \/ Has(more, "ST_GA")
      <4>1. \A type \in {"CA_RP", "ST_GA"} :
              Has(inbox', type) <=> Has(inbox, type) \/ Has(more, type)
        BY <1>1, <3>3, HasConcat
      <4>2. Sorted(inbox', "CA_RP", "ST_GA")
        BY <1>1, <3>1, <3>3, SortedKept DEF StageInv
      <4> QED BY <3>2, <3>3, <4>1, <4>2 DEF Listing, Announced, Has
    <3>4. CASE ServerCatalogs
      <4>1. PICK more \in Seq(Message) :
              /\ inbox' = inbox \o more
              /\ \A i \in DOMAIN more : more[i].type \in {"CA_RP", "PL_LI"}
        BY <1>1, <3>4, CatalogsSent
      <4>2. outbox # <<>> /\ Head(outbox).type = "CA_RQ" /\ outbox' = Tail(outbox)
        BY <3>4 DEF ServerCatalogs, Reply, Receives
      <4>3. Asked
        BY <1>1, <4>2, HasEnds DEF Asked
      <4>4. ~Asked'
        <5>1. ~Has(outbox', "CA_RQ")
          BY <1>1, <3>1, <4>2, CountLeft DEF StageInv
        <5> QED BY <5>1 DEF Asked, Has
      <4>5. pc["main"] \notin BeforeList /\ ~Announced /\ ~Begun /\ ~Carries("ST_GA")
        BY <3>1, <4>3 DEF StageInv, Announced
      <4>6. ~Has(inbox', "ST_GA")
        <5>1. ~Has(more, "ST_GA") /\ ~Has(inbox, "ST_GA")
          BY <4>1, <4>5 DEF Has, Announced
        <5> QED BY <1>1, <4>1, <5>1, HasConcat
      <4>7. Sorted(inbox', "CA_RP", "ST_GA")
        BY <4>6 DEF Sorted, Has
      <4> QED BY <3>2, <4>4, <4>5, <4>7 DEF StageInv
    <3>5. CASE ServerStart
      <4>1. PICK more \in Seq(Message) : inbox' = inbox \o more /\ ~Has(more, "CA_RP")
        <5>1. /\ Len(outbox) > 1
              /\ inbox' = inbox \o <<>> \/ inbox' = inbox \o <<Msg("ST_GA", outbox[2].arg)>>
          BY <3>5 DEF ServerStart, ReplyToName
        <5>2. outbox[2].arg \in Nat
          <6>1. 2 \in 1 .. Len(outbox)
            BY <1>1, <5>1, LenProperties
          <6>2. outbox[2] \in Frame
            BY <1>1, <6>1, ElementOfSeq
          <6> QED BY <6>2 DEF Frame
        <5>3. /\ <<>> \in Seq(Message) /\ <<Msg("ST_GA", outbox[2].arg)>> \in Seq(Message)
              /\ ~Has(<<>>, "CA_RP") /\ ~Has(<<Msg("ST_GA", outbox[2].arg)>>, "CA_RP")
          BY <5>2, EmptySeq DEF Msg, Message, ServerTypes, Has
        <5> QED BY <5>1, <5>3
      <4>2. Starting
        <5>1. outbox # <<>> /\ Head(outbox).type = "ST_GA"
          BY <3>5 DEF ServerStart, ReplyToName, Receives
        <5> QED BY <1>1, <5>1, HasEnds DEF Starting
      <4>3. pc["main"] \notin BeforeList /\ ~Asked
        BY <3>1, <4>2 DEF StageInv
      <4> QED BY <3>1, <3>2, <3>3, <4>1, <4>3 DEF StageInv
    <3>6. CASE ~ServerCatalogs /\ ~ServerStart
      <4>1. PICK more \in Seq(Message) :
              /\ inbox' = inbox \o more /\ ~Has(more, "CA_RP")
              /\ Has(more, "ST_GA") => ~leader' /\ srv' # "await"
        BY <1>1, <3>6, ServerTells
      <4>2. /\ Sorted(inbox', "CA_RP", "ST_GA") /\ (Listing' => Listing)
            /\ Announced' => Announced
        BY <2>3, <3>3, <4>1
      <4> QED BY <3>1, <3>2, <4>2, StageKept
    <3> QED BY <3>4, <3>5, <3>6
  <2> QED BY <2>2, <2>3
<1> QED BY <1>5, <1>8 DEF FrameStep

-----------------------------------------------------------------------------
(* The theorem.                                                             *)

LEMMA FrameStarts == Init => FrameInv
<1> SUFFICES ASSUME Init
             PROVE  FrameInv
  OBVIOUS
<1>1. /\ pc["main"] = "connect" /\ pc["listener"] = "none" /\ pc["gui"] = "none"
      /\ cont["listener"] = "none" /\ outbox = <<>> /\ inbox = <<>> /\ semMain = 0
      /\ ~closeOnEnd /\ ~leader /\ mode = "busy" /\ srv = "await" /\ msg = NoMsg
      /\ hdr.type = "none" /\ visible = {}
  BY DEF Init, Threads
<1>2. FramesIntact /\ ClosedInv /\ Uncalled
  BY <1>1 DEF FramesIntact, ClosedInv, Uncalled, CallingBack
<1>3. LeaderInv
  BY <1>1 DEF LeaderInv, ToldAll, Told, NoMsg
<1>4. GuiWrites
  BY <1>1 DEF GuiWrites, InError, CallingBack, Unfinished
<1>5. ~Asked /\ ~Listing /\ ~Choosing /\ ~Starting /\ ~Announced /\ ~Begun
      /\ ~Carries("ST_GA")
  BY <1>1 DEF Asked, Listing, Choosing, Starting, Announced, Begun, Started, Carries, Has,
              InLogin, Early
<1>6. Count(outbox, "CA_RQ") <= 1 /\ Sorted(inbox, "CA_RP", "ST_GA")
  BY <1>1, CountFew DEF Sorted
<1> QED BY <1>2, <1>3, <1>4, <1>5, <1>6 DEF FrameInv, StageInv

LEMMA FrameStepHolds ==
  ASSUME GuiInv, TypeOK', RoundInv, FrameInv, ~EchoToLeader, [Next]_vars
  PROVE  FrameInv'
<1>1. ClosedInv' /\ Uncalled' /\ (Live' => Live)
  BY ClosedKept, LiveBefore, UncalledStep DEF FrameInv
<1>2. CASE MainNext
  <2>1. UNCHANGED <<inbox, msg, leader, srv>> /\ hdr' = hdr /\ mode' = mode
    BY <1>2
    DEF MainNext, Connect, CreateListener, SendLogin, WaitLogin, CreateGui,
        SendCatalogRequest, WaitStart, SendQuestionRequest, WaitEnd, MainWrites, MainWaits,
        OnlyControl, liVars, guiVars, prepVars, netVars, srvVars
  <2> QED BY <1>1, <1>2, <2>1, MainFrames, OthersLead DEF FrameInv, FrameStep
<1>3. CASE ListenerReads
  BY <1>1, <1>3, ListenerReadsFrames, ListenerReadsLead DEF FrameInv, FrameStep
<1>4. CASE ListenerShows
  BY <1>1, <1>4, ListenerShowsFrames, ListenerShowsLead DEF FrameInv, FrameStep
<1>5. CASE GuiStarts \/ GuiEnds \/ UserNext \/ UserConfirms
  <2>1. UNCHANGED <<inbox, msg, leader, srv>> /\ hdr' = hdr /\ mode' = mode
    BY <1>5
    DEF GuiStarts, GuiInit, GuiPost, GuiSetRuns, GuiEnds, GuiDestroy, GuiExit, UserNext,
        OnCatalogChanged, OnStartClicked, OnAnswerClicked, OnWindowClosed, Callback,
        Dispatches, UserConfirms, DismissDialog, OnlyGui, OnlyControl, liVars,
        guiVars, prepVars, netVars, srvVars
  <2> QED BY <1>1, <1>5, <2>1, UserFrames, OthersLead DEF FrameInv, FrameStep
<1>6. CASE QuestionThreads \/ \E t \in Threads : Errors(t)
  <2>1. UNCHANGED <<inbox, msg, leader, srv>> /\ hdr' = hdr /\ mode' = mode
    BY <1>6
    DEF QuestionThreads, QuestionThreadWrites, QuestionThreadFails, Errors, ErrorDialog,
        SocketWait, WriteName, Unlock, OnlyGui, liVars, guiVars, prepVars, netVars, srvVars
  <2> QED BY <1>1, <1>6, <2>1, ErrorsFrames, OthersLead DEF FrameInv, FrameStep
<1>7. CASE ServerReplies \/ ServerActs
  BY <1>1, <1>7, ServerFrames, ServerLeads DEF FrameInv, FrameStep
<1>8. CASE UNCHANGED vars
  <2>1. UNCHANGED <<pc, cont, hdr, msg, semMain, visible, gdkLock, mode, inbox, outbox, srv,
                    leader>>
    BY <1>8 DEF vars, ctlVars, semVars, liVars, guiVars, prepVars, netVars, srvVars
  <2>2. /\ Begun' => Begun
        /\ (Carries("CA_RP")' => Carries("CA_RP")) /\ (Carries("ST_GA")' => Carries("ST_GA"))
    BY <2>1 DEF Begun, Started, Carries
  <2>3. FrameStep
    BY <2>1, <2>2, QuietFrames
  <2> QED BY <1>1, <2>1, <2>3, OthersLead DEF FrameInv, FrameStep
<1> QED BY <1>2, <1>3, <1>4, <1>5, <1>6, <1>7, <1>8 DEF Next, Ended

\* With a server that does not return CA_CH to the game leader every frame of the client
\* reaches the socket whole, for every number of threads, catalogs, questions and queued
\* messages: no lock orders the writes of main, of the callbacks and of the change
\* threads, but they come in turn (gui_interface.c:14-54, main.c:140-187,
\* li_qu_thread.c:31-50, 263-356).  An echoed CA_CH breaks the turns: the listener
\* then selects a catalog itself, and its callback writes beside main.
THEOREM FramesStayWhole ==
  ASSUME ~EchoToLeader
  PROVE  Spec => []FramesIntact
<1>1. GuiInv /\ TypeOK' /\ RoundInv /\ FrameInv /\ [Next]_vars => FrameInv'
  BY FrameStepHolds
<1>2. FrameInv => FramesIntact
  BY DEF FrameInv
<1> QED BY <1>1, <1>2, FrameStarts, RoundHolds, StartHolds, Typing, PTL DEF Spec
-----------------------------------------------------------------------------
(* The selection.  The invariant: while the connection stands, the last name *)
(* that the leader's client has sent, or the server's, if none is under way, *)
(* is that of the selected catalog, or a thread is about to send it.  Two    *)
(* threads may be; the GDK lock lets one at a time select and name.          *)

\* Nothing has been shown, selected or sent of a catalog before the mode is set,
\* which the listener does once, in the case of the first message of the server.
AtLogin(places) == pc["listener"] \in places /\ hdr.type = "LG_RQ_OK"
Untouched ==
  /\ selected = 0 /\ srvReported = 0 /\ visible = {} /\ ~Has(outbox, "NAME")
  /\ pc["gui"] \notin CallingBack /\ pc["listener"] \notin CallingBack
BusyInv ==
  /\ windows = "none" => mode = "busy"
  /\ AtLogin({"waitGui", "gui"}) => mode = "busy"
  /\ AtLogin({"post", "waitGui", "gui"}) => msg # NoMsg
  /\ mode = "busy" => Untouched /\ (windows = "none" \/ AtLogin({"waitGui", "gui"}))

\* The last name in the queue, if there is one.
LastName(queue, c) ==
  \A n \in DOMAIN queue :
    queue[n].type = "NAME" /\ (\A m \in DOMAIN queue : queue[m].type = "NAME" => m <= n)
      => queue[n].arg = c
Naming == "name" \in {pc["gui"], pc["listener"]}
Tracked ==
  mode = "privileged" /\ ~Naming =>
    /\ LastName(outbox, selected)
    /\ Has(outbox, "NAME") \/ Has(outbox, "CA_CH") \/ selected = srvReported

LockInv ==
  \A t \in {"gui", "listener"} :
    (pc[t] \in CallingBack => gdkLock = t) /\ cont[t] \notin CallingBack

SelectInv == ClosedInv /\ (Live => BusyInv /\ LockInv /\ Tracked)

\* A name appended is the last one, and any other frame leaves the last one be.
LEMMA NameAppended ==
  ASSUME NEW queue \in Seq(Frame), NEW f \in Frame
  PROVE  /\ f.type = "NAME" => LastName(Append(queue, f), f.arg)
         /\ \A c : f.type # "NAME" /\ LastName(queue, c) => LastName(Append(queue, f), c)
<1>1. PICK l \in Nat :
        /\ DOMAIN queue = 1 .. l /\ DOMAIN Append(queue, f) = 1 .. l + 1
        /\ \A n \in 1 .. l : Append(queue, f)[n] = queue[n]
        /\ Append(queue, f)[l + 1] = f
  BY AppendProperties, LenProperties
<1>2. ASSUME f.type = "NAME"
      PROVE  LastName(Append(queue, f), f.arg)
  <2>1. \A n \in 1 .. l + 1 : l + 1 <= n => n = l + 1
    BY <1>1
  <2> QED BY <1>1, <1>2, <2>1 DEF LastName
<1>3. ASSUME NEW c, f.type # "NAME", LastName(queue, c)
      PROVE  LastName(Append(queue, f), c)
  <2>1. \A n \in 1 .. l + 1 : Append(queue, f)[n].type = "NAME"
           => n \in 1 .. l /\ queue[n] = Append(queue, f)[n]
    BY <1>1, <1>3
  <2> QED BY <1>1, <1>3, <2>1 DEF LastName
<1> QED BY <1>2, <1>3

\* The front taken away, the last name is still there or was taken.
LEMMA NameTaken ==
  ASSUME NEW queue \in Seq(Frame), NEW c, LastName(queue, c)
  PROVE  /\ queue # <<>> => LastName(Tail(queue), c)
         /\ Len(queue) > 1 =>
              /\ LastName(Tail(Tail(queue)), c)
              /\ queue[2].type = "NAME" /\ ~Has(Tail(Tail(queue)), "NAME") => queue[2].arg = c
<1>1. ASSUME NEW q \in Seq(Frame), q # <<>>, LastName(q, c)
      PROVE  LastName(Tail(q), c)
  <2>1. PICK l \in Nat :
          /\ DOMAIN q = 1 .. l /\ DOMAIN Tail(q) = 1 .. l - 1
          /\ \A n \in 1 .. l - 1 : Tail(q)[n] = q[n + 1]
    BY <1>1, TailShape
  <2> SUFFICES ASSUME NEW n \in DOMAIN Tail(q), Tail(q)[n].type = "NAME",
                      \A m \in DOMAIN Tail(q) : Tail(q)[m].type = "NAME" => m <= n
               PROVE  Tail(q)[n].arg = c
    BY DEF LastName
  <2>2. n \in 1 .. l - 1 /\ n + 1 \in 1 .. l /\ q[n + 1] = Tail(q)[n]
    BY <2>1
  <2>3. ASSUME NEW m \in 1 .. l, q[m].type = "NAME"
        PROVE  m <= n + 1
    <3>1. CASE m = 1
      BY <2>2, <3>1
    <3>2. CASE m # 1
      <4>1. m - 1 \in 1 .. l - 1 /\ Tail(q)[m - 1] = q[m]
        BY <2>1, <3>2
      <4>2. m - 1 <= n
        BY <2>1, <2>3, <4>1
      <4> QED BY <2>2, <4>2
    <3> QED BY <3>1, <3>2
  <2> QED BY <1>1, <2>1, <2>2, <2>3 DEF LastName
<1>2. ASSUME Len(queue) > 1
      PROVE  queue # <<>> /\ Tail(queue) # <<>> /\ Tail(queue) \in Seq(Frame)
  BY <1>2, TwoFrames, HeadTailProperties
<1>3. ASSUME Len(queue) > 1, queue[2].type = "NAME", ~Has(Tail(Tail(queue)), "NAME")
      PROVE  queue[2].arg = c
  <2>1. queue # <<>> /\ Tail(queue) # <<>> /\ Tail(queue) \in Seq(Frame)
    BY <1>2, <1>3
  <2>2. PICK l \in Nat :
          /\ l # 0 /\ Len(queue) = l /\ DOMAIN queue = 1 .. l
          /\ Len(Tail(queue)) = l - 1 /\ DOMAIN Tail(queue) = 1 .. l - 1
          /\ \A n \in 1 .. l - 1 : Tail(queue)[n] = queue[n + 1]
    BY <2>1, TailShape
  <2>3. PICK k \in Nat :
          /\ Len(Tail(queue)) = k /\ DOMAIN Tail(Tail(queue)) = 1 .. k - 1
          /\ \A n \in 1 .. k - 1 : Tail(Tail(queue))[n] = Tail(queue)[n + 1]
    BY <2>1, TailShape
  <2>4. k = l - 1 /\ 2 \in 1 .. l
    BY <1>3, <2>2, <2>3
  <2>5. ASSUME NEW m \in 1 .. l, queue[m].type = "NAME", ~(m <= 2)
        PROVE  FALSE
    <3>1. m - 2 \in 1 .. k - 1 /\ m - 1 \in 1 .. l - 1 /\ m - 2 + 1 = m - 1 /\ m - 1 + 1 = m
      BY <2>4, <2>5
    <3>2. Tail(Tail(queue))[m - 2] = queue[m]
      BY <2>2, <2>3, <3>1
    <3> QED BY <1>3, <2>3, <2>5, <3>1, <3>2 DEF Has
  <2> QED BY <1>3, <2>2, <2>4, <2>5 DEF LastName
<1> QED BY <1>1, <1>2, <1>3

SelectStep == Live /\ Live' => BusyInv' /\ LockInv' /\ Tracked'

\* While the connection stands and a thread beside main is there, no window is closed.
LEMMA SelectLive ==
  ASSUME GuiInv, RoundInv, SelectInv, Live
  PROVE  /\ ~closeOnEnd /\ PlaceInv /\ TokenInv /\ BusyInv /\ LockInv /\ Tracked
         /\ pc["main"] # "connect" => sockOpen /\ peer = "open"
         /\ pc["main"] = "connect" => pc["listener"] = "none" /\ pc["gui"] = "none"
<1>1. pc["main"] = "connect" => srv = "await" /\ pc["listener"] = "none"
  BY DEF GuiInv, StartInv, BeforeLogin, Early
<1>2. pc["main"] = "connect" => pc["gui"] = "none"
  BY <1>1 DEF GuiInv, StartInv, BeforeReply
<1> QED BY <1>1, <1>2 DEF SelectInv, ClosedInv, Live, RoundInv

\* A step that selects and names nothing and is not at the login.
LEMMA OthersSelect ==
  ASSUME TypeOK, BusyInv, LockInv, Tracked,
         UNCHANGED <<mode, selected, hdr, msg, gdkLock, srvReported>>,
         windows' = "none" <=> windows = "none", visible' \subseteq visible,
         NEW f \in Frame, f.type # "NAME", outbox' \in {outbox, Append(outbox, f)},
         \A t \in {"gui", "listener"} :
           /\ pc'[t] \in CallingBack \/ pc[t] = "name" => pc'[t] = pc[t]
           /\ cont'[t] \notin CallingBack,
         \/ pc'["listener"] = pc["listener"]
         \/ {pc["listener"], pc'["listener"]} \cap {"post", "waitGui", "gui"} = {}
  PROVE  BusyInv' /\ LockInv' /\ Tracked'
<1>1. outbox \in Seq(Frame)
  BY DEF TypeOK, NetTypeOK
<1>2. ASSUME NEW type, Has(outbox, type)
      PROVE  Has(outbox', type)
  <2>1. Has(Append(outbox, f), type)
    BY <1>1, <1>2, HasEnds
  <2> QED BY <1>2, <2>1
<1>3. Has(outbox', "NAME") => Has(outbox, "NAME")
  BY ZenonT(60), <1>1, HasEnds
<1>4. \A c : LastName(outbox, c) => LastName(outbox', c)
  BY <1>1, NameAppended
<1>5. LockInv'
  BY DEF LockInv, CallingBack
<1>6. Tracked'
  <2>1. Naming => Naming'
    BY DEF Naming
  <2> QED BY <1>2, <1>4, <2>1 DEF Tracked
<1>7. BusyInv'
  <2>1. \A places \in {{"waitGui", "gui"}, {"post", "waitGui", "gui"}} :
          AtLogin(places)' <=> AtLogin(places)
    BY DEF AtLogin
  <2>2. Untouched => Untouched'
    BY <1>3 DEF Untouched
  <2> QED BY <2>1, <2>2 DEF BusyInv
<1> QED BY <1>5, <1>6, <1>7

LEMMA MainSelects ==
  ASSUME GuiInv, RoundInv, SelectInv, MainNext
  PROVE  SelectStep
<1> USE DEF At
<1> SUFFICES ASSUME Live, Live'
             PROVE  BusyInv' /\ LockInv' /\ Tracked'
  BY DEF SelectStep
<1>1. TypeOK /\ CtlTypeOK /\ BusyInv /\ LockInv /\ Tracked /\ MainPlaces
  BY SelectLive DEF GuiInv, TypeOK, PlaceInv
<1>2. UNCHANGED <<windows, mode, selected, hdr, msg, gdkLock, srvReported, visible>>
  BY DEF MainNext, Connect, CreateListener, SendLogin, WaitLogin, CreateGui,
         SendCatalogRequest, WaitStart, SendQuestionRequest, WaitEnd, MainWrites, MainWaits,
         OnlyControl, liVars, guiVars, prepVars, srvVars
<1>3. \/ outbox' = outbox
      \/ \E type \in {"LG_RQ", "CA_RQ", "QU_RQ"} : outbox' = Append(outbox, Frm(type, 0))
  BY WriteAppends
  DEF MainNext, Connect, CreateListener, SendLogin, WaitLogin, CreateGui,
      SendCatalogRequest, WaitStart, SendQuestionRequest, WaitEnd, MainWrites, MainWaits,
      OnlyControl, netVars
<1>4. \A type \in {"LG_RQ", "CA_RQ", "QU_RQ"} :
        Frm(type, 0) \in Frame /\ Frm(type, 0).type # "NAME"
  BY DEF Frm, Frame, FrameTypes
<1>5. PICK f \in Frame : f.type # "NAME" /\ outbox' \in {outbox, Append(outbox, f)}
  BY <1>3, <1>4
<1>6. /\ pc'["listener"] = pc["listener"] \/ (pc["listener"] = "none" /\ pc'["listener"] = "type")
      /\ pc'["gui"] = pc["gui"] \/ (pc["gui"] = "none" /\ pc'["gui"] = "init")
      /\ cont'["listener"] = cont["listener"] /\ cont'["gui"] = cont["gui"]
  <2>1. CASE CreateListener
    <3>1. pc["listener"] = "none"
      BY <2>1 DEF CreateListener, GuiInv, StartInv, BeforeLogin
    <3> QED BY <1>1, <2>1, <3>1 DEF CreateListener, End, CtlTypeOK, Threads
  <2>2. CASE CreateGui
    <3>1. pc["gui"] = "none"
      BY <1>1, <2>2 DEF CreateGui, MainPlaces
    <3> QED BY <1>1, <2>2, <3>1 DEF CreateGui, End, CtlTypeOK, Threads
  <2>3. CASE ~CreateListener /\ ~CreateGui
    <3>1. \/ \E next : Continue("main", next)
          \/ \E how : End(how)
          \/ \E frame, next : Write("main", frame, next)
      BY <2>3
      DEF MainNext, Connect, SendLogin, WaitLogin, SendCatalogRequest, WaitStart,
          SendQuestionRequest, WaitEnd, MainWrites, MainWaits
    <3>2. {"gui", "listener"} = Threads \ {"main"} /\ "main" \in Threads
      BY DEF Threads
    <3> QED BY <1>1, <3>1, <3>2, WriteMoves DEF Continue, Goto, End, CtlTypeOK
  <2> QED BY <2>1, <2>2, <2>3
<1>7. \A t \in {"gui", "listener"} :
        /\ pc'[t] \in CallingBack \/ pc[t] = "name" => pc'[t] = pc[t]
        /\ cont'[t] \notin CallingBack
  BY <1>1, <1>6 DEF CallingBack, LockInv
<1>8. \/ pc'["listener"] = pc["listener"]
      \/ {pc["listener"], pc'["listener"]} \cap {"post", "waitGui", "gui"} = {}
  BY <1>6
<1>9. visible' \subseteq visible
  BY <1>2
<1> QED BY <1>1, <1>2, <1>5, <1>7, <1>8, <1>9, OthersSelect

\* The listener reads; only the first message it reads can set the mode.
LEMMA ListenerReadsSelect ==
  ASSUME GuiInv, RoundInv, SelectInv, ListenerReads
  PROVE  SelectStep
<1> USE DEF At
<1> SUFFICES ASSUME Live, Live'
             PROVE  BusyInv' /\ LockInv' /\ Tracked'
  BY DEF SelectStep
<1>1. /\ TypeOK /\ CtlTypeOK /\ BusyInv /\ LockInv /\ Tracked /\ PlaceInv /\ TokenInv
      /\ ~closeOnEnd /\ hdr \in [type : ServerTypes, size : {0, 1}]
  BY SelectLive DEF GuiInv, TypeOK, LiTypeOK
<1>2. /\ UNCHANGED <<windows, mode, selected, visible, gdkLock, srvReported, outbox>>
  BY DEF ListenerReads, CallRead, ReadType, ReadSize, ReadRank, ReceiveLoginOk, ReceiveCatalog,
         ReceiveCatalogChange, ReceivePlayerList, ReceiveStartGame, ReceiveQuestion,
         ReceiveResult, ReceiveWarning, ReceiveUnknown, Severity, PostMain, WaitGui,
         SpawnQuestionThread, Receive, InThread, guiVars, prepVars, netVars, srvVars
<1>3. /\ pc["listener"] \notin CallingBack \cup {"none", "gui"} \cup InError
      /\ pc["listener"] # "waitGui" => ~WaitGui
  BY DEF ListenerReads, CallRead, ReadType, ReadSize, ReadRank, ReceiveLoginOk, ReceiveCatalog,
         ReceiveCatalogChange, ReceivePlayerList, ReceiveStartGame, ReceiveQuestion,
         ReceiveResult, ReceiveWarning, ReceiveUnknown, Severity, PostMain, WaitGui,
         SpawnQuestionThread, Receive, Case, CallingBack, InError
<1>4. sockOpen /\ peer = "open"
  BY <1>3, SelectLive
<1>5. ASSUME NEW next, Read(next) \/ ReadPayload(next)
      PROVE  Continue("listener", next) /\ msg' = msg
  BY <1>1, <1>4, <1>5, LiveSucceeds
<1>6. ASSUME NEW next, Continue("listener", next)
      PROVE  pc'["listener"] = next /\ pc'["gui"] = pc["gui"] /\ cont' = cont
  BY <1>1, <1>6 DEF Continue, Goto, CtlTypeOK, Threads
<1>7. ASSUME ~PostMain, ~WaitGui, ~ReceiveLoginOk
      PROVE  \E next : /\ Continue("listener", next) /\ next \notin CallingBack \cup {"waitGui"}
                       /\ next \in {"post", "gui"} => hdr'.type # "LG_RQ_OK"
  <2>1. CASE CallRead
    BY <1>4, <2>1 DEF CallRead, CallingBack
  <2>2. CASE ReadType
    BY <1>1, <1>4, <2>2 DEF ReadType, CallingBack
  <2>3. CASE ReadSize \/ ReadRank
    BY <1>5, <2>3 DEF ReadSize, ReadRank, CallingBack
  <2>4. CASE ReceiveCatalogChange \/ ReceivePlayerList \/ ReceiveStartGame
    <3>1. PICK type \in {"CA_CH", "PL_LI", "ST_GA"} : Receive(type, "gui")
      BY <2>4 DEF ReceiveCatalogChange, ReceivePlayerList, ReceiveStartGame
    <3> QED BY <1>5, <3>1 DEF Receive, Case, CallingBack
  <2>5. CASE ReceiveCatalog
    <3>1. hdr' = hdr /\ hdr.type = "CA_RP"
      BY <2>5 DEF ReceiveCatalog, Case
    <3>2. \E next \in {"gui", "type"} : Continue("listener", next)
      BY <1>5, <2>5 DEF ReceiveCatalog, Skip
    <3> QED BY <3>1, <3>2 DEF CallingBack
  <2>6. CASE ReceiveQuestion \/ ReceiveResult
    BY <1>5, <2>6 DEF ReceiveQuestion, ReceiveResult, Case, CallingBack
  <2>7. CASE ReceiveWarning
    BY <1>5, <2>7 DEF ReceiveWarning, CallingBack
  <2>8. CASE Severity
    <3>1. \E next \in {"info", "quit"} : Continue("listener", next)
      BY <2>8 DEF Severity, End, Live
    <3> QED BY <3>1 DEF CallingBack
  <2>9. CASE ReceiveUnknown
    BY <2>9 DEF ReceiveUnknown, End, Live
  <2>10. CASE SpawnQuestionThread
    BY <2>10 DEF SpawnQuestionThread, CallingBack
  <2> QED BY <1>7, <2>1, <2>2, <2>3, <2>4, <2>5, <2>6, <2>7, <2>8, <2>9, <2>10
          DEF ListenerReads
<1>8. /\ pc'["listener"] \notin CallingBack /\ pc'["gui"] = pc["gui"] /\ cont' = cont
  <2>1. CASE ReceiveLoginOk
    BY <1>5, <1>6, <2>1 DEF ReceiveLoginOk, Receive, CallingBack
  <2>2. CASE PostMain \/ WaitGui
    BY <1>6, <2>2 DEF PostMain, AfterPost, WaitGui, CallingBack
  <2>3. CASE ~PostMain /\ ~WaitGui /\ ~ReceiveLoginOk
    BY <1>6, <1>7, <2>3
  <2> QED BY <2>1, <2>2, <2>3
<1>9. LockInv' /\ Tracked'
  <2>1. LockInv'
    BY <1>1, <1>2, <1>8 DEF LockInv
  <2>2. Naming => Naming'
    BY <1>3, <1>8 DEF Naming, CallingBack
  <2> QED BY <1>1, <1>2, <2>1, <2>2 DEF Tracked, LastName, Has
<1>10. mode = "busy" => Untouched /\ Untouched'
  BY <1>1, <1>2, <1>8 DEF BusyInv, Untouched, Has
<1>11. mode = "busy" /\ windows # "none" => WaitGui
  BY <1>1, <1>3
  DEF BusyInv, AtLogin, ListenerReads, CallRead, ReadType, ReadSize, ReadRank, ReceiveLoginOk,
      ReceiveCatalog, ReceiveCatalogChange, ReceivePlayerList, ReceiveStartGame,
      ReceiveQuestion, ReceiveResult, ReceiveWarning, ReceiveUnknown, Severity, PostMain,
      SpawnQuestionThread, Receive, Case
<1>12. ASSUME pc["listener"] \in {"case", "post"}, hdr.type = "LG_RQ_OK"
       PROVE  windows = "none" /\ mode = "busy"
  <2>1. LoginTokens > 0
    <3>1. One(pc["listener"] \in {"size", "case", "post"} /\ hdr.type = "LG_RQ_OK") = 1
      BY <1>12 DEF One
    <3>2. Count(inbox, "LG_RQ_OK") \in Nat /\ One(srv = "await") \in {0, 1}
      <4>1. inbox \in Seq(Message)
        BY <1>1 DEF TypeOK, NetTypeOK
      <4> QED BY <4>1, CountNat DEF One
    <3> QED BY <3>1, <3>2 DEF LoginTokens
  <2>2. pc["main"] \in InLogin
    BY <1>1, <2>1 DEF TokenInv, Started
  <2> QED BY <1>1, <2>2 DEF PlaceInv, MainPlaces, BusyInv
<1>13. CASE WaitGui
  <2>1. pc'["listener"] = "gui" /\ AtLogin({"waitGui"}) /\ UNCHANGED <<hdr, msg>>
    BY <1>1, <1>6, <1>13 DEF WaitGui, AtLogin, PlaceInv, ListenerPlaces, liVars
  <2> QED BY <1>1, <1>2, <1>9, <1>10, <2>1 DEF BusyInv, AtLogin
<1>14. CASE PostMain
  <2>1. /\ UNCHANGED <<hdr, msg>> /\ pc["listener"] = "post"
        /\ pc'["listener"] = IF hdr.type = "LG_RQ_OK" THEN "waitGui" ELSE "type"
    BY <1>6, <1>14 DEF PostMain, AfterPost, liVars
  <2>2. mode = "busy" => windows = "none"
    BY <1>11, <1>14, <2>1 DEF WaitGui
  <2> QED BY <1>1, <1>2, <1>9, <1>10, <1>12, <2>1, <2>2 DEF BusyInv, AtLogin
<1>15. CASE ReceiveLoginOk
  <2>1. /\ pc["listener"] = "case" /\ hdr' = hdr /\ hdr.type = "LG_RQ_OK"
        /\ pc'["listener"] = "post" /\ msg' = msg
    BY <1>5, <1>6, <1>15 DEF ReceiveLoginOk, Receive, Case
  <2>2. windows = "none"
    BY <1>12, <2>1
  <2>3. msg # NoMsg
    <3>1. FirstMessage(msg)
      BY <2>1, <2>2 DEF GuiInv, StartInv, BeforeGui, ListenerBeforeGui, Live
    <3> QED BY <3>1 DEF FirstMessage, NoMsg
  <2> QED BY <1>1, <1>2, <1>9, <1>10, <2>1, <2>2, <2>3 DEF BusyInv, AtLogin
<1>16. CASE ~PostMain /\ ~WaitGui /\ ~ReceiveLoginOk
  <2>1. ~AtLogin({"waitGui", "gui"})' /\ ~AtLogin({"post", "waitGui", "gui"})'
    BY <1>6, <1>7, <1>16 DEF AtLogin
  <2>2. mode = "busy" => windows = "none"
    BY <1>11, <1>16
  <2> QED BY <1>1, <1>2, <1>9, <1>10, <2>1, <2>2 DEF BusyInv
<1> QED BY <1>13, <1>14, <1>15, <1>16

\* The listener sets the mode once; what it selects itself, it names itself.
LEMMA ListenerShowsSelect ==
  ASSUME GuiInv, RoundInv, SelectInv, ListenerShows
  PROVE  SelectStep
<1> USE DEF At
<1> SUFFICES ASSUME Live, Live'
             PROVE  BusyInv' /\ LockInv' /\ Tracked'
  BY DEF SelectStep
<1>1. /\ TypeOK /\ CtlTypeOK /\ BusyInv /\ LockInv /\ Tracked
      /\ ~closeOnEnd /\ proc = "running" /\ proc' = "running"
  BY SelectLive DEF GuiInv, TypeOK, Live
<1>2. /\ UNCHANGED <<windows, srvReported>> /\ hdr' = hdr /\ msg' = msg
      /\ ~ListenerAborts
  BY <1>1
  DEF ListenerShows, ListenerAborts, SetMode, ShowCatalog, ShowSelection, ShowPlayers,
      ShowGame, ShowQuestion, EnableButtons, ShowResult, HideGame, ShowWarning, ShowEnd,
      OnlyGui, OnlyControl, guiVars, liVars, srvVars, End
<1>3. /\ pc["listener"] \in {"gui", "buttons", "case", "info", "quit"}
      /\ pc["listener"] = "case" => hdr.type = "GA_OV"
      /\ gdkLock = "free"
  BY <1>2
  DEF ListenerShows, SetMode, ShowCatalog, ShowSelection, ShowPlayers,
      ShowGame, ShowQuestion, EnableButtons, ShowResult, HideGame, ShowWarning, ShowEnd, GuiCall
<1>4. windows # "none"
  BY <1>1, <1>3 DEF GuiInv, StartInv, BeforeGui, ListenerBeforeGui, FirstMessage
<1>5. pc["gui"] \notin CallingBack /\ pc["listener"] \notin CallingBack
  BY <1>1, <1>3 DEF LockInv
<1>6. ASSUME NEW next, Continue("listener", next)
      PROVE  pc'["listener"] = next /\ pc'["gui"] = pc["gui"] /\ cont' = cont
  BY <1>1, <1>6 DEF Continue, Goto, CtlTypeOK, Threads
<1>7. CASE SetMode
  <2>1. /\ AtLogin({"gui"}) /\ pc'["listener"] = "type" /\ pc'["gui"] = pc["gui"]
        /\ cont' = cont /\ UNCHANGED <<outbox, selected, gdkLock>>
        /\ mode' = IF msg = NoMsg THEN mode ELSE IF msg.arg = 0 THEN "privileged" ELSE "normal"
    BY <1>6, <1>7 DEF SetMode, GuiCall, AtLogin, OnlyGui, netVars
  <2>2. mode = "busy" /\ msg # NoMsg
    BY <1>1, <2>1 DEF BusyInv, AtLogin
  <2>3. Untouched
    BY <1>1, <2>2 DEF BusyInv
  <2>4. BusyInv'
    BY <1>2, <1>4, <2>1, <2>2 DEF BusyInv, AtLogin
  <2>5. LockInv'
    BY <1>1, <1>5, <2>1 DEF LockInv, CallingBack
  <2>6. Tracked'
    BY <1>2, <2>1, <2>3 DEF Tracked, Untouched, LastName, Has
  <2> QED BY <2>4, <2>5, <2>6
<1>8. CASE ~SetMode
  <2>1. mode # "busy" /\ mode' = mode
    <3>1. ~AtLogin({"waitGui", "gui"})
      BY <1>2, <1>8
      DEF ListenerShows, ShowCatalog, ShowSelection, ShowPlayers, ShowGame, ShowQuestion,
          EnableButtons, ShowResult, HideGame, ShowWarning, ShowEnd, GuiCall, AtLogin
    <3>2. mode' = mode
      BY <1>8
      DEF ListenerShows, ListenerAborts, ShowCatalog, ShowSelection, ShowPlayers, ShowGame,
          ShowQuestion, EnableButtons, ShowResult, HideGame, ShowWarning, ShowEnd, OnlyGui,
          OnlyControl, guiVars, prepVars
    <3> QED BY <1>1, <1>4, <3>1, <3>2 DEF BusyInv
  <2>2. CASE ShowSelection
    <3>1. sockOpen /\ peer = "open"
      BY <1>3, SelectLive
    <3>2. CASE selected' = selected /\ gdkLock' = gdkLock /\ outbox' = outbox
               /\ Continue("listener", "type")
      <4>1. pc'["listener"] = "type" /\ pc'["gui"] = pc["gui"] /\ cont' = cont
        BY <1>6, <3>2
      <4>2. BusyInv'
        BY <1>2, <1>4, <2>1, <4>1 DEF BusyInv, AtLogin
      <4>3. LockInv' /\ ~Naming
        BY <1>1, <1>5, <3>2, <4>1 DEF LockInv, CallingBack, Naming
      <4> QED BY <1>1, <1>2, <2>1, <3>2, <4>2, <4>3 DEF Tracked, LastName, Has
    <3>3. CASE ~CallsBack /\ gdkLock' = gdkLock /\ Continue("listener", "type")
      <4>1. pc'["listener"] = "type" /\ pc'["gui"] = pc["gui"] /\ cont' = cont
        BY <1>6, <3>3
      <4>2. BusyInv'
        BY <1>2, <1>4, <2>1, <4>1 DEF BusyInv, AtLogin
      <4>3. LockInv'
        BY <1>1, <1>5, <3>3, <4>1 DEF LockInv, CallingBack
      <4> QED BY <2>1, <3>3, <4>2, <4>3 DEF Tracked, CallsBack
    <3>4. CASE gdkLock' = "listener" /\ Write("listener", Frm("CA_CH", 0), "name")
      <4>1. pc'["listener"] = "name" /\ pc'["gui"] = pc["gui"] /\ cont' = cont
        BY <1>1, <1>6, <3>1, <3>4, LiveSucceeds
      <4>2. BusyInv'
        BY <1>2, <1>4, <2>1, <4>1 DEF BusyInv, AtLogin
      <4>3. LockInv'
        BY <1>1, <1>5, <3>4, <4>1 DEF LockInv, CallingBack
      <4> QED BY <4>1, <4>2, <4>3 DEF Tracked, Naming
    <3> QED BY <2>2, <3>2, <3>3, <3>4 DEF ShowSelection
  <2>3. CASE ~ShowSelection
    <3>1. UNCHANGED <<outbox, selected, gdkLock>>
      BY <1>2, <1>8, <2>3
      DEF ListenerShows, ShowCatalog, ShowPlayers, ShowGame, ShowQuestion, EnableButtons,
          ShowResult, HideGame, ShowWarning, ShowEnd, OnlyGui, OnlyControl, guiVars, prepVars,
          netVars
    <3>2. /\ pc'["gui"] = pc["gui"] /\ cont'["gui"] = cont["gui"]
          /\ cont'["listener"] \in {cont["listener"], "type"}
          /\ pc'["listener"] \in {"type", "post", "buttons", "spawn", "rank", "errWait"}
          /\ pc'["listener"] = "post" => hdr.type = "ST_GA"
      <4>1. CASE ShowEnd
        BY <1>1, <4>1 DEF ShowEnd, Goto, CtlTypeOK, Threads
      <4>2. CASE ShowGame
        BY <1>6, <4>2 DEF ShowGame, GuiCall
      <4>3. CASE ShowQuestion
        <5>1. \E next \in {"buttons", "type"} : Continue("listener", next)
          BY <4>3 DEF ShowQuestion
        <5> QED BY <1>6, <5>1
      <4>4. CASE \/ ShowCatalog \/ ShowPlayers \/ EnableButtons \/ ShowResult \/ HideGame
                 \/ ShowWarning
        <5>1. \E next \in {"type", "spawn", "rank"} : Continue("listener", next)
          BY <4>4
          DEF ShowCatalog, ShowPlayers, EnableButtons, ShowResult, HideGame, ShowWarning
        <5> QED BY <1>6, <5>1
      <4> QED BY <1>2, <1>8, <2>3, <4>1, <4>2, <4>3, <4>4 DEF ListenerShows
    <3>3. BusyInv'
      BY <1>2, <1>4, <2>1, <3>2 DEF BusyInv, AtLogin
    <3>4. LockInv' /\ ~Naming
      BY <1>1, <1>5, <3>1, <3>2 DEF LockInv, CallingBack, Naming
    <3> QED BY <1>1, <1>2, <2>1, <3>1, <3>3, <3>4 DEF Tracked, LastName, Has
  <2> QED BY <2>2, <2>3
<1> QED BY <1>7, <1>8

\* A callback selects and writes while nobody else holds the GDK lock.
LEMMA UserSelects ==
  ASSUME GuiInv, RoundInv, SelectInv, GuiStarts \/ GuiEnds \/ UserNext \/ UserConfirms
  PROVE  SelectStep
<1> USE DEF At
<1> SUFFICES ASSUME Live, Live'
             PROVE  BusyInv' /\ LockInv' /\ Tracked'
  BY DEF SelectStep
<1>1. /\ TypeOK /\ CtlTypeOK /\ BusyInv /\ LockInv /\ Tracked /\ PlaceInv
      /\ outbox \in Seq(Frame) /\ shown \in Nat
      /\ ~closeOnEnd /\ proc = "running" /\ proc' = "running"
  BY SelectLive DEF GuiInv, TypeOK, NetTypeOK, GuiTypeOK, Live
<1>2. /\ UNCHANGED <<hdr, msg, mode, srvReported>> /\ visible' \subseteq visible
      /\ pc["gui"] \in {"init", "post", "setRuns", "loop", "destroy", "exit"}
  BY DEF GuiStarts, GuiInit, GuiPost, GuiSetRuns, GuiEnds, GuiDestroy, GuiExit, UserNext,
         OnCatalogChanged, OnStartClicked, OnAnswerClicked, OnWindowClosed, Callback,
         Dispatches, UserConfirms, DismissDialog, OnlyGui, OnlyControl, liVars,
         guiVars, prepVars, netVars, srvVars
<1>3. sockOpen /\ peer = "open" /\ pc["main"] # "connect" /\ pc["gui"] \notin CallingBack
  BY <1>2, SelectLive DEF CallingBack
<1>4. ASSUME NEW next, Continue("gui", next)
      PROVE  pc'["gui"] = next /\ pc'["listener"] = pc["listener"] /\ cont' = cont
             /\ pc'["main"] = pc["main"]
  BY <1>1, <1>4 DEF Continue, Goto, CtlTypeOK, Threads
<1>5. ASSUME NEW w, OnWindowClosed(w)
      PROVE  FALSE
  BY <1>3, <1>5 DEF OnWindowClosed, ctlVars, Live
<1> DEFINE Clicks(type, arg, next) ==
      /\ gdkLock = "free" /\ gdkLock' = "gui" /\ Write("gui", Frm(type, arg), next)
      /\ <<type, next>> \in {<<"CA_CH", "name">>, <<"ST_GA", "name">>, <<"QU_AN", "unlock">>}
      /\ arg \in Nat /\ visible # {}
      /\ type = "QU_AN" => selected' = selected
      /\ UNCHANGED windows
<1>6. ASSUME OnStartClicked \/ OnAnswerClicked \/ \E c \in Catalog : OnCatalogChanged(c)
      PROVE  \E type, arg, next : Clicks(type, arg, next)
  <2>1. CASE OnStartClicked
    <3>1. Clicks("ST_GA", 0, "name")
      BY <2>1 DEF OnStartClicked, Callback, Dispatches
    <3> QED BY <3>1
  <2>2. CASE OnAnswerClicked
    <3>1. Clicks("QU_AN", shown, "unlock")
      BY <1>1, <2>2 DEF OnAnswerClicked, Callback, Dispatches
    <3> QED BY <3>1
  <2>3. CASE \E c \in Catalog : OnCatalogChanged(c)
    <3>1. Clicks("CA_CH", 0, "name")
      BY <2>3 DEF OnCatalogChanged, Callback, Dispatches
    <3> QED BY <3>1
  <2> QED BY <1>6, <2>1, <2>2, <2>3
<1>7. ASSUME NEW type, NEW arg, NEW next, Clicks(type, arg, next)
      PROVE  BusyInv' /\ LockInv' /\ Tracked'
  <2>1. /\ outbox' = Append(outbox, Frm(type, arg)) /\ pc'["gui"] = next
        /\ pc'["listener"] = pc["listener"] /\ cont' = cont
    BY <1>1, <1>3, <1>4, <1>7, LiveSucceeds
  <2>2. pc["listener"] \notin CallingBack
    BY <1>1, <1>7 DEF LockInv
  <2>3. BusyInv'
    <3>1. mode # "busy" /\ windows # "none"
      BY <1>1, <1>7 DEF BusyInv, Untouched
    <3> QED BY <1>1, <1>2, <1>7, <2>1, <3>1 DEF BusyInv, AtLogin
  <2>4. LockInv'
    BY <1>1, <1>7, <2>1, <2>2 DEF LockInv
  <2>5. CASE next = "name"
    BY <2>1, <2>3, <2>4, <2>5 DEF Tracked, Naming
  <2>6. CASE type = "QU_AN"
    <3>1. Frm(type, arg) \in Frame /\ Frm(type, arg).type = "QU_AN"
      BY <1>7, <2>6 DEF Frm, Frame, FrameTypes
    <3>2. ~Naming
      BY <1>3, <2>2 DEF Naming, CallingBack
    <3>3. /\ \A c : LastName(outbox, c) => LastName(outbox', c)
          /\ Has(outbox, "NAME") => Has(outbox', "NAME")
          /\ Has(outbox, "CA_CH") => Has(outbox', "CA_CH")
      BY <1>1, <2>1, <3>1, NameAppended, HasEnds
    <3> QED BY <1>1, <1>2, <1>7, <2>3, <2>4, <2>6, <3>2, <3>3 DEF Tracked
  <2> QED BY <1>7, <2>5, <2>6
<1>8. CASE GuiInit
  <2>1. /\ pc["gui"] = "init" /\ pc'["gui"] = "post" /\ pc'["listener"] = pc["listener"]
        /\ cont' = cont /\ UNCHANGED <<selected, gdkLock, outbox>> /\ windows' # "none"
    BY <1>4, <1>8 DEF GuiInit, OnlyGui, prepVars, netVars
  <2>2. pc["main"] \notin InLogin /\ windows = "none"
    BY <1>1, <2>1 DEF PlaceInv, MainPlaces, GuiPlaces
  <2>3. AtLogin({"waitGui", "gui"})
    BY <1>1, <2>1, <2>2 DEF PlaceInv, ListenerPlaces, LoggedIn, AtLogin
  <2>4. mode = "busy" => Untouched'
    BY <1>1, <1>2, <2>1 DEF BusyInv, Untouched, CallingBack, Has
  <2>5. BusyInv'
    BY <1>1, <1>2, <2>1, <2>3, <2>4 DEF BusyInv, AtLogin
  <2>6. LockInv'
    BY <1>1, <2>1 DEF LockInv, CallingBack
  <2>7. mode # "privileged"
    BY <1>1, <2>2 DEF BusyInv
  <2> QED BY <1>2, <2>5, <2>6, <2>7 DEF Tracked
<1>9. CASE \/ GuiPost \/ GuiSetRuns \/ GuiEnds \/ UserConfirms
  <2>1. UNCHANGED <<selected, gdkLock, outbox>>
    BY <1>9
    DEF GuiPost, GuiSetRuns, GuiEnds, GuiDestroy, GuiExit, UserConfirms,
        DismissDialog, OnlyGui, OnlyControl, guiVars, prepVars, netVars
  <2>2. windows' = "none" <=> windows = "none"
    <3>1. CASE GuiDestroy
      BY <1>1, <3>1 DEF GuiDestroy, GuiInv, StartInv, BeforeGui
    <3>2. CASE ~GuiDestroy
      BY <1>9, <3>2
      DEF GuiPost, GuiSetRuns, GuiEnds, GuiExit, UserConfirms, DismissDialog, OnlyGui,
          OnlyControl, guiVars
    <3> QED BY <3>1, <3>2
  <2>3. /\ pc'["gui"] \in {"setRuns", "loop", "destroy", "exit"}
        /\ pc'["listener"] = pc["listener"] /\ cont' = cont
    <3>1. CASE UNCHANGED ctlVars /\ UserConfirms
      BY <3>1 DEF ctlVars, UserConfirms, DismissDialog
    <3>2. CASE \E next \in {"setRuns", "loop", "destroy", "exit"} : Continue("gui", next)
      BY <1>4, <3>2
    <3> QED BY <1>1, <1>9, <3>1, <3>2
            DEF GuiPost, GuiSetRuns, GuiEnds, GuiDestroy, GuiExit, UserConfirms, DismissDialog,
                End
  <2>4. \A t \in {"gui", "listener"} :
          /\ pc'[t] \in CallingBack \/ pc[t] = "name" => pc'[t] = pc[t]
          /\ cont'[t] \notin CallingBack
    BY <1>1, <1>3, <2>3 DEF CallingBack, LockInv
  <2>5. Frm("QU_RQ", 0) \in Frame /\ Frm("QU_RQ", 0).type # "NAME"
    BY DEF Frm, Frame, FrameTypes
  <2> QED BY <1>1, <1>2, <2>1, <2>2, <2>3, <2>4, <2>5, OthersSelect
<1> QED BY <1>5, <1>6, <1>7, <1>8, <1>9 DEF GuiStarts, UserNext

\* The name that a thread sends is that of the selected catalog, and the last one.
LEMMA ErrorsSelect ==
  ASSUME GuiInv, RoundInv, SelectInv, QuestionThreads \/ \E t \in Threads : Errors(t)
  PROVE  SelectStep
<1> USE DEF At
<1> SUFFICES ASSUME Live, Live'
             PROVE  BusyInv' /\ LockInv' /\ Tracked'
  BY DEF SelectStep
<1>1. /\ TypeOK /\ CtlTypeOK /\ BusyInv /\ LockInv /\ Tracked /\ PlaceInv
      /\ outbox \in Seq(Frame) /\ selected \in Nat
      /\ ~closeOnEnd /\ proc = "running" /\ proc' = "running"
  BY SelectLive DEF GuiInv, TypeOK, NetTypeOK, GuiTypeOK, Live
<1>2. UNCHANGED <<hdr, msg, mode, selected, srvReported, windows, visible>>
  BY DEF QuestionThreads, QuestionThreadWrites, QuestionThreadFails, Errors, ErrorDialog,
         SocketWait, WriteName, Unlock, OnlyGui, liVars, guiVars, prepVars, srvVars
<1>3. \A type \in {"QU_RQ", "NAME"}, arg \in Nat :
        Frm(type, arg) \in Frame /\ Frm(type, arg).type = type /\ Frm(type, arg).arg = arg
  BY DEF Frm, Frame, FrameTypes
<1>4. CASE QuestionThreads
  <2>1. /\ UNCHANGED <<pc, cont, gdkLock>>
        /\ outbox' \in {outbox, Append(outbox, Frm("QU_RQ", 0))}
    BY <1>1, <1>4
    DEF QuestionThreads, QuestionThreadWrites, QuestionThreadFails, End, ctlVars, guiVars,
        netVars
  <2>2. \A t \in {"gui", "listener"} : cont'[t] \notin CallingBack
    BY <1>1, <2>1 DEF LockInv
  <2> QED BY <1>1, <1>2, <1>3, <2>1, <2>2, OthersSelect
<1>5. ASSUME NEW t \in Threads, Errors(t)
      PROVE  BusyInv' /\ LockInv' /\ Tracked'
  <2>1. \/ pc[t] = "errDialog" /\ pc'[t] = "errWait" /\ UNCHANGED <<outbox, gdkLock>>
        \/ /\ pc[t] = "errWait" /\ pc'[t] = cont[t] /\ UNCHANGED <<outbox, gdkLock>>
           /\ semSocket > 0
        \/ WriteName(t)
        \/ /\ pc[t] = "unlock" /\ pc'[t] = (IF t = "gui" THEN "loop" ELSE "type")
           /\ gdkLock' = "free" /\ UNCHANGED outbox
    BY <1>1, <1>5
    DEF Errors, ErrorDialog, SocketWait, Unlock, Continue, Goto, CtlTypeOK, OnlyGui, guiVars,
        netVars
  <2>2. pc["main"] \notin CallingBack
    BY <1>1 DEF PlaceInv, MainPlaces, MainLabels, InError, CallingBack
  <2>3. ASSUME ~WriteName(t)
        PROVE  /\ \A u \in Threads \ {t} : pc'[u] = pc[u]
               /\ cont' = cont
    BY <1>1, <1>5, <2>3
    DEF Errors, ErrorDialog, SocketWait, Unlock, Continue, Goto, CtlTypeOK
  <2>4. CASE ~WriteName(t) /\ pc[t] # "unlock"
    <3>1. \/ pc[t] = "errDialog" /\ pc'[t] = "errWait"
          \/ pc[t] = "errWait" /\ pc'[t] = cont[t] /\ semSocket > 0
      BY <2>1, <2>4
    <3>2. ~(pc["listener"] = "errWait" /\ semSocket > 0)
      <4>1. ASSUME pc["listener"] = "errWait", semSocket > 0
            PROVE  FALSE
        <5>1. pc["main"] \in InLogin \/ semSocket = 0
          BY <1>1, <4>1 DEF PlaceInv, ListenerPlaces, LoggedIn
        <5> QED BY <1>1, <4>1, <5>1 DEF PlaceInv, MainPlaces, InError
      <4> QED BY <4>1
    <3>3. \/ pc'["listener"] = pc["listener"]
          \/ {pc["listener"], pc'["listener"]} \cap {"post", "waitGui", "gui"} = {}
      BY <2>3, <2>4, <3>1, <3>2 DEF Threads
    <3>4. \A u \in {"gui", "listener"} :
            /\ pc'[u] \in CallingBack \/ pc[u] = "name" => pc'[u] = pc[u]
            /\ cont'[u] \notin CallingBack
      BY <1>1, <2>3, <2>4, <3>1 DEF CallingBack, LockInv, Threads
    <3>5. UNCHANGED <<outbox, gdkLock>>
      BY <2>1, <2>4
    <3> QED BY <1>1, <1>2, <1>3, <3>3, <3>4, <3>5, OthersSelect
  <2>5. CASE ~WriteName(t) /\ pc[t] = "unlock"
    <3>1. t \in {"gui", "listener"}
      BY <2>2, <2>5 DEF CallingBack, Threads
    <3>2. gdkLock = t /\ \A u \in {"gui", "listener"} \ {t} : pc[u] \notin CallingBack
      BY <1>1, <2>5, <3>1 DEF LockInv, CallingBack
    <3>3. /\ pc'["gui"] \notin CallingBack /\ pc'["listener"] \notin CallingBack
          /\ UNCHANGED outbox /\ cont' = cont /\ mode # "busy" /\ ~Naming
      <4>1. pc'[t] \in {"loop", "type"} /\ UNCHANGED outbox
        BY <1>1, <2>1, <2>5 DEF WriteName
      <4>2. mode # "busy"
        BY <1>1, <2>5, <3>1 DEF BusyInv, Untouched, CallingBack
      <4> QED BY <2>3, <2>5, <3>1, <3>2, <4>1, <4>2 DEF CallingBack, Threads, Naming
    <3>4. LockInv'
      BY <1>1, <3>3 DEF LockInv
    <3>5. BusyInv'
      <4>1. \A places \in {{"waitGui", "gui"}, {"post", "waitGui", "gui"}} :
              AtLogin(places)' => AtLogin(places)
        BY <1>2, <2>1, <2>3, <2>5, <3>1 DEF AtLogin, Threads, WriteName
      <4> QED BY <1>1, <1>2, <3>3, <4>1 DEF BusyInv
    <3> QED BY <1>1, <1>2, <3>3, <3>4, <3>5 DEF Tracked, LastName, Has
  <2>6. CASE WriteName(t)
    <3>1. pc[t] = "name" /\ Write(t, Frm("NAME", selected), "unlock") /\ gdkLock' = gdkLock
      BY <2>6 DEF WriteName, guiVars
    <3>2. t \in {"gui", "listener"}
      BY <2>2, <3>1 DEF CallingBack, Threads
    <3>3. sockOpen /\ peer = "open"
      BY <3>1, <3>2, SelectLive
    <3>4. outbox' = Append(outbox, Frm("NAME", selected)) /\ Continue(t, "unlock")
      BY <1>1, <3>1, <3>3, LiveSucceeds
    <3>5. /\ pc'[t] = "unlock" /\ \A u \in Threads \ {t} : pc'[u] = pc[u]
          /\ cont' = cont
      BY <1>1, <3>4 DEF Continue, Goto, CtlTypeOK
    <3>6. gdkLock = t /\ \A u \in {"gui", "listener"} \ {t} : pc[u] \notin CallingBack
      BY <1>1, <3>1, <3>2 DEF LockInv, CallingBack
    <3>7. LockInv'
      BY <1>1, <3>1, <3>2, <3>5, <3>6 DEF LockInv, Threads
    <3>8. BusyInv'
      <4>1. mode # "busy"
        BY <1>1, <3>1, <3>2 DEF BusyInv, Untouched, CallingBack
      <4>2. \A places \in {{"waitGui", "gui"}, {"post", "waitGui", "gui"}} :
              AtLogin(places)' => AtLogin(places)
        BY <1>2, <3>1, <3>2, <3>5 DEF AtLogin, Threads
      <4> QED BY <1>1, <1>2, <4>1, <4>2 DEF BusyInv
    <3>9. LastName(outbox', selected') /\ Has(outbox', "NAME")
      <4> DEFINE f == Frm("NAME", selected)
      <4>1. f \in Frame /\ f.type = "NAME" /\ f.arg = selected
        BY <1>1, <1>3
      <4> HIDE DEF f
      <4>2. LastName(Append(outbox, f), f.arg) /\ Has(Append(outbox, f), "NAME")
        BY <1>1, <4>1, NameAppended, HasEnds
      <4> QED BY <1>2, <3>4, <4>1, <4>2 DEF f
    <3> QED BY <3>7, <3>8, <3>9 DEF Tracked
  <2> QED BY <2>4, <2>5, <2>6
<1> QED BY <1>4, <1>5

\* The server that takes the last name has heard what is selected.
LEMMA ServerSelects ==
  ASSUME GuiInv, RoundInv, SelectInv, ServerReplies \/ ServerActs
  PROVE  SelectStep
<1> SUFFICES ASSUME Live, Live'
             PROVE  BusyInv' /\ LockInv' /\ Tracked'
  BY DEF SelectStep
<1>1. /\ TypeOK /\ BusyInv /\ LockInv /\ Tracked /\ outbox \in Seq(Frame)
  BY SelectLive DEF GuiInv, TypeOK, NetTypeOK
<1>2. UNCHANGED <<pc, cont, hdr, msg, mode, selected, windows, visible, gdkLock>>
  BY DEF ServerReplies, ServerActs, ServerLogin, ServerCatalogs, ServerCatalogChange,
         ServerStart, ServerQuestion, ServerAnswer, ServerTimeout, ServerGameOver,
         ServerUnasked, ServerFatal, ServerCloses, Sends, InServer, ctlVars, liVars,
         guiVars, prepVars
<1>3. \/ outbox' = outbox /\ srvReported' = srvReported
      \/ /\ outbox # <<>> /\ outbox' = Tail(outbox) /\ srvReported' = srvReported
         /\ Head(outbox).type \notin Opens \cup {"NAME"}
      \/ /\ Len(outbox) > 1 /\ outbox' = Tail(Tail(outbox))
         /\ outbox[2].type = "NAME" /\ srvReported' = outbox[2].arg
  BY DEF ServerReplies, ServerActs, ServerLogin, ServerCatalogs, ServerCatalogChange,
         ServerStart, ServerQuestion, ServerAnswer, ServerTimeout, ServerGameOver,
         ServerUnasked, ServerFatal, ServerCloses, Sends, Reply, ReplyToName, Receives, Opens,
         srvVars
<1>4. LockInv' /\ (Naming' <=> Naming)
  BY <1>1, <1>2 DEF LockInv, Naming
<1>5. ASSUME Has(outbox', "NAME") => Has(outbox, "NAME"),
             mode = "busy" => srvReported' = srvReported
      PROVE  BusyInv'
  <2>1. Untouched => (mode = "busy" => Untouched')
    BY <1>2, <1>5 DEF Untouched
  <2> QED BY <1>1, <1>2, <2>1 DEF BusyInv, AtLogin
<1>6. CASE outbox' = outbox /\ srvReported' = srvReported
  BY <1>1, <1>2, <1>4, <1>5, <1>6 DEF Tracked, LastName, Has
<1>7. CASE /\ outbox # <<>> /\ outbox' = Tail(outbox) /\ srvReported' = srvReported
           /\ Head(outbox).type \notin Opens \cup {"NAME"}
  <2>1. /\ Has(outbox', "NAME") <=> Has(outbox, "NAME")
        /\ Has(outbox', "CA_CH") <=> Has(outbox, "CA_CH")
    BY <1>1, <1>7, HasEnds DEF Opens
  <2>2. \A c : LastName(outbox, c) => LastName(outbox', c)
    BY <1>1, <1>7, NameTaken
  <2>3. BusyInv'
    BY <1>5, <1>7, <2>1
  <2> QED BY <1>1, <1>2, <1>4, <1>7, <2>1, <2>2, <2>3 DEF Tracked
<1>8. CASE /\ Len(outbox) > 1 /\ outbox' = Tail(Tail(outbox))
           /\ outbox[2].type = "NAME" /\ srvReported' = outbox[2].arg
  <2>1. Has(outbox, "NAME")
    <3>1. 2 \in DOMAIN outbox
      BY <1>1, <1>8, LenProperties
    <3> QED BY <1>8, <3>1 DEF Has
  <2>2. BusyInv'
    BY <1>1, <1>5, <2>1 DEF BusyInv, Untouched
  <2>3. ASSUME LastName(outbox, selected)
        PROVE  /\ LastName(outbox', selected)
               /\ Has(outbox', "NAME") \/ selected = srvReported'
    BY <1>1, <1>8, <2>3, NameTaken
  <2> QED BY <1>1, <1>2, <1>4, <2>2, <2>3 DEF Tracked
<1> QED BY <1>3, <1>6, <1>7, <1>8

LEMMA SelectStarts == Init => SelectInv
<1> SUFFICES ASSUME Init
             PROVE  SelectInv
  OBVIOUS
<1>1. /\ pc["listener"] = "none" /\ pc["gui"] = "none" /\ cont["listener"] = "none"
      /\ cont["gui"] = "none" /\ ~closeOnEnd /\ mode = "busy" /\ selected = 0
      /\ srvReported = 0 /\ visible = {} /\ outbox = <<>> /\ windows = "none"
  BY DEF Init, Threads
<1>2. Untouched
  BY <1>1 DEF Untouched, Has, CallingBack
<1>3. BusyInv /\ LockInv /\ Tracked
  BY <1>1, <1>2 DEF BusyInv, AtLogin, LockInv, Tracked, CallingBack
<1> QED BY <1>1, <1>3 DEF SelectInv, ClosedInv

LEMMA SelectStepHolds ==
  ASSUME GuiInv, RoundInv, SelectInv, [Next]_vars
  PROVE  SelectInv'
<1>1. ClosedInv' /\ (Live' => Live)
  BY ClosedKept, LiveBefore DEF SelectInv
<1>2. CASE UNCHANGED vars
  <2>1. UNCHANGED <<pc, cont, hdr, msg, mode, selected, windows, visible, gdkLock, outbox,
                    srvReported>>
    BY <1>2 DEF vars, ctlVars, liVars, guiVars, prepVars, netVars, srvVars
  <2> QED BY <1>1, <2>1
          DEF SelectInv, BusyInv, LockInv, Tracked, AtLogin, Untouched, Naming, LastName, Has
<1> QED BY <1>1, <1>2, MainSelects, ListenerReadsSelect, ListenerShowsSelect, UserSelects,
           ErrorsSelect, ServerSelects
        DEF SelectInv, SelectStep, Next, Ended

LEMMA SelectHolds == Spec => []SelectInv
<1>1. GuiInv /\ RoundInv /\ SelectInv /\ [Next]_vars => SelectInv'
  BY SelectStepHolds
<1> QED BY <1>1, SelectStarts, RoundHolds, StartHolds, PTL DEF Spec

\* Whatever the server returns, and whichever thread selects: as soon as no change is
\* under way the server has the catalog that the leader's window shows as selected
\* (gui_interface.c:14-46, li_qu_thread.c:160-176).
THEOREM SelectionArrives == Spec => []SelectionReported
<1>1. SelectInv /\ GuiInv => SelectionReported
  <2> SUFFICES ASSUME SelectInv, GuiInv
               PROVE  SelectionReported
    OBVIOUS
  <2>1. peer \in {"open", "closed"}
    BY DEF GuiInv, TypeOK, NetTypeOK
  <2>2. CASE Live /\ mode = "privileged" /\ ~Naming
    <3>1. Has(outbox, "NAME") \/ Has(outbox, "CA_CH") \/ selected = srvReported
      BY <2>2 DEF SelectInv, Tracked
    <3> QED BY <3>1 DEF SelectionReported, Has
  <2>3. CASE ~Live \/ mode # "privileged" \/ Naming
    BY <2>1, <2>3 DEF SelectionReported, Live, Naming
  <2> QED BY <2>2, <2>3
<1> QED BY <1>1, SelectHolds, StartHolds, PTL
-----------------------------------------------------------------------------
(* The list of catalogs.  The invariant: until the player closes a window,   *)
(* the responses on their way name, in order, the catalogs that are not yet  *)
(* listed, and the end of the list comes last.  A response past the limit    *)
(* leaves its name in the stream, and then no other response is understood.  *)

Playing == proc = "running" /\ ~closeOnEnd

\* A name left in the stream comes next, or is taken for a header.
Torn ==
  \/ Carries("RAW")
  \/ pc["listener"] \notin {"size", "case"} /\ inbox # <<>> /\ Head(inbox).type = "RAW"
Reading == pc["listener"] \notin InError /\ ~Torn

\* The responses: the end of the list comes after the names, each name after those of
\* the catalogs before it or when those are listed, none before the count has come to it.
Response(m) == m.type = "CA_RP"
Placed(queue, n, count, there) ==
  /\ \A i \in 1 .. n - 1 : Response(queue[i]) =>
       queue[i].size = 1 /\ (queue[n].size = 1 => queue[i].arg < queue[n].arg)
  /\ queue[n].size = 1 => count < queue[n].arg
  /\ \A c \in Catalog : (queue[n].size = 1 => c < queue[n].arg) =>
       c \in there \/ \E i \in 1 .. n - 1 : Response(queue[i]) /\ queue[i].arg = c
Lists(queue, count, there) ==
  \A n \in DOMAIN queue : Response(queue[n]) => Placed(queue, n, count, there)
Responses == IF Carries("CA_RP") THEN <<msg>> \o inbox ELSE inbox

\* The response in the listener's hands is as its header says.
Hand ==
  Carries("CA_RP") =>
    /\ Response(msg)
    /\ pc["listener"] # "size" => hdr.size = msg.size
    /\ pc["listener"] = "gui" => AddsCatalog \/ hdr.size = 0

AskInv ==
  /\ pc["main"] \in BeforeList => ~Asked
  /\ Count(outbox, "CA_RQ") <= 1
  /\ pc["main"] \in BeforeList \/ Asked => ~Listing /\ counter = 0

\* About to show the window, the listener has listed what it can list.
Listable == {c \in Catalog : c <= MaxCatalogs}
Showing ==
  pc["listener"] = "gui" /\ hdr.type = "CA_RP" /\ ~AddsCatalog => Listable \subseteq listed

PrepInv ==
  /\ PreparationShowsAll
  /\ Playing => /\ AskInv /\ Showing
                /\ Reading => Lists(Responses, counter, listed) /\ Hand

\* A list may be read with a lower count, and stand before and behind other messages.
LEMMA ListsKept ==
  ASSUME NEW queue \in Seq(Message), NEW count \in Nat, NEW there, Lists(queue, count, there)
  PROVE  /\ \A less \in Nat : \A more : less <= count /\ there \subseteq more
              => Lists(queue, less, more)
         /\ \A front \in Seq(Message) : ~Has(front, "CA_RP") => Lists(front \o queue, count, there)
         /\ \A more \in Seq(Message) : ~Has(more, "CA_RP") => Lists(queue \o more, count, there)
<1>1. ASSUME NEW less \in Nat, NEW more, less <= count, there \subseteq more
      PROVE  Lists(queue, less, more)
  <2>1. ASSUME NEW n \in DOMAIN queue
        PROVE  queue[n].arg \in Nat
    <3>1. queue[n] \in Message
      BY ElementOfSeq, LenProperties
    <3> QED BY <3>1 DEF Message
  <2>2. \A a \in Nat : count < a => less < a
    BY <1>1
  <2> QED BY <1>1, <2>1, <2>2 DEF Lists, Placed
<1>2. ASSUME NEW front \in Seq(Message), ~Has(front, "CA_RP")
      PROVE  Lists(front \o queue, count, there)
  <2> DEFINE q == front \o queue
  <2>1. PICK j \in Nat, l \in Nat :
          /\ j = Len(front) /\ l = Len(queue) /\ DOMAIN queue = 1 .. l /\ DOMAIN front = 1 .. j /\ DOMAIN q = 1 .. j + l
          /\ \A i \in 1 .. j + l : q[i] = IF i <= j THEN front[i] ELSE queue[i - j]
    BY SMTT(60), ConcatProperties, LenProperties
  <2> HIDE DEF q
  <2> SUFFICES ASSUME NEW n \in DOMAIN q, Response(q[n])
               PROVE  Placed(q, n, count, there)
    BY DEF Lists, q
  <2>2. \A i \in 1 .. j : ~Response(front[i])
    BY <1>2, <2>1 DEF Has, Response
  <2>3. \A i \in 1 .. j + l : Response(q[i]) => i - j \in 1 .. l /\ q[i] = queue[i - j]
    BY <2>1, <2>2
  <2> DEFINE k == n - j
  <2>4. k \in 1 .. l /\ k \in DOMAIN queue /\ q[n] = queue[k]
    BY <2>1, <2>3
  <2>5. Placed(queue, k, count, there)
    BY <2>4 DEF Lists
  <2>6. \A i \in 1 .. n - 1 : Response(q[i]) => i - j \in 1 .. k - 1 /\ q[i] = queue[i - j]
    BY <2>1, <2>3
  <2>7. ASSUME NEW i \in 1 .. k - 1
        PROVE  i + j \in 1 .. n - 1 /\ q[i + j] = queue[i]
    <3>1. n \in Nat /\ n <= j + l /\ i \in Nat /\ i > 0 /\ i <= n - j - 1
      BY <2>1
    <3>2. i + j \in 1 .. n - 1 /\ i + j \in 1 .. j + l /\ ~(i + j <= j) /\ i + j - j = i
      BY <3>1
    <3> QED BY SMTT(60), <2>1, <3>2
  <2> HIDE DEF k
  <2>8. \A i \in 1 .. n - 1 : Response(q[i]) =>
          q[i].size = 1 /\ (q[n].size = 1 => q[i].arg < q[n].arg)
    BY <2>4, <2>5, <2>6 DEF Placed
  <2>9. \A c \in Catalog : (q[n].size = 1 => c < q[n].arg) =>
          c \in there \/ \E i \in 1 .. n - 1 : Response(q[i]) /\ q[i].arg = c
    <3> SUFFICES ASSUME NEW c \in Catalog, q[n].size = 1 => c < q[n].arg, c \notin there
                 PROVE  \E i \in 1 .. n - 1 : Response(q[i]) /\ q[i].arg = c
      OBVIOUS
    <3>1. PICK i \in 1 .. k - 1 : Response(queue[i]) /\ queue[i].arg = c
      BY <2>4, <2>5 DEF Placed
    <3>2. i + j \in 1 .. n - 1 /\ q[i + j] = queue[i]
      BY <2>7
    <3> QED BY <3>1, <3>2
  <2> QED BY <2>4, <2>5, <2>8, <2>9 DEF Placed
<1>3. ASSUME NEW more \in Seq(Message), ~Has(more, "CA_RP")
      PROVE  Lists(queue \o more, count, there)
  <2> DEFINE q == queue \o more
  <2>1. PICK k \in Nat, l \in Nat :
          /\ DOMAIN queue = 1 .. k /\ DOMAIN more = 1 .. l /\ DOMAIN q = 1 .. k + l
          /\ \A i \in 1 .. k + l : q[i] = IF i <= k THEN queue[i] ELSE more[i - k]
    BY ConcatProperties, LenProperties
  <2> HIDE DEF q
  <2>2. ASSUME NEW n \in 1 .. k + l, Response(q[n])
        PROVE  n \in DOMAIN queue /\ q[n] = queue[n] /\ \A i \in 1 .. n - 1 : q[i] = queue[i]
    <3>1. n <= k
      <4> SUFFICES ASSUME n > k
                   PROVE  FALSE
        BY <2>1
      <4>1. n - k \in DOMAIN more /\ more[n - k] = q[n]
        BY <2>1
      <4> QED BY <1>3, <2>2, <4>1 DEF Has, Response
    <3> QED BY <2>1, <3>1
  <2>3. ASSUME NEW n \in DOMAIN q, Response(q[n])
        PROVE  Placed(q, n, count, there)
    <3>1. n \in DOMAIN queue /\ q[n] = queue[n] /\ \A i \in 1 .. n - 1 : q[i] = queue[i]
      BY <2>1, <2>2, <2>3
    <3>2. Placed(queue, n, count, there)
      BY <2>3, <3>1 DEF Lists
    <3> QED BY <3>1, <3>2 DEF Placed
  <2> QED BY <2>3 DEF Lists, q
<1> QED BY <1>1, <1>2, <1>3

\* The head of a list taken: its name listed, what is left is a list from the next count
\* on; behind the end of the list there is no response.
LEMMA ListTaken ==
  ASSUME NEW queue \in Seq(Message), NEW count \in Nat, NEW there,
         Lists(queue, count, there), queue # <<>>
  PROVE  /\ ~Response(Head(queue)) => Lists(Tail(queue), count, there)
         /\ Response(Head(queue)) /\ Head(queue).size = 1 =>
              /\ count < Head(queue).arg
              /\ \A c \in Catalog : c < Head(queue).arg => c \in there
              /\ Lists(Tail(queue), count + 1, there \cup {Head(queue).arg})
         /\ Response(Head(queue)) /\ Head(queue).size # 1 =>
              Catalog \subseteq there /\ ~Has(Tail(queue), "CA_RP")
<1> DEFINE q == Tail(queue)
           h == Head(queue)
<1>1. PICK l \in Nat :
        /\ l # 0 /\ DOMAIN queue = 1 .. l /\ h = queue[1] /\ DOMAIN q = 1 .. l - 1
        /\ \A n \in 1 .. l - 1 : q[n] = queue[n + 1]
  BY TailShape
<1>2. h \in Message /\ (\A n \in 1 .. l : queue[n] \in Message)
  BY <1>1, ElementOfSeq, LenProperties
<1> HIDE DEF q, h
<1>3. ASSUME NEW n \in DOMAIN q, Response(q[n])
      PROVE  /\ 1 \in 1 .. n
             /\ \A i \in 1 .. n : Response(queue[i]) =>
                  queue[i].size = 1 /\ (q[n].size = 1 => queue[i].arg < q[n].arg)
             /\ q[n].size = 1 => count < q[n].arg
             /\ \A c \in Catalog : (q[n].size = 1 => c < q[n].arg) =>
                  c \in there \/ \E i \in 1 .. n : Response(queue[i]) /\ queue[i].arg = c
  <2>1. n + 1 \in DOMAIN queue /\ queue[n + 1] = q[n] /\ (n + 1) - 1 = n /\ 1 \in 1 .. n
    BY <1>1
  <2>2. Placed(queue, n + 1, count, there)
    BY <1>3, <2>1 DEF Lists
  <2> QED BY <2>1, <2>2 DEF Placed
<1>4. \A n \in DOMAIN q : \A i \in 1 .. n - 1 : i + 1 \in 1 .. n /\ queue[i + 1] = q[i]
  BY <1>1
<1>5. \A n \in DOMAIN q : \A i \in 1 .. n :
        i = 1 \/ (i - 1 \in 1 .. n - 1 /\ q[i - 1] = queue[i])
  BY <1>1
<1>6. 1 \in DOMAIN queue /\ queue[1] = h /\ 1 .. 1 - 1 = {}
  BY <1>1
<1>7. ASSUME ~Response(h)
      PROVE  Lists(q, count, there)
  <2> SUFFICES ASSUME NEW n \in DOMAIN q, Response(q[n])
               PROVE  Placed(q, n, count, there)
    BY DEF Lists
  <2>1. \A i \in 1 .. n : Response(queue[i]) => i - 1 \in 1 .. n - 1 /\ q[i - 1] = queue[i]
    BY <1>5, <1>7, <1>6
  <2> QED BY <1>3, <1>4, <2>1 DEF Placed
<1>8. ASSUME Response(h), h.size = 1
      PROVE  /\ count < h.arg
             /\ \A c \in Catalog : c < h.arg => c \in there
             /\ Lists(q, count + 1, there \cup {h.arg})
  <2>1. Placed(queue, 1, count, there)
    BY <1>8, <1>6 DEF Lists
  <2>2. count < h.arg /\ \A c \in Catalog : c < h.arg => c \in there
    BY <1>8, <1>6, <2>1 DEF Placed
  <2>3. ASSUME NEW n \in DOMAIN q, Response(q[n])
        PROVE  Placed(q, n, count + 1, there \cup {h.arg})
    <3>1. q[n] \in Message /\ q[n].arg \in Nat /\ h.arg \in Nat
      BY <1>1, <1>2 DEF Message
    <3>2. q[n].size = 1 => h.arg < q[n].arg
      BY <1>3, <1>8, <1>6, <2>3
    <3>3. q[n].size = 1 => count + 1 < q[n].arg
      BY <2>2, <3>1, <3>2
    <3>4. \A i \in 1 .. n - 1 : Response(q[i]) =>
            q[i].size = 1 /\ (q[n].size = 1 => q[i].arg < q[n].arg)
      BY <1>3, <1>4, <2>3
    <3>5. ASSUME NEW c \in Catalog, q[n].size = 1 => c < q[n].arg, c \notin there, c # h.arg
          PROVE  \E i \in 1 .. n - 1 : Response(q[i]) /\ q[i].arg = c
      <4>1. PICK i \in 1 .. n : Response(queue[i]) /\ queue[i].arg = c
        BY <1>3, <2>3, <3>5
      <4>2. i # 1
        BY <1>6, <3>5, <4>1
      <4> QED BY <1>5, <4>1, <4>2
    <3> QED BY <3>3, <3>4, <3>5 DEF Placed
  <2> QED BY <2>2, <2>3 DEF Lists
<1>9. ASSUME Response(h), h.size # 1
      PROVE  Catalog \subseteq there /\ ~Has(q, "CA_RP")
  <2>1. Placed(queue, 1, count, there)
    BY <1>9, <1>6 DEF Lists
  <2>2. Catalog \subseteq there
    BY <1>9, <1>6, <2>1 DEF Placed
  <2>3. ASSUME NEW n \in DOMAIN q, Response(q[n])
        PROVE  FALSE
    BY <1>3, <1>9, <1>6, <2>3
  <2> QED BY <2>2, <2>3 DEF Has, Response
<1> QED BY <1>7, <1>8, <1>9 DEF q, h

\* Where there is no response there is nothing to list.
LEMMA NoResponse ==
  ASSUME NEW queue, ~Has(queue, "CA_RP")
  PROVE  \A count, there : Lists(queue, count, there)
  BY DEF Lists, Has, Response

\* What the server answers to the request for the catalogs is a list.
LEMMA CatalogsInOrder ==
  ASSUME TypeOK, ServerCatalogs
  PROVE  \E more \in Seq(Message) :
           inbox' = inbox \o more /\ \A there : Lists(more, 0, there)
<1> DEFINE name(c) == Msg("CA_RP", c)
           end == Empty("CA_RP")
           other == Msg("PL_LI", 0)
           names == [c \in Catalog |-> name(c)]
           list == names \o <<end>>
           N == NumCatalogs
<1>1. /\ \A c \in Nat : name(c) \in Message /\ Response(name(c)) /\ name(c).size = 1
                        /\ name(c).arg = c
      /\ end \in Message /\ Response(end) /\ end.size = 0
      /\ other \in Message /\ ~Response(other)
  BY DEF Msg, Empty, Message, ServerTypes, Response
<1>2. N \in Nat /\ Catalog = 1 .. N
  BY ClientAssumption DEF Catalog
<1> HIDE DEF name, end, other, N
<1>3. /\ list \in Seq(Message) /\ Len(list) = N + 1 /\ DOMAIN list = 1 .. N + 1
      /\ \A n \in 1 .. N + 1 : list[n] = IF n <= N THEN name(n) ELSE end
  <2>1. names \in Seq(Message) /\ Len(names) = N /\ \A n \in 1 .. N : names[n] = name(n)
    BY <1>1, <1>2
  <2>2. <<end>> \in Seq(Message) /\ Len(<<end>>) = 1 /\ <<end>>[1] = end
    BY <1>1
  <2> HIDE DEF names
  <2>3. /\ list \in Seq(Message) /\ Len(list) = N + 1
        /\ \A n \in 1 .. N + 1 : list[n] = IF n <= N THEN names[n] ELSE <<end>>[n - N]
    BY <2>1, <2>2, ConcatProperties
  <2>4. \A n \in 1 .. N + 1 : n > N => n - N = 1
    BY <1>2
  <2>5. \A n \in 1 .. N + 1 : n <= N => n \in 1 .. N
    BY <1>2
  <2> HIDE DEF list
  <2> QED BY <2>1, <2>2, <2>3, <2>4, <2>5, LenProperties
<1> HIDE DEF list
<1>4. ASSUME NEW there
      PROVE  Lists(list, 0, there)
  <2> SUFFICES ASSUME NEW n \in 1 .. N + 1
               PROVE  Placed(list, n, 0, there)
    BY <1>3 DEF Lists
  <2>1. \A i \in 1 .. n - 1 : i \in 1 .. N /\ list[i] = name(i) /\ i < n
    BY <1>2, <1>3
  <2>2. CASE n <= N
    <3>1. list[n] = name(n) /\ n > 0
      BY <1>2, <1>3, <2>2
    <3>2. \A c \in Catalog : c < n => c \in 1 .. n - 1
      BY <1>2
    <3> QED BY <1>1, <1>2, <2>1, <2>2, <3>1, <3>2 DEF Placed
  <2>3. CASE n > N
    <3>1. list[n] = end /\ 1 .. n - 1 = Catalog
      BY <1>2, <1>3, <2>3
    <3> QED BY <1>1, <1>2, <2>1, <2>3, <3>1 DEF Placed
  <2> QED BY <1>2, <2>2, <2>3
<1>5. ASSUME NEW i \in Catalog
      PROVE  LET more == SubSeq(list, 1, i) \o <<other>> \o SubSeq(list, i + 1, Len(list))
             IN  more \in Seq(Message) /\ \A there : Lists(more, 0, there)
  <2> DEFINE front == SubSeq(list, 1, i)
             back == SubSeq(list, i + 1, Len(list))
             more == front \o <<other>> \o back
  <2>1. i \in 1 .. N /\ i \in 1 .. N + 1 /\ i + 1 \in 1 .. N + 1 /\ i \in Nat
    BY <1>2
  <2>2. /\ front \in Seq(Message) /\ Len(front) = i
        /\ \A n \in 1 .. i : front[n] = name(n)
    <3>1. /\ front \in Seq(Message)
          /\ Len(front) = IF 1 <= i THEN i - 1 + 1 ELSE 0
          /\ \A n \in 1 .. i - 1 + 1 : front[n] = list[1 + n - 1]
      BY <1>3, <2>1, SubSeqProperties
    <3>2. i - 1 + 1 = i /\ 1 <= i /\ \A n \in 1 .. i : 1 + n - 1 = n /\ n \in 1 .. N + 1 /\ n <= N
      BY <1>2
    <3> QED BY <1>3, <3>1, <3>2
  <2>3. /\ back \in Seq(Message) /\ Len(back) = N + 1 - i
        /\ \A n \in 1 .. N + 1 - i : back[n] = list[n + i]
    <3>1. /\ back \in Seq(Message)
          /\ Len(back) = IF i + 1 <= N + 1 THEN N + 1 - (i + 1) + 1 ELSE 0
          /\ \A n \in 1 .. N + 1 - (i + 1) + 1 : back[n] = list[i + 1 + n - 1]
      BY <1>2, <1>3, <2>1, SubSeqProperties
    <3>2. /\ N + 1 - (i + 1) + 1 = N + 1 - i /\ i + 1 <= N + 1
          /\ \A n \in 1 .. N + 1 - i : i + 1 + n - 1 = n + i
      BY <1>2
    <3> QED BY <3>1, <3>2
  <2>4. <<other>> \in Seq(Message) /\ Len(<<other>>) = 1 /\ <<other>>[1] = other
    BY <1>1
  <2> HIDE DEF front, back
  <2>5. /\ front \o <<other>> \in Seq(Message) /\ Len(front \o <<other>>) = i + 1
        /\ \A n \in 1 .. i + 1 : (front \o <<other>>)[n] = IF n <= i THEN name(n) ELSE other
    <3>1. \A n \in 1 .. i + 1 : n > i => n - i = 1
      BY <2>1
    <3>2. \A n \in 1 .. i + 1 : n <= i => n \in 1 .. i
      BY <2>1
    <3> QED BY <2>1, <2>2, <2>4, <3>1, <3>2, ConcatProperties
  <2>6. /\ more \in Seq(Message) /\ DOMAIN more = 1 .. N + 2
        /\ \A n \in 1 .. N + 2 :
             more[n] = IF n <= i THEN name(n)
                       ELSE IF n = i + 1 THEN other ELSE list[n - 1]
    <3> DEFINE start == front \o <<other>>
    <3>1. /\ more \in Seq(Message) /\ Len(more) = (i + 1) + (N + 1 - i)
          /\ \A n \in 1 .. (i + 1) + (N + 1 - i) :
               more[n] = IF n <= i + 1 THEN start[n] ELSE back[n - (i + 1)]
      <4> HIDE DEF start
      <4>1. more = start \o back
        BY DEF start
      <4>2. start \in Seq(Message) /\ Len(start) = i + 1
        BY <2>5 DEF start
      <4> HIDE DEF more
      <4>3. /\ start \o back \in Seq(Message) /\ Len(start \o back) = Len(start) + Len(back)
            /\ \A n \in 1 .. Len(start) + Len(back) :
                 (start \o back)[n] = IF n <= Len(start) THEN start[n] ELSE back[n - Len(start)]
        BY <2>3, <4>2, ConcatProperties
      <4> QED BY <2>3, <4>1, <4>2, <4>3
    <3>2. (i + 1) + (N + 1 - i) = N + 2
      BY <1>2
    <3>3. \A n \in 1 .. N + 2 : n > i + 1 =>
            n - (i + 1) \in 1 .. N + 1 - i /\ n - (i + 1) + i = n - 1
      BY <1>2, <2>1
    <3>4. \A n \in 1 .. N + 2 : n <= i + 1 => n \in 1 .. i + 1 /\ (n <= i \/ n = i + 1)
      BY <1>2, <2>1
    <3> HIDE DEF more
    <3> QED BY SMTT(60), <2>1, <2>3, <2>5, <3>1, <3>2, <3>3, <3>4, LenProperties
  <2> HIDE DEF more
  <2>7. ASSUME NEW n \in 1 .. N + 2, Response(more[n])
        PROVE  \/ n <= i /\ more[n] = name(n)
               \/ n > i + 1 /\ n <= N + 1 /\ more[n] = name(n - 1)
               \/ n = N + 2 /\ more[n] = end
    <3>1. n # i + 1
      BY <1>1, <2>1, <2>6, <2>7
    <3>2. CASE n > i + 1
      <4>1. n - 1 \in 1 .. N + 1 /\ (n - 1 <= N <=> n <= N + 1) /\ (n <= N + 1 \/ n = N + 2)
        BY <1>2, <2>1, <3>2
      <4> QED BY <1>3, <2>1, <2>6, <3>2, <4>1
    <3> QED BY <2>1, <2>6, <3>1, <3>2
  <2>8. ASSUME NEW there, NEW n \in 1 .. N + 2, Response(more[n])
        PROVE  Placed(more, n, 0, there)
    <3> DEFINE at(c) == IF c <= i THEN c ELSE c + 1
    <3>1. ASSUME NEW c \in Catalog
          PROVE  /\ at(c) \in 1 .. N + 1 /\ Response(more[at(c)]) /\ more[at(c)].arg = c
                 /\ \A b \in Catalog : b < c => at(b) < at(c)
      <4>1. CASE c <= i
        BY <1>1, <1>2, <2>1, <2>6, <4>1
      <4>2. CASE c > i
        <5>1. c + 1 \in 1 .. N + 2 /\ c + 1 > i + 1 /\ (c + 1) - 1 = c /\ c \in 1 .. N + 1 /\ c <= N
          BY <1>2, <2>1, <4>2
        <5>2. more[c + 1] = name(c)
          BY <1>3, <2>1, <2>6, <5>1
        <5> QED BY <1>1, <1>2, <2>1, <4>2, <5>1, <5>2
      <4> QED BY <1>2, <2>1, <4>1, <4>2
    <3>2. ASSUME NEW k \in 1 .. N + 1, Response(more[k])
          PROVE  \E c \in Catalog : k = at(c) /\ more[k] = name(c)
      <4>1. k \in 1 .. N + 2 /\ k # N + 2
        BY <1>2
      <4>2. CASE k <= i
        BY <1>2, <2>1, <2>7, <3>2, <4>1, <4>2
      <4>3. CASE k > i + 1
        <5>1. k - 1 \in Catalog /\ k = at(k - 1)
          BY <1>2, <2>1, <4>3
        <5> QED BY <2>1, <2>7, <3>2, <4>1, <4>3, <5>1
      <4> QED BY <2>1, <2>7, <3>2, <4>1, <4>2, <4>3
    <3>3. CASE n \in 1 .. N + 1
      <4>1. PICK c \in Catalog : n = at(c) /\ more[n] = name(c)
        BY <2>8, <3>2, <3>3
      <4>2. more[n].size = 1 /\ more[n].arg = c /\ 0 < c
        BY <1>1, <1>2, <4>1
      <4>3. ASSUME NEW k \in 1 .. n - 1, Response(more[k])
            PROVE  more[k].size = 1 /\ more[k].arg < c
        <5>1. k \in 1 .. N + 1 /\ k < n
          BY <1>2, <3>3
        <5>2. PICK b \in Catalog : k = at(b) /\ more[k] = name(b)
          BY <3>2, <4>3, <5>1
        <5>3. b < c
          BY <1>2, <2>1, <4>1, <5>1, <5>2
        <5> QED BY <1>1, <1>2, <5>2, <5>3
      <4>4. ASSUME NEW b \in Catalog, b < c
            PROVE  \E k \in 1 .. n - 1 : Response(more[k]) /\ more[k].arg = b
        <5>1. at(b) \in 1 .. N + 1 /\ at(b) < n /\ Response(more[at(b)]) /\ more[at(b)].arg = b
          BY <3>1, <4>1, <4>4
        <5>2. at(b) \in 1 .. n - 1
          BY <1>2, <3>3, <5>1
        <5> QED BY <5>1, <5>2
      <4> QED BY <4>2, <4>3, <4>4 DEF Placed
    <3>4. CASE n = N + 2
      <4>1. more[n] = end /\ n - 1 = N + 1
        BY <1>2, <2>1, <2>7, <2>8, <3>4
      <4>2. \A k \in 1 .. n - 1 : Response(more[k]) => more[k].size = 1
        BY <1>1, <1>2, <3>2, <4>1
      <4>3. \A c \in Catalog : \E k \in 1 .. n - 1 : Response(more[k]) /\ more[k].arg = c
        BY <3>1, <4>1
      <4> QED BY <1>1, <4>1, <4>2, <4>3 DEF Placed
    <3> QED BY <1>2, <3>3, <3>4
  <2>9. more \in Seq(Message) /\ \A there : Lists(more, 0, there)
    BY <2>6, <2>8 DEF Lists
  <2> QED BY <2>9 DEF more, front, back
<1>6. \/ inbox' = inbox \o list
      \/ \E i \in Catalog :
           inbox' = inbox \o (SubSeq(list, 1, i) \o <<other>> \o SubSeq(list, i + 1, Len(list)))
  BY DEF ServerCatalogs, Reply, list, name, end, other
<1> QED BY <1>3, <1>4, <1>5, <1>6

PrepStep ==
  Playing' => /\ AskInv' /\ Showing'
              /\ Reading' => Lists(Responses, counter, listed)' /\ Hand'

\* A player who plays has not stopped before.
LEMMA PlayingBefore ==
  ASSUME [Next]_vars, Playing'
  PROVE  Playing
<1>1. ~closeOnEnd
  BY ClosedForGood DEF Playing
<1>2. CASE Connect
  BY <1>1, <1>2 DEF Connect, At, Playing
<1>3. CASE ~Connect
  BY <1>1, <1>3, OnlyMainConnects DEF Playing
<1> QED BY <1>2, <1>3

\* A step that asks for no catalogs leaves no more requests.
LEMMA NotAsked ==
  ASSUME TypeOK, AskInv, NEW f \in Frame, f.type # "CA_RQ",
         \/ outbox' \in {outbox, Append(outbox, f)}
         \/ outbox # <<>> /\ outbox' = Tail(outbox)
         \/ Len(outbox) > 1 /\ outbox' = Tail(Tail(outbox))
  PROVE  (Asked' => Asked) /\ Count(outbox', "CA_RQ") <= 1
<1>1. outbox \in Seq(Frame) /\ Count(outbox, "CA_RQ") \in Nat /\ Count(outbox, "CA_RQ") <= 1
  BY CountLeft DEF TypeOK, NetTypeOK, AskInv
<1>2. CASE outbox' = outbox
  BY <1>1, <1>2 DEF Asked
<1>3. CASE outbox' = Append(outbox, f)
  <2>1. Has(Append(outbox, f), "CA_RQ") => Has(outbox, "CA_RQ")
    BY <1>1, HasEnds
  <2>2. Count(Append(outbox, f), "CA_RQ") = Count(outbox, "CA_RQ")
    BY <1>1, CountLeft
  <2> QED BY <1>1, <1>3, <2>1, <2>2 DEF Asked
<1>4. CASE outbox # <<>> /\ outbox' = Tail(outbox)
  <2>1. Has(Tail(outbox), "CA_RQ") => Has(outbox, "CA_RQ")
    BY <1>1, <1>4, FramesLeft
  <2>2. Count(Tail(outbox), "CA_RQ") <= 1
    <3>1. Tail(outbox) \in Seq(Frame)
      BY <1>1, <1>4, FramesLeft
    <3>2. Count(Tail(outbox), "CA_RQ") \in Nat
      BY <3>1, CountLeft
    <3>3. Count(Tail(outbox), "CA_RQ") <= Count(outbox, "CA_RQ")
      BY <1>1, <1>4, CountLeft
    <3> QED BY <1>1, <3>2, <3>3
  <2> QED BY <1>4, <2>1, <2>2 DEF Asked
<1>5. CASE Len(outbox) > 1 /\ outbox' = Tail(Tail(outbox))
  <2>1. Has(Tail(Tail(outbox)), "CA_RQ") => Has(outbox, "CA_RQ")
    BY <1>1, <1>5, FramesLeft
  <2>2. Count(Tail(Tail(outbox)), "CA_RQ") <= 1
    <3>1. Tail(Tail(outbox)) \in Seq(Frame)
      <4>1. outbox # <<>> /\ Tail(outbox) # <<>>
        BY <1>1, <1>5, TwoFrames
      <4> QED BY <1>1, <4>1, FramesLeft
    <3>2. Count(Tail(Tail(outbox)), "CA_RQ") \in Nat
      BY <3>1, CountLeft
    <3>3. Count(Tail(Tail(outbox)), "CA_RQ") <= Count(outbox, "CA_RQ")
      BY <1>1, <1>5, CountLeft
    <3> QED BY <1>1, <3>2, <3>3
  <2> QED BY <1>5, <2>1, <2>2 DEF Asked
<1> QED BY <1>2, <1>3, <1>4, <1>5

\* A step that asks for none, lists none and counts none.
LEMMA AskKept ==
  ASSUME TypeOK, AskInv, pc'["main"] \in BeforeList => pc["main"] \in BeforeList,
         NEW f \in Frame, f.type # "CA_RQ",
         \/ outbox' \in {outbox, Append(outbox, f)}
         \/ outbox # <<>> /\ outbox' = Tail(outbox)
         \/ Len(outbox) > 1 /\ outbox' = Tail(Tail(outbox)),
         Listing' => Listing, counter' \in {counter, 0}
  PROVE  AskInv'
<1>1. (Asked' => Asked) /\ Count(outbox', "CA_RQ") <= 1
  BY NotAsked
<1> QED BY <1>1 DEF AskInv

\* A step that leaves the listener where it is, or among what is not about a message.
LEMMA OthersPrep ==
  ASSUME TypeOK, PrepInv, Playing, UNCHANGED <<inbox, msg, hdr, counter, listed>>,
         pc'["main"] \in BeforeList => pc["main"] \in BeforeList,
         NEW f \in Frame, f.type # "CA_RQ", outbox' \in {outbox, Append(outbox, f)},
         \/ pc'["listener"] = pc["listener"]
         \/ /\ {pc["listener"], pc'["listener"]} \cap {"size", "case", "gui"} = {}
            /\ pc["listener"] \in InError => pc'["listener"] \in InError
  PROVE  PrepStep
<1>1. \A type : Carries(type)' <=> Carries(type)
  BY DEF Carries
<1>2. (Torn' <=> Torn) /\ (Reading' => Reading)
  BY <1>1 DEF Torn, Reading
<1>3. Listing' => Listing
  BY <1>1 DEF Listing, Has
<1>4. AskInv'
  BY <1>3, AskKept DEF PrepInv
<1>5. Showing'
  BY DEF PrepInv, Showing, AddsCatalog, Listable
<1>6. Responses' = Responses
  BY <1>1 DEF Responses
<1>7. Lists(Responses, counter, listed) => Lists(Responses, counter, listed)'
  BY <1>6 DEF Lists, Placed, Response
<1>8. Hand => Hand'
  BY <1>1 DEF Hand, AddsCatalog, Response, Carries
<1> QED BY <1>2, <1>4, <1>5, <1>7, <1>8 DEF PrepInv, PrepStep

\* A step of the listener that carries no response before nor after it.
LEMMA NoneCarried ==
  ASSUME TypeOK, PrepInv, Playing, UNCHANGED <<inbox, listed>>, counter' \in {counter, 0},
         pc'["main"] = pc["main"], NEW f \in Frame, f.type # "CA_RQ",
         outbox' \in {outbox, Append(outbox, f)},
         ~Carries("CA_RP"), ~Carries("RAW"), pc["listener"] \notin InError,
         pc'["listener"] \notin {"size", "case"},
         pc'["listener"] = "gui" => hdr'.type # "CA_RP"
  PROVE  PrepStep
<1>1. ~Carries("CA_RP")'
  BY DEF Carries
<1>2. Listing' => Listing
  BY <1>1 DEF Listing, Has
<1>3. AskInv' /\ Showing'
  BY <1>2, AskKept DEF PrepInv, Showing
<1>4. Reading' => Reading
  BY DEF Reading, Torn
<1>5. Responses = inbox /\ Responses' = inbox
  BY <1>1 DEF Responses
<1>6. Lists(inbox, counter, listed) => Lists(inbox, counter', listed)
  <2>1. inbox \in Seq(Message) /\ counter \in Nat /\ 0 <= counter
    BY DEF TypeOK, NetTypeOK, LiTypeOK
  <2> QED BY <2>1, ListsKept
<1>7. Lists(inbox, counter', listed) => Lists(Responses, counter, listed)'
  BY <1>5 DEF Lists, Placed, Response
<1> QED BY <1>1, <1>3, <1>4, <1>5, <1>6, <1>7 DEF PrepInv, PrepStep, Hand

\* main asks for the catalogs once.
LEMMA MainPrep ==
  ASSUME GuiInv, PrepInv, Playing, MainNext
  PROVE  PrepStep
<1> USE DEF At
<1>1. /\ TypeOK /\ CtlTypeOK /\ ~closeOnEnd /\ outbox \in Seq(Frame)
      /\ UNCHANGED <<inbox, msg, hdr, counter, listed>>
  BY DEF GuiInv, TypeOK, NetTypeOK, Playing, MainNext, Connect, CreateListener, SendLogin,
         WaitLogin, CreateGui, SendCatalogRequest, WaitStart, SendQuestionRequest, WaitEnd,
         MainWrites, MainWaits, OnlyControl, liVars, guiVars, prepVars, netVars
<1>2. \A type \in {"LG_RQ", "CA_RQ", "QU_RQ"} :
        Frm(type, 0) \in Frame /\ Frm(type, 0).type = type
  BY DEF Frm, Frame, FrameTypes
<1>3. \/ pc'["listener"] = pc["listener"]
      \/ pc["listener"] = "none" /\ pc'["listener"] = "type"
  <2>1. CASE CreateListener
    <3>1. pc["listener"] = "none"
      BY <2>1 DEF CreateListener, GuiInv, StartInv, BeforeLogin
    <3> QED BY <1>1, <2>1, <3>1 DEF CreateListener, End, CtlTypeOK, Threads
  <2>2. CASE CreateGui
    BY <1>1, <2>2 DEF CreateGui, End, CtlTypeOK, Threads
  <2>3. CASE ~CreateListener /\ ~CreateGui
    <3>1. \/ \E next : Continue("main", next)
          \/ \E how : End(how)
          \/ \E frame, next : Write("main", frame, next)
      BY <2>3
      DEF MainNext, Connect, SendLogin, WaitLogin, SendCatalogRequest, WaitStart,
          SendQuestionRequest, WaitEnd, MainWrites, MainWaits
    <3> QED BY <1>1, <3>1, WriteMoves DEF Continue, Goto, End, CtlTypeOK, Threads
  <2> QED BY <2>1, <2>2, <2>3
<1>4. ASSUME NEW label, NEW type, NEW next, MainWrites(label, type, next)
      PROVE  /\ pc["main"] = label /\ pc'["main"] \in {label, next, "errDialog"}
             /\ outbox' = outbox \/ outbox' = Append(outbox, Frm(type, 0))
             /\ outbox' # outbox => pc'["main"] = next
  <2>1. pc["main"] = label /\ Write("main", Frm(type, 0), next)
    BY <1>4 DEF MainWrites
  <2>2. pc'["main"] \in {label, next, "errDialog"}
    BY <1>1, <2>1, WriteMoves DEF Threads
  <2>3. ASSUME outbox' # outbox
        PROVE  pc'["main"] = next
    BY <1>1, <2>1, <2>3 DEF Write, Continue, Goto, CtlTypeOK, Threads
  <2> QED BY <2>1, <2>2, <2>3, WriteAppends
<1>5. CASE SendCatalogRequest
  <2>1. /\ pc["main"] = "catalogs" /\ pc'["main"] \in {"catalogs", "waitStart", "errDialog"}
        /\ outbox' = outbox \/ outbox' = Append(outbox, Frm("CA_RQ", 0))
        /\ outbox' # outbox => pc'["main"] = "waitStart"
    BY <1>4, <1>5 DEF SendCatalogRequest
  <2>2. CASE outbox' = outbox
    <3>1. pc["main"] \in BeforeList
      BY <2>1 DEF BeforeList
    <3>2. Frm("LG_RQ", 0).type # "CA_RQ"
      BY <1>2
    <3> QED BY <1>1, <1>2, <1>3, <2>2, <3>1, <3>2, OthersPrep DEF InError
  <2>3. CASE outbox' # outbox
    <3>1. AskInv /\ ~Asked /\ ~Listing /\ counter = 0
      BY <2>1 DEF PrepInv, AskInv, BeforeList
    <3>2. AskInv'
      <4>1. Count(outbox, "CA_RQ") = 0
        BY <3>1, CountFew DEF Asked, Has
      <4>2. Count(outbox', "CA_RQ") = Count(outbox, "CA_RQ") + 1
        <5> DEFINE f == Frm("CA_RQ", 0)
        <5>1. f \in Frame /\ f.type = "CA_RQ" /\ outbox' = Append(outbox, f)
          BY <1>2, <2>1, <2>3
        <5> HIDE DEF f
        <5>2. Count(Append(outbox, f), "CA_RQ") = Count(outbox, "CA_RQ") + One(f.type = "CA_RQ")
          BY <1>1, <5>1, CountAppend
        <5>3. One(f.type = "CA_RQ") = 1
          BY <5>1 DEF One
        <5> QED BY <5>1, <5>2, <5>3
      <4>3. Count(outbox', "CA_RQ") <= 1
        BY <4>1, <4>2
      <4>4. ~Listing' /\ counter' = 0
        BY <1>1, <1>3, <3>1 DEF Listing, Has, Carries
      <4>5. pc'["main"] \notin BeforeList
        BY <2>1, <2>3 DEF BeforeList, InLogin, Early
      <4> QED BY <4>3, <4>4, <4>5 DEF AskInv
    <3>3. \A type : Carries(type)' <=> Carries(type)
      BY <1>1, <1>3 DEF Carries
    <3>4. /\ Showing' /\ (Reading' => Reading) /\ Responses' = Responses
          /\ Hand => Hand'
      BY <1>1, <1>3, <3>3
      DEF PrepInv, Showing, AddsCatalog, Listable, Reading, Torn, InError, Responses, Hand,
          Response, Carries
    <3>5. Lists(Responses, counter, listed) => Lists(Responses, counter, listed)'
      BY <1>1, <3>4 DEF Lists, Placed, Response
    <3> QED BY <3>2, <3>4, <3>5 DEF PrepInv, PrepStep
  <2> QED BY <2>2, <2>3
<1>6. CASE ~SendCatalogRequest
  <2>1. \E f \in Frame : f.type # "CA_RQ" /\ outbox' \in {outbox, Append(outbox, f)}
    <3>1. outbox' = outbox \/ \E type \in {"LG_RQ", "QU_RQ"} : outbox' = Append(outbox, Frm(type, 0))
      BY <1>4, <1>6
      DEF MainNext, Connect, CreateListener, SendLogin, WaitLogin, CreateGui, WaitStart,
          SendQuestionRequest, WaitEnd, MainWaits, OnlyControl, netVars
    <3> QED BY <1>2, <3>1
  <2>2. ASSUME NEW next, Continue("main", next)
        PROVE  pc'["main"] = next
    BY <1>1, <2>2 DEF Continue, Goto, CtlTypeOK, Threads
  <2>3. ASSUME NEW how, End(how)
        PROVE  pc'["main"] = pc["main"]
    BY <2>3 DEF End
  <2>4. pc'["main"] \in BeforeList => pc["main"] \in BeforeList
    <3>1. CASE Connect \/ CreateListener \/ WaitLogin \/ CreateGui
      BY <3>1 DEF Connect, CreateListener, WaitLogin, MainWaits, CreateGui, BeforeList, InLogin,
                  Early
    <3>2. CASE WaitStart \/ WaitEnd
      BY <2>2, <2>3, <3>2 DEF WaitStart, MainWaits, WaitEnd, BeforeList, InLogin, Early
    <3>3. CASE SendLogin \/ SendQuestionRequest
      BY <1>4, <3>3 DEF SendLogin, SendQuestionRequest, BeforeList, InLogin, Early
    <3> QED BY <1>6, <3>1, <3>2, <3>3 DEF MainNext
  <2> QED BY <1>1, <1>3, <2>1, <2>4, OthersPrep DEF InError
<1> QED BY <1>5, <1>6

\* How a read of the listener ends until a window is closed.
LEMMA ReadEnds ==
  ASSUME CtlTypeOK, ~closeOnEnd, NEW next, Read(next) \/ ReadPayload(next)
  PROVE  /\ pc'["main"] = pc["main"]
         /\ \/ pc'["listener"] = next /\ msg' = msg
            \/ pc'["listener"] = "errDialog" /\ msg' = NoMsg
            \/ proc' # "running"
<1>1. ASSUME Continue("listener", next)
      PROVE  pc'["main"] = pc["main"] /\ pc'["listener"] = next
  BY <1>1 DEF Continue, Goto, CtlTypeOK, Threads
<1>2. ASSUME NEW ret, TestErrors("listener", ret, next)
      PROVE  pc'["main"] = pc["main"] /\ (pc'["listener"] = "errDialog" \/ proc' # "running")
  BY <1>2 DEF TestErrors, End, Goto, CtlTypeOK, Threads
<1>3. CASE Read(next)
  BY <1>1, <1>2, <1>3 DEF Read
<1>4. CASE ReadPayload(next)
  BY <1>1, <1>3, <1>4 DEF ReadPayload, Skip
<1> QED BY <1>3, <1>4

\* A read that fails leaves nobody to list.
LEMMA FailedPrep ==
  ASSUME TypeOK, PrepInv, Playing, pc'["main"] = pc["main"], pc'["listener"] = "errDialog",
         inbox' \in {inbox, <<>>}, outbox' = outbox, counter' \in {counter, 0}
  PROVE  PrepStep
<1>1. ~Reading' /\ Showing'
  BY DEF Reading, InError, Showing
<1>2. Listing' => Listing
  BY DEF Listing, Has, Carries
<1>3. \E f \in Frame : f.type # "CA_RQ"
  <2>1. Frm("LG_RQ", 0) \in Frame /\ Frm("LG_RQ", 0).type # "CA_RQ"
    BY DEF Frm, Frame, FrameTypes
  <2> QED BY <2>1
<1>4. AskInv'
  BY <1>2, <1>3, AskKept DEF PrepInv
<1> QED BY <1>1, <1>4 DEF PrepStep

\* The type of the next message is read, and with it the message taken.
LEMMA ReadTypePrep ==
  ASSUME GuiInv, PrepInv, Playing, ReadType
  PROVE  PrepStep
<1> USE DEF At
<1> SUFFICES ASSUME Playing'
             PROVE  PrepStep
  BY DEF PrepStep
<1>1. /\ TypeOK /\ CtlTypeOK /\ ~closeOnEnd /\ pc["listener"] = "inType" /\ proc' = "running"
      /\ inbox \in Seq(Message) /\ hdr \in [type : ServerTypes, size : {0, 1}]
      /\ counter \in Nat /\ UNCHANGED <<counter, listed, outbox>>
  BY DEF GuiInv, TypeOK, NetTypeOK, LiTypeOK, Playing, ReadType, InThread, guiVars, prepVars
<1>2. CASE /\ msg' = NoMsg /\ inbox' = <<>>
           /\ \E ret \in {0, -1} : TestErrors("listener", ret, "size")
  <2>1. pc'["main"] = pc["main"] /\ pc'["listener"] = "errDialog"
    BY <1>1, <1>2 DEF TestErrors, End, Goto, CtlTypeOK, Threads
  <2> QED BY <1>1, <1>2, <2>1, FailedPrep
<1>3. CASE /\ inbox # <<>> /\ msg' = Head(inbox) /\ inbox' = Tail(inbox)
           /\ hdr' = [hdr EXCEPT !.type = Head(inbox).type]
           /\ Continue("listener", "size")
  <2>1. /\ pc'["listener"] = "size" /\ pc'["main"] = pc["main"] /\ hdr'.type = Head(inbox).type
        /\ Head(inbox) \in Message /\ Tail(inbox) \in Seq(Message)
        /\ \A type : ~Carries(type) /\ (Carries(type)' <=> Head(inbox).type = type)
    BY <1>1, <1>3, HeadTailProperties DEF Continue, Goto, CtlTypeOK, Threads, Carries
  <2>2. Listing' => Listing
    <3>1. Has(inbox, "CA_RP") <=> Head(inbox).type = "CA_RP" \/ Has(Tail(inbox), "CA_RP")
      BY <1>1, <1>3, HasEnds
    <3> QED BY <1>3, <2>1, <3>1 DEF Listing, Has
  <2>3. AskInv' /\ Showing'
    <3>1. \E f \in Frame : f.type # "CA_RQ"
      <4>1. Frm("LG_RQ", 0) \in Frame /\ Frm("LG_RQ", 0).type # "CA_RQ"
        BY DEF Frm, Frame, FrameTypes
      <4> QED BY <4>1
    <3>2. AskInv'
      BY <1>1, <2>1, <2>2, <3>1, AskKept DEF PrepInv
    <3> QED BY <2>1, <3>2 DEF Showing
  <2>4. Reading' => Reading
    BY <1>1, <1>3, <2>1 DEF Reading, Torn, InError
  <2>5. Hand'
    BY <1>1, <1>3, <2>1 DEF Hand, Response
  <2>6. Responses = inbox /\ Responses' \in {inbox, Tail(inbox)}
        /\ (Response(Head(inbox)) => Responses' = inbox)
    BY <1>1, <1>3, <2>1, ConcatProperties, HeadTailProperties DEF Responses, Response
  <2>7. Lists(inbox, counter, listed) => Lists(Responses', counter, listed)
    BY <1>1, <1>3, <2>6, ListTaken
  <2>8. Lists(Responses', counter, listed) => Lists(Responses, counter, listed)'
    BY <1>1 DEF Lists, Placed, Response
  <2> QED BY <2>3, <2>4, <2>5, <2>6, <2>7, <2>8 DEF PrepInv, PrepStep
<1> QED BY <1>2, <1>3 DEF ReadType

\* The size is read of the message in hand.
LEMMA ReadSizePrep ==
  ASSUME GuiInv, PrepInv, Playing, ReadSize
  PROVE  PrepStep
<1> USE DEF At
<1> SUFFICES ASSUME Playing'
             PROVE  PrepStep
  BY DEF PrepStep
<1>1. /\ TypeOK /\ CtlTypeOK /\ ~closeOnEnd /\ pc["listener"] = "size" /\ proc' = "running"
      /\ inbox \in Seq(Message) /\ hdr \in [type : ServerTypes, size : {0, 1}]
      /\ UNCHANGED <<counter, listed, outbox, inbox>>
      /\ hdr' = IF msg' # NoMsg THEN [hdr EXCEPT !.size = msg.size] ELSE hdr
  BY DEF GuiInv, TypeOK, NetTypeOK, LiTypeOK, Playing, ReadSize, InThread, guiVars, prepVars,
         netVars
<1>2. /\ pc'["main"] = pc["main"]
      /\ \/ pc'["listener"] = "case" /\ msg' = msg
         \/ pc'["listener"] = "errDialog"
  BY <1>1, ReadEnds DEF ReadSize
<1>3. CASE pc'["listener"] = "errDialog"
  BY <1>1, <1>2, <1>3, FailedPrep
<1>4. CASE pc'["listener"] = "case" /\ msg' = msg
  <2>1. hdr'.type = hdr.type /\ \A type : Carries(type)' <=> Carries(type)
    BY <1>1, <1>4 DEF Carries
  <2>2. Listing' => Listing
    BY <1>1, <2>1 DEF Listing, Has
  <2>3. AskInv' /\ Showing'
    <3>1. \E f \in Frame : f.type # "CA_RQ"
      <4>1. Frm("LG_RQ", 0) \in Frame /\ Frm("LG_RQ", 0).type # "CA_RQ"
        BY DEF Frm, Frame, FrameTypes
      <4> QED BY <4>1
    <3>2. AskInv'
      BY <1>1, <1>2, <2>2, <3>1, AskKept DEF PrepInv
    <3> QED BY <1>4, <3>2 DEF Showing
  <2>4. (Reading' => Reading) /\ Responses' = Responses
    BY <1>1, <1>4, <2>1 DEF Reading, Torn, InError, Responses
  <2>5. Hand => Hand'
    <3>1. Carries("CA_RP")' /\ Hand => msg # NoMsg
      BY <2>1 DEF Hand, Response, NoMsg
    <3>2. Carries("CA_RP")' /\ Hand => hdr'.size = msg.size
      BY <1>1, <1>4, <3>1
    <3> QED BY <1>4, <2>1, <3>2 DEF Hand, Response
  <2>6. Lists(Responses, counter, listed) => Lists(Responses, counter, listed)'
    BY <1>1, <2>4 DEF Lists, Placed, Response
  <2> QED BY <2>3, <2>4, <2>5, <2>6 DEF PrepInv, PrepStep
<1> QED BY <1>2, <1>3, <1>4

\* While a response is in hand nobody is to ask for the catalogs.
LEMMA AskedAlready ==
  ASSUME AskInv, Carries("CA_RP"), outbox' = outbox, pc'["main"] = pc["main"]
  PROVE  AskInv'
<1>1. pc["main"] \notin BeforeList /\ ~Asked
  BY DEF AskInv, Listing
<1> QED BY <1>1 DEF AskInv, Asked

\* What is listed after a step.
LEMMA ListsAfter == Lists(Responses', counter', listed') => Lists(Responses, counter, listed)'
  BY DEF Lists, Placed, Response

\* A response is taken: its name read up to the limit, and left in the stream past it.
LEMMA ReceiveCatalogPrep ==
  ASSUME GuiInv, PrepInv, Playing, ReceiveCatalog
  PROVE  PrepStep
<1> USE DEF At
<1> SUFFICES ASSUME Playing'
             PROVE  PrepStep
  BY DEF PrepStep
<1>1. /\ TypeOK /\ CtlTypeOK /\ ~closeOnEnd /\ pc["listener"] = "case" /\ proc' = "running"
      /\ inbox \in Seq(Message) /\ msg \in Message /\ hdr.type = "CA_RP" /\ counter \in Nat
      /\ MaxCatalogs \in Nat /\ UNCHANGED <<hdr, listed, outbox>>
  BY ClientAssumption
  DEF GuiInv, TypeOK, NetTypeOK, LiTypeOK, Playing, ReceiveCatalog, Case, InThread, guiVars,
      prepVars
<1>2. /\ Carries("CA_RP") /\ ~Carries("RAW") /\ Reading
      /\ Responses = <<msg>> \o inbox
  BY <1>1 DEF Carries, Reading, Torn, Responses, InError
<1>3. /\ AskInv /\ Response(msg) /\ hdr.size = msg.size
      /\ Lists(<<msg>> \o inbox, counter, listed)
  BY <1>1, <1>2 DEF PrepInv, Hand
<1>4. msg # NoMsg
  BY <1>3 DEF Response, NoMsg
<1>5. /\ msg.size = 1 => counter < msg.arg /\ \A c \in Catalog : c < msg.arg => c \in listed
      /\ msg.size # 1 => Catalog \subseteq listed /\ ~Has(inbox, "CA_RP")
  <2> DEFINE q == <<msg>> \o inbox
  <2>1. q \in Seq(Message) /\ q # <<>> /\ Head(q) = msg /\ Tail(q) = inbox
    <3>1. <<msg>> \in Seq(Message) /\ <<msg>> # <<>> /\ Head(<<msg>>) = msg
      BY <1>1
    <3> QED BY <1>1, <3>1, ConcatProperties
  <2>2. Lists(q, counter, listed)
    BY <1>3
  <2> HIDE DEF q
  <2> QED BY <1>1, <1>3, <2>1, <2>2, ListTaken
<1>6. /\ msg.size \in {0, 1} /\ msg.arg \in Nat
      /\ msg.size = 1 /\ MaxCatalogs <= counter => Listable \subseteq listed
      /\ msg.size # 1 => Listable \subseteq listed
  <2>1. msg.size \in {0, 1} /\ msg.arg \in Nat
    BY <1>1 DEF Message
  <2>2. ASSUME msg.size = 1, MaxCatalogs <= counter, NEW c \in Listable
        PROVE  c \in listed
    <3>1. c \in Catalog /\ c \in Int /\ c <= MaxCatalogs
      BY DEF Listable, Catalog
    <3>2. c < msg.arg
      BY <1>1, <1>5, <2>1, <2>2, <3>1
    <3> QED BY <1>5, <2>2, <3>1, <3>2
  <2> QED BY <1>5, <2>1, <2>2 DEF Listable
<1>7. CASE counter < MaxCatalogs /\ ReadPayload("gui") /\ UNCHANGED <<counter, inbox>>
  <2>1. /\ pc'["main"] = pc["main"]
        /\ \/ pc'["listener"] = "gui" /\ msg' = msg
           \/ pc'["listener"] = "errDialog"
    BY <1>1, <1>7, ReadEnds
  <2>2. CASE pc'["listener"] = "errDialog"
    BY <1>1, <1>7, <2>1, <2>2, FailedPrep
  <2>3. CASE pc'["listener"] = "gui" /\ msg' = msg
    <3>1. AskInv'
      BY <1>1, <1>2, <1>3, <2>1, AskedAlready
    <3>2. hdr.size = 0 => Listable \subseteq listed
      BY <1>3, <1>6
    <3>3. Showing'
      BY <1>1, <1>7, <3>2 DEF Showing, AddsCatalog, Listable
    <3>4. Carries("CA_RP")' /\ Responses' = <<msg>> \o inbox
      BY <1>1, <1>7, <2>3 DEF Carries, Responses
    <3>5. Lists(Responses, counter, listed)'
      <4>1. Lists(Responses', counter', listed')
        BY <1>1, <1>3, <1>7, <3>4
      <4> QED BY <4>1, ListsAfter
    <3>6. Hand'
      BY <1>1, <1>3, <1>7, <2>3 DEF Hand, AddsCatalog, Response
    <3> QED BY <3>1, <3>3, <3>5, <3>6 DEF PrepStep
  <2> QED BY <2>1, <2>2, <2>3
<1>8. CASE /\ counter >= MaxCatalogs
           /\ Skip(IF counter = MaxCatalogs THEN "gui" ELSE "type")
           /\ inbox' = IF hdr.size # 0 /\ msg # NoMsg THEN <<Raw>> \o inbox ELSE inbox
           /\ counter' = IF counter = MaxCatalogs THEN counter ELSE MaxCatalogs + 1
  <2>1. /\ pc'["main"] = pc["main"] /\ msg' = msg /\ MaxCatalogs <= counter
        /\ pc'["listener"] = IF counter = MaxCatalogs THEN "gui" ELSE "type"
    BY <1>1, <1>8 DEF Skip, Continue, Goto, CtlTypeOK, Threads
  <2>2. AskInv'
    BY <1>1, <1>2, <1>3, <2>1, AskedAlready
  <2>3. Showing'
    <3>1. Listable \subseteq listed
      BY <1>6, <2>1
    <3> QED BY <1>1, <3>1 DEF Showing, Listable
  <2>4. ASSUME Reading'
        PROVE  hdr.size = 0 /\ inbox' = inbox
    <3>1. <<Raw>> \o inbox # <<>> /\ Head(<<Raw>> \o inbox).type = "RAW"
      <4>1. <<Raw>> \in Seq(Message) /\ <<Raw>> # <<>> /\ Head(<<Raw>>) = Raw /\ Raw.type = "RAW"
        BY MessageTyped DEF Raw
      <4> QED BY <1>1, <4>1, ConcatProperties
    <3>2. ~(inbox' = <<Raw>> \o inbox)
      BY <2>1, <2>4, <3>1 DEF Reading, Torn
    <3> QED BY <1>4, <1>8, <3>2
  <2>5. CASE counter = MaxCatalogs
    <3>1. ASSUME Reading'
          PROVE  Lists(Responses, counter, listed)' /\ Hand'
      <4>1. Carries("CA_RP")' /\ Responses' = <<msg>> \o inbox
        BY <1>1, <2>1, <2>4, <2>5, <3>1 DEF Carries, Responses
      <4>2. Lists(Responses, counter, listed)'
        <5>1. Lists(Responses', counter', listed')
          BY <1>1, <1>3, <1>8, <2>5, <4>1
        <5> QED BY <5>1, ListsAfter
      <4>3. Hand'
        BY <1>1, <1>3, <2>1, <2>4, <3>1 DEF Hand, Response
      <4> QED BY <4>2, <4>3
    <3> QED BY <2>2, <2>3, <3>1 DEF PrepStep
  <2>6. CASE counter # MaxCatalogs
    <3>1. ASSUME Reading'
          PROVE  Lists(Responses, counter, listed)' /\ Hand'
      <4>1. ~Carries("CA_RP")' /\ Responses' = inbox
        BY <2>1, <2>4, <2>6, <3>1 DEF Carries, Responses
      <4>2. ~Has(Responses', "CA_RP")
        BY <1>3, <1>5, <1>6, <2>4, <3>1, <4>1
      <4>3. Lists(Responses', counter', listed')
        BY <4>2, NoResponse
      <4>4. Lists(Responses, counter, listed)'
        BY <4>3, ListsAfter
      <4> QED BY <4>1, <4>4 DEF Hand
    <3> QED BY <2>2, <2>3, <3>1 DEF PrepStep
  <2> QED BY <2>5, <2>6
<1> QED BY <1>7, <1>8 DEF ReceiveCatalog

\* The other reads of the listener, and its waits, carry no response.
LEMMA ListenerReadsPrep ==
  ASSUME GuiInv, RoundInv, PrepInv, Playing, ListenerReads
  PROVE  PrepStep
<1> USE DEF At
<1> SUFFICES ASSUME Playing'
             PROVE  PrepStep
  BY DEF PrepStep
<1>1. /\ TypeOK /\ CtlTypeOK /\ ~closeOnEnd /\ proc = "running" /\ proc' = "running"
      /\ PlaceInv /\ UNCHANGED listed
  BY DEF GuiInv, TypeOK, Playing, RoundInv, ListenerReads, CallRead, ReadType, ReadSize, ReadRank,
         ReceiveLoginOk, ReceiveCatalog, ReceiveCatalogChange, ReceivePlayerList,
         ReceiveStartGame, ReceiveQuestion, ReceiveResult, ReceiveWarning, ReceiveUnknown,
         Receive, Severity, PostMain, WaitGui, SpawnQuestionThread, InThread, guiVars, prepVars
<1>2. Frm("LG_RQ", 0) \in Frame /\ Frm("LG_RQ", 0).type # "CA_RQ"
  BY DEF Frm, Frame, FrameTypes
<1>3. ASSUME ~Carries("CA_RP"), ~Carries("RAW"), pc["listener"] \notin InError,
             UNCHANGED <<inbox, outbox>>, counter' \in {counter, 0}, pc'["main"] = pc["main"],
             pc'["listener"] \notin {"size", "case"},
             pc'["listener"] = "gui" => hdr'.type # "CA_RP"
      PROVE  PrepStep
  BY <1>1, <1>2, <1>3, NoneCarried
<1>4. ASSUME NEW next, Continue("listener", next)
      PROVE  pc'["main"] = pc["main"] /\ pc'["listener"] = next
  BY <1>1, <1>4 DEF Continue, Goto, CtlTypeOK, Threads
<1>5. CASE CallRead
  <2>1. /\ pc["listener"] = "type" /\ UNCHANGED <<inbox, outbox, counter>>
        /\ \/ Continue("listener", "inType")
           \/ TestErrors("listener", -1, "size")
    BY <1>5 DEF CallRead, netVars
  <2>2. pc'["main"] = pc["main"] /\ pc'["listener"] \in {"inType", "errDialog"}
    BY <1>1, <1>4, <2>1 DEF TestErrors, End, Goto, CtlTypeOK, Threads
  <2> QED BY <1>3, <2>1, <2>2 DEF Carries, InError
<1>6. CASE ReadType
  BY <1>6, ReadTypePrep
<1>7. CASE ReadSize
  BY <1>7, ReadSizePrep
<1>8. CASE ReceiveCatalog
  BY <1>8, ReceiveCatalogPrep
<1>9. ASSUME NEW type \in {"LG_RQ_OK", "CA_CH", "PL_LI", "ST_GA", "QU", "QU_RE", "ER_WA", "GA_OV"},
             NEW next \in {"post", "gui", "severity", "quit"},
             \/ pc["listener"] = "case" /\ hdr.type = type
             \/ pc["listener"] = "rank" /\ next = "quit",
             ReadPayload(next) \/ Read(next),
             UNCHANGED <<inbox, outbox, hdr>>, counter' \in {counter, 0}
      PROVE  PrepStep
  <2>1. /\ pc'["main"] = pc["main"]
        /\ pc'["listener"] = next \/ pc'["listener"] = "errDialog"
    BY <1>1, <1>9, ReadEnds
  <2> QED BY <1>3, <1>9, <2>1 DEF Carries, InError
<1>10. CASE \/ ReceiveLoginOk \/ ReceiveCatalogChange \/ ReceivePlayerList
            \/ ReceiveStartGame \/ ReceiveQuestion
  <2>1. PICK type \in {"LG_RQ_OK", "CA_CH", "PL_LI", "ST_GA", "QU"}, next \in {"post", "gui"} :
          /\ Case(type) /\ (ReadPayload(next) \/ Read(next))
          /\ UNCHANGED <<inbox, outbox, hdr>> /\ counter' \in {counter, 0}
    BY <1>10 DEF ReceiveLoginOk, ReceiveCatalogChange, ReceivePlayerList, ReceiveStartGame,
                 ReceiveQuestion, Receive, netVars
  <2> QED BY <1>9, <2>1 DEF Case
<1>11. CASE ReceiveResult \/ ReceiveWarning \/ ReadRank
  <2>1. PICK type \in {"QU_RE", "ER_WA", "GA_OV"}, next \in {"gui", "severity", "quit"} :
          /\ \/ Case(type)
             \/ pc["listener"] = "rank" /\ next = "quit"
          /\ Read(next) /\ UNCHANGED <<inbox, outbox, hdr>> /\ counter' \in {counter, 0}
    BY <1>11 DEF ReceiveResult, ReceiveWarning, ReadRank, netVars
  <2> QED BY <1>9, <2>1 DEF Case
<1>12. CASE ReceiveUnknown
  BY <1>1, <1>12 DEF ReceiveUnknown, End
<1>13. CASE Severity
  <2>1. /\ pc["listener"] = "severity" /\ UNCHANGED <<inbox, outbox, hdr, counter>>
        /\ \/ Continue("listener", "info") \/ Continue("listener", "quit")
    BY <1>1, <1>13 DEF Severity, End, liVars
  <2>2. pc'["main"] = pc["main"] /\ pc'["listener"] \in {"info", "quit"}
    BY <1>4, <2>1
  <2> QED BY <1>3, <2>1, <2>2 DEF Carries, InError
<1>14. CASE PostMain
  <2>1. /\ pc["listener"] = "post" /\ UNCHANGED <<inbox, outbox, hdr, counter>>
        /\ pc'["main"] = pc["main"] /\ pc'["listener"] \in {"waitGui", "type"}
    BY <1>4, <1>14 DEF PostMain, AfterPost, liVars, netVars
  <2> QED BY <1>3, <2>1 DEF Carries, InError
<1>15. CASE WaitGui
  <2>1. /\ pc["listener"] = "waitGui" /\ UNCHANGED <<inbox, outbox, hdr, counter>>
        /\ pc'["main"] = pc["main"] /\ pc'["listener"] = "gui"
    BY <1>4, <1>15 DEF WaitGui, liVars, netVars
  <2>2. hdr.type = "LG_RQ_OK"
    BY <1>1, <2>1 DEF PlaceInv, ListenerPlaces
  <2> QED BY <1>3, <2>1, <2>2 DEF Carries, InError
<1>16. CASE SpawnQuestionThread
  <2>1. /\ pc["listener"] = "spawn" /\ UNCHANGED <<inbox, outbox, hdr, counter>>
        /\ pc'["main"] = pc["main"] /\ pc'["listener"] = "type"
    BY <1>4, <1>16 DEF SpawnQuestionThread, liVars, netVars
  <2> QED BY <1>3, <2>1 DEF Carries, InError
<1> QED BY <1>5, <1>6, <1>7, <1>8, <1>10, <1>11, <1>12, <1>13, <1>14, <1>15, <1>16
        DEF ListenerReads

\* The name or the window is shown.
LEMMA ShowCatalogPrep ==
  ASSUME GuiInv, PrepInv, Playing, ShowCatalog
  PROVE  PrepStep
<1> USE DEF At
<1> SUFFICES ASSUME Playing'
             PROVE  PrepStep
  BY DEF PrepStep
<1>1. /\ TypeOK /\ CtlTypeOK /\ pc["listener"] = "gui" /\ hdr.type = "CA_RP"
      /\ inbox \in Seq(Message) /\ msg \in Message /\ counter \in Nat
      /\ UNCHANGED <<inbox, outbox, hdr, msg>> /\ counter' = counter + 1
      /\ pc'["main"] = pc["main"] /\ pc'["listener"] = "type"
  BY DEF GuiInv, TypeOK, NetTypeOK, LiTypeOK, ShowCatalog, GuiCall, Continue, Goto, CtlTypeOK,
         Threads, netVars
<1>2. AskInv' /\ Showing'
  <2>1. Carries("CA_RP")
    BY <1>1 DEF Carries
  <2> QED BY <1>1, <2>1, AskedAlready DEF PrepInv, Showing
<1>3. ASSUME Reading'
      PROVE  Lists(Responses, counter, listed)' /\ Hand'
  <2>1. Reading /\ Carries("CA_RP") /\ Responses = <<msg>> \o inbox
    BY <1>1, <1>3 DEF Reading, Torn, Carries, Responses, InError
  <2>2. /\ Lists(<<msg>> \o inbox, counter, listed) /\ Response(msg) /\ hdr.size = msg.size
        /\ AddsCatalog \/ hdr.size = 0
    BY <1>1, <2>1 DEF PrepInv, Hand
  <2>3. ~Carries("CA_RP")' /\ Responses' = inbox
    BY <1>1 DEF Carries, Responses
  <2>4. /\ msg.size = 1 => Lists(inbox, counter + 1, listed \cup {msg.arg})
        /\ msg.size # 1 => ~Has(inbox, "CA_RP")
    <3> DEFINE q == <<msg>> \o inbox
    <3>1. q \in Seq(Message) /\ q # <<>> /\ Head(q) = msg /\ Tail(q) = inbox
      <4>1. <<msg>> \in Seq(Message) /\ <<msg>> # <<>> /\ Head(<<msg>>) = msg
        BY <1>1
      <4> QED BY <1>1, <4>1, ConcatProperties
    <3>2. Lists(q, counter, listed)
      BY <2>2
    <3> HIDE DEF q
    <3> QED BY <1>1, <2>2, <3>1, <3>2, ListTaken
  <2>5. Lists(Responses', counter', listed')
    <3>1. CASE msg.size = 1
      <4>1. msg # NoMsg /\ AddsCatalog
        BY <2>2, <3>1 DEF NoMsg, AddsCatalog
      <4>2. listed' = listed \cup {msg.arg}
        BY <4>1 DEF ShowCatalog
      <4> QED BY <1>1, <2>3, <2>4, <3>1, <4>2
    <3>2. CASE msg.size # 1
      BY <2>3, <2>4, <3>2, NoResponse
    <3> QED BY <3>1, <3>2
  <2>6. Lists(Responses, counter, listed)'
    BY <2>5, ListsAfter
  <2> QED BY <2>3, <2>6 DEF Hand
<1> QED BY <1>2, <1>3 DEF PrepStep

\* What else the listener shows carries no response.
LEMMA ListenerShowsPrep ==
  ASSUME GuiInv, PrepInv, Playing, ListenerShows
  PROVE  PrepStep
<1> USE DEF At
<1> SUFFICES ASSUME Playing', ~ShowCatalog
             PROVE  PrepStep
  BY ShowCatalogPrep DEF PrepStep
<1>1. TypeOK /\ CtlTypeOK /\ ~closeOnEnd /\ proc' = "running"
  BY DEF GuiInv, TypeOK, Playing
<1>2. /\ UNCHANGED <<inbox, listed, hdr, counter>>
      /\ pc["listener"] \in {"gui", "buttons", "case", "info", "quit"}
      /\ pc["listener"] \in {"gui", "case"} => hdr.type \notin {"CA_RP", "RAW"}
  BY <1>1
  DEF ListenerShows, ListenerAborts, End, SetMode, ShowSelection, ShowPlayers, ShowGame,
      ShowQuestion, EnableButtons, ShowResult, HideGame, ShowWarning, ShowEnd, GuiCall,
      OnlyControl, OnlyGui, liVars, netVars, guiVars, prepVars
<1>3. /\ pc'["main"] = pc["main"] /\ pc'["listener"] \notin {"size", "case", "gui"}
      /\ outbox' \in {outbox, Append(outbox, Frm("CA_CH", 0))}
  <2>1. CASE ShowSelection
    <3>1. \/ Write("listener", Frm("CA_CH", 0), "name")
          \/ Continue("listener", "type") /\ UNCHANGED outbox
      BY <2>1 DEF ShowSelection
    <3> QED BY <1>1, <3>1 DEF Write, TestErrors, End, Continue, Goto, CtlTypeOK, Threads
  <2>2. CASE ~ShowSelection
    <3>1. /\ outbox' = outbox
          /\ \/ \E next \in {"type", "post", "buttons", "spawn", "rank"} : Continue("listener", next)
             \/ Goto("listener", "errWait")
      BY <1>1, <2>2
      DEF ListenerShows, ListenerAborts, End, SetMode, ShowPlayers, ShowGame, ShowQuestion,
          EnableButtons, ShowResult, HideGame, ShowWarning, ShowEnd, OnlyControl, OnlyGui, netVars
    <3> QED BY <1>1, <3>1 DEF Continue, Goto, CtlTypeOK, Threads
  <2> QED BY <2>1, <2>2
<1>4. Frm("CA_CH", 0) \in Frame /\ Frm("CA_CH", 0).type # "CA_RQ"
  BY DEF Frm, Frame, FrameTypes
<1>5. ~Carries("CA_RP") /\ ~Carries("RAW") /\ pc["listener"] \notin InError
  BY <1>2 DEF Carries, InError
<1> QED BY <1>1, <1>2, <1>3, <1>4, <1>5, NoneCarried

\* The GUI thread, the player and the change threads leave the list alone.
LEMMA GuiPrep ==
  ASSUME GuiInv, PrepInv, Playing,
         GuiStarts \/ GuiEnds \/ UserNext \/ UserConfirms \/ QuestionThreads
  PROVE  PrepStep
<1> USE DEF At
<1> SUFFICES ASSUME Playing'
             PROVE  PrepStep
  BY DEF PrepStep
<1>1. /\ TypeOK /\ CtlTypeOK /\ proc' = "running" /\ ~closeOnEnd'
      /\ UNCHANGED <<inbox, msg, hdr, counter, listed>>
  BY DEF GuiInv, TypeOK, Playing, GuiStarts, GuiInit, GuiPost, GuiSetRuns, GuiEnds, GuiDestroy,
         GuiExit, UserNext, OnCatalogChanged, OnStartClicked, OnAnswerClicked, OnWindowClosed,
         Callback, UserConfirms, DismissDialog, QuestionThreads, QuestionThreadWrites,
         QuestionThreadFails, OnlyGui, OnlyControl, liVars, guiVars, prepVars, netVars
<1>2. pc'["listener"] = pc["listener"] /\ pc'["main"] = pc["main"]
  <2>1. CASE GuiStarts \/ GuiEnds
    BY <1>1, <2>1 DEF GuiStarts, GuiInit, GuiPost, GuiSetRuns, GuiEnds, GuiDestroy, GuiExit,
                      Continue, Goto, End, CtlTypeOK, Threads
  <2>2. CASE UserNext
    <3>1. \E frame, next : Write("gui", frame, next)
      BY <1>1, <2>2 DEF UserNext, OnCatalogChanged, OnStartClicked, OnAnswerClicked,
                        OnWindowClosed, Callback
    <3> QED BY <1>1, <3>1, WriteMoves DEF Threads
  <2>3. CASE UserConfirms
    BY <1>1, <2>3 DEF UserConfirms, DismissDialog, Continue, Goto, CtlTypeOK, Threads, ctlVars
  <2>4. CASE QuestionThreads
    BY <1>1, <2>4 DEF QuestionThreads, QuestionThreadWrites, QuestionThreadFails, End, ctlVars
  <2> QED BY <2>1, <2>2, <2>3, <2>4
<1>3. \E f \in Frame : f.type # "CA_RQ" /\ outbox' \in {outbox, Append(outbox, f)}
  <2>1. ASSUME NEW type \in FrameTypes \ {"CA_RQ"}, NEW arg \in Nat,
               outbox' = outbox \/ outbox' = Append(outbox, Frm(type, arg))
        PROVE  \E f \in Frame : f.type # "CA_RQ" /\ outbox' \in {outbox, Append(outbox, f)}
    <3>1. Frm(type, arg) \in Frame /\ Frm(type, arg).type # "CA_RQ"
      BY DEF Frm, Frame
    <3> QED BY <2>1, <3>1
  <2>2. {"CA_CH", "ST_GA", "QU_AN", "QU_RQ"} \subseteq FrameTypes \ {"CA_RQ"}
    BY DEF FrameTypes
  <2>3. CASE UserNext
    <3>1. shown \in Nat
      BY <1>1 DEF TypeOK, GuiTypeOK
    <3>2. \/ outbox' = outbox
          \/ \E type \in {"CA_CH", "ST_GA"} : outbox' = Append(outbox, Frm(type, 0))
          \/ outbox' = Append(outbox, Frm("QU_AN", shown))
      BY <2>3, WriteAppends DEF UserNext, OnCatalogChanged, OnStartClicked, OnAnswerClicked,
                                OnWindowClosed, Callback
    <3> QED BY <2>1, <2>2, <3>1, <3>2
  <2>4. CASE ~UserNext
    <3>1. outbox' = outbox \/ outbox' = Append(outbox, Frm("QU_RQ", 0))
      BY <2>4 DEF GuiStarts, GuiInit, GuiPost, GuiSetRuns, GuiEnds, GuiDestroy, GuiExit,
                  UserConfirms, DismissDialog, QuestionThreads, QuestionThreadWrites,
                  QuestionThreadFails, OnlyGui, OnlyControl, netVars
    <3> QED BY <2>1, <2>2, <3>1
  <2> QED BY <2>3, <2>4
<1> QED BY <1>1, <1>2, <1>3, OthersPrep

\* An error, or the rest of a callback, comes between two messages of the listener.
LEMMA ErrorsPrep ==
  ASSUME GuiInv, RoundInv, PrepInv, Playing, NEW t \in Threads, Errors(t)
  PROVE  PrepStep
<1> USE DEF At
<1> SUFFICES ASSUME Playing'
             PROVE  PrepStep
  BY DEF PrepStep
<1>1. /\ TypeOK /\ CtlTypeOK /\ PlaceInv /\ selected \in Nat /\ proc' = "running"
      /\ UNCHANGED <<inbox, msg, hdr, counter, listed>>
  BY DEF GuiInv, TypeOK, GuiTypeOK, Playing, RoundInv, Errors, ErrorDialog, SocketWait, WriteName,
         Unlock, OnlyGui, liVars, guiVars, prepVars, netVars
<1>2. /\ outbox' \in {outbox, Append(outbox, Frm("NAME", selected))}
      /\ Frm("NAME", selected) \in Frame /\ Frm("NAME", selected).type # "CA_RQ"
  BY <1>1, WriteAppends
  DEF Errors, ErrorDialog, SocketWait, WriteName, Unlock, OnlyGui, netVars, Frm, Frame, FrameTypes
<1>3. \A u \in Threads \ {t} : pc'[u] = pc[u]
  <2>1. \/ \E next : Continue(t, next)
        \/ \E frame, next : Write(t, frame, next)
    BY DEF Errors, ErrorDialog, SocketWait, WriteName, Unlock
  <2> QED BY <1>1, <2>1, WriteMoves DEF Continue, Goto, CtlTypeOK
<1>4. CASE t = "gui"
  BY <1>1, <1>2, <1>3, <1>4, OthersPrep DEF Threads
<1>5. CASE t = "main"
  <2>1. pc'["main"] \notin BeforeList
    <3>1. pc["main"] \notin {"name", "unlock"}
          /\ (pc["main"] = "errWait" => cont["main"] \in {"waitStart", "waitEnd"})
      BY <1>1 DEF PlaceInv, MainPlaces, MainLabels, InError
    <3>2. pc'["main"] \in {"errWait", "waitStart", "waitEnd"}
      BY <1>1, <1>5, <3>1
      DEF Errors, ErrorDialog, SocketWait, WriteName, Unlock, Continue, Goto, CtlTypeOK, Threads
    <3> QED BY <3>2 DEF BeforeList, InLogin, Early
  <2> QED BY <1>1, <1>2, <1>3, <1>5, <2>1, OthersPrep DEF Threads
<1>6. CASE t = "listener"
  <2>1. ~SocketWait("listener")
    <3> SUFFICES ASSUME pc["listener"] = "errWait", semSocket > 0
                 PROVE  FALSE
      BY DEF SocketWait
    <3>1. pc["main"] \notin InLogin
      BY <1>1 DEF PlaceInv, MainPlaces, InError
    <3>2. semSocket = 0
      BY <1>1, <3>1 DEF PlaceInv, ListenerPlaces, LoggedIn
    <3> QED BY <3>2
  <2>2. \/ pc["listener"] = "errDialog" /\ pc'["listener"] = "errWait"
        \/ pc["listener"] = "name" /\ pc'["listener"] \in {"name", "unlock", "errDialog"}
        \/ pc["listener"] = "unlock" /\ pc'["listener"] = "type"
    <3>1. ASSUME NEW next, Continue("listener", next)
          PROVE  pc'["listener"] = next
      BY <1>1, <3>1 DEF Continue, Goto, CtlTypeOK, Threads
    <3>2. CASE WriteName("listener")
      BY <1>1, <3>2, WriteMoves DEF WriteName, Threads
    <3> QED BY <1>6, <2>1, <3>1, <3>2 DEF Errors, ErrorDialog, Unlock
  <2>3. {pc["listener"], pc'["listener"]} \cap {"size", "case", "gui"} = {}
        /\ (pc["listener"] \in InError => pc'["listener"] \in InError)
    BY <2>2 DEF InError
  <2>4. pc'["main"] = pc["main"]
    BY <1>3, <1>6 DEF Threads
  <2> QED BY <1>1, <1>2, <2>3, <2>4, OthersPrep
<1> QED BY <1>4, <1>5, <1>6 DEF Threads

\* The server sends the list for the one request, and nothing of it else.
LEMMA ServerPrep ==
  ASSUME GuiInv, PrepInv, Playing, ServerReplies \/ ServerActs
  PROVE  PrepStep
<1> SUFFICES ASSUME Playing'
             PROVE  PrepStep
  BY DEF PrepStep
<1>1. /\ TypeOK /\ inbox \in Seq(Message) /\ outbox \in Seq(Frame) /\ msg \in Message
      /\ counter \in Nat /\ AskInv
  BY DEF GuiInv, TypeOK, NetTypeOK, LiTypeOK, PrepInv
<1>2. UNCHANGED <<pc, hdr, msg, counter, listed>>
  BY DEF ServerReplies, ServerActs, ServerLogin, ServerCatalogs, ServerCatalogChange,
         ServerStart, ServerQuestion, ServerAnswer, ServerTimeout, ServerGameOver,
         ServerUnasked, ServerFatal, ServerCloses, Sends, InServer, ctlVars, liVars, guiVars,
         prepVars
<1>3. \A type : Carries(type)' <=> Carries(type)
  BY <1>2 DEF Carries
<1>4. Showing'
  BY <1>2 DEF PrepInv, Showing, AddsCatalog, Listable
<1>5. \/ outbox' = outbox
      \/ outbox # <<>> /\ outbox' = Tail(outbox)
      \/ Len(outbox) > 1 /\ outbox' = Tail(Tail(outbox))
  BY ServerTakes
<1>6. PICK f \in Frame : f.type # "CA_RQ"
  <2>1. Frm("LG_RQ", 0) \in Frame /\ Frm("LG_RQ", 0).type # "CA_RQ"
    BY DEF Frm, Frame, FrameTypes
  <2> QED BY <2>1
<1>7. CASE ServerCatalogs
  <2>1. /\ outbox # <<>> /\ Head(outbox).type = "CA_RQ" /\ outbox' = Tail(outbox)
    BY <1>7 DEF ServerCatalogs, Receives, Reply
  <2>2. Asked /\ ~Asked' /\ Count(outbox', "CA_RQ") <= 1
    <3>1. Has(outbox, "CA_RQ")
      BY <1>1, <2>1, HasEnds
    <3>2. ~Has(Tail(outbox), "CA_RQ")
      BY <1>1, <2>1, CountLeft DEF AskInv
    <3>3. Count(outbox', "CA_RQ") <= 1
      BY <1>1, <1>5, <1>6, NotAsked
    <3> QED BY <2>1, <3>1, <3>2, <3>3 DEF Asked
  <2>3. ~Listing /\ counter = 0 /\ pc["main"] \notin BeforeList
    BY <1>1, <2>2 DEF AskInv
  <2>4. AskInv'
    BY <1>2, <2>2, <2>3 DEF AskInv
  <2>5. PICK more \in Seq(Message) : inbox' = inbox \o more /\ \A there : Lists(more, 0, there)
    BY <1>1, <1>7, CatalogsInOrder
  <2>6. ~Carries("CA_RP")' /\ Responses' = inbox \o more
    BY <1>3, <2>3, <2>5 DEF Listing, Responses
  <2>7. Lists(inbox \o more, 0, listed)
    BY <1>1, <2>3, <2>5, ListsKept DEF Listing
  <2>8. Lists(Responses, counter, listed)'
    BY <1>2, <2>3, <2>6, <2>7, ListsAfter
  <2> QED BY <1>4, <2>4, <2>6, <2>8 DEF PrepStep, Hand
<1>8. CASE ~ServerCatalogs
  <2>1. PICK more \in Seq(Message) : inbox' = inbox \o more /\ ~Has(more, "CA_RP")
    <3>1. CASE ServerStart
      <4>1. /\ outbox # <<>> /\ Len(outbox) > 1
            /\ inbox' = inbox \o <<>> \/ inbox' = inbox \o <<Msg("ST_GA", outbox[2].arg)>>
        BY <3>1 DEF ServerStart, ReplyToName, Receives
      <4>2. outbox[2].arg \in Nat
        <5>1. 2 \in 1 .. Len(outbox)
          BY <1>1, <4>1, LenProperties
        <5>2. outbox[2] \in Frame
          BY <1>1, <5>1, ElementOfSeq
        <5> QED BY <5>2 DEF Frame
      <4>3. <<Msg("ST_GA", outbox[2].arg)>> \in Seq(Message)
            /\ ~Has(<<Msg("ST_GA", outbox[2].arg)>>, "CA_RP")
        BY <4>2 DEF Msg, Message, ServerTypes, Has
      <4>4. <<>> \in Seq(Message) /\ ~Has(<<>>, "CA_RP")
        BY EmptySeq DEF Has
      <4> QED BY <4>1, <4>3, <4>4
    <3>2. CASE ~ServerStart
      BY <1>1, <1>8, <3>2, ServerTells
    <3> QED BY <3>1, <3>2
  <2>2. Listing' => Listing
    <3>1. Has(inbox \o more, "CA_RP") => Has(inbox, "CA_RP")
      BY <1>1, <2>1, HasConcat
    <3> QED BY <1>3, <2>1, <3>1 DEF Listing
  <2>3. AskInv'
    BY <1>1, <1>2, <1>5, <1>6, <2>2, AskKept
  <2>4. Reading' => Reading
    <3>1. inbox # <<>> => inbox \o more # <<>> /\ Head(inbox \o more) = Head(inbox)
      BY <1>1, <2>1, ConcatProperties
    <3>2. Torn => Torn'
      BY <1>2, <1>3, <2>1, <3>1 DEF Torn
    <3> QED BY <1>2, <3>2 DEF Reading
  <2>5. ASSUME Lists(Responses, counter, listed)
        PROVE  Lists(Responses, counter, listed)'
    <3>1. Responses \in Seq(Message) /\ Responses' = Responses \o more
      <4>1. CASE Carries("CA_RP")
        <5>1. <<msg>> \in Seq(Message)
          BY <1>1
        <5>2. <<msg>> \o inbox \in Seq(Message) /\ (<<msg>> \o inbox) \o more = <<msg>> \o (inbox \o more)
          BY <1>1, <2>1, <5>1, ConcatProperties, ConcatAssociative
        <5> QED BY <1>2, <1>3, <2>1, <4>1, <5>2 DEF Responses
      <4>2. CASE ~Carries("CA_RP")
        BY <1>1, <1>3, <2>1, <4>2 DEF Responses
      <4> QED BY <4>1, <4>2
    <3>2. Lists(Responses \o more, counter, listed)
      BY <1>1, <2>1, <2>5, <3>1, ListsKept
    <3> QED BY <1>2, <3>1, <3>2, ListsAfter
  <2>6. Hand => Hand'
    BY <1>2, <1>3 DEF Hand, AddsCatalog
  <2> QED BY <1>4, <2>3, <2>4, <2>5, <2>6 DEF PrepInv, PrepStep
<1> QED BY <1>7, <1>8

\* Only the listener's call of the window with the list shows it, and nothing unlists.
LEMMA WindowShown ==
  ASSUME [Next]_vars
  PROVE  \/ visible' \subseteq visible \cup {"game"} /\ listed' = listed
         \/ /\ proc = "running" /\ ShowCatalog
            /\ \/ AddsCatalog /\ visible' = visible /\ listed \subseteq listed'
               \/ ~AddsCatalog /\ listed' = listed
<1>1. CASE MainNext
  BY <1>1
  DEF MainNext, Connect, CreateListener, SendLogin, WaitLogin, CreateGui,
      SendCatalogRequest, WaitStart, SendQuestionRequest, WaitEnd, MainWrites, MainWaits,
      OnlyControl, guiVars, prepVars
<1>2. CASE ListenerReads
  BY <1>2
  DEF ListenerReads, CallRead, ReadType, ReadSize, ReadRank, ReceiveLoginOk, ReceiveCatalog,
      ReceiveCatalogChange, ReceivePlayerList, ReceiveStartGame, ReceiveQuestion,
      ReceiveResult, ReceiveWarning, ReceiveUnknown, Severity, PostMain, WaitGui,
      SpawnQuestionThread, Receive, InThread, guiVars, prepVars
<1>3. CASE ListenerShows /\ ~ShowCatalog
  BY <1>3
  DEF ListenerShows, ListenerAborts, SetMode, ShowSelection, ShowPlayers,
      ShowGame, ShowQuestion, EnableButtons, ShowResult, HideGame, ShowWarning, ShowEnd,
      OnlyGui, OnlyControl, guiVars, prepVars
<1>4. CASE ShowCatalog
  BY <1>4 DEF ShowCatalog, GuiCall, At
<1>5. CASE GuiStarts \/ GuiEnds \/ UserNext \/ UserConfirms
  BY <1>5
  DEF GuiStarts, GuiInit, GuiPost, GuiSetRuns, GuiEnds, GuiDestroy, GuiExit, UserNext,
      OnCatalogChanged, OnStartClicked, OnAnswerClicked, OnWindowClosed, Callback,
      UserConfirms, DismissDialog, OnlyGui, OnlyControl, guiVars, prepVars
<1>6. CASE QuestionThreads \/ \E t \in Threads : Errors(t)
  BY <1>6
  DEF QuestionThreads, QuestionThreadWrites, QuestionThreadFails, Errors, ErrorDialog,
      SocketWait, WriteName, Unlock, OnlyGui, guiVars, prepVars
<1>7. CASE ServerReplies \/ ServerActs
  BY <1>7
  DEF ServerReplies, ServerActs, ServerLogin, ServerCatalogs, ServerCatalogChange,
      ServerStart, ServerQuestion, ServerAnswer, ServerTimeout, ServerGameOver,
      ServerUnasked, ServerFatal, ServerCloses, Sends, InServer, guiVars, prepVars
<1>8. CASE UNCHANGED vars
  BY <1>8 DEF vars, guiVars, prepVars
<1> QED BY <1>1, <1>2, <1>3, <1>4, <1>5, <1>6, <1>7, <1>8 DEF Next, Ended

LEMMA PrepStarts == Init => PrepInv
<1> SUFFICES ASSUME Init
             PROVE  PrepInv
  OBVIOUS
<1>1. /\ pc["listener"] = "none" /\ inbox = <<>> /\ outbox = <<>> /\ counter = 0 /\ visible = {}
  BY DEF Init, Threads
<1>2. PreparationShowsAll /\ Showing /\ ~Carries("CA_RP")
  BY <1>1 DEF PreparationShowsAll, Showing, Carries
<1>3. \A type : ~Has(inbox, type) /\ ~Has(outbox, type)
  BY <1>1 DEF Has
<1>4. AskInv
  <2>1. Count(outbox, "CA_RQ") = 0
    <3>1. outbox \in Seq(Frame)
      BY <1>1
    <3> QED BY <1>3, <3>1, CountFew DEF Has
  <2> QED BY <1>1, <1>2, <1>3, <2>1 DEF AskInv, Asked, Listing
<1>5. Lists(Responses, counter, listed) /\ Hand
  BY <1>2, <1>3, NoResponse DEF Responses, Hand
<1> QED BY <1>2, <1>4, <1>5 DEF PrepInv

LEMMA PrepStepHolds ==
  ASSUME GuiInv, RoundInv, PrepInv, [Next]_vars
  PROVE  PrepInv'
<1>1. PreparationShowsAll'
  <2> SUFFICES ASSUME ~closeOnEnd', "preparation" \in visible'
               PROVE  Listable \subseteq listed'
    BY DEF PreparationShowsAll, Listable
  <2>1. ~closeOnEnd
    BY ClosedForGood
  <2>2. CASE "preparation" \in visible
    BY <2>1, <2>2, WindowShown DEF PrepInv, PreparationShowsAll, Listable
  <2>3. CASE "preparation" \notin visible
    <3>1. proc = "running" /\ ShowCatalog /\ ~AddsCatalog /\ listed' = listed
      BY <2>3, WindowShown
    <3>2. Showing /\ pc["listener"] = "gui" /\ hdr.type = "CA_RP"
      BY <2>1, <3>1 DEF PrepInv, Playing, ShowCatalog, GuiCall, At
    <3> QED BY <3>1, <3>2 DEF Showing
  <2> QED BY <2>2, <2>3
<1>2. ASSUME Playing'
      PROVE  PrepStep
  <2>1. Playing
    BY <1>2, PlayingBefore
  <2>2. CASE UNCHANGED vars
    <3>1. UNCHANGED <<pc, hdr, msg, counter, listed, inbox, outbox>>
      BY <2>2 DEF vars, ctlVars, liVars, guiVars, prepVars, netVars
    <3>2. \E f \in Frame : f.type # "CA_RQ"
      <4>1. Frm("LG_RQ", 0) \in Frame /\ Frm("LG_RQ", 0).type # "CA_RQ"
        BY DEF Frm, Frame, FrameTypes
      <4> QED BY <4>1
    <3> QED BY <2>1, <3>1, <3>2, OthersPrep DEF GuiInv
  <2> QED BY <2>1, <2>2, MainPrep, ListenerReadsPrep, ListenerShowsPrep, GuiPrep, ErrorsPrep,
             ServerPrep
          DEF Next, Ended
<1> QED BY <1>1, <1>2 DEF PrepInv, PrepStep

LEMMA PrepHolds == Spec => []PrepInv
<1>1. GuiInv /\ RoundInv /\ PrepInv /\ [Next]_vars => PrepInv'
  BY PrepStepHolds
<1> QED BY <1>1, PrepStarts, RoundHolds, StartHolds, PTL DEF Spec

\* However many catalogs the server has and whatever other messages come between their
\* names and reset the count: once the preparation window can be seen it lists every
\* catalog up to as many as the client is written for (li_qu_thread.c:113-157).
THEOREM WindowListsAll == Spec => []PreparationShowsAll
<1>1. PrepInv => PreparationShowsAll
  BY DEF PrepInv
<1> QED BY <1>1, PrepHolds, PTL
=============================================================================
